-------------------------- MODULE InterfacesProofs --------------------------
(***************************************************************************)
(* Proofs about Interfaces, for any processes, runs of the entradasalida   *)
(* program, names and descriptors.  Whatever `Casos' lets happen: the      *)
(* types, and UnaSolaInterfaz.  When no interface dies in use and none     *)
(* connects beside one that is taken down: ConexionesPropias and           *)
(* BloqueadoAtendido, with I/Os that fail.                                 *)
(*                                                                         *)
(* A process that asked for an interface is one token: a message on the    *)
(* socket, in one direction or the other, what the thread of a connection  *)
(* has in hand, or an entry of a waiting queue.  Every step takes a token  *)
(* from one of those places to another, or loses it; a new one is made     *)
(* only for the process in EXEC, which has none.                           *)
(*                                                                         *)
(* For the last two a run is in one of five places, EnSuLugar: it          *)
(* has not connected, has its name to tell, serves, goes away, or is gone. *)
(* Each action moves one run from one of them to the next, and leaves the  *)
(* others where they are, SeQueda.                                         *)
(***************************************************************************)
EXTENDS Interfaces, SequenceTheorems, FiniteSetTheorems, WellFoundedInduction,
        TLAPS

-----------------------------------------------------------------------------
(* The inductive invariant *)

\* InterfacesTypeOK, in the two halves that most steps tell apart
Mensaje == {NOMBRE} \union [pid: Procesos]
Contestacion == {NOMBRE} \union Fin
Hilo == [pc: {"sin empezar", "reposo", "fin", "error", "siguiente", "liberar",
              "a ready", "desconexion", "eliminar", "terminado"},
         socket: Fds \union {0},
         pid: Procesos \union {NULO},
         instancia: Interfaces \union {NULO}]

TiposDeConexion ==
  /\ proceso_io \in [Interfaces -> {"sin conectar", "conectado", "caido"}]
  /\ pedidos \in [Interfaces -> Seq(Mensaje)]
  /\ respuestas \in [Interfaces -> Seq(Contestacion)]
  /\ descriptor \in [Fds -> Interfaces \union {NULO}]
  /\ lista_instancias_global \in Seq(Interfaces)
  /\ instancia \in [Interfaces -> Instancia]

TiposDeHilos ==
  /\ estado \in [Procesos -> {"ready", "exec", "blocked", "en mano", "exit"}]
  /\ hilo \in [Interfaces -> Hilo]
  /\ despacho \in [pc: {"reposo", "validar", "asignar", "encolar"},
                   pid: Procesos \union {NULO},
                   instancia: Interfaces \union {NULO}]
  /\ caido \in {"", "puntero nulo", "instancia liberada", "doble free"}

\* What a thread of a connection has, by where it is.
HilosBien ==
  \A i \in Interfaces :
    /\ hilo[i].pc # "sin empezar" => hilo[i].socket \in Fds
    /\ hilo[i].pc \in {"fin", "error", "siguiente", "liberar", "a ready"} =>
         hilo[i].pid \in Procesos
    /\ hilo[i].pc \in {"fin", "error", "siguiente", "liberar"} =>
         hilo[i].instancia \in Interfaces

DespachoBien ==
  despacho.pc # "reposo" => /\ despacho.pid \in Procesos
                            /\ despacho.instancia \in Interfaces

InstanciasBien ==
  \A i \in Interfaces :
    instancia[i].viva => Listada(i) /\ instancia[i].socket \in Fds

\* A run has one descriptor at most, and one that is asked for an operation,
\* or has ended one, is at the other end of the socket of some instance.
DescriptoresBien ==
  \A i \in Interfaces :
    /\ \A f, g \in Fds : descriptor[f] = i /\ descriptor[g] = i => f = g
    /\ proceso_io[i] = "sin conectar" =>
         /\ pedidos[i] = <<>> /\ respuestas[i] = <<>>
         /\ \A f \in Fds : descriptor[f] # i
    /\ \A f \in Fds :
         /\ descriptor[f] = i
         /\ \/ \E k \in DOMAIN pedidos[i] : pedidos[i][k] # NOMBRE
            \/ \E k \in DOMAIN respuestas[i] : respuestas[i][k] \in Fin
         => \E j \in Interfaces : Listada(j) /\ instancia[j].socket = f

\* A run, and its instance, have the descriptor the connection was given, once
\* for all, whichever thread has read its name.
SocketsBien ==
  \A i \in Interfaces :
    /\ instancia[i].socket \in {0, hilo[i].socket}
    /\ proceso_io[i] = "sin conectar" => hilo[i].socket = 0
    /\ \A f \in Fds : descriptor[f] = i => hilo[i].socket = f

Forma == /\ TiposDeConexion /\ TiposDeHilos
         /\ HilosBien /\ DespachoBien /\ InstanciasBien /\ DescriptoresBien
         /\ SocketsBien

\* The places where the token of a process may be.
Lugares == {"pedido", "respuesta", "hilo", "cola"}

Pedido(i, k, p) == k \in DOMAIN pedidos[i] /\ pedidos[i][k] = [pid |-> p]
Respuesta(i, k, p) == /\ k \in DOMAIN respuestas[i]
                      /\ respuestas[i][k] \in Fin /\ respuestas[i][k].pid = p
EnHilo(i, p) == hilo[i].pc \in {"fin", "error"} /\ hilo[i].pid = p
Espera(i, k, p) == /\ k \in DOMAIN instancia[i].cola_de_espera
                   /\ instancia[i].cola_de_espera[k] = p

Ficha(t, i, k, p) == \/ t = "pedido" /\ Pedido(i, k, p)
                     \/ t = "respuesta" /\ Respuesta(i, k, p)
                     \/ t = "hilo" /\ k = 0 /\ EnHilo(i, p)
                     \/ t = "cola" /\ Espera(i, k, p)

UnaFicha ==
  \A p \in Procesos, t, u \in Lugares, i, j \in Interfaces, k, l \in Nat :
    Ficha(t, i, k, p) /\ Ficha(u, j, l, p) => t = u /\ i = j /\ k = l

FichaBloqueada ==
  \A p \in Procesos, t \in Lugares, i \in Interfaces, k \in Nat :
    Ficha(t, i, k, p) => estado[p] = "blocked"

EnMano(i) == hilo[i].pc \in {"siguiente", "liberar", "a ready"}

\* Who is between BLOCKED and READY is with one thread only, and who is with
\* the dispatch thread is in EXEC.
EnManoBien ==
  \A i \in Interfaces : EnMano(i) =>
    /\ estado[hilo[i].pid] = "en mano"
    /\ \A j \in Interfaces : EnMano(j) /\ hilo[j].pid = hilo[i].pid => i = j

EnExec == despacho.pc # "reposo" => estado[despacho.pid] = "exec"

Fichas == UnaFicha /\ FichaBloqueada /\ EnManoBien /\ EnExec

-----------------------------------------------------------------------------
(* Sequences and the list of instances *)

LEMMA MinimoDeIndices ==
  ASSUME NEW I, I \subseteq Nat, I # {}
  PROVE  Min(I) \in I
<1> DEFINE R == {ss \in Nat \X Nat : ss[1] < ss[2]}
<1>1. IsWellFoundedOn(R, Nat)
  BY NatLessThanWellFounded DEF OpToRel
<1> HIDE DEF R
<1>2. \E x \in I : \A y \in I : ~(<<y, x>> \in R)
  BY <1>1, WFMin
<1> USE DEF R
<1>3. PICK x \in I : \A y \in I : ~(<<y, x>> \in R)
  BY <1>2
<1>4. ASSUME NEW y \in I PROVE x <= y
  <2>1. y \in Nat /\ x \in Nat /\ <<y, x>> \in Nat \X Nat
    OBVIOUS
  <2>2. ~(y < x)
    BY <1>3, <2>1
  <2> QED
    BY <2>1, <2>2
<1> QED
  BY <1>4 DEF Min

\* What is in a sequence to which an element is added, or without its head.
LEMMA Agregar ==
  ASSUME NEW S, NEW s \in Seq(S), NEW e \in S
  PROVE  /\ Append(s, e) \in Seq(S)
         /\ \A k \in DOMAIN s : k \in DOMAIN Append(s, e) /\ Append(s, e)[k] = s[k]
         /\ Len(s) + 1 \in DOMAIN Append(s, e) /\ Append(s, e)[Len(s) + 1] = e
         /\ \A k \in DOMAIN Append(s, e) :
              \/ k \in DOMAIN s /\ Append(s, e)[k] = s[k]
              \/ k = Len(s) + 1 /\ k \notin DOMAIN s /\ Append(s, e)[k] = e
  BY AppendProperties, LenProperties

LEMMA SinCabeza ==
  ASSUME NEW S, NEW s \in Seq(S), s # <<>>
  PROVE  /\ Tail(s) \in Seq(S)
         /\ 1 \in DOMAIN s /\ Head(s) = s[1] /\ Head(s) \in S
         /\ \A k \in DOMAIN Tail(s) :
              k \in Nat /\ k >= 1 /\ k + 1 \in DOMAIN s /\ Tail(s)[k] = s[k + 1]
  BY HeadTailProperties, LenProperties, EmptySeq

LEMMA Posiciones ==
  ASSUME NEW S, NEW s \in Seq(S)
  PROVE  \A k \in DOMAIN s : k \in Nat /\ k >= 1 /\ s[k] \in S
  BY LenProperties, ElementOfSeq

\* list_find gives an element of the list in the set, or NULL if there is none.
LEMMA PrimeraTipo ==
  ASSUME lista_instancias_global \in Seq(Interfaces), NULO \notin Interfaces,
         NEW C
  PROVE  /\ Primera(C) \in Interfaces \union {NULO}
         /\ Primera(C) # NULO => Primera(C) \in C /\ Listada(Primera(C))
         /\ Primera(C) = NULO => \A j \in C : ~Listada(j)
<1> DEFINE l == lista_instancias_global
           pos == {k \in DOMAIN l : l[k] \in C}
<1>1. \A k \in DOMAIN l : k \in Nat /\ l[k] \in Interfaces
  BY Posiciones
<1>2. CASE pos = {}
  BY <1>2 DEF Primera, Listada
<1>3. CASE pos # {}
  <2>1. pos \subseteq Nat
    BY <1>1
  <2> HIDE DEF pos
  <2>2. Min(pos) \in pos
    BY <1>3, <2>1, MinimoDeIndices
  <2>3. Primera(C) = l[Min(pos)]
    BY <1>3 DEF Primera, pos
  <2> QED
    BY <1>1, <2>2, <2>3 DEF Listada, pos
<1> QED
  BY <1>2, <1>3

LEMMA ListaSinTipo ==
  ASSUME lista_instancias_global \in Seq(Interfaces), NEW j, Listada(j)
  PROVE  /\ ListaSin(j) \in Seq(Interfaces)
         /\ \A i : Listada(i) /\ i # j =>
              \E k \in DOMAIN ListaSin(j) : ListaSin(j)[k] = i
<1> DEFINE l == lista_instancias_global
           k == CHOOSE n \in DOMAIN l : l[n] = j
           N == Len(l) - 1
           s == [n \in 1..N |-> l[IF n < k THEN n ELSE n + 1]]
<1>1. k \in DOMAIN l /\ l[k] = j
  BY DEF Listada
<1>2. /\ Len(l) \in Nat /\ DOMAIN l = 1..Len(l)
      /\ \A n \in 1..Len(l) : l[n] \in Interfaces
  BY LenProperties, ElementOfSeq
<1>3. ListaSin(j) = s
  BY DEF ListaSin
<1> HIDE DEF k
<1>4. N \in Nat /\ k \in 1..Len(l)
  BY <1>1, <1>2
<1>5. \A n \in 1..N : s[n] \in Interfaces
  BY <1>2, <1>4
<1> HIDE DEF N
<1>6. s \in Seq(Interfaces)
  BY <1>4, <1>5
<1> USE DEF N
<1>7. ASSUME NEW i, Listada(i), i # j
      PROVE  \E n \in DOMAIN s : s[n] = i
  <2>1. PICK n \in 1..Len(l) : l[n] = i
    BY <1>2, <1>7 DEF Listada
  <2>2. n # k
    BY <1>1, <1>7, <2>1
  <2>3. CASE n < k
    <3>1. n \in DOMAIN s /\ s[n] = i
      BY <1>2, <1>4, <2>1, <2>3
    <3> QED
      BY <3>1
  <2>4. CASE k < n
    <3>1. n - 1 \in DOMAIN s /\ s[n - 1] = i
      BY <1>2, <1>4, <2>1, <2>4
    <3> QED
      BY <3>1
  <2> QED
    BY <1>4, <2>2, <2>3, <2>4
<1> QED
  BY <1>3, <1>6, <1>7

-----------------------------------------------------------------------------
(* Types: one lemma per action *)

\* What a step that touches neither messages nor instances has to keep.
ParteFija == UNCHANGED <<proceso_io, descriptor, pedidos, respuestas,
                         lista_instancias_global, instancia>>

LEMMA EnPartes == TiposDeConexion /\ TiposDeHilos => InterfacesTypeOK
  BY DEF InterfacesTypeOK, TiposDeConexion, TiposDeHilos, Mensaje, Contestacion,
         Hilo

LEMMA NulosAparte == NULO \notin Interfaces /\ NULO \notin Procesos
  BY InterfacesAssumption

LEMMA InitForma == ASSUME Init PROVE Forma
<1> USE InterfacesAssumption
<1>1. TiposDeConexion /\ TiposDeHilos
  BY EmptySeq
  DEF Init, TiposDeConexion, TiposDeHilos, Hilo, SinInstancia, Instancia, Reposo
<1>2. HilosBien /\ DespachoBien /\ InstanciasBien
  BY DEF Init, HilosBien, DespachoBien, InstanciasBien, SinInstancia, Reposo
<1>3. DescriptoresBien /\ SocketsBien
  BY NulosAparte DEF Init, DescriptoresBien, SocketsBien, SinInstancia
<1> QED
  BY <1>1, <1>2, <1>3 DEF Forma

LEMMA SinCambiosForma ==
  ASSUME Forma, ParteFija
  PROVE  TiposDeConexion' /\ InstanciasBien' /\ DescriptoresBien'
  BY DEF Forma, ParteFija, TiposDeConexion, InstanciasBien, DescriptoresBien,
         Listada

LEMMA MuereForma ==
  ASSUME Forma, NEW d \in {"puntero nulo", "instancia liberada", "doble free"},
         Muere(d)
  PROVE  Forma'
<1>1. ParteFija
  BY DEF Muere, ParteFija, conexionVars, listaVars
<1> QED
  BY <1>1, SinCambiosForma
  DEF Forma, Muere, TiposDeHilos, HilosBien, DespachoBien, SocketsBien,
      ParteFija

\* The socket gets a message, if it is that of a run that lives.
LEMMA ConMensajeTipo ==
  ASSUME Forma, NEW f \in Fds \union {0}, NEW m \in Mensaje
  PROVE  /\ ConMensaje(f, m) \in [Interfaces -> Seq(Mensaje)]
         /\ \A i \in Interfaces :
              \/ ConMensaje(f, m)[i] = pedidos[i]
              \/ /\ f \in Fds /\ descriptor[f] = i /\ proceso_io[i] = "conectado"
                 /\ ConMensaje(f, m)[i] = Append(pedidos[i], m)
<1>1. pedidos \in [Interfaces -> Seq(Mensaje)]
  BY DEF Forma, TiposDeConexion
<1>2. \A i \in Interfaces : Append(pedidos[i], m) \in Seq(Mensaje)
  BY <1>1, AppendProperties
<1>3. CASE f = 0
  BY <1>1, <1>3 DEF ConMensaje
<1>4. CASE f # 0
  BY <1>1, <1>2, <1>4 DEF ConMensaje
<1> QED
  BY <1>3, <1>4

LEMMA DescriptoresPositivos == \A f \in Fds : f \in Nat /\ f # 0
<1>1. MaxFd \in Nat
  BY InterfacesAssumption
<1> QED
  BY <1>1 DEF Fds

LEMMA PrimerDescriptor ==
  ASSUME NEW F, F \subseteq Fds, F # {} PROVE Min(F) \in F
<1>1. \A g \in Fds : g \in Nat
  BY DescriptoresPositivos
<1>2. F \subseteq Nat
  BY <1>1
<1> QED
  BY <1>2, MinimoDeIndices

LEMMA ConectarForma ==
  ASSUME Forma, NEW i \in Interfaces, Conectar(i) PROVE Forma'
<1> DEFINE F == {g \in Fds : descriptor[g] = NULO}
           f == Min(F)
<1>1. f \in Fds /\ descriptor[f] = NULO
  <2>1. F \subseteq Fds /\ F # {}
    BY DEF Conectar
  <2> HIDE DEF F
  <2>2. f \in F
    BY <2>1, PrimerDescriptor
  <2> QED
    BY <2>2 DEF F
<1>2. /\ proceso_io[i] = "sin conectar"
      /\ proceso_io' = [proceso_io EXCEPT ![i] = "conectado"]
      /\ descriptor' = [descriptor EXCEPT ![f] = i]
      /\ hilo' = [hilo EXCEPT ![i].pc = "reposo", ![i].socket = f]
      /\ pedidos' = [pedidos EXCEPT ![i] = Append(@, NOMBRE)]
      /\ UNCHANGED <<respuestas, lista_instancias_global, instancia, estado,
                     despacho, caido>>
  BY DEF Conectar, listaVars
<1> HIDE DEF f
<1>3. TiposDeConexion /\ TiposDeHilos /\ NOMBRE \in Mensaje
  BY DEF Forma, Mensaje
<1>4. pedidos' \in [Interfaces -> Seq(Mensaje)]
  BY <1>2, <1>3, AppendProperties DEF TiposDeConexion
<1>5. TiposDeConexion'
  BY <1>1, <1>2, <1>3, <1>4 DEF TiposDeConexion
<1>6. /\ hilo' \in [Interfaces -> Hilo]
      /\ hilo'[i].pc = "reposo" /\ hilo'[i].socket \in Fds
      /\ \A j \in Interfaces \ {i} : hilo'[j] = hilo[j]
  <2>1. /\ hilo \in [Interfaces -> Hilo]
        /\ hilo' = [hilo EXCEPT ![i] = [@ EXCEPT !.pc = "reposo", !.socket = f]]
    BY <1>2, <1>3 DEF TiposDeHilos
  <2>2. ASSUME NEW h \in Hilo
        PROVE  LET n == [h EXCEPT !.pc = "reposo", !.socket = f]
               IN  n \in Hilo /\ n.pc = "reposo" /\ n.socket \in Fds
    BY <1>1 DEF Hilo
  <2> QED
    BY <2>1, <2>2
<1>7. TiposDeHilos'
  BY <1>2, <1>3, <1>6 DEF TiposDeHilos
<1>8. HilosBien' /\ DespachoBien' /\ InstanciasBien'
  BY <1>2, <1>6 DEF Forma, HilosBien, DespachoBien, InstanciasBien, Listada
<1>9. pedidos[i] = <<>> /\ respuestas[i] = <<>> /\ \A g \in Fds : descriptor[g] # i
  BY <1>2 DEF Forma, DescriptoresBien
<1>10. \A k \in DOMAIN pedidos'[i] : pedidos'[i][k] = NOMBRE
  <2>1. pedidos'[i] = Append(<<>>, NOMBRE)
    BY <1>2, <1>3, <1>9 DEF TiposDeConexion
  <2>2. <<>> \in Seq(Mensaje) /\ DOMAIN <<>> = {} /\ NOMBRE \in Mensaje
    BY <1>3, EmptySeq
  <2>3. \A k \in DOMAIN Append(<<>>, NOMBRE) : Append(<<>>, NOMBRE)[k] = NOMBRE
    BY <2>2, Agregar
  <2> QED
    BY <2>1, <2>3
<1>11. DescriptoresBien'
  <2>1. /\ \A g \in Fds : descriptor'[g] = IF g = f THEN i ELSE descriptor[g]
        /\ \A j \in Interfaces \ {i} : /\ pedidos'[j] = pedidos[j]
                                       /\ proceso_io'[j] = proceso_io[j]
        /\ proceso_io'[i] = "conectado"
        /\ respuestas' = respuestas
        /\ \A j \in Interfaces : Listada(j)' = Listada(j)
        /\ instancia' = instancia
    BY <1>1, <1>2, <1>3 DEF TiposDeConexion, Listada
  <2>2. \A k \in DOMAIN respuestas[i] : FALSE
    BY <1>9, EmptySeq
  <2>3. ASSUME NEW j \in Interfaces, j # i, NEW g \in Fds
        PROVE  descriptor'[g] = j <=> descriptor[g] = j
    BY <1>1, <2>1, <2>3, NulosAparte
  <2> SUFFICES ASSUME NEW j \in Interfaces
               PROVE  /\ \A g, h \in Fds : descriptor'[g] = j /\ descriptor'[h] = j
                                             => g = h
                      /\ proceso_io'[j] = "sin conectar" =>
                           /\ pedidos'[j] = <<>> /\ respuestas'[j] = <<>>
                           /\ \A g \in Fds : descriptor'[g] # j
                      /\ \A g \in Fds :
                           /\ descriptor'[g] = j
                           /\ \/ \E k \in DOMAIN pedidos'[j] :
                                   pedidos'[j][k] # NOMBRE
                              \/ \E k \in DOMAIN respuestas'[j] :
                                   respuestas'[j][k] \in Fin
                           => \E x \in Interfaces :
                                Listada(x)' /\ instancia'[x].socket = g
    BY DEF DescriptoresBien
  <2>4. CASE j = i
    BY <1>9, <1>10, <2>1, <2>2, <2>4
  <2>5. CASE j # i
    <3>1. /\ pedidos'[j] = pedidos[j] /\ respuestas'[j] = respuestas[j]
          /\ proceso_io'[j] = proceso_io[j]
          /\ \A g \in Fds : descriptor'[g] = j <=> descriptor[g] = j
      BY <2>1, <2>3, <2>5
    <3>2. \A x \in Interfaces : Listada(x)' = Listada(x) /\ instancia' = instancia
      BY <2>1
    <3>3. /\ \A g, h \in Fds : descriptor[g] = j /\ descriptor[h] = j => g = h
          /\ proceso_io[j] = "sin conectar" =>
               /\ pedidos[j] = <<>> /\ respuestas[j] = <<>>
               /\ \A g \in Fds : descriptor[g] # j
          /\ \A g \in Fds :
               /\ descriptor[g] = j
               /\ \/ \E k \in DOMAIN pedidos[j] : pedidos[j][k] # NOMBRE
                  \/ \E k \in DOMAIN respuestas[j] : respuestas[j][k] \in Fin
               => \E x \in Interfaces : Listada(x) /\ instancia[x].socket = g
      BY DEF Forma, DescriptoresBien
    <3> QED
      BY <3>1, <3>2, <3>3
  <2> QED
    BY <2>4, <2>5
<1>12. SocketsBien'
  <2>1. hilo[i].socket = 0 /\ instancia[i].socket = 0
    BY <1>2 DEF Forma, SocketsBien
  <2>2. /\ instancia' = instancia
        /\ proceso_io'[i] = "conectado"
        /\ \A j \in Interfaces \ {i} : proceso_io'[j] = proceso_io[j]
    BY <1>2, <1>3 DEF TiposDeConexion
  <2>3. \A g \in Fds, j \in Interfaces :
          descriptor'[g] = j => IF g = f THEN j = i ELSE descriptor[g] = j
    BY <1>1, <1>2, <1>3 DEF TiposDeConexion
  <2>4. hilo'[i].socket = f
    BY <1>2, <1>3 DEF TiposDeHilos, Hilo
  <2>5. \A g \in Fds : descriptor'[g] = i => g = f
    BY <1>9, <2>3
  <2>6. \A j \in Interfaces \ {i}, g \in Fds : descriptor'[g] = j => descriptor[g] = j
    BY <2>3
  <2>7. \A j \in Interfaces :
          /\ instancia[j].socket \in {0, hilo[j].socket}
          /\ proceso_io[j] = "sin conectar" => hilo[j].socket = 0
          /\ \A g \in Fds : descriptor[g] = j => hilo[j].socket = g
    BY DEF Forma, SocketsBien
  <2> SUFFICES ASSUME NEW j \in Interfaces
               PROVE  /\ instancia'[j].socket \in {0, hilo'[j].socket}
                      /\ proceso_io'[j] = "sin conectar" => hilo'[j].socket = 0
                      /\ \A g \in Fds : descriptor'[g] = j => hilo'[j].socket = g
    BY DEF SocketsBien
  <2>8. CASE j = i
    BY <2>1, <2>2, <2>4, <2>5, <2>8
  <2>9. CASE j # i
    BY <1>6, <2>2, <2>6, <2>7, <2>9
  <2> QED
    BY <2>8, <2>9
<1> QED
  BY <1>5, <1>7, <1>8, <1>11, <1>12 DEF Forma

\* What a step that leaves the descriptors alone has to keep.  A message is
\* added to a socket only when an instance has it.
LEMMA MismosDescriptores ==
  ASSUME Forma,
         proceso_io' = proceso_io, descriptor' = descriptor,
         \A i \in Interfaces : Listada(i) /\ instancia[i].socket # 0 =>
           Listada(i)' /\ instancia'[i].socket = instancia[i].socket,
         \A i \in Interfaces : proceso_io[i] = "sin conectar" =>
           pedidos'[i] = pedidos[i] /\ respuestas'[i] = respuestas[i],
         \A i \in Interfaces :
           \/ \A f \in Fds : descriptor[f] # i
           \/ \E f \in Fds : /\ descriptor[f] = i
                             /\ \E j \in Interfaces :
                                  Listada(j) /\ instancia[j].socket = f
           \/ /\ \A k \in DOMAIN pedidos'[i] : pedidos'[i][k] # NOMBRE =>
                   \E n \in DOMAIN pedidos[i] : pedidos[i][n] # NOMBRE
              /\ \A k \in DOMAIN respuestas'[i] : respuestas'[i][k] \in Fin =>
                   \/ \E n \in DOMAIN respuestas[i] : respuestas[i][n] \in Fin
                   \/ \E n \in DOMAIN pedidos[i] : pedidos[i][n] # NOMBRE
  PROVE  DescriptoresBien'
<1>1. Fin' = Fin /\ NOMBRE' = NOMBRE
  BY DEF Fin, NOMBRE
<1> SUFFICES ASSUME NEW i \in Interfaces
             PROVE  /\ \A f, g \in Fds : descriptor[f] = i /\ descriptor[g] = i
                                           => f = g
                    /\ proceso_io[i] = "sin conectar" =>
                         /\ pedidos'[i] = <<>> /\ respuestas'[i] = <<>>
                         /\ \A f \in Fds : descriptor[f] # i
                    /\ \A f \in Fds :
                         /\ descriptor[f] = i
                         /\ \/ \E k \in DOMAIN pedidos'[i] :
                                 pedidos'[i][k] # NOMBRE
                            \/ \E k \in DOMAIN respuestas'[i] :
                                 respuestas'[i][k] \in Fin
                         => \E j \in Interfaces :
                              Listada(j)' /\ instancia'[j].socket = f
  BY DEF DescriptoresBien
<1>2. /\ \A f, g \in Fds : descriptor[f] = i /\ descriptor[g] = i => f = g
      /\ proceso_io[i] = "sin conectar" =>
           /\ pedidos[i] = <<>> /\ respuestas[i] = <<>>
           /\ \A f \in Fds : descriptor[f] # i
      /\ \A f \in Fds :
           /\ descriptor[f] = i
           /\ \/ \E k \in DOMAIN pedidos[i] : pedidos[i][k] # NOMBRE
              \/ \E k \in DOMAIN respuestas[i] : respuestas[i][k] \in Fin
           => \E j \in Interfaces : Listada(j) /\ instancia[j].socket = f
  BY DEF Forma, DescriptoresBien
<1>3. ASSUME NEW f \in Fds, descriptor[f] = i,
             \/ \E k \in DOMAIN pedidos'[i] : pedidos'[i][k] # NOMBRE
             \/ \E k \in DOMAIN respuestas'[i] : respuestas'[i][k] \in Fin
      PROVE  \E j \in Interfaces : Listada(j)' /\ instancia'[j].socket = f
  <2>1. \E j \in Interfaces : Listada(j) /\ instancia[j].socket = f
    <3>1. CASE \E g \in Fds :
                 /\ descriptor[g] = i
                 /\ \E j \in Interfaces : Listada(j) /\ instancia[j].socket = g
      <4> PICK g \in Fds :
                 /\ descriptor[g] = i
                 /\ \E j \in Interfaces : Listada(j) /\ instancia[j].socket = g
        BY <3>1
      <4>1. g = f
        BY <1>2, <1>3
      <4> QED  BY <4>1
    <3>2. CASE \/ \E n \in DOMAIN respuestas[i] : respuestas[i][n] \in Fin
               \/ \E n \in DOMAIN pedidos[i] : pedidos[i][n] # NOMBRE
      BY <1>2, <1>3, <3>2
    <3>3. \/ \E g \in Fds :
                /\ descriptor[g] = i
                /\ \E j \in Interfaces : Listada(j) /\ instancia[j].socket = g
          \/ \E n \in DOMAIN respuestas[i] : respuestas[i][n] \in Fin
          \/ \E n \in DOMAIN pedidos[i] : pedidos[i][n] # NOMBRE
      BY <1>3
    <3> QED  BY <3>1, <3>2, <3>3
  <2>2. f # 0
    BY DescriptoresPositivos
  <2> QED
    BY <2>1, <2>2
<1> QED
  BY <1>2, <1>3

LEMMA MismosSockets ==
  ASSUME Forma,
         \A i \in Interfaces :
           /\ hilo'[i].socket = hilo[i].socket
           /\ instancia'[i].socket \in {0, hilo[i].socket, instancia[i].socket}
           /\ proceso_io'[i] = "sin conectar" => proceso_io[i] = "sin conectar"
           /\ \A f \in Fds : descriptor'[f] = i => descriptor[f] = i
  PROVE  SocketsBien'
  BY DEF Forma, SocketsBien

\* What a step keeps that leaves the threads and the instances alone.
LEMMA MismosHilos ==
  ASSUME Forma, UNCHANGED <<hilo, despacho, listaVars>>
  PROVE  HilosBien' /\ DespachoBien' /\ InstanciasBien'
  BY DEF Forma, listaVars, HilosBien, DespachoBien, InstanciasBien, Listada

LEMMA RespondeForma ==
  ASSUME Forma, NEW i \in Interfaces, proceso_io[i] = "conectado",
         pedidos[i] # <<>>, NEW m \in Contestacion, Responde(i, m),
         m \in Fin => Head(pedidos[i]) # NOMBRE
  PROVE  Forma'
<1>1. /\ pedidos' = [pedidos EXCEPT ![i] = Tail(@)]
      /\ respuestas' = [respuestas EXCEPT ![i] = Append(@, m)]
      /\ UNCHANGED <<proceso_io, descriptor, lista_instancias_global, instancia,
                     estado, hilo, despacho, caido>>
  BY DEF Responde, conexionVars, listaVars
<1>2. TiposDeConexion /\ TiposDeHilos
  BY DEF Forma
<1>3. pedidos[i] \in Seq(Mensaje) /\ respuestas[i] \in Seq(Contestacion)
  BY <1>2 DEF TiposDeConexion
<1>4. /\ Tail(pedidos[i]) \in Seq(Mensaje)
      /\ 1 \in DOMAIN pedidos[i] /\ Head(pedidos[i]) = pedidos[i][1]
      /\ \A k \in DOMAIN Tail(pedidos[i]) :
           k + 1 \in DOMAIN pedidos[i] /\ Tail(pedidos[i])[k] = pedidos[i][k + 1]
  BY <1>3, SinCabeza
<1>5. /\ Append(respuestas[i], m) \in Seq(Contestacion)
      /\ \A k \in DOMAIN Append(respuestas[i], m) :
           \/ k \in DOMAIN respuestas[i] /\ Append(respuestas[i], m)[k] = respuestas[i][k]
           \/ Append(respuestas[i], m)[k] = m
  BY <1>3, Agregar
<1>6. TiposDeConexion' /\ TiposDeHilos'
  BY <1>1, <1>2, <1>4, <1>5 DEF TiposDeConexion, TiposDeHilos
<1>7. HilosBien' /\ DespachoBien' /\ InstanciasBien'
  BY <1>1, MismosHilos DEF listaVars
<1>8. DescriptoresBien'
  <2>1. /\ pedidos'[i] = Tail(pedidos[i])
        /\ respuestas'[i] = Append(respuestas[i], m)
        /\ \A j \in Interfaces \ {i} : /\ pedidos'[j] = pedidos[j]
                                       /\ respuestas'[j] = respuestas[j]
        /\ \A j \in Interfaces : Listada(j)' = Listada(j)
    BY <1>1, <1>2 DEF TiposDeConexion, Listada
  <2>2. /\ \A k \in DOMAIN pedidos'[i] : pedidos'[i][k] # NOMBRE =>
             \E n \in DOMAIN pedidos[i] : pedidos[i][n] # NOMBRE
        /\ \A k \in DOMAIN respuestas'[i] : respuestas'[i][k] \in Fin =>
             \/ \E n \in DOMAIN respuestas[i] : respuestas[i][n] \in Fin
             \/ \E n \in DOMAIN pedidos[i] : pedidos[i][n] # NOMBRE
    BY <1>4, <1>5, <2>1
  <2> QED
    BY <1>1, <2>1, <2>2, MismosDescriptores
<1>9. SocketsBien'
  BY <1>1, MismosSockets
<1> QED
  BY <1>6, <1>7, <1>8, <1>9 DEF Forma

LEMMA EntradaSalidaForma ==
  ASSUME Forma, NEW i \in Interfaces, EntradaSalida(i) PROVE Forma'
<1>1. CASE EnviarNombre(i)
  BY <1>1, RespondeForma DEF EnviarNombre, Contestacion, Fin, NOMBRE
<1>2. ASSUME NEW r \in {"OK", "ERROR"}, TerminarOperacion(i, r) PROVE Forma'
  <2> DEFINE q == Head(pedidos[i]).pid
             m == [op |-> "FIN_ENTRADASALIDA", pid |-> q, resultado |-> r]
  <2>1. /\ proceso_io[i] = "conectado" /\ pedidos[i] # <<>>
        /\ Head(pedidos[i]) # NOMBRE /\ Responde(i, m)
    BY <1>2 DEF TerminarOperacion
  <2>2. Head(pedidos[i]) \in Mensaje
    BY <2>1, SinCabeza DEF Forma, TiposDeConexion
  <2>3. m \in Fin
    BY <2>1, <2>2 DEF Mensaje, Fin
  <2> QED
    BY <2>1, <2>3, RespondeForma DEF Contestacion
<1> QED
  BY <1>1, <1>2 DEF EntradaSalida

LEMMA MorirForma ==
  ASSUME Forma, NEW i \in Interfaces, Morir(i) PROVE Forma'
<1>1. /\ proceso_io[i] = "conectado"
      /\ proceso_io' = [proceso_io EXCEPT ![i] = "caido"]
      /\ pedidos' = [pedidos EXCEPT ![i] = <<>>]
      /\ UNCHANGED <<descriptor, respuestas, lista_instancias_global, instancia,
                     estado, hilo, despacho, caido>>
  BY DEF Morir, listaVars
<1>2. TiposDeConexion /\ TiposDeHilos
  BY DEF Forma
<1>3. TiposDeConexion' /\ TiposDeHilos'
  BY <1>1, <1>2, EmptySeq DEF TiposDeConexion, TiposDeHilos
<1>4. HilosBien' /\ DespachoBien' /\ InstanciasBien'
  BY <1>1, MismosHilos DEF listaVars
<1>5. DescriptoresBien'
  <2>1. /\ \A j \in Interfaces \ {i} : /\ pedidos'[j] = pedidos[j]
                                       /\ proceso_io'[j] = proceso_io[j]
        /\ proceso_io'[i] = "caido" /\ pedidos'[i] = <<>>
    BY <1>1, <1>2 DEF TiposDeConexion
  <2>2. \A k \in DOMAIN pedidos'[i] : FALSE
    BY <2>1, EmptySeq
  <2>3. /\ \A j \in Interfaces : Listada(j)' = Listada(j)
        /\ instancia' = instancia /\ respuestas' = respuestas
        /\ descriptor' = descriptor
    BY <1>1 DEF Listada
  <2> SUFFICES ASSUME NEW j \in Interfaces
               PROVE  /\ \A f, g \in Fds : descriptor[f] = j /\ descriptor[g] = j
                                             => f = g
                      /\ proceso_io'[j] = "sin conectar" =>
                           /\ pedidos'[j] = <<>> /\ respuestas[j] = <<>>
                           /\ \A f \in Fds : descriptor[f] # j
                      /\ \A f \in Fds :
                           /\ descriptor[f] = j
                           /\ \/ \E k \in DOMAIN pedidos'[j] :
                                   pedidos'[j][k] # NOMBRE
                              \/ \E k \in DOMAIN respuestas[j] :
                                   respuestas[j][k] \in Fin
                           => \E x \in Interfaces :
                                Listada(x) /\ instancia[x].socket = f
    BY <2>3 DEF DescriptoresBien, Fin, NOMBRE
  <2>4. CASE j = i
    BY <2>1, <2>2, <2>4 DEF Forma, DescriptoresBien
  <2>5. CASE j # i
    <3>1. /\ \A f, g \in Fds : descriptor[f] = j /\ descriptor[g] = j => f = g
          /\ proceso_io[j] = "sin conectar" =>
               /\ pedidos[j] = <<>> /\ respuestas[j] = <<>>
               /\ \A f \in Fds : descriptor[f] # j
          /\ \A f \in Fds :
               /\ descriptor[f] = j
               /\ \/ \E k \in DOMAIN pedidos[j] : pedidos[j][k] # NOMBRE
                  \/ \E k \in DOMAIN respuestas[j] : respuestas[j][k] \in Fin
               => \E x \in Interfaces : Listada(x) /\ instancia[x].socket = f
      BY DEF Forma, DescriptoresBien
    <3> QED
      BY <2>1, <2>5, <3>1
  <2> QED
    BY <2>4, <2>5
<1>6. \A j \in Interfaces :
        proceso_io'[j] = "sin conectar" => proceso_io[j] = "sin conectar"
  BY <1>1, <1>2 DEF TiposDeConexion
<1>7. SocketsBien'
  BY <1>1, <1>6, MismosSockets
<1> QED
  BY <1>3, <1>4, <1>5, <1>7 DEF Forma

\* A thread of a connection takes a message of the run it reads.
LEMMA HayMensajeTipo ==
  ASSUME Forma, NEW i \in Interfaces, NEW op, HayMensaje(i, op), Recibido(i)
  PROVE  LET j == LeeDe(i) IN
         /\ hilo[i].pc = "reposo" /\ hilo[i].socket \in Fds
         /\ j \in Interfaces /\ descriptor[hilo[i].socket] = j
         /\ respuestas[j] \in Seq(Contestacion) /\ respuestas[j] # <<>>
         /\ Head(respuestas[j]) = respuestas[j][1] /\ 1 \in DOMAIN respuestas[j]
         /\ Head(respuestas[j]) \in Contestacion
         /\ Head(respuestas[j]).op = op
         /\ respuestas' = [respuestas EXCEPT ![j] = Tail(@)]
         /\ respuestas' \in [Interfaces -> Seq(Contestacion)]
         /\ \A k \in DOMAIN respuestas'[j] :
              k \in Nat /\ k >= 1 /\ k + 1 \in DOMAIN respuestas[j]
                /\ respuestas'[j][k] = respuestas[j][k + 1]
<1> DEFINE j == LeeDe(i)
<1>1. TiposDeConexion /\ hilo[i].pc = "reposo" /\ hilo[i].socket \in Fds
  BY DEF Forma, HayMensaje, En, HilosBien
<1>2. /\ j \in Interfaces /\ descriptor[hilo[i].socket] = j
      /\ respuestas[j] \in Seq(Contestacion) /\ respuestas[j] # <<>>
      /\ Head(respuestas[j]).op = op
  BY <1>1 DEF HayMensaje, LeeDe, TiposDeConexion
<1>3. respuestas' = [respuestas EXCEPT ![j] = Tail(@)]
  BY DEF Recibido
<1> HIDE DEF j
<1>4. /\ Tail(respuestas[j]) \in Seq(Contestacion)
      /\ Head(respuestas[j]) = respuestas[j][1] /\ 1 \in DOMAIN respuestas[j]
      /\ Head(respuestas[j]) \in Contestacion
      /\ \A k \in DOMAIN Tail(respuestas[j]) :
           k \in Nat /\ k >= 1 /\ k + 1 \in DOMAIN respuestas[j]
             /\ Tail(respuestas[j])[k] = respuestas[j][k + 1]
  BY <1>2, SinCabeza
<1>5. /\ respuestas' \in [Interfaces -> Seq(Contestacion)]
      /\ respuestas'[j] = Tail(respuestas[j])
  BY <1>1, <1>2, <1>3, <1>4 DEF TiposDeConexion
<1> QED
  BY <1>1, <1>2, <1>3, <1>4, <1>5 DEF j

LEMMA RecibidoDescriptores ==
  ASSUME Forma, NEW i \in Interfaces, NEW op, HayMensaje(i, op), Recibido(i),
         UNCHANGED <<conexionVars, pedidos>>,
         \A j \in Interfaces : Listada(j) /\ instancia[j].socket # 0 =>
           Listada(j)' /\ instancia'[j].socket = instancia[j].socket
  PROVE  DescriptoresBien'
<1> DEFINE j == LeeDe(i)
<1>1. /\ j \in Interfaces /\ hilo[i].socket \in Fds
      /\ descriptor[hilo[i].socket] = j
      /\ respuestas[j] # <<>>
      /\ respuestas' = [respuestas EXCEPT ![j] = Tail(@)]
      /\ \A k \in DOMAIN respuestas'[j] :
           k + 1 \in DOMAIN respuestas[j]
             /\ respuestas'[j][k] = respuestas[j][k + 1]
  BY HayMensajeTipo
<1> HIDE DEF j
<1>2. proceso_io[j] # "sin conectar"
  BY <1>1 DEF Forma, DescriptoresBien
<1>3. \A x \in Interfaces \ {j} : respuestas'[x] = respuestas[x]
  BY <1>1 DEF Forma, TiposDeConexion
<1>4. /\ proceso_io' = proceso_io /\ descriptor' = descriptor
      /\ pedidos' = pedidos
  BY DEF conexionVars
<1>5. \A x \in Interfaces :
        /\ \A k \in DOMAIN pedidos'[x] : pedidos'[x][k] # NOMBRE =>
             \E n \in DOMAIN pedidos[x] : pedidos[x][n] # NOMBRE
        /\ \A k \in DOMAIN respuestas'[x] : respuestas'[x][k] \in Fin =>
             \E n \in DOMAIN respuestas[x] : respuestas[x][n] \in Fin
  BY <1>1, <1>3, <1>4
<1>6. \A x \in Interfaces : proceso_io[x] = "sin conectar" =>
        pedidos'[x] = pedidos[x] /\ respuestas'[x] = respuestas[x]
  BY <1>2, <1>3, <1>4
<1> QED
  BY <1>4, <1>5, <1>6, MismosDescriptores

LEMMA AgregarInstanciaForma ==
  ASSUME Forma, NEW i \in Interfaces, AgregarInstancia(i) PROVE Forma'
<1> PICK r : r = LeeDe(i)
  OBVIOUS
<1> DEFINE nueva == [socket |-> hilo[i].socket, libre |-> 1,
                     cola_de_espera |-> <<>>, pcb_con_interfaz_asignada |-> NULO,
                     mochila_destruida |-> FALSE, viva |-> TRUE]
<1>1. /\ HayMensaje(i, "NOMBRE_ENTRADA_SALIDA") /\ Recibido(i)
      /\ instancia' = [instancia EXCEPT ![r] = nueva]
      /\ lista_instancias_global' = Append(lista_instancias_global, r)
      /\ UNCHANGED <<proceso_io, descriptor, pedidos, estado, hilo, despacho,
                     caido>>
  BY DEF AgregarInstancia, conexionVars
<1>2. TiposDeConexion /\ TiposDeHilos
  BY DEF Forma
<1>3. /\ hilo[i].socket \in Fds /\ r \in Interfaces
      /\ hilo[r].socket = hilo[i].socket
      /\ respuestas' \in [Interfaces -> Seq(Contestacion)]
  BY <1>1, HayMensajeTipo DEF Forma, SocketsBien
<1>4. nueva \in Instancia /\ nueva.socket \in Fds
  BY <1>3, EmptySeq DEF Instancia
<1> HIDE DEF nueva
<1>5. /\ instancia' \in [Interfaces -> Instancia]
      /\ instancia'[r].socket \in Fds
      /\ \A j \in Interfaces \ {r} : instancia'[j] = instancia[j]
  BY <1>1, <1>2, <1>3, <1>4 DEF TiposDeConexion
<1>6. /\ lista_instancias_global' \in Seq(Interfaces)
      /\ \A j \in Interfaces : Listada(j) => Listada(j)'
      /\ Listada(r)'
  <2> DEFINE l == lista_instancias_global
  <2>1. l \in Seq(Interfaces) /\ l' = Append(l, r)
    BY <1>1, <1>2 DEF TiposDeConexion
  <2>2. /\ l' \in Seq(Interfaces)
        /\ \A k \in DOMAIN l : k \in DOMAIN l' /\ l'[k] = l[k]
        /\ Len(l) + 1 \in DOMAIN l' /\ l'[Len(l) + 1] = r
    BY <1>3, <2>1, Agregar
  <2> HIDE DEF l
  <2>3. /\ \A j : (\E k \in DOMAIN l : l[k] = j) => \E k \in DOMAIN l' : l'[k] = j
        /\ \E k \in DOMAIN l' : l'[k] = r
    BY <2>2
  <2> QED
    BY <2>2, <2>3 DEF Listada, l
<1>7. TiposDeConexion' /\ TiposDeHilos'
  BY <1>1, <1>2, <1>3, <1>5, <1>6 DEF TiposDeConexion, TiposDeHilos
<1>8. HilosBien' /\ DespachoBien'
  BY <1>1 DEF Forma, HilosBien, DespachoBien
<1>9. InstanciasBien'
  BY <1>5, <1>6 DEF Forma, InstanciasBien
<1>10. instancia'[r].socket = hilo[r].socket
  BY <1>1, <1>2, <1>3 DEF TiposDeConexion, nueva
<1>11. DescriptoresBien'
  <2>1. \A j \in Interfaces : Listada(j) /\ instancia[j].socket # 0 =>
          Listada(j)' /\ instancia'[j].socket = instancia[j].socket
    BY <1>5, <1>6, <1>10 DEF Forma, SocketsBien
  <2> QED
    BY <1>1, <2>1, RecibidoDescriptores DEF conexionVars
<1>12. SocketsBien'
  BY <1>1, <1>5, <1>10, MismosSockets
<1> QED
  BY <1>7, <1>8, <1>9, <1>11, <1>12 DEF Forma

LEMMA PasaTipo ==
  ASSUME Forma, NEW i \in Interfaces,
         NEW pc \in {"reposo", "siguiente", "liberar", "a ready", "desconexion",
                     "terminado"},
         Pasa(i, pc)
  PROVE  /\ hilo' \in [Interfaces -> Hilo]
         /\ hilo'[i].pc = pc /\ hilo'[i].socket = hilo[i].socket
         /\ hilo'[i].pid = hilo[i].pid
         /\ hilo'[i].instancia = hilo[i].instancia
         /\ \A j \in Interfaces \ {i} : hilo'[j] = hilo[j]
<1>1. /\ hilo \in [Interfaces -> Hilo]
      /\ hilo' = [hilo EXCEPT ![i] = [@ EXCEPT !.pc = pc]]
  BY DEF Forma, TiposDeHilos, Pasa
<1>2. ASSUME NEW h \in Hilo
      PROVE  LET n == [h EXCEPT !.pc = pc]
             IN  /\ n \in Hilo /\ n.pc = pc /\ n.socket = h.socket
                 /\ n.pid = h.pid /\ n.instancia = h.instancia
  BY DEF Hilo
<1> QED
  BY <1>1, <1>2

LEMMA VuelveTipo ==
  ASSUME Forma, NEW i \in Interfaces, VuelveALeer(i)
  PROVE  /\ hilo' \in [Interfaces -> Hilo]
         /\ hilo'[i].pc = "reposo" /\ hilo'[i].socket = hilo[i].socket
         /\ \A j \in Interfaces \ {i} : hilo'[j] = hilo[j]
<1>1. /\ hilo \in [Interfaces -> Hilo]
      /\ hilo' = [hilo EXCEPT ![i] = [@ EXCEPT !.pc = "reposo", !.pid = NULO,
                                               !.instancia = NULO]]
  BY DEF Forma, TiposDeHilos, VuelveALeer
<1>2. ASSUME NEW h \in Hilo
      PROVE  LET n == [h EXCEPT !.pc = "reposo", !.pid = NULO, !.instancia = NULO]
             IN  n \in Hilo /\ n.pc = "reposo" /\ n.socket = h.socket
  BY DEF Hilo
<1> QED
  BY <1>1, <1>2

\* A thread goes to a point where it needs no more than it had.
LEMMA PasaBien ==
  ASSUME Forma, NEW i \in Interfaces,
         NEW pc \in {"reposo", "siguiente", "liberar", "a ready", "desconexion",
                     "terminado"},
         Pasa(i, pc), hilo[i].pc # "sin empezar",
         pc \in {"siguiente", "liberar"} =>
           hilo[i].pc \in {"fin", "siguiente", "liberar"},
         pc = "a ready" => hilo[i].pc \in {"fin", "siguiente", "liberar"},
         UNCHANGED <<proceso_io, instancia>>,
         \A j \in Interfaces, f \in Fds : descriptor'[f] = j => descriptor[f] = j
  PROVE  HilosBien' /\ SocketsBien'
<1>0. /\ hilo'[i].pc = pc /\ hilo'[i].socket = hilo[i].socket
      /\ hilo'[i].pid = hilo[i].pid /\ hilo'[i].instancia = hilo[i].instancia
      /\ \A j \in Interfaces \ {i} : hilo'[j] = hilo[j]
  BY PasaTipo
<1>1. HilosBien'
  BY <1>0 DEF Forma, HilosBien
<1>2. SocketsBien'
  BY PasaTipo, MismosSockets
<1> QED
  BY <1>1, <1>2

\* Threads that move a process between lists, and no instance.
LEMMA MoverProcesoForma ==
  ASSUME Forma, NEW i \in Interfaces,
         BuscarYRemover(i) \/ FinConError(i) \/ AgregarAReady(i)
  PROVE  Forma'
<1>1. /\ hilo[i].pc \in {"fin", "error", "a ready"}
      /\ VuelveALeer(i) \/ (Pasa(i, "siguiente") /\ hilo[i].pc = "fin")
  BY DEF BuscarYRemover, FinConError, AgregarAReady, En
<1>2. ParteFija /\ UNCHANGED <<despacho, caido>>
  BY DEF BuscarYRemover, FinConError, AgregarAReady, ParteFija, conexionVars,
         listaVars
<1>3. \E e \in {"en mano", "exit", "ready"} :
        estado' = [estado EXCEPT ![hilo[i].pid] = e]
  BY DEF BuscarYRemover, FinConError, AgregarAReady
<1>4. TiposDeConexion' /\ InstanciasBien' /\ DescriptoresBien'
  BY <1>2, SinCambiosForma
<1>5. HilosBien' /\ SocketsBien'
  <2>1. CASE Pasa(i, "siguiente") /\ hilo[i].pc = "fin"
    BY <1>2, <2>1, PasaBien DEF ParteFija
  <2>2. CASE VuelveALeer(i)
    <3>1. SocketsBien'
      BY <1>2, <2>2, VuelveTipo, MismosSockets DEF ParteFija
    <3>2. HilosBien'
      BY <1>1, <2>2, VuelveTipo DEF Forma, HilosBien
    <3> QED  BY <3>1, <3>2
  <2> QED  BY <1>1, <2>1, <2>2
<1>6. DespachoBien'
  BY <1>2 DEF Forma, DespachoBien
<1>7. hilo' \in [Interfaces -> Hilo]
  BY <1>1, PasaTipo, VuelveTipo
<1>8. estado' \in [Procesos -> {"ready", "exec", "blocked", "en mano", "exit"}]
  BY <1>3 DEF Forma, TiposDeHilos
<1>9. TiposDeHilos'
  BY <1>2, <1>7, <1>8 DEF Forma, TiposDeHilos
<1> QED
  BY <1>4, <1>5, <1>6, <1>9 DEF Forma

LEMMA RecibirFinForma ==
  ASSUME Forma, NEW i \in Interfaces, RecibirFin(i)
  PROVE  /\ Forma'
         /\ Head(respuestas[LeeDe(i)]) \in Fin
         /\ hilo'[i].pc \in {"fin", "error"}
         /\ hilo'[i].pid = Head(respuestas[LeeDe(i)]).pid
         /\ \A j \in Interfaces \ {i} : hilo'[j] = hilo[j]
<1> DEFINE m == Head(respuestas[LeeDe(i)])
           C == {j \in Interfaces : instancia[j].socket = hilo[i].socket}
           pc == IF m.resultado = "OK" THEN "fin" ELSE "error"
<1>1. /\ HayMensaje(i, "FIN_ENTRADASALIDA") /\ Recibido(i)
      /\ hilo' = [hilo EXCEPT ![i].pc = pc, ![i].pid = m.pid,
                              ![i].instancia = Primera(C)]
      /\ UNCHANGED <<proceso_io, descriptor, pedidos, lista_instancias_global,
                     instancia, estado, despacho, caido>>
  BY DEF RecibirFin, conexionVars, listaVars, obtener_instancia_por_socket
<1>2. TiposDeConexion /\ TiposDeHilos
  BY DEF Forma
<1>3. /\ hilo[i].pc = "reposo" /\ hilo[i].socket \in Fds
      /\ LeeDe(i) \in Interfaces /\ descriptor[hilo[i].socket] = LeeDe(i)
      /\ m = respuestas[LeeDe(i)][1] /\ 1 \in DOMAIN respuestas[LeeDe(i)]
      /\ m \in Contestacion /\ m.op = "FIN_ENTRADASALIDA"
      /\ respuestas' \in [Interfaces -> Seq(Contestacion)]
  BY <1>1, HayMensajeTipo
<1> HIDE DEF m
<1>4. m \in Fin /\ m.pid \in Procesos
  BY <1>3 DEF Contestacion, Fin, NOMBRE
<1>5. Primera(C) \in Interfaces
  <2>1. \E j \in Interfaces : Listada(j) /\ instancia[j].socket = hilo[i].socket
    <3>1. \E k \in DOMAIN respuestas[LeeDe(i)] : respuestas[LeeDe(i)][k] \in Fin
      BY <1>3, <1>4
    <3> QED
      BY <1>3, <3>1 DEF Forma, DescriptoresBien
  <2>2. PICK j \in C : Listada(j)
    BY <2>1
  <2> HIDE DEF C
  <2>3. lista_instancias_global \in Seq(Interfaces)
    BY <1>2 DEF TiposDeConexion
  <2> QED
    BY <2>2, <2>3, PrimeraTipo, NulosAparte
<1> HIDE DEF C
<1>6. pc \in {"fin", "error"}
  OBVIOUS
<1> HIDE DEF pc
<1>7. /\ hilo' \in [Interfaces -> Hilo]
      /\ hilo'[i].pc = pc /\ hilo'[i].pid = m.pid
      /\ hilo'[i].instancia = Primera(C) /\ hilo'[i].socket = hilo[i].socket
      /\ \A j \in Interfaces \ {i} : hilo'[j] = hilo[j]
  <2>1. /\ hilo \in [Interfaces -> Hilo]
        /\ hilo' = [hilo EXCEPT ![i] = [@ EXCEPT !.pc = pc, !.pid = m.pid,
                                                 !.instancia = Primera(C)]]
    BY <1>1, <1>2 DEF TiposDeHilos
  <2>2. ASSUME NEW h \in Hilo
        PROVE  LET n == [h EXCEPT !.pc = pc, !.pid = m.pid,
                                  !.instancia = Primera(C)]
               IN  /\ n \in Hilo /\ n.pc = pc /\ n.pid = m.pid
                   /\ n.instancia = Primera(C) /\ n.socket = h.socket
    BY <1>4, <1>5, <1>6 DEF Hilo
  <2> QED
    BY <2>1, <2>2
<1>8. TiposDeConexion' /\ TiposDeHilos'
  BY <1>1, <1>2, <1>3, <1>7 DEF TiposDeConexion, TiposDeHilos
<1>9. HilosBien'
  BY <1>3, <1>4, <1>5, <1>6, <1>7 DEF Forma, HilosBien
<1>10. DespachoBien' /\ InstanciasBien'
  BY <1>1 DEF Forma, DespachoBien, InstanciasBien, Listada
<1>11. DescriptoresBien'
  <2>1. \A j \in Interfaces : Listada(j)' = Listada(j)
    BY <1>1 DEF Listada
  <2> QED
    BY <1>1, <2>1, RecibidoDescriptores DEF conexionVars
<1>12. SocketsBien'
  BY <1>1, <1>7, MismosSockets
<1> QED
  BY <1>4, <1>6, <1>7, <1>8, <1>9, <1>10, <1>11, <1>12 DEF Forma, m

\* What a step that changes the instance j and may send p on its socket keeps.
LEMMA EnviarEn ==
  ASSUME Forma, NEW j \in Interfaces, instancia[j].viva, NEW p \in Procesos,
         NEW n \in Instancia, n.socket = instancia[j].socket,
         n.viva = instancia[j].viva,
         instancia' = [instancia EXCEPT ![j] = n],
         \/ pedidos' = pedidos
         \/ pedidos' = ConMensaje(instancia[j].socket, [pid |-> p]),
         UNCHANGED <<conexionVars, respuestas, lista_instancias_global>>
  PROVE  TiposDeConexion' /\ InstanciasBien' /\ DescriptoresBien'
<1>1. TiposDeConexion
  BY DEF Forma
<1>2. instancia[j].socket \in Fds /\ Listada(j)
  BY DEF Forma, InstanciasBien
<1>3. [pid |-> p] \in Mensaje
  BY DEF Mensaje
<1>4. /\ instancia' \in [Interfaces -> Instancia]
      /\ \A x \in Interfaces : /\ instancia'[x].socket = instancia[x].socket
                               /\ instancia'[x].viva = instancia[x].viva
      /\ \A x \in Interfaces : Listada(x)' = Listada(x)
  BY <1>1 DEF TiposDeConexion, Listada
<1>5. /\ pedidos' \in [Interfaces -> Seq(Mensaje)]
      /\ \A x \in Interfaces :
           \/ pedidos'[x] = pedidos[x]
           \/ /\ descriptor[instancia[j].socket] = x
              /\ proceso_io[x] = "conectado"
  <2>1. CASE pedidos' = pedidos
    BY <1>1, <2>1 DEF TiposDeConexion
  <2>2. CASE pedidos' = ConMensaje(instancia[j].socket, [pid |-> p])
    BY <1>2, <1>3, <2>2, ConMensajeTipo
  <2> QED
    BY <2>1, <2>2
<1>6. TiposDeConexion'
  BY <1>1, <1>4, <1>5 DEF TiposDeConexion, conexionVars
<1>7. InstanciasBien'
  BY <1>4 DEF Forma, InstanciasBien
<1>8. DescriptoresBien'
  <2>1. /\ proceso_io' = proceso_io /\ descriptor' = descriptor
        /\ respuestas' = respuestas
    BY DEF conexionVars
  <2>2. ASSUME NEW x \in Interfaces
        PROVE  \/ \E f \in Fds : /\ descriptor[f] = x
                                 /\ \E y \in Interfaces :
                                      Listada(y) /\ instancia[y].socket = f
               \/ pedidos'[x] = pedidos[x]
    BY <1>2, <1>5
  <2>3. \A x \in Interfaces : proceso_io[x] = "sin conectar" =>
          pedidos'[x] = pedidos[x] /\ respuestas'[x] = respuestas[x]
    BY <1>5, <2>1
  <2> QED
    BY <1>4, <2>1, <2>2, <2>3, MismosDescriptores
<1> QED
  BY <1>6, <1>7, <1>8

\* The instance the end of an I/O has in hand goes on with the next of its
\* queue, or is free.
LEMMA SacarSiguienteTipo ==
  ASSUME Forma, NEW i \in Interfaces, SacarSiguiente(i)
  PROVE  LET j == hilo[i].instancia
             p == Head(instancia[j].cola_de_espera) IN
         /\ j \in Interfaces /\ instancia[j] \in Instancia
         /\ \/ /\ Pasa(i, "liberar") /\ UNCHANGED <<instancia, pedidos>>
            \/ /\ instancia[j].cola_de_espera # <<>> /\ p \in Procesos
               /\ instancia' = [instancia EXCEPT
                                  ![j].cola_de_espera = Tail(@),
                                  ![j].pcb_con_interfaz_asignada = p,
                                  ![j].mochila_destruida = TRUE]
               /\ pedidos' = ConMensaje(instancia[j].socket, [pid |-> p])
               /\ Pasa(i, "a ready")
<1> DEFINE j == hilo[i].instancia
<1>1. j \in Interfaces
  BY DEF Forma, HilosBien, SacarSiguiente, En
<1>2. instancia[j] \in Instancia
  BY <1>1 DEF Forma, TiposDeConexion
<1>3. instancia[j].cola_de_espera \in Seq(Procesos)
  BY <1>2 DEF Instancia
<1>4. instancia[j].cola_de_espera # <<>> => Head(instancia[j].cola_de_espera) \in Procesos
  BY <1>3, SinCabeza
<1> QED
  BY <1>1, <1>2, <1>4 DEF SacarSiguiente, Restantes

LEMMA SacarSiguienteForma ==
  ASSUME Forma, NEW i \in Interfaces, SacarSiguiente(i) PROVE Forma'
<1> DEFINE j == hilo[i].instancia
           p == Head(instancia[j].cola_de_espera)
           n == [instancia[j] EXCEPT !.cola_de_espera = Tail(@),
                                     !.pcb_con_interfaz_asignada = p,
                                     !.mochila_destruida = TRUE]
<1>1. /\ En(i, "siguiente") /\ instancia[j].viva
      /\ j \in Interfaces /\ instancia[j] \in Instancia
      /\ UNCHANGED <<conexionVars, respuestas, lista_instancias_global, estado,
                     despacho, caido>>
  BY SacarSiguienteTipo DEF SacarSiguiente
<1>2. CASE Pasa(i, "liberar") /\ UNCHANGED <<instancia, pedidos>>
  <2>1. ParteFija
    BY <1>1, <1>2 DEF ParteFija, conexionVars
  <2>2. HilosBien' /\ SocketsBien'
    BY <1>1, <1>2, PasaBien DEF En, conexionVars
  <2>3. DespachoBien' /\ TiposDeHilos'
    BY <1>1, <1>2, PasaTipo DEF Forma, DespachoBien, TiposDeHilos
  <2> QED
    BY <2>1, <2>2, <2>3, SinCambiosForma DEF Forma
<1>3. CASE /\ instancia[j].cola_de_espera # <<>> /\ p \in Procesos
           /\ instancia' = [instancia EXCEPT ![j] = n]
           /\ pedidos' = ConMensaje(instancia[j].socket, [pid |-> p])
           /\ Pasa(i, "a ready")
  <2>1. Tail(instancia[j].cola_de_espera) \in Seq(Procesos)
    BY <1>1, <1>3, SinCabeza DEF Instancia
  <2>2. /\ n \in Instancia /\ n.socket = instancia[j].socket
        /\ n.viva = instancia[j].viva
    BY <1>1, <1>3, <2>1 DEF Instancia
  <2> HIDE DEF n, p
  <2>3. TiposDeConexion' /\ InstanciasBien' /\ DescriptoresBien'
    BY <1>1, <1>3, <2>2, EnviarEn
  <2>4. HilosBien'
    BY <1>1, <1>3, PasaTipo DEF Forma, HilosBien, En
  <2>5. SocketsBien'
    <3>1. \A x \in Interfaces : instancia'[x].socket = instancia[x].socket
      BY <1>1, <1>3, <2>2 DEF Forma, TiposDeConexion
    <3> QED
      BY <1>1, <1>3, <3>1, PasaTipo, MismosSockets DEF conexionVars
  <2>6. DespachoBien' /\ TiposDeHilos'
    BY <1>1, <1>3, PasaTipo DEF Forma, DespachoBien, TiposDeHilos
  <2> QED
    BY <2>3, <2>4, <2>5, <2>6 DEF Forma
<1> QED
  <2>1. instancia \in [Interfaces -> Instancia]
    BY DEF Forma, TiposDeConexion
  <2>2. [instancia EXCEPT ![j].cola_de_espera = Tail(@),
                          ![j].pcb_con_interfaz_asignada = p,
                          ![j].mochila_destruida = TRUE]
          = [instancia EXCEPT ![j] = n]
    BY <1>1, <2>1
  <2> HIDE DEF n
  <2> QED
    BY <1>2, <1>3, <2>2, SacarSiguienteTipo

LEMMA LiberarInterfazForma ==
  ASSUME Forma, NEW i \in Interfaces, LiberarInterfaz(i) PROVE Forma'
<1> DEFINE j == hilo[i].instancia
           n == [instancia[j] EXCEPT !.libre = LibreTrasElFin,
                                     !.pcb_con_interfaz_asignada = NULO]
<1>1. /\ hilo[i].pc = "liberar" /\ instancia[j].viva
      /\ instancia' = [instancia EXCEPT ![j].libre = LibreTrasElFin,
                                        ![j].pcb_con_interfaz_asignada = NULO]
      /\ Pasa(i, "a ready")
      /\ UNCHANGED <<conexionVars, pedidos, respuestas, lista_instancias_global,
                     estado, despacho, caido>>
  BY DEF LiberarInterfaz, En
<1>2. /\ j \in Interfaces /\ hilo[i].pid \in Procesos
      /\ instancia \in [Interfaces -> Instancia]
  BY <1>1 DEF Forma, HilosBien, TiposDeConexion
<1>3. instancia' = [instancia EXCEPT ![j] = n]
  BY <1>1, <1>2
<1>4. n \in Instancia /\ n.socket = instancia[j].socket /\ n.viva = instancia[j].viva
  BY <1>2 DEF Instancia, LibreTrasElFin
<1> HIDE DEF n
<1>5. TiposDeConexion' /\ InstanciasBien' /\ DescriptoresBien'
  BY <1>1, <1>2, <1>3, <1>4, EnviarEn
<1>6. HilosBien'
  BY <1>1, PasaTipo DEF Forma, HilosBien
<1>7. SocketsBien'
  <2>1. \A x \in Interfaces : instancia'[x].socket = instancia[x].socket
    BY <1>2, <1>3, <1>4
  <2> QED
    BY <1>1, <2>1, PasaTipo, MismosSockets DEF conexionVars
<1>8. DespachoBien' /\ TiposDeHilos'
  BY <1>1, PasaTipo DEF Forma, DespachoBien, TiposDeHilos
<1> QED
  BY <1>5, <1>6, <1>7, <1>8 DEF Forma

\* What a step keeps that closes one descriptor: no run gets a message, and
\* the instances with the others stay.
LEMMA CerrarUno ==
  ASSUME Forma, NEW f, descriptor' = [descriptor EXCEPT ![f] = NULO],
         UNCHANGED <<proceso_io, pedidos, respuestas>>,
         \A j \in Interfaces : Listada(j) /\ instancia[j].socket # f =>
           Listada(j)' /\ instancia'[j].socket = instancia[j].socket
  PROVE  /\ DescriptoresBien' /\ descriptor' \in [Fds -> Interfaces \union {NULO}]
         /\ \A j \in Interfaces, g \in Fds : descriptor'[g] = j => descriptor[g] = j
<1>1. descriptor \in [Fds -> Interfaces \union {NULO}]
  BY DEF Forma, TiposDeConexion
<1>2. \A g \in Fds : /\ g # f => descriptor'[g] = descriptor[g]
                     /\ g = f => descriptor'[g] = NULO
  BY <1>1
<1>3. ASSUME NEW i \in Interfaces
      PROVE  /\ \A g, h \in Fds : descriptor'[g] = i /\ descriptor'[h] = i => g = h
             /\ proceso_io[i] = "sin conectar" =>
                  /\ pedidos[i] = <<>> /\ respuestas[i] = <<>>
                  /\ \A g \in Fds : descriptor'[g] # i
             /\ \A g \in Fds :
                  /\ descriptor'[g] = i
                  /\ \/ \E k \in DOMAIN pedidos[i] : pedidos[i][k] # NOMBRE
                     \/ \E k \in DOMAIN respuestas[i] : respuestas[i][k] \in Fin
                  => \E x \in Interfaces :
                       Listada(x)' /\ instancia'[x].socket = g
  <2>1. \A g \in Fds : descriptor'[g] = i => g # f /\ descriptor[g] = i
    BY <1>2, NulosAparte
  <2>2. /\ \A g, h \in Fds : descriptor[g] = i /\ descriptor[h] = i => g = h
        /\ proceso_io[i] = "sin conectar" =>
             /\ pedidos[i] = <<>> /\ respuestas[i] = <<>>
             /\ \A g \in Fds : descriptor[g] # i
        /\ \A g \in Fds :
             /\ descriptor[g] = i
             /\ \/ \E k \in DOMAIN pedidos[i] : pedidos[i][k] # NOMBRE
                \/ \E k \in DOMAIN respuestas[i] : respuestas[i][k] \in Fin
             => \E x \in Interfaces : Listada(x) /\ instancia[x].socket = g
    BY DEF Forma, DescriptoresBien
  <2>3. ASSUME NEW g \in Fds, descriptor'[g] = i,
               \/ \E k \in DOMAIN pedidos[i] : pedidos[i][k] # NOMBRE
               \/ \E k \in DOMAIN respuestas[i] : respuestas[i][k] \in Fin
        PROVE  \E x \in Interfaces : Listada(x)' /\ instancia'[x].socket = g
    <3>1. \E x \in Interfaces : Listada(x) /\ instancia[x].socket = g /\ g # f
      BY <2>1, <2>2, <2>3
    <3> QED
      BY <3>1
  <2> QED
    BY <2>1, <2>2, <2>3
<1>4. DescriptoresBien'
  BY <1>3 DEF DescriptoresBien, Fin, NOMBRE
<1> QED
  BY <1>1, <1>2, <1>4, NulosAparte

LEMMA LeerFinDeSocketForma ==
  ASSUME Forma, NEW i \in Interfaces, LeerFinDeSocket(i) PROVE Forma'
<1>1. /\ hilo[i].pc = "reposo" /\ Pasa(i, "desconexion")
      /\ descriptor' = [descriptor EXCEPT ![hilo[i].socket] = NULO]
      /\ UNCHANGED <<proceso_io, pedidos, respuestas, lista_instancias_global,
                     instancia, estado, despacho, caido>>
  BY DEF LeerFinDeSocket, En, listaVars
<1>2. /\ DescriptoresBien'
      /\ \A j \in Interfaces, g \in Fds : descriptor'[g] = j => descriptor[g] = j
  <2>1. \A j \in Interfaces : Listada(j)' = Listada(j)
    BY <1>1 DEF Listada
  <2> QED
    BY <1>1, <2>1, CerrarUno
<1>3. HilosBien' /\ SocketsBien'
  BY <1>1, <1>2, PasaBien
<1>4. DespachoBien' /\ InstanciasBien' /\ TiposDeConexion' /\ TiposDeHilos'
  BY <1>1, PasaTipo
  DEF Forma, DespachoBien, InstanciasBien, TiposDeConexion, TiposDeHilos, Listada
<1> QED
  BY <1>2, <1>3, <1>4 DEF Forma

LEMMA BuscarLaPropiaForma ==
  ASSUME Forma, NEW i \in Interfaces, BuscarLaPropia(i)
  PROVE  /\ Forma' /\ hilo'[i].pc = "eliminar"
         /\ \A j \in Interfaces \ {i} : hilo'[j] = hilo[j]
<1> DEFINE x == obtener_instancia_por_socket(hilo[i].socket)
<1>1. /\ hilo[i].pc = "desconexion"
      /\ hilo' = [hilo EXCEPT ![i].pc = "eliminar", ![i].instancia = x]
      /\ ParteFija /\ UNCHANGED <<estado, despacho, caido>>
  BY DEF BuscarLaPropia, En, ParteFija, conexionVars, listaVars
<1>2. x \in Interfaces \union {NULO}
  BY PrimeraTipo, NulosAparte
  DEF obtener_instancia_por_socket, Forma, TiposDeConexion
<1> HIDE DEF x
<1>3. /\ hilo' \in [Interfaces -> Hilo]
      /\ hilo'[i].pc = "eliminar" /\ hilo'[i].socket = hilo[i].socket
      /\ \A j \in Interfaces \ {i} : hilo'[j] = hilo[j]
  <2>1. /\ hilo \in [Interfaces -> Hilo]
        /\ hilo' = [hilo EXCEPT ![i] = [@ EXCEPT !.pc = "eliminar",
                                                 !.instancia = x]]
    BY <1>1 DEF Forma, TiposDeHilos
  <2>2. ASSUME NEW h \in Hilo
        PROVE  LET n == [h EXCEPT !.pc = "eliminar", !.instancia = x]
               IN  n \in Hilo /\ n.pc = "eliminar" /\ n.socket = h.socket
    BY <1>2 DEF Hilo
  <2> QED
    BY <2>1, <2>2
<1>4. TiposDeConexion' /\ InstanciasBien' /\ DescriptoresBien'
  BY <1>1, SinCambiosForma
<1>5. HilosBien' /\ DespachoBien' /\ TiposDeHilos'
  BY <1>1, <1>3 DEF Forma, HilosBien, DespachoBien, TiposDeHilos
<1>6. SocketsBien'
  BY <1>1, <1>3, MismosSockets DEF ParteFija
<1> QED
  BY <1>3, <1>4, <1>5, <1>6 DEF Forma

LEMMA EliminarInterfazForma ==
  ASSUME Forma, NEW i \in Interfaces, EliminarInterfaz(i)
  PROVE  /\ Forma' /\ hilo'[i].pc = "terminado"
         /\ \A j \in Interfaces \ {i} : hilo'[j] = hilo[j]
<1> DEFINE j == Victima(i)
           f == instancia[j].socket
           C == {x \in Interfaces : nombre[x] = nombre[hilo[i].instancia]}
<1>1. /\ hilo[i].pc = "eliminar"
      /\ hilo[i].instancia # NULO /\ instancia[hilo[i].instancia].viva
      /\ descriptor' = [descriptor EXCEPT ![f] = NULO]
      /\ lista_instancias_global' = ListaSin(j)
      /\ instancia' = [instancia EXCEPT ![j] = SinInstancia]
      /\ hilo' = [hilo EXCEPT ![i].pc = "terminado", ![i].instancia = NULO]
      /\ UNCHANGED <<proceso_io, pedidos, respuestas, estado, despacho, caido>>
  BY DEF EliminarInterfaz, En
<1>2. TiposDeConexion /\ TiposDeHilos
  BY DEF Forma
<1>3. j \in Interfaces /\ Listada(j)
  <2>1. hilo[i].instancia \in Interfaces
    BY <1>1, <1>2 DEF TiposDeHilos, Hilo
  <2>2. hilo[i].instancia \in C /\ Listada(hilo[i].instancia)
    BY <1>1, <2>1 DEF Forma, InstanciasBien
  <2>3. j = Primera(C)
    BY DEF Victima, obtener_instancia_por_nombre
  <2> HIDE DEF C
  <2> QED
    BY <1>2, <2>2, <2>3, PrimeraTipo, NulosAparte DEF TiposDeConexion
<1> HIDE DEF j, C
<1>4. /\ lista_instancias_global' \in Seq(Interfaces)
      /\ \A x \in Interfaces \ {j} : Listada(x) => Listada(x)'
  <2>1. lista_instancias_global \in Seq(Interfaces)
    BY <1>2 DEF TiposDeConexion
  <2>2. \A x \in Interfaces \ {j} : Listada(x) =>
          \E k \in DOMAIN ListaSin(j) : ListaSin(j)[k] = x
    BY <1>3, <2>1, ListaSinTipo
  <2> QED
    BY <1>1, <1>3, <2>1, <2>2, ListaSinTipo DEF Listada
<1>5. /\ instancia' \in [Interfaces -> Instancia]
      /\ \A x \in Interfaces \ {j} : instancia'[x] = instancia[x]
      /\ instancia'[j].viva = FALSE /\ instancia'[j].socket = 0
      /\ instancia'[j].cola_de_espera = <<>>
  BY <1>1, <1>2, <1>3, EmptySeq DEF TiposDeConexion, SinInstancia, Instancia
<1>6. /\ DescriptoresBien' /\ descriptor' \in [Fds -> Interfaces \union {NULO}]
      /\ \A x \in Interfaces, g \in Fds : descriptor'[g] = x => descriptor[g] = x
  BY <1>1, <1>4, <1>5, CerrarUno
<1>7. /\ hilo' \in [Interfaces -> Hilo]
      /\ hilo'[i].pc = "terminado" /\ hilo'[i].socket = hilo[i].socket
      /\ \A x \in Interfaces \ {i} : hilo'[x] = hilo[x]
  <2>1. /\ hilo \in [Interfaces -> Hilo]
        /\ hilo' = [hilo EXCEPT ![i] = [@ EXCEPT !.pc = "terminado",
                                                 !.instancia = NULO]]
    BY <1>1, <1>2 DEF TiposDeHilos
  <2>2. ASSUME NEW h \in Hilo
        PROVE  LET n == [h EXCEPT !.pc = "terminado", !.instancia = NULO]
               IN  n \in Hilo /\ n.pc = "terminado" /\ n.socket = h.socket
    BY DEF Hilo
  <2> QED
    BY <2>1, <2>2
<1>8. TiposDeConexion' /\ TiposDeHilos'
  BY <1>1, <1>2, <1>4, <1>5, <1>6, <1>7 DEF TiposDeConexion, TiposDeHilos
<1>9. HilosBien' /\ DespachoBien'
  BY <1>1, <1>7 DEF Forma, HilosBien, DespachoBien
<1>10. InstanciasBien'
  BY <1>4, <1>5 DEF Forma, InstanciasBien
<1>11. SocketsBien'
  <2>1. \A x \in Interfaces : /\ hilo'[x].socket = hilo[x].socket
                              /\ instancia'[x].socket \in {0, instancia[x].socket}
    BY <1>5, <1>7
  <2> QED
    BY <1>1, <1>6, <2>1, MismosSockets
<1> QED
  BY <1>6, <1>7, <1>8, <1>9, <1>10, <1>11 DEF Forma

LEMMA EliminarDeListaVaciaForma ==
  ASSUME Forma, NEW i \in Interfaces, EliminarDeListaVacia(i) PROVE Forma'
<1>1. /\ hilo[i].pc = "eliminar" /\ Pasa(i, "terminado")
      /\ ParteFija /\ UNCHANGED <<estado, despacho, caido>>
  BY DEF EliminarDeListaVacia, En, ParteFija, conexionVars, listaVars
<1>2. HilosBien' /\ SocketsBien'
  BY <1>1, PasaBien DEF ParteFija
<1>3. DespachoBien' /\ TiposDeHilos'
  BY <1>1, PasaTipo DEF Forma, DespachoBien, TiposDeHilos
<1> QED
  BY <1>1, <1>2, <1>3, SinCambiosForma DEF Forma

LEMMA PedirForma ==
  ASSUME Forma, NEW p \in Procesos, NEW n \in Nombres, Pedir(p, n) PROVE Forma'
<1> DEFINE j == obtener_instancia_por_nombre(n)
<1>1. /\ estado' = [estado EXCEPT ![p] = "exec"] /\ j # NULO
      /\ despacho' = [pc |-> "validar", pid |-> p, instancia |-> j]
      /\ ParteFija /\ UNCHANGED <<hilo, caido>>
  BY DEF Pedir, ParteFija, conexionVars, listaVars
<1>2. j \in Interfaces
  BY <1>1, PrimeraTipo, NulosAparte
  DEF obtener_instancia_por_nombre, Forma, TiposDeConexion
<1> HIDE DEF j
<1>3. HilosBien' /\ DespachoBien' /\ SocketsBien'
  BY <1>1, <1>2 DEF Forma, HilosBien, DespachoBien, SocketsBien, ParteFija
<1>4. estado' \in [Procesos -> {"ready", "exec", "blocked", "en mano", "exit"}]
  BY <1>1 DEF Forma, TiposDeHilos
<1>5. TiposDeHilos'
  BY <1>1, <1>2, <1>4 DEF Forma, TiposDeHilos
<1> QED
  BY <1>1, <1>3, <1>5, SinCambiosForma DEF Forma

LEMMA ValidarForma == ASSUME Forma, Validar PROVE Forma'
<1>1. /\ despacho.pc = "validar"
      /\ \E pc \in {"asignar", "encolar"} : despacho' = [despacho EXCEPT !.pc = pc]
      /\ ParteFija /\ UNCHANGED <<estado, hilo, caido>>
  BY DEF Validar, ParteFija, conexionVars, listaVars
<1>2. HilosBien' /\ SocketsBien'
  BY <1>1 DEF Forma, HilosBien, SocketsBien, ParteFija
<1>3. DespachoBien' /\ TiposDeHilos'
  BY <1>1 DEF Forma, DespachoBien, TiposDeHilos
<1> QED
  BY <1>1, <1>2, <1>3, SinCambiosForma DEF Forma

\* The dispatch thread gives the instance it validated to the process it has
\* in hand, or queues it there.
LEMMA AsignarOEncolarForma ==
  ASSUME Forma, AsignarInterfaz \/ EncolarEnInterfaz PROVE Forma'
<1> DEFINE j == despacho.instancia
           p == despacho.pid
<1>1. /\ j \in Interfaces /\ p \in Procesos /\ instancia[j].viva
      /\ estado' = [estado EXCEPT ![p] = "blocked"]
      /\ despacho' = Reposo
      /\ UNCHANGED <<conexionVars, respuestas, lista_instancias_global, hilo,
                     caido>>
  BY DEF AsignarInterfaz, EncolarEnInterfaz, Bloquea, Forma, DespachoBien
<1>2. instancia \in [Interfaces -> Instancia] /\ instancia[j] \in Instancia
  BY <1>1 DEF Forma, TiposDeConexion
<1>3. PICK n \in Instancia :
        /\ n.socket = instancia[j].socket /\ n.viva = instancia[j].viva
        /\ instancia' = [instancia EXCEPT ![j] = n]
        /\ \/ pedidos' = pedidos
           \/ pedidos' = ConMensaje(instancia[j].socket, [pid |-> p])
  <2>1. CASE AsignarInterfaz
    <3> DEFINE n == [instancia[j] EXCEPT !.pcb_con_interfaz_asignada = p,
                                         !.mochila_destruida = FALSE,
                                         !.libre = Ocupada]
    <3>1. /\ instancia' = [instancia EXCEPT ![j] = n]
          /\ pedidos' = ConMensaje(instancia[j].socket, [pid |-> p])
      BY <1>1, <1>2, <2>1 DEF AsignarInterfaz
    <3>2. /\ n \in Instancia /\ n.socket = instancia[j].socket
          /\ n.viva = instancia[j].viva
      BY <1>1, <1>2 DEF Instancia, Ocupada
    <3> QED
      BY <3>1, <3>2
  <2>2. CASE EncolarEnInterfaz
    <3> DEFINE n == [instancia[j] EXCEPT !.cola_de_espera = Append(@, p)]
    <3>1. instancia' = [instancia EXCEPT ![j] = n] /\ pedidos' = pedidos
      BY <1>1, <1>2, <2>2 DEF EncolarEnInterfaz
    <3>2. Append(instancia[j].cola_de_espera, p) \in Seq(Procesos)
      BY <1>1, <1>2, Agregar DEF Instancia
    <3>3. /\ n \in Instancia /\ n.socket = instancia[j].socket
          /\ n.viva = instancia[j].viva
      BY <1>2, <3>2 DEF Instancia
    <3> QED
      BY <3>1, <3>3
  <2> QED
    BY <2>1, <2>2
<1> HIDE DEF j, p
<1>4. TiposDeConexion' /\ InstanciasBien' /\ DescriptoresBien'
  BY <1>1, <1>3, EnviarEn
<1>5. \A x \in Interfaces : instancia'[x].socket = instancia[x].socket
  BY <1>1, <1>2, <1>3
<1>6. SocketsBien'
  BY <1>1, <1>5, MismosSockets DEF conexionVars
<1>7. estado' \in [Procesos -> {"ready", "exec", "blocked", "en mano", "exit"}]
  BY <1>1 DEF Forma, TiposDeHilos
<1>8. HilosBien' /\ DespachoBien' /\ TiposDeHilos'
  BY <1>1, <1>7 DEF Forma, HilosBien, DespachoBien, TiposDeHilos, Reposo,
                    conexionVars
<1> QED
  BY <1>4, <1>6, <1>8 DEF Forma

LEMMA HiloDeConexionForma ==
  ASSUME Forma, NEW i \in Interfaces, HiloDeConexion(i) PROVE Forma'
<1>1. CASE BuscarYRemover(i) \/ FinConError(i) \/ AgregarAReady(i)
  BY <1>1, MoverProcesoForma
<1>2. CASE AgregarInstancia(i) \/ RecibirFin(i)
  BY <1>2, AgregarInstanciaForma, RecibirFinForma
<1>3. CASE SacarSiguiente(i) \/ LiberarInterfaz(i)
  BY <1>3, SacarSiguienteForma, LiberarInterfazForma
<1>4. CASE \/ LeerFinDeSocket(i) \/ BuscarLaPropia(i)
           \/ EliminarInterfaz(i) \/ EliminarDeListaVacia(i)
  BY <1>4, LeerFinDeSocketForma, BuscarLaPropiaForma, EliminarInterfazForma,
     EliminarDeListaVaciaForma
<1>5. CASE UsarLiberada(i) \/ EliminarDosVeces(i) \/ EliminarNula(i)
  BY <1>5, MuereForma DEF UsarLiberada, EliminarDosVeces, EliminarNula
<1> QED
  BY <1>1, <1>2, <1>3, <1>4, <1>5 DEF HiloDeConexion

LEMMA HiloDespachoForma == ASSUME Forma, HiloDespacho PROVE Forma'
  BY ValidarForma, AsignarOEncolarForma, MuereForma
  DEF HiloDespacho, DespacharLiberada

LEMMA NextForma == ASSUME Forma, [Next]_vars PROVE Forma'
<1>1. ASSUME NEW i \in Interfaces,
             Conectar(i) \/ Morir(i) \/ EntradaSalida(i) \/ HiloDeConexion(i)
      PROVE  Forma'
  BY <1>1, ConectarForma, MorirForma, EntradaSalidaForma, HiloDeConexionForma
<1>2. CASE UNCHANGED vars
  <2>1. ParteFija /\ UNCHANGED <<estado, hilo, despacho, caido>>
    BY <1>2 DEF vars, conexionVars, listaVars, ParteFija
  <2> QED
    BY <2>1, SinCambiosForma
    DEF Forma, TiposDeHilos, HilosBien, DespachoBien, SocketsBien, ParteFija
<1> QED
  BY <1>1, <1>2, PedirForma, HiloDespachoForma DEF Next

\* What the kernel keeps of its connections, of the instances and of who has
\* them in hand is always of its type, whatever fails.
THEOREM InterfacesTipos == Spec => []InterfacesTypeOK
<1>1. Init => Forma
  BY InitForma
<1>2. Forma /\ [Next]_vars => Forma'
  BY NextForma
<1>3. Forma => InterfacesTypeOK
  BY EnPartes DEF Forma
<1> QED
  BY <1>1, <1>2, <1>3, PTL DEF Spec

-----------------------------------------------------------------------------
(* The token of a process *)

\* How far a step moves the elements of queue x, of kind L, to the head
Corre(t, i, L, x) == IF t = L /\ i = x THEN 1 ELSE 0

\* A step leaves the token of p where it is in its queue, or takes it out.
Sigue(L, x, p) ==
  /\ estado[p] = "blocked" => estado'[p] = "blocked"
  /\ \A i \in Interfaces, k \in Nat :
       /\ Pedido(i, k, p)' => Pedido(i, k + Corre("pedido", i, L, x), p)
       /\ Respuesta(i, k, p)' => Respuesta(i, k + Corre("respuesta", i, L, x), p)
       /\ Espera(i, k, p)' => Espera(i, k + Corre("cola", i, L, x), p)
  /\ \A i \in Interfaces : EnHilo(i, p)' => EnHilo(i, p)

\* The token of q is nowhere after a step but in that place.
Llega(q, t0, i0, k0) ==
  \A t \in Lugares, i \in Interfaces, k \in Nat :
    Ficha(t, i, k, q)' =>
      t = t0 /\ i = i0 /\ k = k0 /\ estado'[q] = "blocked"

\* A step that takes nobody's token to another place, but that of q, which
\* ends up in one place at most.
LEMMA Trasladar ==
  ASSUME UnaFicha, FichaBloqueada,
         NEW L, L # "hilo", NEW x, NEW q, NEW t0, NEW i0, NEW k0,
         \A p \in Procesos \ {q} : Sigue(L, x, p),
         q \in Procesos => Llega(q, t0, i0, k0)
  PROVE  UnaFicha' /\ FichaBloqueada'
<1>1. ASSUME NEW p \in Procesos \ {q}, NEW t \in Lugares, NEW i \in Interfaces,
             NEW k \in Nat, Ficha(t, i, k, p)'
      PROVE  Ficha(t, i, k + Corre(t, i, L, x), p) /\ estado'[p] = "blocked"
  <2>1. CASE t = "pedido"
    <3>1. Pedido(i, k, p)'
      BY <1>1, <2>1 DEF Ficha
    <3>2. Ficha(t, i, k + Corre(t, i, L, x), p)
      BY <2>1, <3>1 DEF Ficha, Sigue
    <3> QED
      BY <3>2 DEF FichaBloqueada, Corre, Sigue
  <2>2. CASE t = "respuesta"
    <3>1. Respuesta(i, k, p)'
      BY <1>1, <2>2 DEF Ficha
    <3>2. Ficha(t, i, k + Corre(t, i, L, x), p)
      BY <2>2, <3>1 DEF Ficha, Sigue
    <3> QED
      BY <3>2 DEF FichaBloqueada, Corre, Sigue
  <2>3. CASE t = "cola"
    <3>1. Espera(i, k, p)'
      BY <1>1, <2>3 DEF Ficha
    <3>2. Ficha(t, i, k + Corre(t, i, L, x), p)
      BY <2>3, <3>1 DEF Ficha, Sigue
    <3> QED
      BY <3>2 DEF FichaBloqueada, Corre, Sigue
  <2>4. CASE t = "hilo"
    <3>1. k = 0 /\ EnHilo(i, p)'
      BY <1>1, <2>4 DEF Ficha
    <3>2. Ficha(t, i, k + Corre(t, i, L, x), p)
      BY <2>4, <3>1 DEF Ficha, Corre, Sigue
    <3> QED
      BY <3>2 DEF FichaBloqueada, Corre, Sigue
  <2> QED
    BY <2>1, <2>2, <2>3, <2>4 DEF Lugares
<1>2. FichaBloqueada'
  BY <1>1 DEF FichaBloqueada, Llega, Lugares
<1>3. UnaFicha'
  <2> SUFFICES ASSUME NEW p \in Procesos, NEW t \in Lugares, NEW u \in Lugares,
                      NEW i \in Interfaces, NEW j \in Interfaces,
                      NEW k \in Nat, NEW l \in Nat,
                      Ficha(t, i, k, p)', Ficha(u, j, l, p)'
               PROVE  t = u /\ i = j /\ k = l
    BY DEF UnaFicha, Lugares
  <2>1. CASE p = q
    BY <2>1 DEF Llega
  <2>2. CASE p # q
    <3> DEFINE m == k + Corre(t, i, L, x)
               n == l + Corre(u, j, L, x)
    <3>1. Ficha(t, i, m, p) /\ Ficha(u, j, n, p) /\ m \in Nat /\ n \in Nat
      BY <1>1, <2>2 DEF Corre
    <3> HIDE DEF m, n
    <3>2. t = u /\ i = j /\ m = n
      BY <3>1 DEF UnaFicha
    <3> USE DEF m, n
    <3> QED
      BY <3>2 DEF Corre
  <2> QED
    BY <2>1, <2>2
<1> QED
  BY <1>2, <1>3

\* A process without a token now has none, and one with a token has one place.
LEMMA FichaDe ==
  ASSUME UnaFicha, FichaBloqueada, NEW q \in Procesos
  PROVE  /\ \A i, j \in Interfaces, k, l \in Nat :
              /\ ~(Pedido(i, k, q) /\ Respuesta(j, l, q))
              /\ ~(Pedido(i, k, q) /\ EnHilo(j, q))
              /\ ~(Pedido(i, k, q) /\ Espera(j, l, q))
              /\ ~(Respuesta(i, k, q) /\ EnHilo(j, q))
              /\ ~(Respuesta(i, k, q) /\ Espera(j, l, q))
              /\ ~(EnHilo(i, q) /\ Espera(j, l, q))
              /\ Pedido(i, k, q) /\ Pedido(j, l, q) => i = j /\ k = l
              /\ Respuesta(i, k, q) /\ Respuesta(j, l, q) => i = j /\ k = l
              /\ Espera(i, k, q) /\ Espera(j, l, q) => i = j /\ k = l
              /\ EnHilo(i, q) /\ EnHilo(j, q) => i = j
         /\ estado[q] # "blocked" =>
              \A i \in Interfaces :
                /\ ~EnHilo(i, q)
                /\ \A k \in Nat :
                     ~Pedido(i, k, q) /\ ~Respuesta(i, k, q) /\ ~Espera(i, k, q)
<1>1. \A i \in Interfaces, k \in Nat :
        /\ Pedido(i, k, q) => Ficha("pedido", i, k, q)
        /\ Respuesta(i, k, q) => Ficha("respuesta", i, k, q)
        /\ EnHilo(i, q) => Ficha("hilo", i, 0, q)
        /\ Espera(i, k, q) => Ficha("cola", i, k, q)
  BY DEF Ficha
<1>2. /\ \A t, u \in Lugares, i, j \in Interfaces, k, l \in Nat :
           Ficha(t, i, k, q) /\ Ficha(u, j, l, q) => t = u /\ i = j /\ k = l
      /\ \A t \in Lugares, i \in Interfaces, k \in Nat :
           Ficha(t, i, k, q) => estado[q] = "blocked"
  BY DEF UnaFicha, FichaBloqueada
<1>3. {"pedido", "respuesta", "hilo", "cola"} \subseteq Lugares /\ 0 \in Nat
  BY DEF Lugares
<1>4. ASSUME NEW i \in Interfaces, NEW j \in Interfaces, NEW k \in Nat,
             NEW l \in Nat
      PROVE  /\ ~(Pedido(i, k, q) /\ Respuesta(j, l, q))
             /\ ~(Pedido(i, k, q) /\ EnHilo(j, q))
             /\ ~(Pedido(i, k, q) /\ Espera(j, l, q))
             /\ ~(Respuesta(i, k, q) /\ EnHilo(j, q))
             /\ ~(Respuesta(i, k, q) /\ Espera(j, l, q))
             /\ ~(EnHilo(i, q) /\ Espera(j, l, q))
  BY <1>1, <1>2, <1>3
<1>5. ASSUME NEW i \in Interfaces, NEW j \in Interfaces, NEW k \in Nat,
             NEW l \in Nat
      PROVE  /\ Pedido(i, k, q) /\ Pedido(j, l, q) => i = j /\ k = l
             /\ Respuesta(i, k, q) /\ Respuesta(j, l, q) => i = j /\ k = l
             /\ Espera(i, k, q) /\ Espera(j, l, q) => i = j /\ k = l
             /\ EnHilo(i, q) /\ EnHilo(j, q) => i = j
  BY <1>1, <1>2, <1>3
<1> QED
  BY <1>1, <1>2, <1>3, <1>4, <1>5

\* What a step keeps of who is between lists, and of who is in EXEC.
LEMMA MismaMano ==
  ASSUME EnManoBien,
         \A i \in Interfaces : EnMano(i)' =>
           /\ EnMano(i) /\ hilo'[i].pid = hilo[i].pid
           /\ estado'[hilo[i].pid] = "en mano"
  PROVE  EnManoBien'
  BY DEF EnManoBien

LEMMA MismaEjecucion ==
  ASSUME EnExec, despacho' = despacho,
         estado[despacho.pid] = "exec" => estado'[despacho.pid] = "exec"
  PROVE  EnExec'
  BY DEF EnExec

LEMMA SinTraslado ==
  ASSUME UnaFicha, FichaBloqueada, NEW L, L # "hilo", NEW x,
         \A p \in Procesos : Sigue(L, x, p)
  PROVE  UnaFicha' /\ FichaBloqueada'
<1>1. NULO \notin Procesos /\ Procesos \ {NULO} = Procesos
  BY NulosAparte
<1> QED
  BY <1>1, Trasladar

\* A step that puts no token in another place.
LEMMA Quietas ==
  ASSUME UnaFicha, FichaBloqueada, UNCHANGED <<pedidos, respuestas>>,
         \A p \in Procesos :
           /\ estado[p] = "blocked" => estado'[p] = "blocked"
           /\ \A i \in Interfaces, k \in Nat : Espera(i, k, p)' => Espera(i, k, p)
           /\ \A i \in Interfaces : EnHilo(i, p)' => EnHilo(i, p)
  PROVE  UnaFicha' /\ FichaBloqueada'
<1>1. \A t \in Lugares, i \in Interfaces, k \in Nat :
        k + Corre(t, i, "ninguna", NULO) = k
  BY DEF Corre, Lugares
<1>2. ASSUME NEW p \in Procesos, NEW i \in Interfaces, NEW k \in Nat
      PROVE  /\ Pedido(i, k, p)' => Pedido(i, k + Corre("pedido", i, "ninguna", NULO), p)
             /\ Respuesta(i, k, p)' =>
                  Respuesta(i, k + Corre("respuesta", i, "ninguna", NULO), p)
             /\ Espera(i, k, p)' => Espera(i, k + Corre("cola", i, "ninguna", NULO), p)
  <2>1. /\ Pedido(i, k, p)' => Pedido(i, k, p)
        /\ Respuesta(i, k, p)' => Respuesta(i, k, p)
    BY DEF Pedido, Respuesta, Fin
  <2> QED
    BY <1>1, <2>1 DEF Lugares
<1>3. \A p \in Procesos : Sigue("ninguna", NULO, p)
  BY <1>2 DEF Sigue
<1> QED
  BY <1>3, SinTraslado

\* What a step keeps whose threads hold on to what they have, or let it go.
LEMMA QuietosLosHilos ==
  ASSUME Forma, Fichas, UNCHANGED <<estado, despacho>>,
         \A i \in Interfaces : \/ hilo'[i] = hilo[i]
                               \/ ~EnMano(i)' /\ \A p \in Procesos : ~EnHilo(i, p)'
  PROVE  /\ EnManoBien' /\ EnExec'
         /\ \A p \in Procesos :
              /\ estado[p] = "blocked" => estado'[p] = "blocked"
              /\ \A i \in Interfaces : EnHilo(i, p)' => EnHilo(i, p)
<1>1. EnExec'
  BY MismaEjecucion DEF Fichas
<1>2. EnManoBien'
  BY MismaMano DEF Fichas, EnMano, EnManoBien
<1>3. \A p \in Procesos, i \in Interfaces : EnHilo(i, p)' => EnHilo(i, p)
  BY DEF EnHilo
<1> QED
  BY <1>1, <1>2, <1>3

LEMMA ConectarFichas ==
  ASSUME Forma, Fichas, NEW i \in Interfaces, Conectar(i) PROVE Fichas'
<1>1. /\ proceso_io[i] = "sin conectar"
      /\ pedidos' = [pedidos EXCEPT ![i] = Append(@, NOMBRE)]
      /\ UNCHANGED <<respuestas, instancia, estado, despacho>>
      /\ \E f : hilo' = [hilo EXCEPT ![i].pc = "reposo", ![i].socket = f]
  BY DEF Conectar, listaVars
<1>2. TiposDeConexion /\ TiposDeHilos
  BY DEF Forma
<1>3. hilo'[i].pc = "reposo" /\ \A j \in Interfaces \ {i} : hilo'[j] = hilo[j]
  BY <1>1, <1>2 DEF TiposDeHilos, Hilo
<1>4. /\ EnManoBien' /\ EnExec'
      /\ \A p \in Procesos :
           /\ estado[p] = "blocked" => estado'[p] = "blocked"
           /\ \A j \in Interfaces : EnHilo(j, p)' => EnHilo(j, p)
  <2>1. ~EnMano(i)' /\ \A p \in Procesos : ~EnHilo(i, p)'
    BY <1>3 DEF EnMano, EnHilo
  <2> QED
    BY <1>1, <1>3, <2>1, QuietosLosHilos
<1>5. ASSUME NEW p \in Procesos, NEW j \in Interfaces, NEW k \in Nat
      PROVE  /\ Pedido(j, k, p)' => Pedido(j, k + Corre("pedido", j, "ninguna", NULO), p)
             /\ Respuesta(j, k, p)' =>
                  Respuesta(j, k + Corre("respuesta", j, "ninguna", NULO), p)
             /\ Espera(j, k, p)' => Espera(j, k + Corre("cola", j, "ninguna", NULO), p)
  <2>1. \A t \in Lugares : k + Corre(t, j, "ninguna", NULO) = k
    BY DEF Corre, Lugares
  <2>2. /\ Respuesta(j, k, p)' => Respuesta(j, k, p)
        /\ Espera(j, k, p)' => Espera(j, k, p)
    BY <1>1 DEF Respuesta, Espera, Fin
  <2>3. Pedido(j, k, p)' => Pedido(j, k, p)
    <3>1. CASE j = i
      <4>1. pedidos[i] \in Seq(Mensaje) /\ NOMBRE \in Mensaje
        BY <1>2 DEF TiposDeConexion, Mensaje
      <4>2. pedidos'[i] = Append(pedidos[i], NOMBRE)
        BY <1>1, <1>2 DEF TiposDeConexion
      <4>3. \A n \in DOMAIN pedidos'[i] :
              \/ n \in DOMAIN pedidos[i] /\ pedidos'[i][n] = pedidos[i][n]
              \/ pedidos'[i][n] = NOMBRE
        BY <4>1, <4>2, Agregar
      <4>4. NOMBRE # [pid |-> p]
        BY DEF NOMBRE
      <4> QED
        BY <3>1, <4>3, <4>4 DEF Pedido
    <3>2. CASE j # i
      <4>1. pedidos'[j] = pedidos[j]
        BY <1>1, <1>2, <3>2 DEF TiposDeConexion
      <4> QED
        BY <4>1 DEF Pedido
    <3> QED
      BY <3>1, <3>2
  <2> QED
    BY <2>1, <2>2, <2>3 DEF Lugares
<1>6. UnaFicha' /\ FichaBloqueada'
  <2>1. \A p \in Procesos : Sigue("ninguna", NULO, p)
    BY <1>4, <1>5 DEF Sigue
  <2> QED
    BY <2>1, SinTraslado DEF Fichas
<1> QED
  BY <1>4, <1>6 DEF Fichas

LEMMA MorirFichas ==
  ASSUME Forma, Fichas, NEW i \in Interfaces, Morir(i) PROVE Fichas'
<1>1. /\ pedidos' = [pedidos EXCEPT ![i] = <<>>]
      /\ UNCHANGED <<respuestas, instancia, estado, despacho, hilo>>
  BY DEF Morir, listaVars
<1>2. /\ EnManoBien' /\ EnExec'
      /\ \A p \in Procesos :
           /\ estado[p] = "blocked" => estado'[p] = "blocked"
           /\ \A j \in Interfaces : EnHilo(j, p)' => EnHilo(j, p)
  BY <1>1, QuietosLosHilos
<1>3. ASSUME NEW p \in Procesos, NEW j \in Interfaces, NEW k \in Nat
      PROVE  /\ Pedido(j, k, p)' => Pedido(j, k + Corre("pedido", j, "ninguna", NULO), p)
             /\ Respuesta(j, k, p)' =>
                  Respuesta(j, k + Corre("respuesta", j, "ninguna", NULO), p)
             /\ Espera(j, k, p)' => Espera(j, k + Corre("cola", j, "ninguna", NULO), p)
  <2>1. \A t \in Lugares : k + Corre(t, j, "ninguna", NULO) = k
    BY DEF Corre, Lugares
  <2>2. /\ Respuesta(j, k, p)' => Respuesta(j, k, p)
        /\ Espera(j, k, p)' => Espera(j, k, p)
    BY <1>1 DEF Respuesta, Espera, Fin
  <2>3. pedidos'[j] = IF j = i THEN <<>> ELSE pedidos[j]
    BY <1>1 DEF Forma, TiposDeConexion
  <2>4. Pedido(j, k, p)' => Pedido(j, k, p)
    BY <2>3, EmptySeq DEF Pedido
  <2> QED
    BY <2>1, <2>2, <2>4 DEF Lugares
<1>4. UnaFicha' /\ FichaBloqueada'
  <2>1. \A p \in Procesos : Sigue("ninguna", NULO, p)
    BY <1>2, <1>3 DEF Sigue
  <2> QED
    BY <2>1, SinTraslado DEF Fichas
<1> QED
  BY <1>2, <1>4 DEF Fichas

\* The head of a queue leaves, and each of the others is one place nearer.
LEMMA PedidosCorren ==
  ASSUME Forma, NEW i \in Interfaces, pedidos[i] # <<>>,
         pedidos' = [pedidos EXCEPT ![i] = Tail(@)]
  PROVE  \A p \in Procesos, j \in Interfaces, k \in Nat :
           Pedido(j, k, p)' =>
             /\ Pedido(j, k + Corre("pedido", j, "pedido", i), p)
             /\ j = i => k # 0
<1> SUFFICES ASSUME NEW p \in Procesos, NEW j \in Interfaces, NEW k \in Nat,
                    Pedido(j, k, p)'
             PROVE  /\ Pedido(j, k + Corre("pedido", j, "pedido", i), p)
                    /\ j = i => k # 0
  OBVIOUS
<1>1. /\ pedidos[i] \in Seq(Mensaje)
      /\ pedidos'[j] = IF j = i THEN Tail(pedidos[i]) ELSE pedidos[j]
  BY DEF Forma, TiposDeConexion
<1>2. CASE j = i
  <2>1. /\ k \in DOMAIN Tail(pedidos[i]) /\ Tail(pedidos[i])[k] = [pid |-> p]
    BY <1>1, <1>2 DEF Pedido
  <2>2. k >= 1 /\ k + 1 \in DOMAIN pedidos[i] /\ pedidos[i][k + 1] = [pid |-> p]
    BY <1>1, <2>1, SinCabeza
  <2> QED
    BY <1>2, <2>2 DEF Pedido, Corre
<1>3. CASE j # i
  <2>1. Pedido(j, k, p) /\ Corre("pedido", j, "pedido", i) = 0
    BY <1>1, <1>3 DEF Pedido, Corre
  <2> QED
    BY <1>3, <2>1
<1> QED
  BY <1>2, <1>3

LEMMA RespuestasCorren ==
  ASSUME Forma, NEW i \in Interfaces, respuestas[i] # <<>>,
         respuestas' = [respuestas EXCEPT ![i] = Tail(@)]
  PROVE  \A p \in Procesos, j \in Interfaces, k \in Nat :
           Respuesta(j, k, p)' =>
             /\ Respuesta(j, k + Corre("respuesta", j, "respuesta", i), p)
             /\ j = i => k # 0
<1> SUFFICES ASSUME NEW p \in Procesos, NEW j \in Interfaces, NEW k \in Nat,
                    Respuesta(j, k, p)'
             PROVE  /\ Respuesta(j, k + Corre("respuesta", j, "respuesta", i), p)
                    /\ j = i => k # 0
  OBVIOUS
<1>1. /\ respuestas[i] \in Seq(Contestacion)
      /\ respuestas'[j] = IF j = i THEN Tail(respuestas[i]) ELSE respuestas[j]
  BY DEF Forma, TiposDeConexion
<1>2. CASE j = i
  <2>1. /\ k \in DOMAIN Tail(respuestas[i])
        /\ Tail(respuestas[i])[k] \in Fin /\ Tail(respuestas[i])[k].pid = p
    BY <1>1, <1>2 DEF Respuesta, Fin
  <2>2. /\ k >= 1 /\ k + 1 \in DOMAIN respuestas[i]
        /\ respuestas[i][k + 1] = Tail(respuestas[i])[k]
    BY <1>1, <2>1, SinCabeza
  <2> QED
    BY <1>2, <2>1, <2>2 DEF Respuesta, Corre
<1>3. CASE j # i
  <2>1. Respuesta(j, k, p) /\ Corre("respuesta", j, "respuesta", i) = 0
    BY <1>1, <1>3 DEF Respuesta, Corre, Fin
  <2> QED
    BY <1>3, <2>1
<1> QED
  BY <1>2, <1>3

\* A run answers: the answer goes last.
LEMMA RespuestaNueva ==
  ASSUME Forma, NEW i \in Interfaces, NEW m \in Contestacion,
         respuestas' = [respuestas EXCEPT ![i] = Append(@, m)]
  PROVE  \A p \in Procesos, j \in Interfaces, k \in Nat :
           Respuesta(j, k, p)' =>
             \/ Respuesta(j, k, p)
             \/ j = i /\ k = Len(respuestas[i]) + 1 /\ m \in Fin /\ m.pid = p
<1> SUFFICES ASSUME NEW p \in Procesos, NEW j \in Interfaces, NEW k \in Nat,
                    Respuesta(j, k, p)', ~Respuesta(j, k, p)
             PROVE  j = i /\ k = Len(respuestas[i]) + 1 /\ m \in Fin /\ m.pid = p
  OBVIOUS
<1>1. /\ respuestas[i] \in Seq(Contestacion)
      /\ respuestas'[j] = IF j = i THEN Append(respuestas[i], m) ELSE respuestas[j]
  BY DEF Forma, TiposDeConexion
<1>2. CASE j = i
  <2>1. /\ k \in DOMAIN Append(respuestas[i], m)
        /\ Append(respuestas[i], m)[k] \in Fin
        /\ Append(respuestas[i], m)[k].pid = p
    BY <1>1, <1>2 DEF Respuesta, Fin
  <2>2. \/ k \in DOMAIN respuestas[i]
             /\ Append(respuestas[i], m)[k] = respuestas[i][k]
        \/ k = Len(respuestas[i]) + 1 /\ Append(respuestas[i], m)[k] = m
    BY <1>1, <2>1, Agregar
  <2> QED
    BY <1>2, <2>1, <2>2 DEF Respuesta
<1>3. CASE j # i
  BY <1>1, <1>3 DEF Respuesta, Fin
<1> QED
  BY <1>2, <1>3

LEMMA EnviarNombreFichas ==
  ASSUME Forma, Fichas, NEW i \in Interfaces, EnviarNombre(i) PROVE Fichas'
<1>1. /\ pedidos[i] # <<>>
      /\ pedidos' = [pedidos EXCEPT ![i] = Tail(@)]
      /\ respuestas' = [respuestas EXCEPT ![i] = Append(@, NOMBRE)]
      /\ UNCHANGED <<instancia, estado, despacho, hilo>>
  BY DEF EnviarNombre, Responde, listaVars
<1>2. /\ EnManoBien' /\ EnExec'
      /\ \A p \in Procesos :
           /\ estado[p] = "blocked" => estado'[p] = "blocked"
           /\ \A j \in Interfaces : EnHilo(j, p)' => EnHilo(j, p)
  BY <1>1, QuietosLosHilos
<1>3. NOMBRE \in Contestacion /\ NOMBRE \notin Fin
  BY DEF Contestacion, Fin, NOMBRE
<1>4. ASSUME NEW p \in Procesos, NEW j \in Interfaces, NEW k \in Nat
      PROVE  /\ Pedido(j, k, p)' => Pedido(j, k + Corre("pedido", j, "pedido", i), p)
             /\ Respuesta(j, k, p)' =>
                  Respuesta(j, k + Corre("respuesta", j, "pedido", i), p)
             /\ Espera(j, k, p)' => Espera(j, k + Corre("cola", j, "pedido", i), p)
  <2>1. /\ k + Corre("respuesta", j, "pedido", i) = k
        /\ k + Corre("cola", j, "pedido", i) = k
    BY DEF Corre
  <2>2. Respuesta(j, k, p)' => Respuesta(j, k, p)
    BY <1>1, <1>3, RespuestaNueva
  <2>3. Espera(j, k, p)' => Espera(j, k, p)
    BY <1>1 DEF Espera
  <2> QED
    BY <1>1, <2>1, <2>2, <2>3, PedidosCorren
<1>5. UnaFicha' /\ FichaBloqueada'
  <2>1. \A p \in Procesos : Sigue("pedido", i, p)
    BY <1>2, <1>4 DEF Sigue
  <2> QED
    BY <2>1, SinTraslado DEF Fichas
<1> QED
  BY <1>2, <1>5 DEF Fichas

LEMMA TerminarOperacionFichas ==
  ASSUME Forma, Fichas, NEW i \in Interfaces, NEW r \in {"OK", "ERROR"},
         TerminarOperacion(i, r)
  PROVE  Fichas'
<1> PICK q : q = Head(pedidos[i]).pid
  OBVIOUS
<1> PICK n : n = Len(respuestas[i]) + 1
  OBVIOUS
<1> DEFINE m == [op |-> "FIN_ENTRADASALIDA", pid |-> q, resultado |-> r]
<1>1. /\ pedidos[i] # <<>> /\ Head(pedidos[i]) # NOMBRE
      /\ pedidos' = [pedidos EXCEPT ![i] = Tail(@)]
      /\ respuestas' = [respuestas EXCEPT ![i] = Append(@, m)]
      /\ UNCHANGED <<instancia, estado, despacho, hilo>>
  BY DEF TerminarOperacion, Responde, listaVars
<1>2. q \in Procesos /\ Pedido(i, 1, q)
  <2>1. /\ Head(pedidos[i]) \in Mensaje /\ Head(pedidos[i]) = pedidos[i][1]
        /\ 1 \in DOMAIN pedidos[i]
    BY <1>1, SinCabeza DEF Forma, TiposDeConexion
  <2>2. Head(pedidos[i]) = [pid |-> q] /\ q \in Procesos
    BY <1>1, <2>1 DEF Mensaje
  <2> QED
    BY <2>1, <2>2 DEF Pedido
<1>3. m \in Contestacion /\ m.pid = q
  BY <1>2 DEF Contestacion, Fin
<1> HIDE DEF m
<1>4. /\ EnManoBien' /\ EnExec'
      /\ \A p \in Procesos :
           /\ estado[p] = "blocked" => estado'[p] = "blocked"
           /\ \A j \in Interfaces : EnHilo(j, p)' => EnHilo(j, p)
  BY <1>1, QuietosLosHilos
<1>5. \A p \in Procesos, j \in Interfaces, k \in Nat :
        /\ Pedido(j, k, p)' =>
             /\ Pedido(j, k + Corre("pedido", j, "pedido", i), p)
             /\ j = i => k # 0
        /\ Respuesta(j, k, p)' =>
             \/ Respuesta(j, k, p)
             \/ j = i /\ k = n /\ p = q
        /\ Espera(j, k, p)' => Espera(j, k, p)
  <2> TAKE p \in Procesos, j \in Interfaces, k \in Nat
  <2>1. Espera(j, k, p)' => Espera(j, k, p)
    BY <1>1 DEF Espera
  <2>2. Respuesta(j, k, p)' => Respuesta(j, k, p) \/ (j = i /\ k = n /\ p = q)
    BY <1>1, <1>3, RespuestaNueva
  <2> QED
    BY <1>1, <2>1, <2>2, PedidosCorren
<1>6. ASSUME NEW t \in Lugares, NEW j \in Interfaces, NEW k \in Nat,
             Ficha(t, j, k, q)'
      PROVE  t = "respuesta" /\ j = i /\ k = n /\ estado'[q] = "blocked"
  <2> DEFINE c == k + Corre("pedido", j, "pedido", i)
  <2>1. c \in Nat /\ 1 \in Nat /\ (j = i => c = k + 1)
    BY DEF Corre
  <2>2. estado[q] = "blocked" /\ estado'[q] = "blocked"
    BY <1>1, <1>2, <2>1, FichaDe DEF Fichas
  <2> HIDE DEF c
  <2>3. ~Pedido(j, k, q)'
    <3>1. SUFFICES ASSUME Pedido(j, k, q)' PROVE FALSE
      OBVIOUS
    <3>2. Pedido(j, c, q) /\ (j = i => k # 0)
      BY <1>2, <1>5, <3>1 DEF c
    <3>3. j = i /\ c = 1
      BY <1>2, <2>1, <3>2, FichaDe DEF Fichas
    <3> QED
      BY <2>1, <3>2, <3>3
  <2>4. Respuesta(j, k, q)' => j = i /\ k = n
    BY <1>2, <1>5, <2>1, FichaDe DEF Fichas
  <2>5. ~Espera(j, k, q)'
    BY <1>2, <1>5, <2>1, FichaDe DEF Fichas
  <2>6. ~EnHilo(j, q)'
    BY <1>2, <1>4, <2>1, FichaDe DEF Fichas
  <2> QED
    BY <1>6, <2>2, <2>3, <2>4, <2>5, <2>6 DEF Ficha
<1>7. ASSUME NEW p \in Procesos \ {q}, NEW j \in Interfaces, NEW k \in Nat
      PROVE  /\ Pedido(j, k, p)' => Pedido(j, k + Corre("pedido", j, "pedido", i), p)
             /\ Respuesta(j, k, p)' =>
                  Respuesta(j, k + Corre("respuesta", j, "pedido", i), p)
             /\ Espera(j, k, p)' => Espera(j, k + Corre("cola", j, "pedido", i), p)
  <2>1. /\ k + Corre("respuesta", j, "pedido", i) = k
        /\ k + Corre("cola", j, "pedido", i) = k
    BY DEF Corre
  <2> QED
    BY <1>5, <2>1
<1>8. UnaFicha' /\ FichaBloqueada'
  <2>1. \A p \in Procesos \ {q} : Sigue("pedido", i, p)
    BY <1>4, <1>7 DEF Sigue
  <2>2. Llega(q, "respuesta", i, n)
    BY <1>6 DEF Llega
  <2> QED
    BY <2>1, <2>2, Trasladar DEF Fichas
<1> QED
  BY <1>4, <1>8 DEF Fichas

LEMMA AgregarInstanciaFichas ==
  ASSUME Forma, Fichas, NEW i \in Interfaces, AgregarInstancia(i) PROVE Fichas'
<1> PICK r : r = LeeDe(i)
  OBVIOUS
<1> DEFINE nueva == [socket |-> hilo[i].socket, libre |-> 1,
                     cola_de_espera |-> <<>>, pcb_con_interfaz_asignada |-> NULO,
                     mochila_destruida |-> FALSE, viva |-> TRUE]
<1>1. /\ HayMensaje(i, "NOMBRE_ENTRADA_SALIDA") /\ Recibido(i)
      /\ instancia' = [instancia EXCEPT ![r] = nueva]
      /\ nueva.cola_de_espera = <<>>
      /\ UNCHANGED <<pedidos, estado, despacho, hilo>>
  BY DEF AgregarInstancia
<1> HIDE DEF nueva
<1>2. /\ r \in Interfaces /\ respuestas[r] # <<>>
      /\ respuestas' = [respuestas EXCEPT ![r] = Tail(@)]
  BY <1>1, HayMensajeTipo
<1>3. /\ EnManoBien' /\ EnExec'
      /\ \A p \in Procesos :
           /\ estado[p] = "blocked" => estado'[p] = "blocked"
           /\ \A j \in Interfaces : EnHilo(j, p)' => EnHilo(j, p)
  BY <1>1, QuietosLosHilos
<1>4. ASSUME NEW p \in Procesos, NEW j \in Interfaces, NEW k \in Nat
      PROVE  /\ Pedido(j, k, p)' =>
                  Pedido(j, k + Corre("pedido", j, "respuesta", r), p)
             /\ Respuesta(j, k, p)' =>
                  Respuesta(j, k + Corre("respuesta", j, "respuesta", r), p)
             /\ Espera(j, k, p)' => Espera(j, k + Corre("cola", j, "respuesta", r), p)
  <2>1. /\ k + Corre("pedido", j, "respuesta", r) = k
        /\ k + Corre("cola", j, "respuesta", r) = k
    BY DEF Corre
  <2>2. Pedido(j, k, p)' => Pedido(j, k, p)
    BY <1>1 DEF Pedido
  <2>3. \/ instancia'[j] = instancia[j]
        \/ instancia'[j].cola_de_espera = <<>>
    BY <1>1 DEF Forma, TiposDeConexion
  <2>4. Espera(j, k, p)' => Espera(j, k, p)
    BY <2>3, EmptySeq DEF Espera
  <2> QED
    BY <1>2, <2>1, <2>2, <2>4, RespuestasCorren
<1>5. UnaFicha' /\ FichaBloqueada'
  <2>1. \A p \in Procesos : Sigue("respuesta", r, p)
    BY <1>3, <1>4 DEF Sigue
  <2> QED
    BY <2>1, SinTraslado DEF Fichas
<1> QED
  BY <1>3, <1>5 DEF Fichas

LEMMA RecibirFinFichas ==
  ASSUME Forma, Fichas, NEW i \in Interfaces, RecibirFin(i) PROVE Fichas'
<1> PICK r : r = LeeDe(i)
  OBVIOUS
<1> PICK q : q = Head(respuestas[r]).pid
  OBVIOUS
<1>1. /\ HayMensaje(i, "FIN_ENTRADASALIDA") /\ Recibido(i)
      /\ UNCHANGED <<pedidos, instancia, estado, despacho>>
  BY DEF RecibirFin, listaVars
<1>2. /\ r \in Interfaces /\ respuestas[r] # <<>>
      /\ respuestas' = [respuestas EXCEPT ![r] = Tail(@)]
      /\ Head(respuestas[r]) = respuestas[r][1] /\ 1 \in DOMAIN respuestas[r]
      /\ hilo[i].pc = "reposo"
  BY <1>1, HayMensajeTipo
<1>3. /\ Head(respuestas[r]) \in Fin
      /\ hilo'[i].pc \in {"fin", "error"} /\ hilo'[i].pid = q
      /\ \A j \in Interfaces \ {i} : hilo'[j] = hilo[j]
  BY RecibirFinForma
<1>4. q \in Procesos /\ Respuesta(r, 1, q) /\ estado[q] = "blocked"
  <2>1. q \in Procesos /\ Respuesta(r, 1, q)
    BY <1>2, <1>3 DEF Fin, Respuesta
  <2>2. Ficha("respuesta", r, 1, q)
    BY <2>1 DEF Ficha
  <2> QED
    BY <1>2, <2>1, <2>2 DEF Fichas, FichaBloqueada, Lugares
<1>5. EnManoBien' /\ EnExec'
  <2>1. ~EnMano(i)'
    BY <1>3 DEF EnMano
  <2>2. \A j \in Interfaces : EnMano(j)' =>
          /\ EnMano(j) /\ hilo'[j].pid = hilo[j].pid
          /\ estado'[hilo[j].pid] = "en mano"
    BY <1>1, <1>3, <2>1 DEF Fichas, EnMano, EnManoBien
  <2> QED
    BY <1>1, <2>2, MismaMano, MismaEjecucion DEF Fichas
<1>6. \A p \in Procesos, j \in Interfaces, k \in Nat :
        /\ Pedido(j, k, p)' => Pedido(j, k, p)
        /\ Respuesta(j, k, p)' =>
             /\ Respuesta(j, k + Corre("respuesta", j, "respuesta", r), p)
             /\ j = r => k # 0
        /\ Espera(j, k, p)' => Espera(j, k, p)
        /\ EnHilo(j, p)' => EnHilo(j, p) \/ (j = i /\ p = q)
  <2> TAKE p \in Procesos, j \in Interfaces, k \in Nat
  <2>1. /\ Pedido(j, k, p)' => Pedido(j, k, p)
        /\ Espera(j, k, p)' => Espera(j, k, p)
    BY <1>1 DEF Pedido, Espera
  <2>2. EnHilo(j, p)' => EnHilo(j, p) \/ (j = i /\ p = q)
    BY <1>3 DEF EnHilo
  <2> QED
    BY <1>2, <2>1, <2>2, RespuestasCorren
<1>7. ASSUME NEW t \in Lugares, NEW j \in Interfaces, NEW k \in Nat,
             Ficha(t, j, k, q)'
      PROVE  t = "hilo" /\ j = i /\ k = 0 /\ estado'[q] = "blocked"
  <2> DEFINE c == k + Corre("respuesta", j, "respuesta", r)
  <2>1. c \in Nat /\ 1 \in Nat /\ (j = r => c = k + 1)
    BY DEF Corre
  <2>2. estado'[q] = "blocked"
    BY <1>1, <1>4
  <2> HIDE DEF c
  <2>3. ~Respuesta(j, k, q)'
    <3>1. SUFFICES ASSUME Respuesta(j, k, q)' PROVE FALSE
      OBVIOUS
    <3>2. Respuesta(j, c, q) /\ (j = r => k # 0)
      BY <1>4, <1>6, <3>1 DEF c
    <3>3. j = r /\ c = 1
      BY <1>2, <1>4, <2>1, <3>2, FichaDe DEF Fichas
    <3> QED
      BY <2>1, <3>2, <3>3
  <2>4. ~Pedido(j, k, q)'
    BY <1>2, <1>4, <1>6, <2>1, FichaDe DEF Fichas
  <2>5. ~Espera(j, k, q)'
    BY <1>2, <1>4, <1>6, <2>1, FichaDe DEF Fichas
  <2>6. EnHilo(j, q)' => j = i
    BY <1>2, <1>4, <1>6, <2>1, FichaDe DEF Fichas
  <2> QED
    BY <1>7, <2>2, <2>3, <2>4, <2>5, <2>6 DEF Ficha
<1>8. ASSUME NEW p \in Procesos \ {q}, NEW j \in Interfaces, NEW k \in Nat
      PROVE  /\ Pedido(j, k, p)' =>
                  Pedido(j, k + Corre("pedido", j, "respuesta", r), p)
             /\ Respuesta(j, k, p)' =>
                  Respuesta(j, k + Corre("respuesta", j, "respuesta", r), p)
             /\ Espera(j, k, p)' => Espera(j, k + Corre("cola", j, "respuesta", r), p)
             /\ EnHilo(j, p)' => EnHilo(j, p)
  <2>1. /\ k + Corre("pedido", j, "respuesta", r) = k
        /\ k + Corre("cola", j, "respuesta", r) = k
    BY DEF Corre
  <2> QED
    BY <1>6, <2>1
<1>9. UnaFicha' /\ FichaBloqueada'
  <2>1. \A p \in Procesos \ {q} : Sigue("respuesta", r, p)
    BY <1>1, <1>8 DEF Sigue
  <2>2. Llega(q, "hilo", i, 0)
    BY <1>7 DEF Llega
  <2> QED
    BY <2>1, <2>2, Trasladar DEF Fichas
<1> QED
  BY <1>5, <1>9 DEF Fichas

\* The end of an I/O takes its process out of BLOCKED.
LEMMA SacarDeBlockedFichas ==
  ASSUME Forma, Fichas, NEW i \in Interfaces, BuscarYRemover(i) \/ FinConError(i)
  PROVE  Fichas'
<1> PICK q : q = hilo[i].pid
  OBVIOUS
<1>1. /\ hilo[i].pc \in {"fin", "error"}
      /\ UNCHANGED <<pedidos, respuestas, instancia, despacho>>
      /\ \/ Pasa(i, "siguiente") /\ estado' = [estado EXCEPT ![q] = "en mano"]
         \/ VuelveALeer(i) /\ estado' = [estado EXCEPT ![q] = "exit"]
  BY DEF BuscarYRemover, FinConError, En, listaVars
<1>2. /\ hilo'[i].pc \in {"siguiente", "reposo"}
      /\ hilo'[i].pc = "siguiente" => /\ estado' = [estado EXCEPT ![q] = "en mano"]
                                      /\ hilo'[i].pid = q
      /\ \A j \in Interfaces \ {i} : hilo'[j] = hilo[j]
  BY <1>1, PasaTipo, VuelveTipo
<1>3. q \in Procesos /\ EnHilo(i, q) /\ estado[q] = "blocked"
  <2>1. q \in Procesos /\ EnHilo(i, q)
    BY <1>1 DEF Forma, HilosBien, EnHilo
  <2>2. Ficha("hilo", i, 0, q)
    BY <2>1 DEF Ficha
  <2> QED
    BY <2>1, <2>2 DEF Fichas, FichaBloqueada, Lugares
<1>4. \A p \in Procesos \ {q} : estado'[p] = estado[p]
  BY <1>1 DEF Forma, TiposDeHilos
<1>5. \A p \in Procesos, j \in Interfaces, k \in Nat :
        /\ Pedido(j, k, p)' => Pedido(j, k, p)
        /\ Respuesta(j, k, p)' => Respuesta(j, k, p)
        /\ Espera(j, k, p)' => Espera(j, k, p)
        /\ EnHilo(j, p)' => EnHilo(j, p) /\ j # i
  <2> TAKE p \in Procesos, j \in Interfaces, k \in Nat
  <2>1. /\ Pedido(j, k, p)' => Pedido(j, k, p)
        /\ Respuesta(j, k, p)' => Respuesta(j, k, p)
        /\ Espera(j, k, p)' => Espera(j, k, p)
    BY <1>1 DEF Pedido, Respuesta, Espera, Fin
  <2>2. EnHilo(j, p)' => EnHilo(j, p) /\ j # i
    BY <1>2 DEF EnHilo
  <2> QED
    BY <2>1, <2>2
<1>6. Llega(q, "hilo", i, 0)
  <2> SUFFICES ASSUME NEW t \in Lugares, NEW j \in Interfaces, NEW k \in Nat,
                      Ficha(t, j, k, q)'
               PROVE  FALSE
    BY DEF Llega
  <2>1. /\ ~Pedido(j, k, q)' /\ ~Respuesta(j, k, q)' /\ ~Espera(j, k, q)'
        /\ ~EnHilo(j, q)'
    BY <1>3, <1>5, FichaDe DEF Fichas
  <2> QED
    BY <2>1 DEF Ficha
<1>7. ASSUME NEW p \in Procesos \ {q} PROVE Sigue("ninguna", NULO, p)
  <2>1. \A j \in Interfaces, k \in Nat :
          /\ k + Corre("pedido", j, "ninguna", NULO) = k
          /\ k + Corre("respuesta", j, "ninguna", NULO) = k
          /\ k + Corre("cola", j, "ninguna", NULO) = k
    BY DEF Corre
  <2> QED
    BY <1>4, <1>5, <2>1 DEF Sigue
<1>8. UnaFicha' /\ FichaBloqueada'
  BY <1>6, <1>7, Trasladar DEF Fichas
<1>9. EnManoBien'
  <2>1. ASSUME NEW j \in Interfaces, EnMano(j)', j # i
        PROVE  /\ EnMano(j) /\ hilo'[j].pid = hilo[j].pid /\ hilo[j].pid # q
               /\ estado'[hilo[j].pid] = "en mano"
    <3>1. EnMano(j) /\ hilo'[j] = hilo[j]
      BY <1>2, <2>1 DEF EnMano
    <3>2. estado[hilo[j].pid] = "en mano" /\ hilo[j].pid \in Procesos
      BY <3>1 DEF Fichas, EnManoBien, EnMano, Forma, HilosBien
    <3> QED
      BY <1>3, <1>4, <3>1, <3>2
  <2>2. EnMano(i)' => estado'[q] = "en mano"
    BY <1>2, <1>3 DEF EnMano, Forma, TiposDeHilos
  <2>5. EnMano(i)' => hilo'[i].pid = q
    BY <1>2 DEF EnMano
  <2> SUFFICES ASSUME NEW j \in Interfaces, EnMano(j)'
               PROVE  /\ estado'[hilo'[j].pid] = "en mano"
                      /\ \A k \in Interfaces :
                           EnMano(k)' /\ hilo'[k].pid = hilo'[j].pid => j = k
    BY DEF EnManoBien
  <2>3. CASE j = i
    BY <2>1, <2>2, <2>3, <2>5
  <2>4. CASE j # i
    <3>1. \A k \in Interfaces : EnMano(k) /\ hilo[k].pid = hilo[j].pid => j = k
      BY <2>1, <2>4 DEF Fichas, EnManoBien
    <3>2. /\ hilo'[j].pid = hilo[j].pid /\ hilo[j].pid # q
          /\ estado'[hilo[j].pid] = "en mano"
      BY <2>1, <2>4
    <3>3. \A k \in Interfaces : EnMano(k)' /\ k # i =>
            EnMano(k) /\ hilo'[k].pid = hilo[k].pid
      BY <2>1
    <3> QED
      BY <2>5, <3>1, <3>2, <3>3
  <2> QED
    BY <2>3, <2>4
<1>10. EnExec'
  BY <1>1, <1>3, <1>4 DEF Fichas, EnExec, Forma, DespachoBien
<1> QED
  BY <1>8, <1>9, <1>10 DEF Fichas

\* Nobody's token moves when the thread lets its process go, or frees the
\* interface.
LEMMA AgregarAReadyFichas ==
  ASSUME Forma, Fichas, NEW i \in Interfaces, AgregarAReady(i) PROVE Fichas'
<1>1. /\ hilo[i].pc = "a ready"
      /\ estado' = [estado EXCEPT ![hilo[i].pid] = "ready"]
      /\ VuelveALeer(i)
      /\ UNCHANGED <<pedidos, respuestas, instancia, despacho>>
  BY DEF AgregarAReady, En, listaVars
<1>2. hilo'[i].pc = "reposo" /\ \A j \in Interfaces \ {i} : hilo'[j] = hilo[j]
  BY <1>1, VuelveTipo
<1>3. hilo[i].pid \in Procesos /\ estado[hilo[i].pid] = "en mano"
  BY <1>1 DEF Forma, HilosBien, Fichas, EnManoBien, EnMano
<1>4. \A p \in Procesos : p # hilo[i].pid => estado'[p] = estado[p]
  BY <1>1 DEF Forma, TiposDeHilos
<1>5. UnaFicha' /\ FichaBloqueada'
  <2>1. \A p \in Procesos :
          /\ estado[p] = "blocked" => estado'[p] = "blocked"
          /\ \A j \in Interfaces, k \in Nat : Espera(j, k, p)' => Espera(j, k, p)
          /\ \A j \in Interfaces : EnHilo(j, p)' => EnHilo(j, p)
    BY <1>1, <1>2, <1>3, <1>4 DEF Espera, EnHilo
  <2> QED
    BY <1>1, <2>1, Quietas DEF Fichas
<1>6. EnManoBien'
  <2>1. ASSUME NEW j \in Interfaces, EnMano(j)'
        PROVE  /\ EnMano(j) /\ hilo'[j].pid = hilo[j].pid
               /\ estado'[hilo[j].pid] = "en mano"
    <3>1. j # i /\ EnMano(j) /\ hilo'[j] = hilo[j]
      BY <1>2, <2>1 DEF EnMano
    <3>2. /\ estado[hilo[j].pid] = "en mano" /\ hilo[j].pid \in Procesos
          /\ hilo[j].pid # hilo[i].pid
      BY <1>1, <3>1 DEF Fichas, EnManoBien, EnMano, Forma, HilosBien
    <3> QED
      BY <1>4, <3>1, <3>2
  <2> QED
    BY <2>1, MismaMano DEF Fichas
<1>7. EnExec'
  BY <1>1, <1>3, <1>4 DEF Fichas, EnExec, Forma, DespachoBien
<1> QED
  BY <1>5, <1>6, <1>7 DEF Fichas

\* Steps that touch neither messages nor queues nor who is in hand.
LEMMA QuietaFichas ==
  ASSUME Forma, Fichas, NEW i \in Interfaces,
         \/ LeerFinDeSocket(i) \/ BuscarLaPropia(i) \/ EliminarDeListaVacia(i)
         \/ EliminarInterfaz(i)
  PROVE  Fichas'
<1>1. /\ UNCHANGED <<pedidos, respuestas, estado, despacho>>
      /\ hilo'[i].pc \in {"desconexion", "eliminar", "terminado"}
      /\ \A j \in Interfaces \ {i} : hilo'[j] = hilo[j]
      /\ \/ instancia' = instancia
         \/ \E x : instancia' = [instancia EXCEPT ![x] = SinInstancia]
  <2>1. CASE LeerFinDeSocket(i) \/ EliminarDeListaVacia(i)
    BY <2>1, PasaTipo DEF LeerFinDeSocket, EliminarDeListaVacia, listaVars
  <2>2. CASE BuscarLaPropia(i)
    BY <2>2, BuscarLaPropiaForma DEF BuscarLaPropia, listaVars
  <2>3. CASE EliminarInterfaz(i)
    BY <2>3, EliminarInterfazForma DEF EliminarInterfaz
  <2> QED
    BY <2>1, <2>2, <2>3
<1>2. /\ EnManoBien' /\ EnExec'
      /\ \A p \in Procesos :
           /\ estado[p] = "blocked" => estado'[p] = "blocked"
           /\ \A j \in Interfaces : EnHilo(j, p)' => EnHilo(j, p)
  <2>1. ~EnMano(i)' /\ \A p \in Procesos : ~EnHilo(i, p)'
    BY <1>1 DEF EnMano, EnHilo
  <2> QED
    BY <1>1, <2>1, QuietosLosHilos
<1>3. \A p \in Procesos, j \in Interfaces, k \in Nat :
        Espera(j, k, p)' => Espera(j, k, p)
  <2> TAKE p \in Procesos, j \in Interfaces, k \in Nat
  <2>1. instancia'[j] = instancia[j] \/ instancia'[j].cola_de_espera = <<>>
    <3>1. SinInstancia.cola_de_espera = <<>>
      BY DEF SinInstancia
    <3>2. instancia'[j] = instancia[j] \/ instancia'[j] = SinInstancia
      BY <1>1 DEF Forma, TiposDeConexion
    <3> QED
      BY <3>1, <3>2
  <2> QED
    BY <2>1, EmptySeq DEF Espera
<1>4. UnaFicha' /\ FichaBloqueada'
  BY <1>1, <1>2, <1>3, Quietas DEF Fichas
<1> QED
  BY <1>2, <1>4 DEF Fichas

LEMMA MuereFichas ==
  ASSUME Forma, Fichas, NEW d, Muere(d) PROVE Fichas'
<1>1. UNCHANGED <<pedidos, respuestas, instancia, estado, hilo, despacho>>
  BY DEF Muere, listaVars
<1>2. UnaFicha' /\ FichaBloqueada'
  <2>1. \A p \in Procesos :
          /\ estado[p] = "blocked" => estado'[p] = "blocked"
          /\ \A j \in Interfaces, k \in Nat : Espera(j, k, p)' => Espera(j, k, p)
          /\ \A j \in Interfaces : EnHilo(j, p)' => EnHilo(j, p)
    BY <1>1 DEF Espera, EnHilo
  <2> QED
    BY <1>1, <2>1, Quietas DEF Fichas
<1> QED
  BY <1>1, <1>2, QuietosLosHilos DEF Fichas

\* A step may put a request of q in that place, and in no other.
Envia(q, r, n) ==
  \A p \in Procesos, j \in Interfaces, k \in Nat :
    Pedido(j, k, p)' => Pedido(j, k, p) \/ (p = q /\ j = r /\ k = n)

\* The process is sent to the run at the other end of the descriptor, if any.
LEMMA PedidoNuevo ==
  ASSUME Forma, NEW f \in Fds, NEW q \in Procesos,
         pedidos' = ConMensaje(f, [pid |-> q])
  PROVE  \E r, n : Envia(q, r, n)
<1> PICK r : r = descriptor[f]
  OBVIOUS
<1> PICK n : n = Len(pedidos[r]) + 1
  OBVIOUS
<1> DEFINE m == [pid |-> q]
<1>1. m \in Mensaje /\ pedidos \in [Interfaces -> Seq(Mensaje)]
  BY DEF Mensaje, Forma, TiposDeConexion
<1>2. \A j \in Interfaces : \/ pedidos'[j] = pedidos[j]
                            \/ j = r /\ pedidos'[j] = Append(pedidos[j], m)
  BY <1>1, ConMensajeTipo
<1>3. ASSUME NEW p \in Procesos, NEW j \in Interfaces, NEW k \in Nat,
             Pedido(j, k, p)'
      PROVE  Pedido(j, k, p) \/ (p = q /\ j = r /\ k = n)
  <2>1. CASE pedidos'[j] = pedidos[j]
    BY <1>3, <2>1 DEF Pedido
  <2>2. CASE j = r /\ pedidos'[j] = Append(pedidos[j], m)
    <3>1. k \in DOMAIN Append(pedidos[j], m) /\ Append(pedidos[j], m)[k] = [pid |-> p]
      BY <1>3, <2>2 DEF Pedido
    <3>2. \/ k \in DOMAIN pedidos[j] /\ Append(pedidos[j], m)[k] = pedidos[j][k]
          \/ k = n /\ Append(pedidos[j], m)[k] = m
      BY <1>1, <2>2, <3>1, Agregar
    <3>3. m = [pid |-> p] => p = q
      <4>1. m = [pid |-> p] => m.pid = [pid |-> p].pid
        OBVIOUS
      <4> QED
        BY <4>1
    <3> QED
      BY <2>2, <3>1, <3>2, <3>3 DEF Pedido
  <2> QED
    BY <1>2, <2>1, <2>2
<1>4. Envia(q, r, n)
  BY <1>3 DEF Envia
<1> QED
  BY <1>4

\* The end of an I/O: the interface is free, or the first of its queue is sent.
LEMMA SiguienteOLiberarFichas ==
  ASSUME Forma, Fichas, NEW i \in Interfaces,
         SacarSiguiente(i) \/ LiberarInterfaz(i)
  PROVE  Fichas'
<1> PICK j : j = hilo[i].instancia
  OBVIOUS
<1> PICK q : q = Head(instancia[j].cola_de_espera)
  OBVIOUS
<1>1. /\ EnMano(i) /\ j \in Interfaces /\ instancia[j].viva
      /\ UNCHANGED <<respuestas, estado, despacho>>
      /\ Pasa(i, "liberar") \/ Pasa(i, "a ready")
  BY DEF SacarSiguiente, LiberarInterfaz, EnMano, En, Forma, HilosBien
<1>2. /\ hilo'[i].pc \in {"liberar", "a ready"} /\ hilo'[i].pid = hilo[i].pid
      /\ \A x \in Interfaces \ {i} : hilo'[x] = hilo[x]
  BY <1>1, PasaTipo
<1>3. EnManoBien' /\ EnExec'
  <2>1. \A x \in Interfaces : EnMano(x)' =>
          /\ EnMano(x) /\ hilo'[x].pid = hilo[x].pid
          /\ estado'[hilo[x].pid] = "en mano"
    BY <1>1, <1>2 DEF EnMano, EnManoBien, Fichas
  <2> QED
    BY <1>1, <2>1, MismaMano, MismaEjecucion DEF Fichas
<1>4. \A x \in Interfaces, p \in Procesos : EnHilo(x, p)' => EnHilo(x, p)
  BY <1>2 DEF EnHilo
<1>5. \/ /\ pedidos' = pedidos
         /\ \A x \in Interfaces :
              instancia'[x].cola_de_espera = instancia[x].cola_de_espera
      \/ /\ instancia[j].cola_de_espera # <<>> /\ q \in Procesos
         /\ \A x \in Interfaces :
              instancia'[x].cola_de_espera =
                IF x = j THEN Tail(instancia[x].cola_de_espera)
                ELSE instancia[x].cola_de_espera
         /\ pedidos' = ConMensaje(instancia[j].socket, [pid |-> q])
  <2>1. instancia \in [Interfaces -> Instancia]
    BY DEF Forma, TiposDeConexion
  <2>2. CASE LiberarInterfaz(i)
    BY <1>1, <2>1, <2>2 DEF LiberarInterfaz, Instancia
  <2>3. CASE SacarSiguiente(i)
    <3> DEFINE n == [instancia[j] EXCEPT !.cola_de_espera = Tail(@),
                                         !.pcb_con_interfaz_asignada = q,
                                         !.mochila_destruida = TRUE]
    <3>1. \/ UNCHANGED <<instancia, pedidos>>
          \/ /\ instancia[j].cola_de_espera # <<>> /\ q \in Procesos
             /\ instancia' = [instancia EXCEPT
                                ![j].cola_de_espera = Tail(@),
                                ![j].pcb_con_interfaz_asignada = q,
                                ![j].mochila_destruida = TRUE]
             /\ pedidos' = ConMensaje(instancia[j].socket, [pid |-> q])
      BY <2>3, SacarSiguienteTipo
    <3>2. [instancia EXCEPT ![j].cola_de_espera = Tail(@),
                            ![j].pcb_con_interfaz_asignada = q,
                            ![j].mochila_destruida = TRUE]
            = [instancia EXCEPT ![j] = n]
      BY <1>1, <2>1
    <3>3. n.cola_de_espera = Tail(instancia[j].cola_de_espera)
      BY <1>1, <2>1 DEF Instancia
    <3> HIDE DEF n
    <3>4. CASE UNCHANGED <<instancia, pedidos>>
      BY <3>4
    <3>5. CASE instancia' = [instancia EXCEPT ![j] = n]
      <4>1. \A x \in Interfaces :
              instancia'[x] = IF x = j THEN n ELSE instancia[x]
        BY <1>1, <2>1, <3>5
      <4> QED
        BY <3>1, <3>3, <4>1
    <3> QED
      BY <3>1, <3>2, <3>4, <3>5
  <2> QED
    BY <2>2, <2>3
<1>6. CASE /\ pedidos' = pedidos
           /\ \A x \in Interfaces :
                instancia'[x].cola_de_espera = instancia[x].cola_de_espera
  <2>1. \A p \in Procesos, x \in Interfaces, k \in Nat :
          Espera(x, k, p)' => Espera(x, k, p)
    BY <1>6 DEF Espera
  <2> QED
    BY <1>1, <1>3, <1>4, <1>6, <2>1, Quietas DEF Fichas
<1>7. CASE /\ instancia[j].cola_de_espera # <<>> /\ q \in Procesos
           /\ \A x \in Interfaces :
                instancia'[x].cola_de_espera =
                  IF x = j THEN Tail(instancia[x].cola_de_espera)
                  ELSE instancia[x].cola_de_espera
           /\ pedidos' = ConMensaje(instancia[j].socket, [pid |-> q])
  <2>1. /\ instancia[j].socket \in Fds
        /\ instancia[j].cola_de_espera \in Seq(Procesos)
    BY <1>1 DEF Forma, InstanciasBien, TiposDeConexion, Instancia
  <2>2. PICK r, n : Envia(q, r, n)
    <3> PICK f : f = instancia[j].socket
      OBVIOUS
    <3> QED
      BY <1>7, <2>1, PedidoNuevo
  <2>3. Espera(j, 1, q) /\ estado[q] = "blocked"
    <3>1. Espera(j, 1, q)
      BY <1>7, <2>1, SinCabeza DEF Espera
    <3>2. Ficha("cola", j, 1, q)
      BY <3>1 DEF Ficha
    <3> QED
      BY <1>1, <1>7, <3>1, <3>2 DEF Fichas, FichaBloqueada, Lugares
  <2>4. \A p \in Procesos, x \in Interfaces, k \in Nat :
          Espera(x, k, p)' =>
            /\ Espera(x, k + Corre("cola", x, "cola", j), p)
            /\ x = j => k # 0
    <3> SUFFICES ASSUME NEW p \in Procesos, NEW x \in Interfaces, NEW k \in Nat,
                        Espera(x, k, p)'
                 PROVE  /\ Espera(x, k + Corre("cola", x, "cola", j), p)
                        /\ x = j => k # 0
      OBVIOUS
    <3>1. CASE x = j
      <4>1. /\ k \in DOMAIN Tail(instancia[j].cola_de_espera)
            /\ Tail(instancia[j].cola_de_espera)[k] = p
        BY <1>7, <3>1 DEF Espera
      <4>2. /\ k >= 1 /\ k + 1 \in DOMAIN instancia[j].cola_de_espera
            /\ instancia[j].cola_de_espera[k + 1] = p
        BY <1>7, <2>1, <4>1, SinCabeza
      <4> QED
        BY <3>1, <4>2 DEF Espera, Corre
    <3>2. CASE x # j
      <4>1. Espera(x, k, p) /\ Corre("cola", x, "cola", j) = 0
        BY <1>7, <3>2 DEF Espera, Corre
      <4> QED
        BY <3>2, <4>1
    <3> QED
      BY <3>1, <3>2
  <2>5. \A p \in Procesos, x \in Interfaces, k \in Nat :
          Respuesta(x, k, p)' => Respuesta(x, k, p)
    BY <1>1 DEF Respuesta, Fin
  <2>6. Llega(q, "pedido", r, n)
    <3> SUFFICES ASSUME NEW t \in Lugares, NEW x \in Interfaces, NEW k \in Nat,
                        Ficha(t, x, k, q)'
                 PROVE  t = "pedido" /\ x = r /\ k = n /\ estado'[q] = "blocked"
      BY DEF Llega
    <3> DEFINE c == k + Corre("cola", x, "cola", j)
    <3>1. c \in Nat /\ 1 \in Nat /\ (x = j => c = k + 1)
      BY DEF Corre
    <3> HIDE DEF c
    <3>2. ~Espera(x, k, q)'
      <4>1. SUFFICES ASSUME Espera(x, k, q)' PROVE FALSE
        OBVIOUS
      <4>2. Espera(x, c, q) /\ (x = j => k # 0)
        BY <1>7, <2>4, <4>1 DEF c
      <4>3. x = j /\ c = 1
        BY <1>1, <1>7, <2>3, <3>1, <4>2, FichaDe DEF Fichas
      <4> QED
        BY <3>1, <4>2, <4>3
    <3>3. Pedido(x, k, q)' => x = r /\ k = n
      <4>1. ~Pedido(x, k, q)
        BY <1>1, <1>7, <2>3, <3>1, FichaDe DEF Fichas
      <4> QED
        BY <1>7, <2>2, <4>1 DEF Envia
    <3>4. ~Respuesta(x, k, q)' /\ ~EnHilo(x, q)'
      BY <1>1, <1>4, <1>7, <2>3, <2>5, <3>1, FichaDe DEF Fichas
    <3> QED
      BY <1>1, <2>3, <3>2, <3>3, <3>4 DEF Ficha
  <2>7. ASSUME NEW p \in Procesos \ {q} PROVE Sigue("cola", j, p)
    <3>1. \A x \in Interfaces, k \in Nat :
            /\ k + Corre("pedido", x, "cola", j) = k
            /\ k + Corre("respuesta", x, "cola", j) = k
      BY DEF Corre
    <3> QED
      BY <1>1, <1>4, <2>2, <2>4, <2>5, <3>1 DEF Sigue, Envia
  <2>8. UnaFicha' /\ FichaBloqueada'
    BY <2>6, <2>7, Trasladar DEF Fichas
  <2> QED
    BY <1>3, <2>8 DEF Fichas
<1> QED
  BY <1>5, <1>6, <1>7

LEMMA PedirFichas ==
  ASSUME Forma, Fichas, NEW p \in Procesos, NEW n \in Nombres, Pedir(p, n)
  PROVE  Fichas'
<1>1. /\ estado[p] = "ready" /\ estado' = [estado EXCEPT ![p] = "exec"]
      /\ despacho'.pid = p
      /\ UNCHANGED <<pedidos, respuestas, instancia, hilo>>
  BY DEF Pedir, listaVars
<1>2. /\ \A q \in Procesos \ {p} : estado'[q] = estado[q]
      /\ estado'[p] = "exec"
  BY <1>1 DEF Forma, TiposDeHilos
<1>3. UnaFicha' /\ FichaBloqueada'
  <2>1. \A q \in Procesos :
          /\ estado[q] = "blocked" => estado'[q] = "blocked"
          /\ \A j \in Interfaces, k \in Nat : Espera(j, k, q)' => Espera(j, k, q)
          /\ \A j \in Interfaces : EnHilo(j, q)' => EnHilo(j, q)
    BY <1>1, <1>2 DEF Espera, EnHilo
  <2> QED
    BY <1>1, <2>1, Quietas DEF Fichas
<1>4. EnManoBien'
  <2>1. ASSUME NEW j \in Interfaces, EnMano(j)'
        PROVE  /\ EnMano(j) /\ hilo'[j].pid = hilo[j].pid
               /\ estado'[hilo[j].pid] = "en mano"
    <3>1. EnMano(j) /\ hilo'[j] = hilo[j]
      BY <1>1, <2>1 DEF EnMano
    <3>2. estado[hilo[j].pid] = "en mano" /\ hilo[j].pid \in Procesos
      BY <3>1 DEF Fichas, EnManoBien, EnMano, Forma, HilosBien
    <3> QED
      BY <1>1, <1>2, <3>1, <3>2
  <2> QED
    BY <2>1, MismaMano DEF Fichas
<1>5. EnExec'
  BY <1>1, <1>2 DEF EnExec
<1> QED
  BY <1>3, <1>4, <1>5 DEF Fichas

LEMMA ValidarFichas == ASSUME Forma, Fichas, Validar PROVE Fichas'
<1>1. /\ despacho.pc = "validar" /\ despacho'.pid = despacho.pid
      /\ UNCHANGED <<pedidos, respuestas, instancia, estado, hilo>>
  BY DEF Validar, listaVars, Forma, TiposDeHilos
<1>2. UnaFicha' /\ FichaBloqueada'
  <2>1. \A p \in Procesos :
          /\ estado[p] = "blocked" => estado'[p] = "blocked"
          /\ \A j \in Interfaces, k \in Nat : Espera(j, k, p)' => Espera(j, k, p)
          /\ \A j \in Interfaces : EnHilo(j, p)' => EnHilo(j, p)
    BY <1>1 DEF Espera, EnHilo
  <2> QED
    BY <1>1, <2>1, Quietas DEF Fichas
<1>3. EnManoBien' /\ EnExec'
  BY <1>1 DEF Fichas, EnManoBien, EnMano, EnExec
<1> QED
  BY <1>2, <1>3 DEF Fichas

\* A step may put q in that place of a socket or of a queue, and no other.
Entra(q, t0, i0, k0) ==
  \A p \in Procesos, x \in Interfaces, k \in Nat :
    /\ Pedido(x, k, p)' =>
         Pedido(x, k, p) \/ (p = q /\ t0 = "pedido" /\ x = i0 /\ k = k0)
    /\ Espera(x, k, p)' =>
         Espera(x, k, p) \/ (p = q /\ t0 = "cola" /\ x = i0 /\ k = k0)

\* Whoever leaves EXEC for an interface has no token; it gets one.
LEMMA AsignarOEncolarFichas ==
  ASSUME Forma, Fichas, AsignarInterfaz \/ EncolarEnInterfaz PROVE Fichas'
<1> PICK j : j = despacho.instancia
  OBVIOUS
<1> PICK q : q = despacho.pid
  OBVIOUS
<1> PICK l : l = Len(instancia[j].cola_de_espera) + 1
  OBVIOUS
<1>1. /\ despacho.pc # "reposo" /\ instancia[j].viva
      /\ estado' = [estado EXCEPT ![q] = "blocked"]
      /\ despacho' = Reposo
      /\ UNCHANGED <<respuestas, hilo>>
  BY DEF AsignarInterfaz, EncolarEnInterfaz, Bloquea
<1>2. /\ j \in Interfaces /\ q \in Procesos /\ estado[q] = "exec"
      /\ instancia \in [Interfaces -> Instancia]
      /\ instancia[j].socket \in Fds
      /\ instancia[j].cola_de_espera \in Seq(Procesos)
  <2>1. j \in Interfaces /\ q \in Procesos /\ estado[q] = "exec"
    BY <1>1 DEF Forma, DespachoBien, Fichas, EnExec
  <2>2. instancia \in [Interfaces -> Instancia]
    BY DEF Forma, TiposDeConexion
  <2> QED
    BY <1>1, <2>1, <2>2 DEF Forma, InstanciasBien, Instancia
<1>3. /\ estado'[q] = "blocked"
      /\ \A p \in Procesos \ {q} : estado'[p] = estado[p]
  BY <1>1, <1>2 DEF Forma, TiposDeHilos
<1>4. EnManoBien' /\ EnExec'
  <2>1. ASSUME NEW x \in Interfaces, EnMano(x)'
        PROVE  /\ EnMano(x) /\ hilo'[x].pid = hilo[x].pid
               /\ estado'[hilo[x].pid] = "en mano"
    <3>1. EnMano(x) /\ hilo'[x] = hilo[x]
      BY <1>1, <2>1 DEF EnMano
    <3>2. estado[hilo[x].pid] = "en mano" /\ hilo[x].pid \in Procesos
      BY <3>1 DEF Fichas, EnManoBien, EnMano, Forma, HilosBien
    <3> QED
      BY <1>2, <1>3, <3>1, <3>2
  <2>2. EnManoBien'
    BY <2>1, MismaMano DEF Fichas
  <2> QED
    BY <1>1, <2>2 DEF EnExec, Reposo
<1>5. \A p \in Procesos, x \in Interfaces, k \in Nat :
        /\ Respuesta(x, k, p)' => Respuesta(x, k, p)
        /\ EnHilo(x, p)' => EnHilo(x, p)
  BY <1>1 DEF Respuesta, EnHilo, Fin
<1>6. \A x \in Interfaces, k \in Nat :
        /\ ~EnHilo(x, q) /\ ~Pedido(x, k, q)
        /\ ~Respuesta(x, k, q) /\ ~Espera(x, k, q)
  BY <1>2, FichaDe DEF Fichas
<1>7. \E t0, i0, k0 : Entra(q, t0, i0, k0)
  <2>1. CASE AsignarInterfaz
    <3>1. \A x \in Interfaces :
            instancia'[x].cola_de_espera = instancia[x].cola_de_espera
      <4> DEFINE n == [instancia[j] EXCEPT !.pcb_con_interfaz_asignada = q,
                                           !.mochila_destruida = FALSE,
                                           !.libre = Ocupada]
      <4>1. instancia' = [instancia EXCEPT ![j] = n]
        BY <1>2, <2>1 DEF AsignarInterfaz
      <4>2. n.cola_de_espera = instancia[j].cola_de_espera
        BY <1>2 DEF Instancia
      <4> HIDE DEF n
      <4> QED
        BY <1>2, <4>1, <4>2
    <3>2. \A p \in Procesos, x \in Interfaces, k \in Nat :
            Espera(x, k, p)' => Espera(x, k, p)
      BY <3>1 DEF Espera
    <3>3. PICK f : f = instancia[j].socket
      OBVIOUS
    <3>4. PICK r, n : Envia(q, r, n)
      BY <1>2, <2>1, <3>3, PedidoNuevo DEF AsignarInterfaz
    <3>5. Entra(q, "pedido", r, n)
      BY <3>2, <3>4 DEF Entra, Envia
    <3> QED
      BY <3>5
  <2>2. CASE EncolarEnInterfaz
    <3>1. /\ pedidos' = pedidos
          /\ \A x \in Interfaces :
               instancia'[x].cola_de_espera =
                 IF x = j THEN Append(instancia[j].cola_de_espera, q)
                 ELSE instancia[x].cola_de_espera
      BY <1>2, <2>2 DEF EncolarEnInterfaz, Instancia
    <3>2. ASSUME NEW p \in Procesos, NEW x \in Interfaces, NEW k \in Nat
          PROVE  /\ Pedido(x, k, p)' => Pedido(x, k, p)
                 /\ Espera(x, k, p)' =>
                      Espera(x, k, p) \/ (p = q /\ x = j /\ k = l)
      <4>1. Pedido(x, k, p)' => Pedido(x, k, p)
        BY <3>1 DEF Pedido
      <4>2. CASE x = j
        <5>1. \A m \in DOMAIN Append(instancia[j].cola_de_espera, q) :
                \/ /\ m \in DOMAIN instancia[j].cola_de_espera
                   /\ Append(instancia[j].cola_de_espera, q)[m]
                        = instancia[j].cola_de_espera[m]
                \/ m = l /\ Append(instancia[j].cola_de_espera, q)[m] = q
          BY <1>2, Agregar
        <5> QED
          BY <3>1, <4>1, <4>2, <5>1 DEF Espera
      <4>3. CASE x # j
        BY <3>1, <4>1, <4>3 DEF Espera
      <4> QED
        BY <4>2, <4>3
    <3>3. Entra(q, "cola", j, l)
      BY <3>2 DEF Entra
    <3> QED
      BY <3>3
  <2> QED
    BY <2>1, <2>2
<1> PICK t0, i0, k0 : Entra(q, t0, i0, k0)
  BY <1>7
<1>8. Llega(q, t0, i0, k0)
  <2> SUFFICES ASSUME NEW t \in Lugares, NEW x \in Interfaces, NEW k \in Nat,
                      Ficha(t, x, k, q)'
               PROVE  t = t0 /\ x = i0 /\ k = k0 /\ estado'[q] = "blocked"
    BY DEF Llega
  <2> QED
    BY <1>2, <1>3, <1>5, <1>6 DEF Ficha, Entra
<1>9. ASSUME NEW p \in Procesos \ {q} PROVE Sigue("ninguna", NULO, p)
  <2>1. \A x \in Interfaces, k \in Nat :
          /\ k + Corre("pedido", x, "ninguna", NULO) = k
          /\ k + Corre("respuesta", x, "ninguna", NULO) = k
          /\ k + Corre("cola", x, "ninguna", NULO) = k
    BY DEF Corre
  <2> QED
    BY <1>3, <1>5, <2>1 DEF Sigue, Entra
<1>10. UnaFicha' /\ FichaBloqueada'
  BY <1>8, <1>9, Trasladar DEF Fichas
<1> QED
  BY <1>4, <1>10 DEF Fichas

LEMMA HiloDeConexionFichas ==
  ASSUME Forma, Fichas, NEW i \in Interfaces, HiloDeConexion(i) PROVE Fichas'
<1>1. CASE AgregarInstancia(i) \/ RecibirFin(i)
  BY <1>1, AgregarInstanciaFichas, RecibirFinFichas
<1>2. CASE BuscarYRemover(i) \/ FinConError(i) \/ AgregarAReady(i)
  BY <1>2, SacarDeBlockedFichas, AgregarAReadyFichas
<1>3. CASE SacarSiguiente(i) \/ LiberarInterfaz(i)
  BY <1>3, SiguienteOLiberarFichas
<1>4. CASE \/ LeerFinDeSocket(i) \/ BuscarLaPropia(i)
           \/ EliminarInterfaz(i) \/ EliminarDeListaVacia(i)
  BY <1>4, QuietaFichas
<1>5. CASE UsarLiberada(i) \/ EliminarDosVeces(i) \/ EliminarNula(i)
  BY <1>5, MuereFichas DEF UsarLiberada, EliminarDosVeces, EliminarNula
<1> QED
  BY <1>1, <1>2, <1>3, <1>4, <1>5 DEF HiloDeConexion

LEMMA InitFichas == ASSUME Init PROVE Fichas
<1>1. \A p \in Procesos, t \in Lugares, i \in Interfaces, k \in Nat :
        ~Ficha(t, i, k, p)
  <2> TAKE p \in Procesos, t \in Lugares, i \in Interfaces, k \in Nat
  <2>1. /\ pedidos[i] = <<>> /\ respuestas[i] = <<>>
        /\ instancia[i].cola_de_espera = <<>>
        /\ hilo[i].pc = "sin empezar"
    BY DEF Init, SinInstancia
  <2>2. k \notin DOMAIN <<>>
    BY EmptySeq
  <2> QED
    BY <2>1, <2>2 DEF Ficha, Pedido, Respuesta, EnHilo, Espera
<1>2. UnaFicha /\ FichaBloqueada
  BY <1>1 DEF UnaFicha, FichaBloqueada
<1>3. EnManoBien /\ EnExec
  BY DEF Init, EnManoBien, EnMano, EnExec, Reposo
<1> QED
  BY <1>2, <1>3 DEF Fichas

LEMMA NextFichas == ASSUME Forma, Fichas, [Next]_vars PROVE Fichas'
<1>1. ASSUME NEW i \in Interfaces,
             Conectar(i) \/ Morir(i) \/ EntradaSalida(i) \/ HiloDeConexion(i)
      PROVE  Fichas'
  BY <1>1, ConectarFichas, MorirFichas, EnviarNombreFichas,
     TerminarOperacionFichas, HiloDeConexionFichas
  DEF EntradaSalida
<1>2. CASE HiloDespacho
  BY <1>2, ValidarFichas, AsignarOEncolarFichas, MuereFichas
  DEF HiloDespacho, DespacharLiberada
<1>3. CASE UNCHANGED vars
  <2>1. UNCHANGED <<pedidos, respuestas, instancia, estado, hilo, despacho>>
    BY <1>3 DEF vars, listaVars
  <2>2. UnaFicha' /\ FichaBloqueada'
    <3>1. \A p \in Procesos :
            /\ estado[p] = "blocked" => estado'[p] = "blocked"
            /\ \A j \in Interfaces, k \in Nat : Espera(j, k, p)' => Espera(j, k, p)
            /\ \A j \in Interfaces : EnHilo(j, p)' => EnHilo(j, p)
      BY <2>1 DEF Espera, EnHilo
    <3> QED
      BY <2>1, <3>1, Quietas DEF Fichas
  <2> QED
    BY <2>1, <2>2, QuietosLosHilos DEF Fichas
<1> QED
  BY <1>1, <1>2, <1>3, PedirFichas DEF Next

\* One place for the token of a process is one interface for the process.
LEMMA ConUnaSola ==
  ASSUME Forma, Fichas, NEW p \in Procesos,
         NEW i \in Interfaces, EnCamino(i, p) \/ EnCola(i, p)
  PROVE  /\ estado[p] = "blocked"
         /\ ~(EnCamino(i, p) /\ EnCola(i, p))
         /\ \A j \in Interfaces : EnCamino(j, p) \/ EnCola(j, p) => i = j
<1>1. ASSUME NEW j \in Interfaces
      PROVE  /\ EnCamino(j, p) =>
                  \E t \in {"pedido", "respuesta", "hilo"}, k \in Nat :
                    Ficha(t, j, k, p)
             /\ EnCola(j, p) => \E k \in Nat : Ficha("cola", j, k, p)
  <2>1. /\ \A k \in DOMAIN pedidos[j] : k \in Nat
        /\ \A k \in DOMAIN respuestas[j] : k \in Nat
        /\ \A k \in DOMAIN instancia[j].cola_de_espera : k \in Nat
    <3>1. /\ pedidos[j] \in Seq(Mensaje) /\ respuestas[j] \in Seq(Contestacion)
          /\ instancia[j].cola_de_espera \in Seq(Procesos)
      BY DEF Forma, TiposDeConexion, Instancia
    <3> QED
      BY <3>1, Posiciones
  <2>2. EnCamino(j, p) =>
          \/ \E k \in Nat : Pedido(j, k, p) \/ Respuesta(j, k, p)
          \/ EnHilo(j, p)
    BY <2>1 DEF EnCamino, Pedido, Respuesta, EnHilo
  <2>3. EnCola(j, p) => \E k \in Nat : Espera(j, k, p)
    BY <2>1 DEF EnCola, Espera
  <2> QED
    BY <2>2, <2>3 DEF Ficha
<1>2. \A j \in Interfaces : EnCamino(j, p) \/ EnCola(j, p) =>
        \E t \in Lugares, k \in Nat : Ficha(t, j, k, p)
  BY <1>1 DEF Lugares
<1>3. \A j \in Interfaces : EnCamino(j, p) \/ EnCola(j, p) => i = j
  BY <1>2 DEF Fichas, UnaFicha
<1>4. estado[p] = "blocked"
  BY <1>2 DEF Fichas, FichaBloqueada
<1>5. ASSUME EnCamino(i, p), EnCola(i, p) PROVE FALSE
  BY <1>1, <1>5 DEF Fichas, UnaFicha, Lugares
<1> QED
  BY <1>3, <1>4, <1>5

LEMMA FichasUnaSola == ASSUME Forma, Fichas PROVE UnaSolaInterfaz
<1> SUFFICES ASSUME NEW p \in Procesos
             PROVE  LET conP == {i \in Interfaces : EnCamino(i, p) \/ EnCola(i, p)}
                    IN  /\ conP # {} => estado[p] = "blocked" /\ Cardinality(conP) = 1
                        /\ \A i \in Interfaces : ~(EnCamino(i, p) /\ EnCola(i, p))
  BY DEF UnaSolaInterfaz
<1> DEFINE conP == {i \in Interfaces : EnCamino(i, p) \/ EnCola(i, p)}
<1>1. \A i, j \in conP : i = j
  BY ConUnaSola
<1>2. ASSUME conP # {} PROVE estado[p] = "blocked" /\ Cardinality(conP) = 1
  <2>1. PICK i \in conP : TRUE
    BY <1>2
  <2>2. conP = {i}
    BY <1>1, <2>1
  <2>3. estado[p] = "blocked"
    BY <2>1, ConUnaSola
  <2> HIDE DEF conP
  <2> QED
    BY <2>2, <2>3, FS_Singleton
<1> QED
  BY <1>2, ConUnaSola

\* Whatever fails, and however descriptors and queues are taken from under the
\* threads that use them, no process is with two interfaces, or twice with one,
\* and who is with one is blocked: an I/O ends at most once.
THEOREM InterfacesUnaSola == Spec => []UnaSolaInterfaz
<1>1. Init => Forma /\ Fichas
  BY InitForma, InitFichas
<1>2. Forma /\ Fichas /\ [Next]_vars => Forma' /\ Fichas'
  BY NextForma, NextFichas
<1>3. Forma /\ Fichas => UnaSolaInterfaz
  BY FichasUnaSola
<1> QED
  BY <1>1, <1>2, <1>3, PTL DEF Spec

-----------------------------------------------------------------------------
(* Every run in its place *)

\* What the dispatch thread can find, of a run: the instance and its socket.
Enlazada(i) == descriptor[hilo[i].socket] = i
Propia(i) == Listada(i) /\ instancia[i].viva /\ instancia[i].socket = hilo[i].socket
Ninguna(i) == ~Listada(i) /\ instancia[i] = SinInstancia
Callada(i) == pedidos[i] = <<>> /\ respuestas[i] = <<>>

\* Not connected, or connected and with its name still to tell
SinNacer(i) ==
  /\ hilo[i].pc = "sin empezar" /\ proceso_io[i] = "sin conectar"
  /\ Ninguna(i) /\ Callada(i)

SinNombre(i) ==
  /\ hilo[i].pc = "reposo" /\ proceso_io[i] = "conectado"
  /\ Enlazada(i) /\ Ninguna(i)
  /\ \/ pedidos[i] = <<NOMBRE>> /\ respuestas[i] = <<>>
     \/ pedidos[i] = <<>> /\ respuestas[i] = <<NOMBRE>>

\* Serving: it works for nobody, or for one process, or has just ended and
\* looks for the next, or is left busy by an I/O that ended with an error.  Who
\* was queued after `libre' was tested may be in its queue in any of them.
Resultados == IF "ERROR" \in Casos THEN {"OK", "ERROR"} ELSE {"OK"}
Finales == IF "ERROR" \in Casos THEN {"fin", "error"} ELSE {"fin"}

Ociosa(i) == /\ instancia[i].libre = 1
             /\ instancia[i].pcb_con_interfaz_asignada = NULO
             /\ Callada(i)

Ocupa(i, p) ==
  /\ instancia[i].libre = 0 /\ instancia[i].pcb_con_interfaz_asignada = p
  /\ \/ /\ hilo[i].pc \in {"reposo", "a ready"}
        /\ pedidos[i] = <<[pid |-> p]>> /\ respuestas[i] = <<>>
     \/ /\ hilo[i].pc \in {"reposo", "a ready"}
        /\ pedidos[i] = <<>>
        /\ \E r \in Resultados :
             respuestas[i] = <<[op |-> "FIN_ENTRADASALIDA", pid |-> p,
                               resultado |-> r]>>
     \/ hilo[i].pc \in Finales /\ hilo[i].pid = p /\ Callada(i)

Acaba(i) ==
  /\ instancia[i].libre = 0 /\ Callada(i)
  /\ hilo[i].pc \in {"siguiente", "liberar"}

Trabada(i) == /\ "ERROR" \in Casos /\ instancia[i].libre = 0
              /\ hilo[i].pc = "reposo" /\ Callada(i)

Sirve(i) ==
  /\ proceso_io[i] = "conectado" /\ Propia(i) /\ Enlazada(i)
  /\ hilo[i].pc \in {"fin", "siguiente", "liberar"} => hilo[i].instancia = i
  /\ \/ Ociosa(i) /\ hilo[i].pc \in {"reposo", "a ready"}
     \/ \E p \in Procesos : Ocupa(i, p)
     \/ Acaba(i) \/ Trabada(i)

\* Gone, with the thread of its connection on the way to take it down; or down.
SeVa(i) ==
  /\ proceso_io[i] = "caido" /\ Propia(i) /\ Ociosa(i)
  /\ instancia[i].cola_de_espera = <<>>
  /\ \/ hilo[i].pc = "reposo" /\ Enlazada(i)
     \/ hilo[i].pc = "desconexion"
     \/ hilo[i].pc = "eliminar" /\ hilo[i].instancia = i

Fuera(i) ==
  /\ hilo[i].pc = "terminado" /\ proceso_io[i] = "caido"
  /\ Ninguna(i) /\ Callada(i)

EnSuLugar(i) ==
  SinNacer(i) \/ SinNombre(i) \/ Sirve(i) \/ SeVa(i) \/ Fuera(i)

Abierta(i) == hilo[i].pc \notin {"sin empezar", "terminado"}

\* No two runs that the kernel has a thread for share a name or a descriptor,
\* and an instance is listed once.
Distintas ==
  /\ \A i, j \in Interfaces :
       Abierta(i) /\ Abierta(j)
         /\ (nombre[i] = nombre[j] \/ hilo[i].socket = hilo[j].socket) => i = j
  /\ \A k, n \in DOMAIN lista_instancias_global :
       lista_instancias_global[k] = lista_instancias_global[n] => k = n

\* The instance the dispatch thread has found goes on serving, and is as free as
\* it saw it, though not as busy.
Ve(j) == despacho.pc = "asignar" => instancia[j].libre = 1

LaPedida ==
  \/ despacho.pc = "reposo" /\ despacho.instancia = NULO
  \/ /\ despacho.pc # "reposo" /\ despacho.instancia \in Interfaces
     /\ Sirve(despacho.instancia) /\ Ve(despacho.instancia)

\* Who is blocked is with an interface.
Con(i, p) == Ocupa(i, p) \/ EnCola(i, p)
Esperan ==
  \A p \in Procesos : estado[p] = "blocked" => \E i \in Interfaces : Con(i, p)

\* No interface dies in use, and none connects while another is taken down.
SinUso == "EN USO" \notin Casos /\ "RECONECTA" \notin Casos

Conexiones == /\ caido = "" /\ \A i \in Interfaces : EnSuLugar(i)
              /\ Distintas /\ LaPedida /\ Esperan

\* A run that a step leaves alone.
SeQueda(j) ==
  /\ hilo'[j] = hilo[j] /\ proceso_io'[j] = proceso_io[j]
  /\ instancia'[j] = instancia[j]
  /\ pedidos'[j] = pedidos[j] /\ respuestas'[j] = respuestas[j]
  /\ Listada(j)' <=> Listada(j)
  /\ Abierta(j) /\ Enlazada(j) => Enlazada(j)'

LEMMA SeQuedaDondeEsta ==
  ASSUME NEW j \in Interfaces, SeQueda(j)
  PROVE  /\ EnSuLugar(j) => EnSuLugar(j)'
         /\ Sirve(j) => Sirve(j)'
         /\ \A p : Con(j, p) => Con(j, p)'
<1>1. /\ hilo'[j] = hilo[j] /\ proceso_io'[j] = proceso_io[j]
      /\ instancia'[j] = instancia[j]
      /\ pedidos'[j] = pedidos[j] /\ respuestas'[j] = respuestas[j]
      /\ Listada(j)' <=> Listada(j)
      /\ Abierta(j) /\ Enlazada(j) => Enlazada(j)'
  BY DEF SeQueda
<1>2. /\ Callada(j)' <=> Callada(j)
      /\ Ociosa(j)' <=> Ociosa(j)
      /\ Acaba(j)' <=> Acaba(j)
      /\ Trabada(j)' <=> Trabada(j)
      /\ \A p : Ocupa(j, p)' <=> Ocupa(j, p)
      /\ \A p : EnCola(j, p)' <=> EnCola(j, p)
  BY <1>1 DEF Callada, Ociosa, Acaba, Trabada, Ocupa, EnCola, Finales
<1>3. (Propia(j)' <=> Propia(j)) /\ (Ninguna(j)' <=> Ninguna(j))
  BY <1>1 DEF Propia, Ninguna, SinInstancia
<1>4. Sirve(j) => Abierta(j)
  BY DEF Sirve, Ociosa, Ocupa, Acaba, Trabada, Finales, Abierta
<1>5. Sirve(j) => Sirve(j)'
  BY <1>1, <1>2, <1>3, <1>4 DEF Sirve
<1>6. SinNacer(j) => SinNacer(j)'
  BY <1>1, <1>2, <1>3 DEF SinNacer
<1>7. SinNombre(j) => SinNombre(j)'
  BY <1>1, <1>3 DEF SinNombre, Abierta, NOMBRE
<1>8. SeVa(j) => SeVa(j)'
  BY <1>1, <1>2, <1>3 DEF SeVa, Abierta
<1>9. Fuera(j) => Fuera(j)'
  BY <1>1, <1>2, <1>3 DEF Fuera
<1> QED  BY <1>2, <1>5, <1>6, <1>7, <1>8, <1>9 DEF EnSuLugar, Con

LEMMA SoloSeMueve ==
  ASSUME NEW i \in Interfaces, UNCHANGED <<proceso_io, descriptor, lista_instancias_global>>,
         \A j \in Interfaces \ {i} :
           /\ hilo'[j] = hilo[j] /\ instancia'[j] = instancia[j]
           /\ pedidos'[j] = pedidos[j] /\ respuestas'[j] = respuestas[j]
  PROVE  /\ \A j \in Interfaces \ {i} : SeQueda(j)
         /\ Listada(i)' <=> Listada(i)
         /\ hilo'[i].socket = hilo[i].socket => (Enlazada(i)' <=> Enlazada(i))
BY DEF SeQueda, Listada, Enlazada

\* Where a run is, by what its thread does or the dispatch thread finds.
LEMMA DondeEsta ==
  ASSUME Conexiones, NEW i \in Interfaces
  PROVE  /\ hilo[i].pc = "fin" =>
              /\ Sirve(i)
              /\ \E p \in Procesos : Ocupa(i, p) /\ hilo[i].pid = p /\ Callada(i)
         /\ hilo[i].pc \in {"siguiente", "liberar"} => Sirve(i) /\ Acaba(i)
         /\ hilo[i].pc = "a ready" =>
              Sirve(i) /\ (Ociosa(i) \/ \E p \in Procesos : Ocupa(i, p))
         /\ hilo[i].pc = "error" =>
              /\ Sirve(i) /\ "ERROR" \in Casos
              /\ \E p \in Procesos : Ocupa(i, p) /\ hilo[i].pid = p /\ Callada(i)
         /\ hilo[i].pc \in {"desconexion", "eliminar"} => SeVa(i)
         /\ hilo[i].pc = "reposo" => Enlazada(i) /\ (SinNombre(i) \/ Sirve(i) \/ SeVa(i))
         /\ proceso_io[i] = "sin conectar" => SinNacer(i)
         /\ Listada(i) => (Sirve(i) \/ SeVa(i)) /\ Propia(i) /\ Abierta(i)
<1>1. EnSuLugar(i)
  BY DEF Conexiones
<1>2. SinNacer(i) => hilo[i].pc = "sin empezar" /\ ~Listada(i)
  BY DEF SinNacer, Ninguna
<1>3. SinNombre(i) => /\ hilo[i].pc = "reposo" /\ ~Listada(i) /\ Enlazada(i)
                      /\ proceso_io[i] = "conectado"
  BY DEF SinNombre, Ninguna
<1>4. Fuera(i) => /\ hilo[i].pc = "terminado" /\ ~Listada(i)
                  /\ proceso_io[i] = "caido"
  BY DEF Fuera, Ninguna
<1>5. SeVa(i) => /\ hilo[i].pc \in {"reposo", "desconexion", "eliminar"}
                 /\ hilo[i].pc = "reposo" => Enlazada(i)
                 /\ proceso_io[i] = "caido" /\ Propia(i)
  BY DEF SeVa
<1>6. Sirve(i) => /\ hilo[i].pc \in {"reposo", "a ready", "fin", "error", "siguiente", "liberar"}
                  /\ proceso_io[i] = "conectado" /\ Propia(i) /\ Enlazada(i)
  BY DEF Sirve, Ociosa, Ocupa, Acaba, Trabada, Finales
<1>7. Sirve(i) /\ hilo[i].pc \in {"fin", "error"} =>
        /\ \E p \in Procesos : Ocupa(i, p) /\ hilo[i].pid = p /\ Callada(i)
        /\ hilo[i].pc = "error" => "ERROR" \in Casos
  BY DEF Sirve, Ociosa, Ocupa, Acaba, Trabada, Finales
<1>8. Sirve(i) /\ hilo[i].pc \in {"siguiente", "liberar"} => Acaba(i)
  BY DEF Sirve, Ocupa, Trabada, Finales
<1>9. Sirve(i) /\ hilo[i].pc = "a ready" =>
        Ociosa(i) \/ \E p \in Procesos : Ocupa(i, p)
  BY DEF Sirve, Acaba, Trabada
<1>10. CASE SinNacer(i)
  BY <1>2, <1>10
<1>11. CASE SinNombre(i)
  BY <1>3, <1>11
<1>12. CASE Sirve(i)
  BY <1>6, <1>7, <1>8, <1>9, <1>12 DEF Abierta
<1>13. CASE SeVa(i)
  BY <1>5, <1>13 DEF Abierta
<1>14. CASE Fuera(i)
  BY <1>4, <1>14
<1> QED  BY <1>1, <1>10, <1>11, <1>12, <1>13, <1>14 DEF EnSuLugar

\* A step that moves one run.
LEMMA ConexionesPaso ==
  ASSUME Conexiones, NEW i \in Interfaces, caido' = "", EnSuLugar(i)',
         \A j \in Interfaces \ {i} : SeQueda(j), Distintas', LaPedida',
         \A p \in Procesos : estado'[p] = "blocked" =>
           Con(i, p)' \/ (estado[p] = "blocked" /\ ~Con(i, p))
  PROVE  Conexiones'
<1>1. ASSUME NEW p \in Procesos, estado'[p] = "blocked"
      PROVE  \E j \in Interfaces : Con(j, p)'
  <2>1. CASE Con(i, p)'
    BY <2>1
  <2>2. CASE estado[p] = "blocked" /\ ~Con(i, p)
    <3>1. PICK j \in Interfaces : Con(j, p)
      BY <1>1, <2>2 DEF Conexiones, Esperan
    <3>2. SeQueda(j)
      BY <2>2, <3>1
    <3>3. Con(j, p)'
      BY <3>1, <3>2, SeQuedaDondeEsta
    <3> QED  BY <3>3
  <2> QED  BY <1>1, <2>1, <2>2
<1>2. \A j \in Interfaces : EnSuLugar(j)'
  BY SeQuedaDondeEsta DEF Conexiones
<1> QED  BY <1>1, <1>2 DEF Conexiones, Esperan

\* A step that moves one run and is not the dispatch thread's.
LEMMA ConexionesMueve ==
  ASSUME Conexiones, NEW i \in Interfaces, caido' = "", UNCHANGED despacho,
         EnSuLugar(i)', \A j \in Interfaces \ {i} : SeQueda(j), Distintas',
         despacho.instancia = i /\ Sirve(i) /\ Ve(i) => Sirve(i)' /\ Ve(i)',
         \A p \in Procesos : estado'[p] = "blocked" =>
           Con(i, p)' \/ (estado[p] = "blocked" /\ ~Con(i, p))
  PROVE  Conexiones'
<1>1. LaPedida'
  <2> PICK j : j = despacho.instancia
    OBVIOUS
  <2>1. CASE despacho.pc = "reposo" /\ despacho.instancia = NULO
    BY <2>1 DEF LaPedida
  <2>2. CASE despacho.pc # "reposo" /\ j \in Interfaces /\ Sirve(j) /\ Ve(j)
    <3>1. j # i => Sirve(j)' /\ Ve(j)'
      BY <2>2, SeQuedaDondeEsta DEF SeQueda, Ve
    <3> QED  BY <2>2, <3>1 DEF LaPedida
  <2> QED  BY <2>1, <2>2 DEF Conexiones, LaPedida
<1> QED  BY <1>1, ConexionesPaso

LEMMA DistintasIgual ==
  ASSUME Distintas, lista_instancias_global' = lista_instancias_global,
         \A j \in Interfaces :
           hilo'[j].socket = hilo[j].socket /\ (Abierta(j)' => Abierta(j))
  PROVE  Distintas'
BY DEF Distintas

-----------------------------------------------------------------------------
(* One lemma per action, without "EN USO" and "RECONECTA" *)

LEMMA UnElemento ==
  ASSUME NEW e
  PROVE  /\ <<e>> # <<>> /\ Head(<<e>>) = e /\ Tail(<<e>>) = <<>>
         /\ Append(<<>>, e) = <<e>>
OBVIOUS

LEMMA UnoSolo ==
  ASSUME NEW e
  PROVE  \A k : k \in DOMAIN <<e>> => <<e>>[k] = e
OBVIOUS

LEMMA NingunoSolo == \A k : k \notin DOMAIN <<>>
  BY EmptySeq

LEMMA NombreAparte ==
  ASSUME NEW p
  PROVE  /\ [pid |-> p] # NOMBRE
         /\ NOMBRE.op = "NOMBRE_ENTRADA_SALIDA"
         /\ \A r : [op |-> "FIN_ENTRADASALIDA", pid |-> p, resultado |-> r].op
                     # "NOMBRE_ENTRADA_SALIDA"
BY DEF NOMBRE

LEMMA SinCola ==
  ASSUME NEW i, instancia[i].cola_de_espera = <<>>
  PROVE  \A p : ~EnCola(i, p)
<1> PICK c : c = instancia[i].cola_de_espera
  OBVIOUS
<1>1. \A k : k \notin DOMAIN c
  BY EmptySeq
<1> QED  BY <1>1 DEF EnCola

LEMMA SinInstanciaCampos ==
  /\ SinInstancia.cola_de_espera = <<>> /\ SinInstancia.viva = FALSE
  /\ SinInstancia.pcb_con_interfaz_asignada = NULO
BY DEF SinInstancia

\* A new connection is given a name and a descriptor nobody has, since nobody
\* is being taken down.
LEMMA ConectarConexiones ==
  ASSUME SinUso, Forma, Conexiones, NEW i \in Interfaces, Conectar(i)
  PROVE  Conexiones'
<1> DEFINE F == {g \in Fds : descriptor[g] = NULO}
<1> PICK f : f = Min(F)
  OBVIOUS
<1>1. f \in Fds /\ descriptor[f] = NULO
  <2>1. F \subseteq Fds /\ F # {}
    BY DEF Conectar
  <2> HIDE DEF F
  <2>2. f \in F
    BY <2>1, PrimerDescriptor
  <2> QED  BY <2>2 DEF F
<1>2. /\ proceso_io[i] = "sin conectar" /\ ~SacandoInstancia
      /\ \A j \in Interfaces \ {i} :
           nombre[j] = nombre[i] => proceso_io[j] # "conectado"
      /\ proceso_io' = [proceso_io EXCEPT ![i] = "conectado"]
      /\ descriptor' = [descriptor EXCEPT ![f] = i]
      /\ hilo' = [hilo EXCEPT ![i].pc = "reposo", ![i].socket = f]
      /\ pedidos' = [pedidos EXCEPT ![i] = Append(@, NOMBRE)]
      /\ UNCHANGED <<respuestas, listaVars, estado, despacho, caido>>
  BY DEF Conectar, SinUso
<1>3. /\ SinNacer(i) /\ hilo[i].pc = "sin empezar" /\ Ninguna(i) /\ Callada(i)
  BY <1>2, DondeEsta DEF SinNacer
<1>4. TiposDeConexion /\ hilo \in [Interfaces -> Hilo]
  BY DEF Forma, TiposDeHilos
<1>5. /\ hilo'[i].pc = "reposo" /\ hilo'[i].socket = f
      /\ \A j \in Interfaces \ {i} : hilo'[j] = hilo[j]
  <2>1. \A h \in Hilo : LET n == [h EXCEPT !.pc = "reposo", !.socket = f]
                        IN  n.pc = "reposo" /\ n.socket = f
    BY DEF Hilo
  <2>2. hilo' = [hilo EXCEPT ![i] = [@ EXCEPT !.pc = "reposo", !.socket = f]]
    BY <1>2
  <2> QED  BY <1>4, <2>1, <2>2
<1>6. NULO \notin Interfaces
  BY NulosAparte
<1>7. ASSUME NEW j \in Interfaces \ {i}, Abierta(j)
      PROVE  /\ Enlazada(j) /\ hilo[j].socket # f /\ hilo[j].socket \in Fds
             /\ nombre[j] # nombre[i]
  <2>1. SinNombre(j) \/ Sirve(j)
    <3>1. ~SinNacer(j) /\ ~Fuera(j)
      BY <1>7 DEF Abierta, SinNacer, Fuera
    <3>2. ~SeVa(j)
      BY <1>2, <1>7 DEF SeVa, SacandoInstancia, En, Abierta
    <3> QED  BY <3>1, <3>2 DEF Conexiones, EnSuLugar
  <2>2. Enlazada(j) /\ proceso_io[j] = "conectado"
    BY <2>1 DEF SinNombre, Sirve
  <2>3. hilo[j].socket \in Fds
    BY <1>7 DEF Forma, HilosBien, Abierta
  <2> QED  BY <1>1, <1>2, <1>6, <2>2, <2>3 DEF Enlazada
<1>8. ASSUME NEW j \in Interfaces \ {i} PROVE SeQueda(j)
  <2>1. Abierta(j) /\ Enlazada(j) => Enlazada(j)'
    BY <1>2, <1>4, <1>5, <1>7 DEF Enlazada, TiposDeConexion
  <2> QED
    BY <1>2, <1>4, <1>5, <2>1 DEF SeQueda, TiposDeConexion, listaVars, Listada
<1>9. SinNombre(i)'
  <2>1. pedidos'[i] = <<NOMBRE>> /\ respuestas'[i] = <<>>
    BY <1>2, <1>3, <1>4, UnElemento DEF Callada, TiposDeConexion
  <2>2. proceso_io'[i] = "conectado" /\ descriptor'[f] = i
    BY <1>1, <1>2, <1>4 DEF TiposDeConexion
  <2>3. Ninguna(i)'
    BY <1>2, <1>3 DEF Ninguna, Listada, listaVars, SinInstancia
  <2>4. NOMBRE' = NOMBRE
    BY DEF NOMBRE
  <2> QED  BY <1>5, <2>1, <2>2, <2>3, <2>4 DEF SinNombre, Enlazada
<1>10. Distintas'
  <2>1. ASSUME NEW x \in Interfaces, NEW y \in Interfaces, Abierta(x)', Abierta(y)',
               nombre[x] = nombre[y] \/ hilo'[x].socket = hilo'[y].socket
        PROVE  x = y
    <3>1. CASE x # i /\ y # i
      BY <1>5, <2>1, <3>1 DEF Abierta, Conexiones, Distintas
    <3>2. CASE x = i /\ y # i
      BY <1>5, <1>7, <2>1, <3>2 DEF Abierta
    <3>3. CASE x # i /\ y = i
      BY <1>5, <1>7, <2>1, <3>3 DEF Abierta
    <3> QED  BY <3>1, <3>2, <3>3
  <2> QED  BY <1>2, <2>1 DEF Conexiones, Distintas, listaVars
<1>11. ~Sirve(i) /\ \A p : ~Con(i, p)
  <2>1. instancia[i].cola_de_espera = <<>>
    BY <1>3, SinInstanciaCampos DEF Ninguna
  <2>2. \A p : ~EnCola(i, p)
    BY <2>1, SinCola
  <2> QED  BY <1>2, <1>3, <2>2 DEF Sirve, Con, Ocupa, Finales
<1> QED
  BY <1>2, <1>8, <1>9, <1>10, <1>11, ConexionesMueve DEF Conexiones, EnSuLugar

\* It ends while it works for nobody and nobody has found it.
LEMMA MorirConexiones ==
  ASSUME SinUso, Forma, Conexiones, NEW i \in Interfaces, Morir(i)
  PROVE  Conexiones'
<1>1. /\ proceso_io[i] = "conectado" /\ Listada(i) /\ ~EnUso(i)
      /\ proceso_io' = [proceso_io EXCEPT ![i] = "caido"]
      /\ pedidos' = [pedidos EXCEPT ![i] = <<>>]
      /\ UNCHANGED <<descriptor, respuestas, listaVars, estado, hilo, despacho, caido>>
  BY DEF Morir, SinUso
<1>2. Sirve(i) /\ hilo[i].pc = "reposo" /\ despacho.instancia # i
      /\ instancia[i].libre # 0 /\ instancia[i].cola_de_espera = <<>>
  BY <1>1, DondeEsta DEF EnUso, En, SeVa
<1>3. Ociosa(i) /\ Propia(i) /\ Enlazada(i)
  BY <1>2 DEF Sirve, Ocupa, Acaba, Trabada
<1>4. TiposDeConexion
  BY DEF Forma
<1>5. /\ proceso_io'[i] = "caido" /\ pedidos'[i] = <<>>
      /\ \A j \in Interfaces \ {i} : /\ proceso_io'[j] = proceso_io[j]
                                     /\ pedidos'[j] = pedidos[j]
  BY <1>1, <1>4 DEF TiposDeConexion
<1>6. ASSUME NEW j \in Interfaces \ {i} PROVE SeQueda(j)
  BY <1>1, <1>5 DEF SeQueda, listaVars, Listada, Enlazada
<1>7. SeVa(i)'
  BY <1>1, <1>2, <1>3, <1>5
  DEF SeVa, Propia, Ociosa, Callada, Enlazada, listaVars, Listada
<1>8. Distintas'
  BY <1>1, DistintasIgual DEF Conexiones, Abierta, listaVars
<1>9. \A p \in Procesos : Con(i, p) => Con(i, p)'
  BY <1>1, <1>2 DEF Con, Ocupa, EnCola, listaVars
<1>10. \A p \in Procesos : estado'[p] = "blocked" =>
         Con(i, p)' \/ (estado[p] = "blocked" /\ ~Con(i, p))
  BY <1>1, <1>9
<1> QED
  BY <1>1, <1>2, <1>6, <1>7, <1>8, <1>10, ConexionesMueve DEF Conexiones, EnSuLugar

LEMMA EnviarNombreConexiones ==
  ASSUME Forma, Conexiones, NEW i \in Interfaces, EnviarNombre(i)
  PROVE  Conexiones'
<1>1. /\ proceso_io[i] = "conectado" /\ pedidos[i] # <<>> /\ Head(pedidos[i]) = NOMBRE
      /\ pedidos' = [pedidos EXCEPT ![i] = Tail(@)]
      /\ respuestas' = [respuestas EXCEPT ![i] = Append(@, NOMBRE)]
      /\ UNCHANGED <<conexionVars, listaVars, estado, hilo, despacho, caido>>
  BY DEF EnviarNombre, Responde
<1>2. SinNombre(i)
  <2>1. ASSUME Sirve(i) PROVE FALSE
    <3>1. PICK p \in Procesos : Ocupa(i, p)
      BY <1>1, <2>1 DEF Sirve, Ociosa, Acaba, Trabada, Callada
    <3>2. pedidos[i] = <<[pid |-> p]>>
      BY <1>1, <3>1 DEF Ocupa, Callada
    <3>3. Head(pedidos[i]) = [pid |-> p]
      BY <3>2, UnElemento
    <3> QED  BY <1>1, <3>3, NombreAparte
  <2> QED
    BY <1>1, <2>1 DEF Conexiones, EnSuLugar, SinNacer, SeVa, Fuera
<1>3. pedidos[i] = <<NOMBRE>> /\ respuestas[i] = <<>>
  BY <1>1, <1>2 DEF SinNombre
<1>4. TiposDeConexion
  BY DEF Forma
<1>5. /\ pedidos'[i] = <<>> /\ respuestas'[i] = <<NOMBRE>>
      /\ \A j \in Interfaces \ {i} : /\ respuestas'[j] = respuestas[j]
                                     /\ pedidos'[j] = pedidos[j]
  BY <1>1, <1>3, <1>4, UnElemento DEF TiposDeConexion
<1>6. /\ \A j \in Interfaces \ {i} : SeQueda(j)
      /\ Listada(i)' <=> Listada(i)
      /\ Enlazada(i)' <=> Enlazada(i)
  BY <1>1, <1>5, SoloSeMueve DEF conexionVars, listaVars
<1>7. SinNombre(i)'
  <2>1. NOMBRE' = NOMBRE /\ SinInstancia' = SinInstancia
    BY DEF NOMBRE, SinInstancia
  <2> QED
    BY <1>1, <1>2, <1>5, <1>6, <2>1
    DEF SinNombre, Ninguna, conexionVars, listaVars
<1>8. Distintas'
  BY <1>1, DistintasIgual DEF Conexiones, Abierta, listaVars
<1>9. ~Sirve(i) /\ \A p : ~Con(i, p)
  <2>1. /\ instancia[i].cola_de_espera = <<>> /\ instancia[i].viva = FALSE
        /\ instancia[i].pcb_con_interfaz_asignada = NULO
    BY <1>2, SinInstanciaCampos DEF SinNombre, Ninguna
  <2>3. \A p : ~EnCola(i, p)
    BY <2>1, SinCola
  <2>2. ASSUME NEW p PROVE ~Ocupa(i, p)
    BY <1>2, <1>3, NombreAparte, UnElemento DEF SinNombre, Ocupa, Finales, Callada
  <2> QED  BY <2>1, <2>2, <2>3 DEF Sirve, Propia, Con
<1> QED
  BY <1>1, <1>6, <1>7, <1>8, <1>9, ConexionesMueve DEF Conexiones, EnSuLugar

LEMMA TerminarOperacionConexiones ==
  ASSUME Forma, Conexiones, NEW i \in Interfaces,
         NEW r, TerminarOperacion(i, r), r \in {"OK", "ERROR"}
  PROVE  Conexiones'
<1> DEFINE fin(p) == [op |-> "FIN_ENTRADASALIDA", pid |-> p, resultado |-> r]
<1>1. /\ proceso_io[i] = "conectado" /\ pedidos[i] # <<>> /\ Head(pedidos[i]) # NOMBRE
      /\ r \in Resultados
      /\ pedidos' = [pedidos EXCEPT ![i] = Tail(@)]
      /\ respuestas' = [respuestas EXCEPT ![i] = Append(@, fin(Head(pedidos[i]).pid))]
      /\ UNCHANGED <<conexionVars, listaVars, estado, hilo, despacho, caido>>
  BY DEF TerminarOperacion, Responde, Resultados
<1>2. ~SinNombre(i)
  BY <1>1, UnElemento DEF SinNombre
<1>3. Sirve(i)
  BY <1>1, <1>2 DEF Conexiones, EnSuLugar, SinNacer, SeVa, Fuera
<1>4. PICK p \in Procesos : Ocupa(i, p)
  BY <1>1, <1>3 DEF Sirve, Ociosa, Acaba, Trabada, Callada
<1>5. /\ hilo[i].pc \in {"reposo", "a ready"}
      /\ pedidos[i] = <<[pid |-> p]>> /\ respuestas[i] = <<>>
  BY <1>1, <1>4 DEF Ocupa, Callada
<1>6. Head(pedidos[i]) = [pid |-> p] /\ Tail(pedidos[i]) = <<>>
  BY <1>5, UnElemento
<1>7. TiposDeConexion
  BY DEF Forma
<1>8. /\ pedidos'[i] = <<>> /\ respuestas'[i] = <<fin(p)>>
      /\ \A j \in Interfaces \ {i} : /\ respuestas'[j] = respuestas[j]
                                     /\ pedidos'[j] = pedidos[j]
  <2>1. [pid |-> p].pid = p
    OBVIOUS
  <2> HIDE DEF fin
  <2> QED  BY <1>1, <1>5, <1>6, <1>7, <2>1, UnElemento DEF TiposDeConexion
<1>9. /\ \A j \in Interfaces \ {i} : SeQueda(j)
      /\ Listada(i)' <=> Listada(i)
      /\ Enlazada(i)' <=> Enlazada(i)
  BY <1>1, <1>8, SoloSeMueve DEF conexionVars, listaVars
<1>10. UNCHANGED <<proceso_io, descriptor, lista_instancias_global, instancia, hilo>>
  BY <1>1 DEF conexionVars, listaVars
<1>11. Ocupa(i, p)'
  BY <1>1, <1>4, <1>5, <1>8, <1>10 DEF Ocupa, Resultados
<1>12. Sirve(i)'
  BY <1>3, <1>9, <1>10, <1>11 DEF Sirve, Propia
<1>13. Distintas'
  BY <1>10, DistintasIgual DEF Conexiones, Abierta
<1>14. \A q \in Procesos : Con(i, q) => Con(i, q)'
  <2>1. \A q : Ocupa(i, q) => q = p
    BY <1>4 DEF Ocupa
  <2>2. \A q : EnCola(i, q) => EnCola(i, q)'
    BY <1>10 DEF EnCola
  <2> QED  BY <1>11, <2>1, <2>2 DEF Con
<1>15. Ve(i) => Ve(i)'
  BY <1>1, <1>10 DEF Ve
<1>16. UNCHANGED <<estado, despacho, caido>>
  BY <1>1
<1> QED
  BY <1>9, <1>12, <1>13, <1>14, <1>15, <1>16, ConexionesMueve DEF Conexiones, EnSuLugar

\* The thread reads from its own connection.
LEMMA LeeDelPropio ==
  ASSUME Conexiones, NEW i \in Interfaces, NEW op, HayMensaje(i, op)
  PROVE  /\ hilo[i].pc = "reposo" /\ LeeDe(i) = i
         /\ respuestas[i] # <<>> /\ Head(respuestas[i]).op = op
         /\ SinNombre(i) \/ Sirve(i)
<1>1. hilo[i].pc = "reposo"
  BY DEF HayMensaje, En
<1>2. LeeDe(i) = i
  BY <1>1, DondeEsta DEF Enlazada, LeeDe
<1>3. respuestas[i] # <<>> /\ Head(respuestas[i]).op = op
  BY <1>2 DEF HayMensaje
<1>4. ~SeVa(i)
  BY <1>3 DEF SeVa, Ociosa, Callada
<1> QED  BY <1>1, <1>2, <1>3, <1>4, DondeEsta

\* What it reads is the name, and then the instance is its own ...
LEMMA AgregarInstanciaConexiones ==
  ASSUME Forma, Conexiones, NEW i \in Interfaces, AgregarInstancia(i)
  PROVE  Conexiones'
<1> DEFINE l == lista_instancias_global
<1>1. /\ hilo[i].pc = "reposo" /\ LeeDe(i) = i /\ respuestas[i] # <<>>
      /\ Head(respuestas[i]).op = "NOMBRE_ENTRADA_SALIDA"
      /\ SinNombre(i) \/ Sirve(i)
  BY LeeDelPropio DEF AgregarInstancia
<1>2. /\ HayMensaje(i, "NOMBRE_ENTRADA_SALIDA") /\ Recibido(i)
      /\ instancia' = [instancia EXCEPT ![i] =
           [socket |-> hilo[i].socket, libre |-> 1, cola_de_espera |-> <<>>,
            pcb_con_interfaz_asignada |-> NULO, mochila_destruida |-> FALSE,
            viva |-> TRUE]]
      /\ lista_instancias_global' = Append(lista_instancias_global, i)
      /\ UNCHANGED <<conexionVars, pedidos, estado, hilo, despacho, caido>>
  BY <1>1 DEF AgregarInstancia
<1>3. SinNombre(i)
  <2>1. ASSUME Sirve(i) PROVE FALSE
    <3>1. PICK p \in Procesos : Ocupa(i, p)
      BY <1>1, <2>1 DEF Sirve, Ociosa, Acaba, Trabada, Callada
    <3>2. PICK r : respuestas[i] = <<[op |-> "FIN_ENTRADASALIDA", pid |-> p,
                                      resultado |-> r]>>
      BY <1>1, <3>1 DEF Ocupa, Callada
    <3>3. Head(respuestas[i]) = [op |-> "FIN_ENTRADASALIDA", pid |-> p,
                                 resultado |-> r]
      BY <3>2, UnElemento
    <3> QED  BY <1>1, <3>3, NombreAparte
  <2> QED  BY <1>1, <2>1
<1>4. /\ proceso_io[i] = "conectado" /\ Enlazada(i) /\ Ninguna(i)
      /\ pedidos[i] = <<>> /\ respuestas[i] = <<NOMBRE>>
  BY <1>1, <1>3 DEF SinNombre
<1>5. TiposDeConexion
  BY DEF Forma
<1>6. /\ respuestas'[i] = <<>>
      /\ \A j \in Interfaces \ {i} : respuestas'[j] = respuestas[j]
  BY <1>2, <1>1, <1>4, <1>5, UnElemento DEF Recibido, TiposDeConexion
<1>7. /\ instancia'[i].socket = hilo[i].socket /\ instancia'[i].libre = 1
      /\ instancia'[i].cola_de_espera = <<>> /\ instancia'[i].viva = TRUE
      /\ instancia'[i].pcb_con_interfaz_asignada = NULO
      /\ \A j \in Interfaces \ {i} : instancia'[j] = instancia[j]
  BY <1>2, <1>5 DEF TiposDeConexion
<1>8. /\ \A j \in Interfaces \ {i} : Listada(j)' <=> Listada(j)
      /\ Listada(i)'
      /\ \A k, n \in DOMAIN l' : l'[k] = l'[n] => k = n
  <2>1. /\ \A k \in DOMAIN l : k \in DOMAIN Append(l, i) /\ Append(l, i)[k] = l[k]
        /\ Len(l) + 1 \in DOMAIN Append(l, i) /\ Append(l, i)[Len(l) + 1] = i
        /\ \A k \in DOMAIN Append(l, i) :
             \/ k \in DOMAIN l /\ Append(l, i)[k] = l[k]
             \/ k = Len(l) + 1 /\ k \notin DOMAIN l /\ Append(l, i)[k] = i
    BY <1>5, Agregar DEF TiposDeConexion
  <2> PICK m : m = Append(l, i)
    OBVIOUS
  <2> PICK n : n = Len(l) + 1
    OBVIOUS
  <2>2. \A k \in DOMAIN l : l[k] # i
    BY <1>4 DEF Ninguna, Listada
  <2>3. \A x, y \in DOMAIN l : l[x] = l[y] => x = y
    BY DEF Conexiones, Distintas
  <2>4. /\ \A k \in DOMAIN l : k \in DOMAIN m /\ m[k] = l[k]
        /\ n \in DOMAIN m /\ m[n] = i
        /\ \A k \in DOMAIN m : \/ k \in DOMAIN l /\ m[k] = l[k]
                               \/ k = n /\ k \notin DOMAIN l /\ m[k] = i
    BY <2>1
  <2>5. l' = m
    BY <1>2
  <2> QED  BY <2>2, <2>3, <2>4, <2>5 DEF Listada
<1>9. UNCHANGED <<proceso_io, descriptor, pedidos, estado, hilo, despacho, caido>>
  BY <1>2 DEF conexionVars
<1>10. ASSUME NEW j \in Interfaces \ {i} PROVE SeQueda(j)
  BY <1>6, <1>7, <1>8, <1>9 DEF SeQueda, Enlazada
<1>11. Sirve(i)'
  BY <1>1, <1>4, <1>6, <1>7, <1>8, <1>9
  DEF Sirve, Propia, Ociosa, Callada, Enlazada
<1>12. Distintas'
  BY <1>8, <1>9 DEF Conexiones, Distintas, Abierta
<1>13. ~Sirve(i) /\ \A p : ~Con(i, p)
  <2>1. /\ instancia[i].cola_de_espera = <<>> /\ ~instancia[i].viva
    BY <1>4, SinInstanciaCampos DEF Ninguna
  <2>2. ASSUME NEW p PROVE ~Ocupa(i, p)
    <3>1. \A r : <<NOMBRE>> # <<[op |-> "FIN_ENTRADASALIDA", pid |-> p,
                                 resultado |-> r]>>
      BY NombreAparte, UnElemento
    <3> QED  BY <1>1, <1>4, <3>1, UnElemento DEF Ocupa, Finales
  <2> QED  BY <2>1, <2>2, SinCola DEF Sirve, Propia, Con
<1> QED
  BY <1>9, <1>10, <1>11, <1>12, <1>13, ConexionesMueve DEF Conexiones, EnSuLugar

\* ... by its descriptor as by its name.
LEMMA LaPropia ==
  ASSUME Forma, Conexiones, NEW i \in Interfaces, Listada(i)
  PROVE  /\ obtener_instancia_por_socket(hilo[i].socket) = i
         /\ obtener_instancia_por_nombre(nombre[i]) = i
<1>1. lista_instancias_global \in Seq(Interfaces) /\ NULO \notin Interfaces
  BY NulosAparte DEF Forma, TiposDeConexion
<1>2. Propia(i) /\ Abierta(i)
  BY DondeEsta
<1>3. ASSUME NEW j \in Interfaces, Listada(j),
             instancia[j].socket = hilo[i].socket \/ nombre[j] = nombre[i]
      PROVE  j = i
  <2>1. Propia(j) /\ Abierta(j)
    BY <1>3, DondeEsta
  <2> QED  BY <1>2, <1>3, <2>1 DEF Propia, Conexiones, Distintas
<1>4. ASSUME NEW C, i \in C, \A j \in C : j \in Interfaces /\ (Listada(j) => j = i)
      PROVE  Primera(C) = i
  <2>1. Primera(C) # NULO
    BY <1>1, <1>4, PrimeraTipo
  <2>2. Primera(C) \in C /\ Listada(Primera(C))
    BY <1>1, <2>1, PrimeraTipo
  <2> QED  BY <1>4, <2>2
<1>5. Primera({j \in Interfaces : instancia[j].socket = hilo[i].socket}) = i
  <2> PICK C : C = {j \in Interfaces : instancia[j].socket = hilo[i].socket}
    OBVIOUS
  <2>1. i \in C /\ \A j \in C : j \in Interfaces /\ (Listada(j) => j = i)
    BY <1>2, <1>3 DEF Propia
  <2>2. Primera(C) = i
    BY <1>4, <2>1
  <2> QED  BY <2>2
<1>6. Primera({j \in Interfaces : nombre[j] = nombre[i]}) = i
  <2> PICK C : C = {j \in Interfaces : nombre[j] = nombre[i]}
    OBVIOUS
  <2>1. i \in C /\ \A j \in C : j \in Interfaces /\ (Listada(j) => j = i)
    BY <1>3
  <2>2. Primera(C) = i
    BY <1>4, <2>1
  <2> QED  BY <2>2
<1> QED
  BY <1>5, <1>6 DEF obtener_instancia_por_socket, obtener_instancia_por_nombre

LEMMA RecibirFinConexiones ==
  ASSUME Forma, Conexiones, NEW i \in Interfaces, RecibirFin(i)
  PROVE  Conexiones'
<1> DEFINE fin(p, r) == [op |-> "FIN_ENTRADASALIDA", pid |-> p, resultado |-> r]
<1> PICK m : m = Head(respuestas[i])
  OBVIOUS
<1>1. HayMensaje(i, "FIN_ENTRADASALIDA") /\ Recibido(i)
  BY DEF RecibirFin
<1>2. /\ hilo[i].pc = "reposo" /\ LeeDe(i) = i /\ respuestas[i] # <<>>
      /\ m.op = "FIN_ENTRADASALIDA"
      /\ SinNombre(i) \/ Sirve(i)
  BY <1>1, LeeDelPropio
<1>3. Sirve(i)
  <2>1. ASSUME SinNombre(i) PROVE FALSE
    <3>1. m = NOMBRE
      BY <1>2, <2>1, UnElemento DEF SinNombre
    <3> QED  BY <1>2, <3>1, NombreAparte
  <2> QED  BY <1>2, <2>1
<1>4. PICK p \in Procesos : Ocupa(i, p)
  BY <1>2, <1>3 DEF Sirve, Ociosa, Acaba, Trabada, Callada
<1>5. PICK r \in Resultados : pedidos[i] = <<>> /\ respuestas[i] = <<fin(p, r)>>
  BY <1>2, <1>4 DEF Ocupa, Finales, Callada
<1> PICK pc : pc = IF r = "OK" THEN "fin" ELSE "error"
  OBVIOUS
<1>6. m = fin(p, r)
  BY <1>5, UnElemento
<1>7. obtener_instancia_por_socket(hilo[i].socket) = i
  BY <1>3, LaPropia DEF Sirve, Propia
<1>8. /\ hilo' = [hilo EXCEPT ![i] = [@ EXCEPT !.pc = pc, !.pid = p, !.instancia = i]]
      /\ UNCHANGED <<conexionVars, pedidos, listaVars, estado, despacho, caido>>
  <2>1. /\ hilo' = [hilo EXCEPT
             ![i].pc = IF m.resultado = "OK" THEN "fin" ELSE "error",
             ![i].pid = m.pid,
             ![i].instancia = obtener_instancia_por_socket(hilo[i].socket)]
        /\ UNCHANGED <<conexionVars, pedidos, listaVars, estado, despacho, caido>>
    BY <1>2 DEF RecibirFin
  <2>2. m.resultado = r /\ m.pid = p
    BY <1>6
  <2> QED  BY <1>7, <2>1, <2>2
<1>9. TiposDeConexion /\ hilo \in [Interfaces -> Hilo]
  BY DEF Forma, TiposDeHilos
<1>10. /\ hilo'[i].pc = pc /\ hilo'[i].pid = p /\ hilo'[i].instancia = i
       /\ hilo'[i].socket = hilo[i].socket
       /\ \A j \in Interfaces \ {i} : hilo'[j] = hilo[j]
  <2>1. \A h \in Hilo :
          LET n == [h EXCEPT !.pc = pc, !.pid = p, !.instancia = i]
          IN  n.pc = pc /\ n.pid = p /\ n.instancia = i /\ n.socket = h.socket
    BY DEF Hilo
  <2> QED  BY <1>8, <1>9, <2>1
<1>11. /\ respuestas'[i] = <<>>
       /\ \A j \in Interfaces \ {i} : respuestas'[j] = respuestas[j]
  <2> HIDE DEF fin
  <2> QED  BY <1>1, <1>2, <1>5, <1>9, UnElemento DEF Recibido, TiposDeConexion
<1>12. UNCHANGED <<proceso_io, descriptor, lista_instancias_global, instancia,
                   pedidos, estado, despacho, caido>>
  BY <1>8 DEF conexionVars, listaVars
<1>13. /\ \A j \in Interfaces \ {i} : SeQueda(j)
       /\ Listada(i)' <=> Listada(i)
       /\ Enlazada(i)' <=> Enlazada(i)
  BY <1>10, <1>11, <1>12, SoloSeMueve
<1>14. Ocupa(i, p)'
  <2>1. pc \in Finales
    BY <1>5 DEF Resultados, Finales
  <2> QED  BY <1>4, <1>5, <1>10, <1>11, <1>12, <2>1 DEF Ocupa, Finales, Callada
<1>15. Sirve(i)'
  BY <1>3, <1>10, <1>12, <1>13, <1>14 DEF Sirve, Propia
<1>16. Distintas'
  <2>1. \A j \in Interfaces : hilo'[j].socket = hilo[j].socket /\ (Abierta(j)' => Abierta(j))
    BY <1>2, <1>10 DEF Abierta
  <2> QED  BY <1>12, <2>1, DistintasIgual DEF Conexiones
<1>17. \A q \in Procesos : Con(i, q) => Con(i, q)'
  <2>1. \A q : Ocupa(i, q) => q = p
    BY <1>4 DEF Ocupa
  <2>2. \A q : EnCola(i, q) => EnCola(i, q)'
    BY <1>12 DEF EnCola
  <2> QED  BY <1>14, <2>1, <2>2 DEF Con
<1>18. Ve(i) => Ve(i)'
  BY <1>10, <1>12 DEF Ve
<1> QED
  BY <1>12, <1>13, <1>15, <1>16, <1>17, <1>18, ConexionesMueve DEF Conexiones, EnSuLugar

\* A thread goes on, and its descriptor and the list stay.
LEMMA PasaDistintas ==
  ASSUME Forma, Conexiones, NEW i \in Interfaces,
         NEW pc \in {"reposo", "siguiente", "liberar", "a ready", "desconexion",
                     "terminado"},
         Pasa(i, pc), Abierta(i), UNCHANGED lista_instancias_global
  PROVE  Distintas'
<1>1. \A j \in Interfaces : hilo'[j].socket = hilo[j].socket /\ (Abierta(j)' => Abierta(j))
  BY PasaTipo DEF Abierta
<1> QED  BY <1>1, DistintasIgual DEF Conexiones

LEMMA VuelveDistintas ==
  ASSUME Forma, Conexiones, NEW i \in Interfaces, VuelveALeer(i), Abierta(i),
         UNCHANGED lista_instancias_global
  PROVE  Distintas'
<1>1. \A j \in Interfaces : hilo'[j].socket = hilo[j].socket /\ (Abierta(j)' => Abierta(j))
  BY VuelveTipo DEF Abierta
<1> QED  BY <1>1, DistintasIgual DEF Conexiones

\* The process goes out, and whose it was looks for another or is free.
LEMMA BuscarYRemoverConexiones ==
  ASSUME Forma, Conexiones, NEW i \in Interfaces, BuscarYRemover(i)
  PROVE  Conexiones'
<1>1. /\ hilo[i].pc = "fin" /\ Pasa(i, "siguiente")
      /\ estado' = [estado EXCEPT ![hilo[i].pid] = "en mano"]
      /\ UNCHANGED <<proceso_io, descriptor, lista_instancias_global, instancia,
                     pedidos, respuestas, despacho, caido>>
  BY DEF BuscarYRemover, En, conexionVars, listaVars
<1>2. PICK p \in Procesos : Ocupa(i, p) /\ hilo[i].pid = p /\ Callada(i) /\ Sirve(i)
  BY <1>1, DondeEsta
<1>3. /\ hilo'[i].pc = "siguiente" /\ hilo'[i].socket = hilo[i].socket
      /\ hilo'[i].instancia = hilo[i].instancia
      /\ \A j \in Interfaces \ {i} : hilo'[j] = hilo[j]
  BY <1>1, PasaTipo
<1>4. /\ \A j \in Interfaces \ {i} : SeQueda(j)
      /\ Listada(i)' <=> Listada(i)
      /\ Enlazada(i)' <=> Enlazada(i)
  BY <1>1, <1>3, SoloSeMueve
<1>5. Acaba(i)'
  BY <1>1, <1>2, <1>3 DEF Acaba, Ocupa, Callada
<1>6. Sirve(i)'
  BY <1>1, <1>2, <1>3, <1>4, <1>5 DEF Sirve, Propia
<1>7. Distintas'
  BY <1>1, PasaDistintas DEF Abierta
<1>8. ASSUME NEW q \in Procesos, estado'[q] = "blocked"
      PROVE  Con(i, q)' \/ (estado[q] = "blocked" /\ ~Con(i, q))
  <2>1. q # p /\ estado[q] = "blocked"
    <3>1. estado'[p] = "en mano" /\ \A x \in Procesos \ {p} : estado'[x] = estado[x]
      BY <1>1, <1>2 DEF Forma, TiposDeHilos
    <3> QED  BY <1>8, <3>1
  <2>2. ~Ocupa(i, q)
    BY <1>2, <2>1 DEF Ocupa
  <2>3. EnCola(i, q) => EnCola(i, q)'
    BY <1>1 DEF EnCola
  <2> QED  BY <2>1, <2>2, <2>3 DEF Con
<1>9. Ve(i) => Ve(i)'
  BY <1>1, <1>3 DEF Ve
<1> QED
  BY <1>1, <1>4, <1>6, <1>7, <1>8, <1>9, ConexionesMueve DEF Conexiones, EnSuLugar

\* An error ends the process, and the interface stays busy.
LEMMA FinConErrorConexiones ==
  ASSUME Forma, Conexiones, NEW i \in Interfaces, FinConError(i)
  PROVE  Conexiones'
<1>1. /\ hilo[i].pc = "error" /\ VuelveALeer(i)
      /\ estado' = [estado EXCEPT ![hilo[i].pid] = "exit"]
      /\ UNCHANGED <<proceso_io, descriptor, lista_instancias_global, instancia,
                     pedidos, respuestas, despacho, caido>>
  BY DEF FinConError, En, conexionVars, listaVars
<1>2. PICK p \in Procesos : Ocupa(i, p) /\ hilo[i].pid = p /\ Callada(i) /\ Sirve(i)
  BY <1>1, DondeEsta
<1>3. /\ hilo'[i].pc = "reposo" /\ hilo'[i].socket = hilo[i].socket
      /\ \A j \in Interfaces \ {i} : hilo'[j] = hilo[j]
  BY <1>1, VuelveTipo
<1>4. /\ \A j \in Interfaces \ {i} : SeQueda(j)
      /\ Listada(i)' <=> Listada(i)
      /\ Enlazada(i)' <=> Enlazada(i)
  BY <1>1, <1>3, SoloSeMueve
<1>5. Trabada(i)'
  <2>1. "ERROR" \in Casos
    BY <1>1, DondeEsta
  <2> QED  BY <1>1, <1>2, <1>3, <2>1 DEF Trabada, Ocupa, Callada
<1>6. Sirve(i)'
  BY <1>1, <1>2, <1>3, <1>4, <1>5 DEF Sirve, Propia
<1>7. Distintas'
  BY <1>1, VuelveDistintas DEF Abierta
<1>8. ASSUME NEW q \in Procesos, estado'[q] = "blocked"
      PROVE  Con(i, q)' \/ (estado[q] = "blocked" /\ ~Con(i, q))
  <2>1. q # p /\ estado[q] = "blocked"
    <3>1. estado'[p] = "exit" /\ \A x \in Procesos \ {p} : estado'[x] = estado[x]
      BY <1>1, <1>2 DEF Forma, TiposDeHilos
    <3> QED  BY <1>8, <3>1
  <2>2. ~Ocupa(i, q)
    BY <1>2, <2>1 DEF Ocupa
  <2>3. EnCola(i, q) => EnCola(i, q)'
    BY <1>1 DEF EnCola
  <2> QED  BY <2>1, <2>2, <2>3 DEF Con
<1>9. Ve(i) => Ve(i)'
  BY <1>1, <1>3 DEF Ve
<1> QED
  BY <1>1, <1>4, <1>6, <1>7, <1>8, <1>9, ConexionesMueve DEF Conexiones, EnSuLugar

LEMMA AgregarAReadyConexiones ==
  ASSUME Forma, Conexiones, NEW i \in Interfaces, AgregarAReady(i)
  PROVE  Conexiones'
<1>1. /\ hilo[i].pc = "a ready" /\ VuelveALeer(i)
      /\ estado' = [estado EXCEPT ![hilo[i].pid] = "ready"]
      /\ UNCHANGED <<proceso_io, descriptor, lista_instancias_global, instancia,
                     pedidos, respuestas, despacho, caido>>
  BY DEF AgregarAReady, En, conexionVars, listaVars
<1>2. Sirve(i) /\ (Ociosa(i) \/ \E p \in Procesos : Ocupa(i, p))
  BY <1>1, DondeEsta
<1>3. /\ hilo'[i].pc = "reposo" /\ hilo'[i].socket = hilo[i].socket
      /\ \A j \in Interfaces \ {i} : hilo'[j] = hilo[j]
  BY <1>1, VuelveTipo
<1>4. /\ \A j \in Interfaces \ {i} : SeQueda(j)
      /\ Listada(i)' <=> Listada(i)
      /\ Enlazada(i)' <=> Enlazada(i)
  BY <1>1, <1>3, SoloSeMueve
<1>5. /\ Ociosa(i) => Ociosa(i)'
      /\ \A p : Ocupa(i, p) => Ocupa(i, p)'
  BY <1>1, <1>3 DEF Ociosa, Ocupa, Finales, Callada
<1>6. Sirve(i)'
  BY <1>1, <1>2, <1>3, <1>4, <1>5 DEF Sirve, Propia
<1>7. Distintas'
  BY <1>1, VuelveDistintas DEF Abierta
<1>8. ASSUME NEW q \in Procesos, estado'[q] = "blocked"
      PROVE  estado[q] = "blocked" /\ (Con(i, q) => Con(i, q)')
  <2>1. estado[q] = "blocked"
    BY <1>1, <1>8 DEF Forma, TiposDeHilos
  <2>2. EnCola(i, q) => EnCola(i, q)'
    BY <1>1 DEF EnCola
  <2> QED  BY <1>5, <2>1, <2>2 DEF Con
<1>9. Ve(i) => Ve(i)'
  BY <1>1, <1>3 DEF Ve
<1> QED
  BY <1>1, <1>4, <1>6, <1>7, <1>8, <1>9, ConexionesMueve DEF Conexiones, EnSuLugar

\* The socket of an instance that serves leads to its run and to no other.
LEMMA MandarASuRun ==
  ASSUME Forma, Conexiones, NEW j \in Interfaces, Sirve(j), NEW m,
         pedidos' = ConMensaje(instancia[j].socket, m)
  PROVE  /\ pedidos'[j] = Append(pedidos[j], m)
         /\ \A x \in Interfaces \ {j} : pedidos'[x] = pedidos[x]
<1>1. /\ instancia[j].socket = hilo[j].socket /\ descriptor[hilo[j].socket] = j
      /\ proceso_io[j] = "conectado" /\ instancia[j].viva
  BY DEF Sirve, Propia, Enlazada
<1>2. instancia[j].socket # 0
  BY <1>1, DescriptoresPositivos DEF Forma, InstanciasBien
<1>3. pedidos' = [x \in Interfaces |->
                    IF descriptor[instancia[j].socket] = x /\ proceso_io[x] = "conectado"
                    THEN Append(pedidos[x], m) ELSE pedidos[x]]
  BY <1>2 DEF ConMensaje
<1> QED  BY <1>1, <1>3

\* The thread that ends an I/O looks at the queue of its own instance; the
\* dispatch thread may be about to add to it.
LEMMA SacarSiguienteConexiones ==
  ASSUME Forma, Conexiones, NEW i \in Interfaces, SacarSiguiente(i)
  PROVE  Conexiones'
<1> PICK p : p = Head(instancia[i].cola_de_espera)
  OBVIOUS
<1> PICK c : c = instancia[i].cola_de_espera
  OBVIOUS
<1>1. hilo[i].pc = "siguiente"
  BY DEF SacarSiguiente, En
<1>2. Sirve(i) /\ Acaba(i) /\ hilo[i].instancia = i
  BY <1>1, DondeEsta DEF Sirve
<1>3. instancia[i].libre = 0 /\ pedidos[i] = <<>> /\ respuestas[i] = <<>>
  BY <1>2 DEF Acaba, Callada
<1>4. UNCHANGED <<proceso_io, descriptor, respuestas, lista_instancias_global,
                  estado, despacho, caido>>
  BY <1>2 DEF SacarSiguiente, conexionVars
<1>5. c \in Seq(Procesos) /\ instancia[i] \in Instancia
  BY DEF Forma, TiposDeConexion, Instancia
<1>6. CASE c = <<>>
  <2>1. Pasa(i, "liberar") /\ UNCHANGED <<instancia, pedidos>>
    BY <1>2, <1>6 DEF SacarSiguiente
  <2>2. /\ hilo'[i].pc = "liberar" /\ hilo'[i].socket = hilo[i].socket
        /\ hilo'[i].instancia = hilo[i].instancia
        /\ \A j \in Interfaces \ {i} : hilo'[j] = hilo[j]
    BY <2>1, PasaTipo
  <2>3. /\ \A j \in Interfaces \ {i} : SeQueda(j)
        /\ Listada(i)' <=> Listada(i)
        /\ Enlazada(i)' <=> Enlazada(i)
    BY <1>4, <2>1, <2>2, SoloSeMueve
  <2>4. Acaba(i)'
    BY <1>3, <1>4, <1>6, <2>1, <2>2 DEF Acaba, Callada
  <2>5. Sirve(i)'
    BY <1>2, <1>4, <2>1, <2>2, <2>3, <2>4 DEF Sirve, Propia
  <2>6. Distintas'
    BY <1>1, <1>4, <2>1, PasaDistintas DEF Abierta
  <2>7. \A q : ~Con(i, q)
    BY <1>1, <1>3, <1>6, SinCola, UnElemento DEF Con, Ocupa, Finales
  <2>8. despacho.instancia = i /\ Ve(i) => Ve(i)'
    BY <1>4, <2>1 DEF Ve
  <2> QED
    BY <1>4, <2>3, <2>5, <2>6, <2>7, <2>8, ConexionesMueve DEF Conexiones, EnSuLugar
<1>7. CASE c # <<>>
  <2> DEFINE m == [instancia[i] EXCEPT !.cola_de_espera = Tail(@),
                                       !.pcb_con_interfaz_asignada = p,
                                       !.mochila_destruida = TRUE]
  <2>1. /\ instancia' = [instancia EXCEPT ![i] = m]
        /\ pedidos' = ConMensaje(instancia[i].socket, [pid |-> p])
        /\ Pasa(i, "a ready")
    <3> HIDE DEF m
    <3>1. /\ pedidos' = ConMensaje(instancia[i].socket, [pid |-> p])
          /\ Pasa(i, "a ready")
      BY <1>2, <1>7 DEF SacarSiguiente
    <3>2. \/ Pasa(i, "liberar")
          \/ instancia' = [instancia EXCEPT
                             ![i].cola_de_espera = Tail(@),
                             ![i].pcb_con_interfaz_asignada = p,
                             ![i].mochila_destruida = TRUE]
      BY <1>2, SacarSiguienteTipo
    <3>3. ~Pasa(i, "liberar")
      BY <3>1, PasaTipo
    <3>4. instancia \in [Interfaces -> Instancia]
      BY DEF Forma, TiposDeConexion
    <3>5. [instancia EXCEPT ![i].cola_de_espera = Tail(@),
                            ![i].pcb_con_interfaz_asignada = p,
                            ![i].mochila_destruida = TRUE]
            = [instancia EXCEPT ![i] = m]
      BY <1>5, <3>4 DEF m
    <3> QED  BY <3>1, <3>2, <3>3, <3>5
  <2>2. /\ hilo'[i].pc = "a ready" /\ hilo'[i].socket = hilo[i].socket
        /\ \A j \in Interfaces \ {i} : hilo'[j] = hilo[j]
    BY <2>1, PasaTipo
  <2>3. /\ instancia'[i].cola_de_espera = Tail(c)
        /\ instancia'[i].pcb_con_interfaz_asignada = p
        /\ instancia'[i].libre = 0 /\ instancia'[i].viva = instancia[i].viva
        /\ instancia'[i].socket = instancia[i].socket
        /\ \A j \in Interfaces \ {i} : instancia'[j] = instancia[j]
    <3>1. /\ m.cola_de_espera = Tail(c) /\ m.pcb_con_interfaz_asignada = p
          /\ m.libre = 0 /\ m.viva = instancia[i].viva
          /\ m.socket = instancia[i].socket
      BY <1>3, <1>5 DEF Instancia
    <3>2. instancia \in [Interfaces -> Instancia]
      BY DEF Forma, TiposDeConexion
    <3> HIDE DEF m
    <3> QED  BY <2>1, <3>1, <3>2
  <2> HIDE DEF m
  <2>4. /\ pedidos'[i] = <<[pid |-> p]>>
        /\ \A j \in Interfaces \ {i} : pedidos'[j] = pedidos[j]
    BY <1>2, <1>3, <2>1, MandarASuRun, UnElemento
  <2>5. /\ p \in Procesos
        /\ \A k \in DOMAIN c : c[k] = p \/ \E n \in DOMAIN Tail(c) : Tail(c)[n] = c[k]
    <3>1. Head(c) = c[1] /\ Head(c) \in Procesos
      BY <1>5, <1>7, SinCabeza
    <3>2. ASSUME NEW k \in DOMAIN c, k # 1
          PROVE  \E n \in DOMAIN Tail(c) : Tail(c)[n] = c[k]
      <4>1. k \in 1..Len(c) /\ Len(c) \in Nat
        BY <1>5, <3>2, LenProperties
      <4>2. k - 1 \in 1..(Len(c) - 1)
        BY <3>2, <4>1
      <4>3. DOMAIN Tail(c) = 1..(Len(c) - 1) /\ Tail(c)[k - 1] = c[(k - 1) + 1]
        BY <1>5, <1>7, <4>2, HeadTailProperties, LenProperties
      <4>4. (k - 1) + 1 = k
        BY <4>1
      <4> QED  BY <4>2, <4>3, <4>4
    <3> QED  BY <3>1, <3>2
  <2>6. /\ \A j \in Interfaces \ {i} : SeQueda(j)
        /\ Listada(i)' <=> Listada(i)
        /\ Enlazada(i)' <=> Enlazada(i)
    BY <1>4, <2>2, <2>3, <2>4, SoloSeMueve
  <2>7. Ocupa(i, p)'
    BY <1>3, <1>4, <2>2, <2>3, <2>4 DEF Ocupa
  <2>8. Sirve(i)'
    BY <1>2, <1>4, <2>2, <2>3, <2>5, <2>6, <2>7 DEF Sirve, Propia
  <2>9. Distintas'
    BY <1>1, <1>4, <2>1, PasaDistintas DEF Abierta
  <2>10. ASSUME NEW q \in Procesos, Con(i, q) PROVE Con(i, q)'
    <3>1. EnCola(i, q)
      BY <1>1, <1>3, <2>10, UnElemento DEF Con, Ocupa, Finales
    <3>2. q = p \/ \E n \in DOMAIN Tail(c) : Tail(c)[n] = q
      BY <2>5, <3>1 DEF EnCola
    <3> QED  BY <2>3, <2>7, <3>2 DEF Con, EnCola
  <2>11. despacho.instancia = i /\ Ve(i) => Ve(i)'
    <3>1. instancia[i].libre # 1
      BY <1>3
    <3> QED  BY <1>4, <3>1 DEF Ve
  <2> QED
    BY <1>4, <2>6, <2>8, <2>9, <2>10, <2>11, ConexionesMueve DEF Conexiones, EnSuLugar
<1> QED  BY <1>6, <1>7

LEMMA LiberarInterfazConexiones ==
  ASSUME Forma, Conexiones, NEW i \in Interfaces, LiberarInterfaz(i)
  PROVE  Conexiones'
<1>1. hilo[i].pc = "liberar"
  BY DEF LiberarInterfaz, En
<1>2. Sirve(i) /\ Acaba(i) /\ hilo[i].instancia = i
  BY <1>1, DondeEsta DEF Sirve
<1>3. instancia[i].libre = 0 /\ pedidos[i] = <<>> /\ respuestas[i] = <<>>
  BY <1>1, <1>2 DEF Acaba, Callada
<1>4. /\ instancia' = [instancia EXCEPT
                         ![i] = [@ EXCEPT !.libre = 1,
                                          !.pcb_con_interfaz_asignada = NULO]]
      /\ Pasa(i, "a ready")
      /\ UNCHANGED <<proceso_io, descriptor, pedidos, respuestas,
                     lista_instancias_global, estado, despacho, caido>>
  BY <1>2 DEF LiberarInterfaz, LibreTrasElFin, conexionVars
<1>5. /\ hilo'[i].pc = "a ready" /\ hilo'[i].socket = hilo[i].socket
      /\ \A j \in Interfaces \ {i} : hilo'[j] = hilo[j]
  BY <1>4, PasaTipo
<1>6. /\ instancia'[i].cola_de_espera = instancia[i].cola_de_espera
      /\ instancia'[i].pcb_con_interfaz_asignada = NULO
      /\ instancia'[i].libre = 1 /\ instancia'[i].viva = instancia[i].viva
      /\ instancia'[i].socket = instancia[i].socket
      /\ \A j \in Interfaces \ {i} : instancia'[j] = instancia[j]
  <2>1. ASSUME NEW n \in Instancia
        PROVE  LET m == [n EXCEPT !.libre = 1, !.pcb_con_interfaz_asignada = NULO]
               IN  /\ m.cola_de_espera = n.cola_de_espera
                   /\ m.pcb_con_interfaz_asignada = NULO
                   /\ m.libre = 1 /\ m.viva = n.viva /\ m.socket = n.socket
    BY DEF Instancia
  <2>2. instancia \in [Interfaces -> Instancia]
    BY DEF Forma, TiposDeConexion
  <2> QED  BY <1>3, <1>4, <2>1, <2>2
<1>7. /\ \A j \in Interfaces \ {i} : SeQueda(j)
      /\ Listada(i)' <=> Listada(i)
      /\ Enlazada(i)' <=> Enlazada(i)
  BY <1>4, <1>5, <1>6, SoloSeMueve
<1>8. Ociosa(i)'
  BY <1>3, <1>4, <1>6 DEF Ociosa, Callada
<1>9. Sirve(i)'
  BY <1>2, <1>4, <1>5, <1>6, <1>7, <1>8 DEF Sirve, Propia
<1>10. Distintas'
  BY <1>1, <1>4, PasaDistintas DEF Abierta
<1>11. \A q : Con(i, q) => Con(i, q)'
  <2>1. \A q : ~Ocupa(i, q)
    BY <1>1, <1>3, UnElemento DEF Ocupa, Finales
  <2>2. \A q : EnCola(i, q) => EnCola(i, q)'
    BY <1>6 DEF EnCola
  <2> QED  BY <2>1, <2>2 DEF Con
<1>12. Ve(i) => Ve(i)'
  <2>1. instancia[i].libre # 1
    BY <1>3
  <2> QED  BY <1>4, <2>1 DEF Ve
<1> QED
  BY <1>4, <1>7, <1>9, <1>10, <1>11, <1>12, ConexionesMueve DEF Conexiones, EnSuLugar

-----------------------------------------------------------------------------
(* Disconnection, in the same cases *)

\* Who takes an instance down has its own.
LEMMA LaQueElimina ==
  ASSUME Forma, Conexiones, NEW i \in Interfaces, hilo[i].pc = "eliminar"
  PROVE  /\ SeVa(i) /\ hilo[i].instancia = i /\ Victima(i) = i
         /\ instancia[i].viva /\ ~ApuntaALiberado(i)
<1>1. SeVa(i) /\ hilo[i].instancia = i
  BY DondeEsta DEF SeVa
<1>2. Propia(i) /\ Ociosa(i)
  BY <1>1 DEF SeVa
<1>3. Victima(i) = i
  BY <1>1, <1>2, LaPropia DEF Victima, Propia
<1> QED  BY <1>1, <1>2, <1>3 DEF Propia, Ociosa, ApuntaALiberado

\* Nobody uses an instance that was freed.
LEMMA NadaLiberado ==
  ASSUME Forma, Conexiones
  PROVE  /\ ~DespacharLiberada
         /\ \A i \in Interfaces :
              /\ ~UsarLiberada(i) /\ ~EliminarDosVeces(i)
              /\ ~EliminarNula(i) /\ ~EliminarDeListaVacia(i)
<1>1. ~DespacharLiberada
  BY DEF DespacharLiberada, Conexiones, LaPedida, Sirve, Propia
<1>2. ASSUME NEW i \in Interfaces PROVE ~UsarLiberada(i)
  <2>1. hilo[i].pc \in {"siguiente", "liberar"} =>
          hilo[i].instancia = i /\ instancia[i].viva
    BY DondeEsta DEF Sirve, Propia
  <2> QED  BY <2>1 DEF UsarLiberada, En
<1>3. ASSUME NEW i \in Interfaces, hilo[i].pc = "eliminar"
      PROVE  /\ hilo[i].instancia = i /\ instancia[i].viva
             /\ ~ApuntaALiberado(Victima(i)) /\ hilo[i].instancia # NULO
             /\ lista_instancias_global # <<>>
  <2>1. Listada(i)
    BY <1>3, LaQueElimina DEF SeVa, Propia
  <2>2. lista_instancias_global # <<>>
    BY <2>1, EmptySeq DEF Listada
  <2> QED  BY <1>3, <2>2, LaQueElimina, NulosAparte
<1> QED
  BY <1>1, <1>2, <1>3
  DEF EliminarDosVeces, EliminarNula, EliminarDeListaVacia, En

LEMMA LibreNoOcupada == \A x : x = 1 => x # 0
OBVIOUS

\* Of a run that is going nobody waits for anything.
LEMMA NadieConElla ==
  ASSUME NEW i \in Interfaces, Ociosa(i), instancia[i].cola_de_espera = <<>>
  PROVE  \A p : ~Con(i, p)
<1>1. instancia[i].libre = 1 /\ instancia[i].cola_de_espera = <<>>
  BY DEF Ociosa
<1>2. \A p : ~EnCola(i, p)
  BY <1>1, SinCola
<1>3. instancia[i].libre # 0
  BY <1>1, LibreNoOcupada
<1> QED  BY <1>2, <1>3 DEF Con, Ocupa

LEMMA LeerFinDeSocketConexiones ==
  ASSUME Forma, Conexiones, NEW i \in Interfaces, LeerFinDeSocket(i)
  PROVE  Conexiones'
<1> PICK f : f = hilo[i].socket
  OBVIOUS
<1>1. /\ hilo[i].pc = "reposo" /\ Pasa(i, "desconexion")
      /\ descriptor' = [descriptor EXCEPT ![f] = NULO]
      /\ UNCHANGED <<proceso_io, pedidos, respuestas, lista_instancias_global,
                     instancia, estado, despacho, caido>>
  BY DEF LeerFinDeSocket, En, listaVars
<1>2. SeVa(i)
  <2>1. LeeDe(i) = i /\ i # NULO
    BY <1>1, DondeEsta, NulosAparte DEF LeeDe, Enlazada
  <2>2. proceso_io[i] = "caido"
    BY <2>1 DEF LeerFinDeSocket
  <2> QED  BY <1>1, <2>2, DondeEsta DEF SinNombre, Sirve
<1>3. /\ hilo'[i].pc = "desconexion" /\ hilo'[i].socket = f
      /\ \A j \in Interfaces \ {i} : hilo'[j] = hilo[j]
  BY <1>1, PasaTipo
<1>4. ASSUME NEW j \in Interfaces \ {i} PROVE SeQueda(j)
  <2>1. Abierta(j) => hilo[j].socket # f
    BY <1>1 DEF Conexiones, Distintas, Abierta
  <2>2. Abierta(j) => hilo[j].socket \in Fds
    BY DEF Forma, HilosBien, Abierta
  <2>3. Abierta(j) /\ Enlazada(j) => Enlazada(j)'
    BY <1>1, <1>3, <2>1, <2>2 DEF Enlazada, Forma, TiposDeConexion
  <2> QED  BY <1>1, <1>3, <2>3 DEF SeQueda, Listada
<1>5. SeVa(i)'
  BY <1>1, <1>2, <1>3 DEF SeVa, Propia, Ociosa, Callada, Listada
<1>6. Distintas'
  BY <1>1, PasaDistintas DEF Abierta
<1>7. ~Sirve(i) /\ \A p : ~Con(i, p)
  BY <1>2, NadieConElla DEF SeVa, Sirve
<1> QED
  BY <1>1, <1>4, <1>5, <1>6, <1>7, ConexionesMueve DEF Conexiones, EnSuLugar

\* It finds its own instance by a descriptor it has closed: no other has it,
\* since nobody connects meanwhile.
LEMMA BuscarLaPropiaConexiones ==
  ASSUME Forma, Conexiones, NEW i \in Interfaces, BuscarLaPropia(i)
  PROVE  Conexiones'
<1>1. /\ hilo[i].pc = "desconexion"
      /\ hilo' = [hilo EXCEPT
           ![i].pc = "eliminar",
           ![i].instancia = obtener_instancia_por_socket(hilo[i].socket)]
      /\ UNCHANGED <<proceso_io, descriptor, pedidos, respuestas,
                     lista_instancias_global, instancia, estado, despacho, caido>>
  BY DEF BuscarLaPropia, En, conexionVars, listaVars
<1>2. SeVa(i)
  BY <1>1, DondeEsta
<1>3. obtener_instancia_por_socket(hilo[i].socket) = i
  BY <1>2, LaPropia DEF SeVa, Propia
<1>4. /\ hilo'[i].pc = "eliminar" /\ hilo'[i].instancia = i
      /\ hilo'[i].socket = hilo[i].socket
      /\ \A j \in Interfaces \ {i} : hilo'[j] = hilo[j]
  <2>1. hilo \in [Interfaces -> Hilo]
    BY DEF Forma, TiposDeHilos
  <2>2. \A h \in Hilo :
          LET n == [h EXCEPT !.pc = "eliminar", !.instancia = i]
          IN  n.pc = "eliminar" /\ n.instancia = i /\ n.socket = h.socket
    BY DEF Hilo
  <2>3. hilo' = [hilo EXCEPT ![i] = [@ EXCEPT !.pc = "eliminar", !.instancia = i]]
    BY <1>1, <1>3
  <2> QED  BY <2>1, <2>2, <2>3
<1>5. /\ \A j \in Interfaces \ {i} : SeQueda(j)
      /\ Listada(i)' <=> Listada(i)
      /\ Enlazada(i)' <=> Enlazada(i)
  BY <1>1, <1>4, SoloSeMueve
<1>6. SeVa(i)'
  BY <1>1, <1>2, <1>4, <1>5 DEF SeVa, Propia, Ociosa, Callada
<1>7. Distintas'
  <2>1. \A j \in Interfaces : hilo'[j].socket = hilo[j].socket /\ (Abierta(j)' => Abierta(j))
    BY <1>1, <1>4 DEF Abierta
  <2> QED  BY <1>1, <2>1, DistintasIgual DEF Conexiones
<1>8. ~Sirve(i) /\ \A p : ~Con(i, p)
  BY <1>2, NadieConElla DEF SeVa, Sirve
<1> QED
  BY <1>1, <1>5, <1>6, <1>7, <1>8, ConexionesMueve DEF Conexiones, EnSuLugar

\* What is in the list without one of its elements, each of which is in it once.
LEMMA ListaSinUna ==
  ASSUME lista_instancias_global \in Seq(Interfaces), NEW j, Listada(j),
         \A k, n \in DOMAIN lista_instancias_global :
           lista_instancias_global[k] = lista_instancias_global[n] => k = n
  PROVE  /\ \A x : (\E k \in DOMAIN ListaSin(j) : ListaSin(j)[k] = x)
                     <=> Listada(x) /\ x # j
         /\ \A k, n \in DOMAIN ListaSin(j) :
              ListaSin(j)[k] = ListaSin(j)[n] => k = n
<1> DEFINE l == lista_instancias_global
           k == CHOOSE n \in DOMAIN l : l[n] = j
           N == Len(l) - 1
           c(n) == IF n < k THEN n ELSE n + 1
<1>1. k \in DOMAIN l /\ l[k] = j
  BY DEF Listada
<1>2. Len(l) \in Nat /\ DOMAIN l = 1..Len(l)
  BY LenProperties
<1>3. ListaSin(j) = [n \in 1..N |-> l[c(n)]]
  BY DEF ListaSin
<1> HIDE DEF k
<1>4. /\ \A n \in 1..N : c(n) \in 1..Len(l) /\ c(n) # k
      /\ \A m, n \in 1..N : c(m) = c(n) => m = n
  BY <1>1, <1>2
<1> HIDE DEF c, N
<1>5. DOMAIN ListaSin(j) = 1..N /\ \A n \in 1..N : ListaSin(j)[n] = l[c(n)]
  BY <1>3
<1>6. \A n \in 1..N : Listada(l[c(n)]) /\ l[c(n)] # j
  BY <1>1, <1>2, <1>4 DEF Listada
<1>7. \A x : Listada(x) /\ x # j => \E n \in 1..N : ListaSin(j)[n] = x
  BY <1>5, ListaSinTipo
<1>8. \A m, n \in 1..N : ListaSin(j)[m] = ListaSin(j)[n] => m = n
  BY <1>2, <1>4, <1>5
<1> QED  BY <1>5, <1>6, <1>7, <1>8

LEMMA EliminarInterfazConexiones ==
  ASSUME Forma, Conexiones, NEW i \in Interfaces, EliminarInterfaz(i)
  PROVE  Conexiones'
<1> DEFINE l == lista_instancias_global
<1> PICK f : f = hilo[i].socket
  OBVIOUS
<1>1. hilo[i].pc = "eliminar"
  BY DEF EliminarInterfaz, En
<1>2. SeVa(i) /\ Victima(i) = i
  BY <1>1, LaQueElimina
<1>3. instancia[i].socket = f /\ Listada(i)
  BY <1>2 DEF SeVa, Propia
<1>4. /\ descriptor' = [descriptor EXCEPT ![f] = NULO]
      /\ l' = ListaSin(i)
      /\ instancia' = [instancia EXCEPT ![i] = SinInstancia]
      /\ hilo' = [hilo EXCEPT ![i].pc = "terminado", ![i].instancia = NULO]
      /\ UNCHANGED <<proceso_io, pedidos, respuestas, estado, despacho, caido>>
  BY <1>2, <1>3 DEF EliminarInterfaz
<1>5. TiposDeConexion /\ hilo \in [Interfaces -> Hilo]
  BY DEF Forma, TiposDeHilos
<1>6. /\ \A x : Listada(x)' <=> Listada(x) /\ x # i
      /\ \A k, n \in DOMAIN l' : l'[k] = l'[n] => k = n
  <2>1. \A k, n \in DOMAIN l : l[k] = l[n] => k = n
    BY DEF Conexiones, Distintas
  <2>2. l \in Seq(Interfaces)
    BY <1>5 DEF TiposDeConexion
  <2>3. /\ \A x : (\E k \in DOMAIN ListaSin(i) : ListaSin(i)[k] = x)
                     <=> Listada(x) /\ x # i
        /\ \A k, n \in DOMAIN ListaSin(i) : ListaSin(i)[k] = ListaSin(i)[n] => k = n
    BY <1>3, <2>1, <2>2, ListaSinUna
  <2> PICK s : s = ListaSin(i)
    OBVIOUS
  <2>4. /\ \A x : (\E k \in DOMAIN s : s[k] = x) <=> Listada(x) /\ x # i
        /\ \A k, n \in DOMAIN s : s[k] = s[n] => k = n
    BY <2>3
  <2>5. l' = s
    BY <1>4
  <2> QED  BY <2>4, <2>5 DEF Listada
<1>7. /\ hilo'[i].pc = "terminado"
      /\ \A j \in Interfaces \ {i} : hilo'[j] = hilo[j]
  <2>1. \A h \in Hilo : [h EXCEPT !.pc = "terminado", !.instancia = NULO].pc = "terminado"
    BY DEF Hilo
  <2>2. hilo' = [hilo EXCEPT ![i] = [@ EXCEPT !.pc = "terminado", !.instancia = NULO]]
    BY <1>4
  <2> QED  BY <1>5, <2>1, <2>2
<1>8. /\ instancia'[i] = SinInstancia
      /\ \A j \in Interfaces \ {i} : instancia'[j] = instancia[j]
  BY <1>4, <1>5 DEF TiposDeConexion
<1>9. ASSUME NEW j \in Interfaces \ {i} PROVE SeQueda(j)
  <2>1. Abierta(j) => hilo[j].socket # f
    BY <1>1 DEF Conexiones, Distintas, Abierta
  <2>2. Abierta(j) => hilo[j].socket \in Fds
    BY DEF Forma, HilosBien, Abierta
  <2>3. Abierta(j) /\ Enlazada(j) => Enlazada(j)'
    BY <1>4, <1>5, <1>7, <2>1, <2>2 DEF Enlazada, TiposDeConexion
  <2> QED  BY <1>4, <1>6, <1>7, <1>8, <2>3 DEF SeQueda
<1>10. Fuera(i)'
  <2>1. SinInstancia' = SinInstancia
    BY DEF SinInstancia
  <2> QED
    BY <1>2, <1>4, <1>6, <1>7, <1>8, <2>1 DEF Fuera, Ninguna, SeVa, Ociosa, Callada
<1>11. Distintas'
  <2>1. \A j \in Interfaces : Abierta(j)' => j # i /\ Abierta(j)
    BY <1>7 DEF Abierta
  <2> QED  BY <1>6, <1>7, <2>1 DEF Conexiones, Distintas
<1>12. ~Sirve(i) /\ \A p : ~Con(i, p)
  BY <1>2, NadieConElla DEF SeVa, Sirve
<1> QED
  BY <1>4, <1>9, <1>10, <1>11, <1>12, ConexionesMueve DEF Conexiones, EnSuLugar

-----------------------------------------------------------------------------
(* The dispatch thread, in the same cases *)

\* It finds an interface that serves, and moves nothing of it.
LEMMA PedirConexiones ==
  ASSUME SinUso, Forma, Conexiones, NEW p \in Procesos, NEW n \in Nombres,
         Pedir(p, n)
  PROVE  Conexiones'
<1> PICK j : j = obtener_instancia_por_nombre(n)
  OBVIOUS
<1>1. /\ j # NULO /\ proceso_io[j] = "conectado"
      /\ estado' = [estado EXCEPT ![p] = "exec"]
      /\ despacho' = [pc |-> "validar", pid |-> p, instancia |-> j]
      /\ UNCHANGED <<proceso_io, descriptor, pedidos, respuestas,
                     lista_instancias_global, instancia, hilo, caido>>
  BY DEF Pedir, SinUso, conexionVars, listaVars
<1>2. j \in Interfaces /\ Listada(j)
  BY <1>1, PrimeraTipo, NulosAparte
  DEF obtener_instancia_por_nombre, Forma, TiposDeConexion
<1>3. Sirve(j)
  BY <1>1, <1>2, DondeEsta DEF SeVa
<1>4. \A x \in Interfaces : SeQueda(x)
  BY <1>1 DEF SeQueda, Listada, Enlazada
<1>5. /\ EnSuLugar(j)' /\ Sirve(j)'
      /\ \A q : Con(j, q) => Con(j, q)'
  BY <1>2, <1>3, <1>4, SeQuedaDondeEsta DEF Conexiones
<1>6. Distintas'
  BY <1>1, DistintasIgual DEF Conexiones, Abierta
<1>7. LaPedida'
  BY <1>1, <1>2, <1>5 DEF LaPedida, Ve
<1>8. \A q \in Procesos : estado'[q] = "blocked" => estado[q] = "blocked"
  BY <1>1 DEF Forma, TiposDeHilos
<1>9. caido' = ""
  BY <1>1 DEF Conexiones
<1> QED  BY <1>2, <1>4, <1>5, <1>6, <1>7, <1>8, <1>9, ConexionesPaso

\* What the dispatch thread has found, when it has found something.
LEMMA LaQuePidio ==
  ASSUME Forma, Conexiones, despacho.pc # "reposo"
  PROVE  /\ despacho.instancia \in Interfaces /\ despacho.pid \in Procesos
         /\ Sirve(despacho.instancia) /\ Ve(despacho.instancia)
         /\ instancia[despacho.instancia].libre \in {0, 1}
<1>1. despacho.instancia \in Interfaces /\ despacho.pid \in Procesos
  BY DEF Forma, DespachoBien
<1>2. instancia[despacho.instancia] \in Instancia
  BY <1>1 DEF Forma, TiposDeConexion
<1> QED  BY <1>1, <1>2 DEF Instancia, Conexiones, LaPedida

\* `libre' is tested, and a thread may be about to set it.
LEMMA ValidarConexiones ==
  ASSUME Forma, Conexiones, Validar
  PROVE  Conexiones'
<1> PICK j : j = despacho.instancia
  OBVIOUS
<1>1. /\ despacho.pc = "validar"
      /\ despacho' = [despacho EXCEPT
           !.pc = IF instancia[j].libre = 1 THEN "asignar" ELSE "encolar"]
      /\ UNCHANGED <<proceso_io, descriptor, pedidos, respuestas,
                     lista_instancias_global, instancia, estado, hilo, caido>>
  BY DEF Validar, conexionVars, listaVars
<1>2. j \in Interfaces /\ Sirve(j) /\ instancia[j].libre \in {0, 1}
  BY <1>1, LaQuePidio
<1>4. \A x \in Interfaces : SeQueda(x)
  BY <1>1 DEF SeQueda, Listada, Enlazada
<1>5. /\ EnSuLugar(j)' /\ Sirve(j)'
      /\ \A q : Con(j, q) => Con(j, q)'
  BY <1>2, <1>4, SeQuedaDondeEsta DEF Conexiones
<1>6. Distintas'
  BY <1>1, DistintasIgual DEF Conexiones, Abierta
<1>7. LaPedida'
  <2>1. /\ despacho'.instancia = j
        /\ despacho'.pc = IF instancia[j].libre = 1 THEN "asignar" ELSE "encolar"
    BY <1>1 DEF Forma, TiposDeHilos
  <2>2. Ve(j)'
    BY <1>1, <1>2, <2>1 DEF Ve
  <2> QED  BY <1>2, <1>5, <2>1, <2>2 DEF LaPedida
<1>8. caido' = ""
  BY <1>1 DEF Conexiones
<1> QED  BY <1>1, <1>2, <1>4, <1>5, <1>6, <1>7, <1>8, ConexionesPaso

\* A free interface is given the process, and its run the request.
LEMMA AsignarInterfazConexiones ==
  ASSUME Forma, Conexiones, AsignarInterfaz
  PROVE  Conexiones'
<1> PICK j : j = despacho.instancia
  OBVIOUS
<1> PICK p : p = despacho.pid
  OBVIOUS
<1>1. /\ despacho.pc = "asignar"
      /\ estado' = [estado EXCEPT ![p] = "blocked"]
      /\ instancia' = [instancia EXCEPT ![j].pcb_con_interfaz_asignada = p,
                                        ![j].mochila_destruida = FALSE,
                                        ![j].libre = 0]
      /\ pedidos' = ConMensaje(instancia[j].socket, [pid |-> p])
      /\ despacho' = Reposo
      /\ UNCHANGED <<proceso_io, descriptor, respuestas, lista_instancias_global,
                     hilo, caido>>
  BY DEF AsignarInterfaz, Bloquea, Ocupada, conexionVars
<1>2. j \in Interfaces /\ p \in Procesos /\ Sirve(j) /\ instancia[j].libre = 1
  BY <1>1, LaQuePidio DEF Ve
<1>3. /\ Ociosa(j) /\ hilo[j].pc \in {"reposo", "a ready"}
      /\ pedidos[j] = <<>>
  <2>1. ~Acaba(j) /\ ~Trabada(j) /\ \A q : ~Ocupa(j, q)
    BY <1>2 DEF Ocupa, Acaba, Trabada
  <2>2. Ociosa(j) => pedidos[j] = <<>>
    BY DEF Ociosa, Callada
  <2> QED  BY <1>2, <2>1, <2>2 DEF Sirve
<1>4. /\ instancia'[j].pcb_con_interfaz_asignada = p /\ instancia'[j].libre = 0
      /\ instancia'[j].viva = instancia[j].viva
      /\ instancia'[j].cola_de_espera = instancia[j].cola_de_espera
      /\ instancia'[j].socket = instancia[j].socket
      /\ \A x \in Interfaces \ {j} : instancia'[x] = instancia[x]
  <2>1. \A n \in Instancia :
          LET m == [n EXCEPT !.pcb_con_interfaz_asignada = p,
                             !.mochila_destruida = FALSE, !.libre = 0]
          IN  /\ m.pcb_con_interfaz_asignada = p /\ m.libre = 0
              /\ m.viva = n.viva /\ m.socket = n.socket
              /\ m.cola_de_espera = n.cola_de_espera
    BY DEF Instancia
  <2>2. instancia' = [instancia EXCEPT
                        ![j] = [@ EXCEPT !.pcb_con_interfaz_asignada = p,
                                         !.mochila_destruida = FALSE, !.libre = 0]]
    BY <1>1
  <2> QED  BY <1>2, <2>1, <2>2 DEF Forma, TiposDeConexion
<1>5. /\ pedidos'[j] = <<[pid |-> p]>>
      /\ \A x \in Interfaces \ {j} : pedidos'[x] = pedidos[x]
  <2>1. /\ pedidos'[j] = Append(pedidos[j], [pid |-> p])
        /\ \A x \in Interfaces \ {j} : pedidos'[x] = pedidos[x]
    BY <1>1, <1>2, MandarASuRun
  <2> QED  BY <1>3, <2>1, UnElemento
<1>6. /\ \A x \in Interfaces \ {j} : SeQueda(x)
      /\ Listada(j)' <=> Listada(j)
      /\ Enlazada(j)' <=> Enlazada(j)
  BY <1>1, <1>2, <1>4, <1>5, SoloSeMueve
<1>7. Ocupa(j, p)'
  BY <1>1, <1>3, <1>4, <1>5 DEF Ocupa, Ociosa, Callada
<1>8. Sirve(j)'
  BY <1>1, <1>2, <1>4, <1>6, <1>7 DEF Sirve, Propia
<1>9. Distintas'
  BY <1>1, DistintasIgual DEF Conexiones, Abierta
<1>10. LaPedida' /\ caido' = ""
  BY <1>1 DEF LaPedida, Reposo, Conexiones
<1>11. ASSUME NEW q \in Procesos, estado'[q] = "blocked"
       PROVE  Con(j, q)' \/ (estado[q] = "blocked" /\ ~Con(j, q))
  <2>1. q # p => estado[q] = "blocked"
    BY <1>1, <1>11 DEF Forma, TiposDeHilos
  <2>2. instancia[j].libre # 0
    BY <1>2, LibreNoOcupada
  <2>3. EnCola(j, q) => EnCola(j, q)'
    BY <1>4 DEF EnCola
  <2>4. Con(j, q) => Con(j, q)'
    BY <2>2, <2>3 DEF Con, Ocupa
  <2> QED  BY <1>7, <2>1, <2>4 DEF Con
<1> QED
  BY <1>2, <1>6, <1>8, <1>9, <1>10, <1>11, ConexionesPaso DEF EnSuLugar

\* Into the queue of one that was busy when it was tested.
LEMMA EncolarEnInterfazConexiones ==
  ASSUME Forma, Conexiones, EncolarEnInterfaz
  PROVE  Conexiones'
<1> PICK j : j = despacho.instancia
  OBVIOUS
<1> PICK p : p = despacho.pid
  OBVIOUS
<1> PICK c : c = instancia[j].cola_de_espera
  OBVIOUS
<1>1. /\ despacho.pc = "encolar"
      /\ estado' = [estado EXCEPT ![p] = "blocked"]
      /\ instancia' = [instancia EXCEPT ![j].cola_de_espera = Append(@, p)]
      /\ despacho' = Reposo
      /\ UNCHANGED <<proceso_io, descriptor, pedidos, respuestas,
                     lista_instancias_global, hilo, caido>>
  BY DEF EncolarEnInterfaz, Bloquea, conexionVars
<1>2. j \in Interfaces /\ p \in Procesos /\ Sirve(j)
  BY <1>1, LaQuePidio
<1>3. instancia \in [Interfaces -> Instancia] /\ c \in Seq(Procesos)
  BY <1>2 DEF Forma, TiposDeConexion, Instancia
<1>4. /\ instancia'[j].cola_de_espera = Append(c, p)
      /\ instancia'[j].pcb_con_interfaz_asignada = instancia[j].pcb_con_interfaz_asignada
      /\ instancia'[j].libre = instancia[j].libre
      /\ instancia'[j].viva = instancia[j].viva
      /\ instancia'[j].socket = instancia[j].socket
      /\ \A x \in Interfaces \ {j} : instancia'[x] = instancia[x]
  <2> DEFINE m == [instancia[j] EXCEPT !.cola_de_espera = Append(@, p)]
  <2>1. instancia' = [instancia EXCEPT ![j] = m]
    BY <1>1, <1>2, <1>3
  <2>2. /\ m.cola_de_espera = Append(c, p)
        /\ m.pcb_con_interfaz_asignada = instancia[j].pcb_con_interfaz_asignada
        /\ m.libre = instancia[j].libre /\ m.viva = instancia[j].viva
        /\ m.socket = instancia[j].socket
    BY <1>2, <1>3 DEF Instancia
  <2> HIDE DEF m
  <2> QED  BY <1>2, <1>3, <2>1, <2>2
<1>5. /\ \A x \in Interfaces \ {j} : SeQueda(x)
      /\ Listada(j)' <=> Listada(j)
      /\ Enlazada(j)' <=> Enlazada(j)
  BY <1>1, <1>2, <1>4, SoloSeMueve
<1>6. /\ \A q : Ocupa(j, q) => Ocupa(j, q)'
      /\ Acaba(j) => Acaba(j)'
      /\ Ociosa(j) => Ociosa(j)'
      /\ Trabada(j) => Trabada(j)'
  <2>1. \A q : Ocupa(j, q) => Ocupa(j, q)'
    BY <1>1, <1>4 DEF Ocupa, Callada
  <2>2. Trabada(j) => Trabada(j)'
    BY <1>1, <1>4 DEF Trabada, Callada
  <2>3. Acaba(j) => Acaba(j)'
    BY <1>1, <1>4 DEF Acaba, Callada
  <2>4. Ociosa(j) => Ociosa(j)'
    BY <1>1, <1>4 DEF Ociosa, Callada
  <2> QED  BY <2>1, <2>2, <2>3, <2>4
<1>7. Sirve(j)'
  <2>1. \/ Ociosa(j)' /\ hilo[j].pc \in {"reposo", "a ready"}
        \/ \E q \in Procesos : Ocupa(j, q)'
        \/ Acaba(j)' \/ Trabada(j)'
    BY <1>2, <1>6 DEF Sirve
  <2>2. (hilo[j].pc \in {"fin", "siguiente", "liberar"} => hilo[j].instancia = j)
          /\ Propia(j) /\ Enlazada(j) /\ proceso_io[j] = "conectado"
    BY <1>2 DEF Sirve
  <2>3. Propia(j)'
    BY <1>1, <1>4, <1>5, <2>2 DEF Propia
  <2> QED  BY <1>1, <1>5, <2>1, <2>2, <2>3 DEF Sirve
<1>8. Distintas'
  BY <1>1, DistintasIgual DEF Conexiones, Abierta
<1>9. LaPedida' /\ caido' = ""
  BY <1>1 DEF LaPedida, Reposo, Conexiones
<1>10. /\ \A q : Con(j, q) => Con(j, q)'
       /\ Con(j, p)'
  <2>1. /\ \A k \in DOMAIN c : k \in DOMAIN Append(c, p) /\ Append(c, p)[k] = c[k]
        /\ Len(c) + 1 \in DOMAIN Append(c, p) /\ Append(c, p)[Len(c) + 1] = p
    <3>1. p \in Procesos
      BY <1>2
    <3> QED  BY <1>3, <3>1, Agregar
  <2>2. EnCola(j, p)' /\ \A q : EnCola(j, q) => EnCola(j, q)'
    BY <1>4, <2>1 DEF EnCola
  <2> QED  BY <1>6, <2>2 DEF Con
<1>11. \A q \in Procesos : estado'[q] = "blocked" => q = p \/ estado[q] = "blocked"
  BY <1>1, <1>2 DEF Forma, TiposDeHilos
<1> QED
  BY <1>2, <1>5, <1>7, <1>8, <1>9, <1>10, <1>11, ConexionesPaso DEF EnSuLugar

-----------------------------------------------------------------------------
(* What follows *)

LEMMA InitConexiones == ASSUME Init PROVE Conexiones
<1> PICK l : l = lista_instancias_global
  OBVIOUS
<1>1. DOMAIN l = {}
  <2>1. l = <<>>
    BY DEF Init
  <2> QED  BY <2>1, EmptySeq
<1>2. \A i \in Interfaces : SinNacer(i) /\ ~Abierta(i)
  <2>1. \A i : ~Listada(i)
    BY <1>1 DEF Listada
  <2> QED  BY <2>1 DEF Init, SinNacer, Ninguna, Callada, Abierta
<1>3. Distintas
  BY <1>1, <1>2 DEF Distintas
<1>4. LaPedida /\ Esperan /\ caido = ""
  BY DEF Init, LaPedida, Esperan, Reposo
<1> QED  BY <1>2, <1>3, <1>4 DEF Conexiones, EnSuLugar

LEMMA SinPasoConexiones ==
  ASSUME Conexiones, UNCHANGED vars
  PROVE  Conexiones'
<1>1. UNCHANGED <<proceso_io, descriptor, pedidos, respuestas, caido,
                  lista_instancias_global, instancia, estado, hilo, despacho>>
  BY DEF vars, conexionVars, listaVars
<1>2. \A i \in Interfaces : SeQueda(i)
  BY <1>1 DEF SeQueda, Listada, Enlazada
<1>3. \A i \in Interfaces :
        /\ EnSuLugar(i)' /\ (Sirve(i) => Sirve(i)')
        /\ \A p : Con(i, p) => Con(i, p)'
  BY <1>2, SeQuedaDondeEsta DEF Conexiones
<1>4. Distintas'
  BY <1>1, DistintasIgual DEF Conexiones, Abierta
<1>5. LaPedida'
  <2>1. \A i : Ve(i) => Ve(i)'
    BY <1>1 DEF Ve
  <2> QED  BY <1>1, <1>3, <2>1 DEF Conexiones, LaPedida
<1> QED  BY <1>1, <1>3, <1>4, <1>5 DEF Conexiones, Esperan

LEMMA HiloDeConexionConexiones ==
  ASSUME SinUso, Forma, Conexiones, NEW i \in Interfaces, HiloDeConexion(i)
  PROVE  Conexiones'
<1>1. CASE AgregarInstancia(i) \/ RecibirFin(i) \/ BuscarYRemover(i)
  BY <1>1, AgregarInstanciaConexiones, RecibirFinConexiones,
     BuscarYRemoverConexiones
<1>2. CASE FinConError(i) \/ SacarSiguiente(i) \/ LiberarInterfaz(i) \/ AgregarAReady(i)
  BY <1>2, FinConErrorConexiones, SacarSiguienteConexiones, LiberarInterfazConexiones,
     AgregarAReadyConexiones
<1>3. CASE LeerFinDeSocket(i) \/ BuscarLaPropia(i) \/ EliminarInterfaz(i)
  BY <1>3, LeerFinDeSocketConexiones, BuscarLaPropiaConexiones,
     EliminarInterfazConexiones
<1> QED  BY <1>1, <1>2, <1>3, NadaLiberado DEF HiloDeConexion

LEMMA NextConexiones ==
  ASSUME SinUso, Forma, Conexiones, [Next]_vars
  PROVE  Conexiones'
<1>1. ASSUME NEW i \in Interfaces, Conectar(i) \/ Morir(i) \/ EntradaSalida(i)
      PROVE  Conexiones'
  BY <1>1, ConectarConexiones, MorirConexiones, EnviarNombreConexiones,
     TerminarOperacionConexiones
  DEF EntradaSalida
<1>2. CASE HiloDespacho
  BY <1>2, ValidarConexiones, AsignarInterfazConexiones,
     EncolarEnInterfazConexiones, NadaLiberado
  DEF HiloDespacho
<1> QED
  BY <1>1, <1>2, HiloDeConexionConexiones, PedirConexiones, SinPasoConexiones
  DEF Next

LEMMA ConexionesSonPropias ==
  ASSUME Forma, Conexiones
  PROVE  ConexionesPropias
<1> DEFINE l == lista_instancias_global
<1>1. ASSUME NEW k \in DOMAIN l
      PROVE  /\ l[k] \in Interfaces /\ Listada(l[k])
             /\ instancia[l[k]].viva /\ Abierta(l[k])
             /\ \/ descriptor[instancia[l[k]].socket] = l[k]
                \/ hilo[l[k]].pc \in {"desconexion", "eliminar"}
  <2>1. l[k] \in Interfaces /\ Listada(l[k])
    BY Posiciones DEF Forma, TiposDeConexion, Listada
  <2>2. (Sirve(l[k]) \/ SeVa(l[k])) /\ Propia(l[k]) /\ Abierta(l[k])
    BY <2>1, DondeEsta
  <2> HIDE DEF l
  <2> QED  BY <2>1, <2>2 DEF Sirve, SeVa, Propia, Enlazada
<1>2. ASSUME NEW k \in DOMAIN l, NEW n \in DOMAIN l, nombre[l[n]] = nombre[l[k]]
      PROVE  n = k
  <2>1. l[n] = l[k]
    BY <1>1, <1>2 DEF Conexiones, Distintas
  <2> QED  BY <2>1 DEF Conexiones, Distintas
<1>3. despacho.instancia # NULO => instancia[despacho.instancia].viva
  BY DEF Conexiones, LaPedida, Sirve, Propia
<1> QED  BY <1>1, <1>2, <1>3 DEF Conexiones, ConexionesPropias

\* Who is on the way to an interface or back is the one it works for.
LEMMA ElQueOcupa ==
  ASSUME Conexiones, NEW i \in Interfaces, NEW p \in Procesos, EnCamino(i, p)
  PROVE  instancia[i].pcb_con_interfaz_asignada = p
<1> DEFINE fin(q, r) == [op |-> "FIN_ENTRADASALIDA", pid |-> q, resultado |-> r]
<1>1. ASSUME Callada(i), hilo[i].pc \notin {"fin", "error"} PROVE FALSE
  <2>1. \A k : k \notin DOMAIN pedidos[i] /\ k \notin DOMAIN respuestas[i]
    BY <1>1, EmptySeq DEF Callada
  <2> QED  BY <1>1, <2>1 DEF EnCamino
<1>2. ASSUME SinNombre(i) PROVE FALSE
  <2>1. NOMBRE \notin Fin /\ NOMBRE # [pid |-> p]
    <3>1. \A m \in Fin : m.op = "FIN_ENTRADASALIDA"
      BY DEF Fin
    <3> QED  BY <3>1, NombreAparte
  <2>2. \A k : k \notin DOMAIN <<>>
    BY EmptySeq
  <2>3. \A k \in DOMAIN <<NOMBRE>> : <<NOMBRE>>[k] = NOMBRE
    OBVIOUS
  <2>4. hilo[i].pc = "reposo"
    BY <1>2 DEF SinNombre
  <2>5. /\ \A k \in DOMAIN pedidos[i] : pedidos[i][k] = NOMBRE
        /\ \A k \in DOMAIN respuestas[i] : respuestas[i][k] = NOMBRE
    BY <1>2, <2>2, <2>3 DEF SinNombre
  <2> QED  BY <2>1, <2>4, <2>5 DEF EnCamino
<1>3. ASSUME NEW q \in Procesos, Ocupa(i, q) PROVE p = q
  <2>1. CASE hilo[i].pc \in Finales /\ hilo[i].pid = q /\ Callada(i)
    <3>1. \A k : k \notin DOMAIN pedidos[i] /\ k \notin DOMAIN respuestas[i]
      BY <2>1, EmptySeq DEF Callada
    <3> QED  BY <2>1, <3>1 DEF EnCamino
  <2>2. CASE /\ hilo[i].pc \in {"reposo", "a ready"}
             /\ pedidos[i] = <<[pid |-> q]>> /\ respuestas[i] = <<>>
    <3>1. \A k \in DOMAIN pedidos[i] : pedidos[i][k] = [pid |-> q]
      BY <2>2, UnoSolo
    <3>2. \A k : k \notin DOMAIN respuestas[i]
      BY <2>2, NingunoSolo
    <3>3. hilo[i].pc \notin {"fin", "error"}
      BY <2>2
    <3>4. [pid |-> p] = [pid |-> q]
      BY <3>1, <3>2, <3>3 DEF EnCamino
    <3>5. [pid |-> p].pid = p /\ [pid |-> q].pid = q
      OBVIOUS
    <3> QED  BY <3>4, <3>5
  <2>3. CASE /\ hilo[i].pc \in {"reposo", "a ready"} /\ pedidos[i] = <<>>
             /\ \E r \in Resultados : respuestas[i] = <<fin(q, r)>>
    <3>1. PICK r \in Resultados : respuestas[i] = <<fin(q, r)>>
      BY <2>3
    <3>2. fin(q, r).pid = q
      OBVIOUS
    <3> HIDE DEF fin
    <3>3. \A k \in DOMAIN respuestas[i] : respuestas[i][k] = fin(q, r)
      BY <3>1
    <3>4. \A k : k \notin DOMAIN pedidos[i]
      BY <2>3, NingunoSolo
    <3>5. hilo[i].pc \notin {"fin", "error"}
      BY <2>3
    <3> QED  BY <3>2, <3>3, <3>4, <3>5 DEF EnCamino
  <2> QED  BY <1>3, <2>1, <2>2, <2>3 DEF Ocupa
<1>4. EnSuLugar(i)
  BY DEF Conexiones
<1>5. ~SinNacer(i) /\ ~SeVa(i) /\ ~Fuera(i)
  BY <1>1 DEF SinNacer, SeVa, Ociosa, Fuera
<1>6. Sirve(i)
  BY <1>2, <1>4, <1>5 DEF EnSuLugar
<1>7. \E q \in Procesos : Ocupa(i, q)
  BY <1>1, <1>6 DEF Sirve, Ociosa, Acaba, Trabada
<1> QED  BY <1>3, <1>7 DEF Ocupa

LEMMA ConexionesAtienden ==
  ASSUME Forma, Fichas, Conexiones
  PROVE  BloqueadoAtendido
<1>1. ASSUME NEW p \in Procesos, estado[p] = "blocked"
      PROVE  \E i \in Interfaces :
               /\ Listada(i)
               /\ EnCamino(i, p) <=> ~EnCola(i, p)
               /\ \A j \in Interfaces \ {i} : ~EnCamino(j, p) /\ ~EnCola(j, p)
  <2>1. PICK i \in Interfaces : Con(i, p)
    BY <1>1 DEF Conexiones, Esperan
  <2>2. Listada(i)
    <3>1. ~SeVa(i)
      BY <2>1, NadieConElla DEF SeVa
    <3>2. ~Ninguna(i)
      <4>1. Ninguna(i) => ~EnCola(i, p)
        BY SinCola, SinInstanciaCampos DEF Ninguna
      <4>2. Ninguna(i) => ~Ocupa(i, p)
        BY SinInstanciaCampos, NulosAparte DEF Ninguna, Ocupa
      <4> QED  BY <2>1, <4>1, <4>2 DEF Con
    <3>3. Sirve(i)
      BY <3>1, <3>2 DEF Conexiones, EnSuLugar, SinNacer, SinNombre, Fuera
    <3> QED  BY <3>3 DEF Sirve, Propia
  <2>3. Ocupa(i, p) => EnCamino(i, p)
    <3> DEFINE m == [op |-> "FIN_ENTRADASALIDA", pid |-> p, resultado |-> "OK"]
               e == [op |-> "FIN_ENTRADASALIDA", pid |-> p, resultado |-> "ERROR"]
    <3>1. CASE pedidos[i] = <<[pid |-> p]>>
      BY <3>1 DEF EnCamino
    <3>2. m \in Fin /\ m.pid = p /\ e \in Fin /\ e.pid = p
      BY DEF Fin
    <3>3. CASE respuestas[i] = <<m>> \/ respuestas[i] = <<e>>
      <4> HIDE DEF m, e
      <4>1. /\ 1 \in DOMAIN <<m>> /\ <<m>>[1] = m
            /\ 1 \in DOMAIN <<e>> /\ <<e>>[1] = e
        OBVIOUS
      <4> QED  BY <3>2, <3>3, <4>1 DEF EnCamino
    <3>4. CASE hilo[i].pc \in {"fin", "error"} /\ hilo[i].pid = p
      BY <3>4 DEF EnCamino
    <3> QED  BY <3>1, <3>3, <3>4 DEF Ocupa, Resultados, Finales
  <2>4. EnCamino(i, p) \/ EnCola(i, p)
    BY <2>1, <2>3 DEF Con
  <2>5. /\ ~(EnCamino(i, p) /\ EnCola(i, p))
        /\ \A j \in Interfaces \ {i} : ~EnCamino(j, p) /\ ~EnCola(j, p)
    BY <2>4, ConUnaSola
  <2> QED  BY <2>2, <2>4, <2>5
<1>2. ASSUME NEW i \in Interfaces, NEW p \in Procesos, NEW q \in Procesos,
             EnCamino(i, p), EnCamino(i, q)
      PROVE  p = q
  BY <1>2, ElQueOcupa
<1> QED  BY <1>1, <1>2 DEF BloqueadoAtendido

\* When no interface dies in use and none connects while another is taken down,
\* every instance of lista_instancias_global leads to the process of its name, and
\* the thread that takes one down (kernel_entradasalida.c) takes down its own,
\* although it looks it up by a descriptor it has closed and by a name.  I/Os may
\* fail, and `libre' may be tested while the end of one is about to set it.
THEOREM InterfacesConexiones ==
  Casos \subseteq {"ERROR"} => (Spec => []ConexionesPropias)
<1> SUFFICES ASSUME SinUso PROVE Spec => []ConexionesPropias
  BY DEF SinUso
<1>1. Init => Forma /\ Conexiones
  BY InitForma, InitConexiones
<1>2. Forma /\ Conexiones /\ [Next]_vars => Forma' /\ Conexiones'
  BY NextForma, NextConexiones
<1>3. Forma /\ Conexiones => ConexionesPropias
  BY ConexionesSonPropias
<1> QED  BY <1>1, <1>2, <1>3, PTL DEF Spec

\* In the same cases nobody who is blocked for an I/O is lost, nor is with two
\* interfaces, and an interface works for one process at a time: whoever tested
\* `libre' before the end of an I/O set it, and whatever I/Os have failed
\* (kernel_cpu_dispatch.c, entrada_salida.c).
THEOREM InterfacesAtendidos ==
  Casos \subseteq {"ERROR"} => (Spec => []BloqueadoAtendido)
<1> SUFFICES ASSUME SinUso PROVE Spec => []BloqueadoAtendido
  BY DEF SinUso
<1>1. Init => Forma /\ Fichas /\ Conexiones
  BY InitForma, InitFichas, InitConexiones
<1>2. Forma /\ Fichas /\ Conexiones /\ [Next]_vars =>
        Forma' /\ Fichas' /\ Conexiones'
  BY NextForma, NextFichas, NextConexiones
<1>3. Forma /\ Fichas /\ Conexiones => BloqueadoAtendido
  BY ConexionesAtienden
<1> QED  BY <1>1, <1>2, <1>3, PTL DEF Spec

==============================================================================
