----------------------------- MODULE Interfaces -----------------------------
(***************************************************************************)
(* Interfaces that connect, serve and leave, seen from the kernel          *)
(* (kernel.c, kernel_entradasalida.c, entrada_salida.c, and the I/O        *)
(* services of kernel_cpu_dispatch.c).  A connection has a thread of the   *)
(* kernel and, once it has told its name, an instance in                   *)
(* lista_instancias_global; the dispatch thread finds instances by name    *)
(* and keeps the pointer; the thread of the connection destroys its own    *)
(* when it reads the end of the socket.                                    *)
(*                                                                         *)
(* The life of a process is what an I/O makes of it: the module Kernel has *)
(* the rest.  One process asks at a time, that of EXEC.                    *)
(*                                                                         *)
(* `Casos' names what the code does not foresee and an instance covers:    *)
(*   "EN USO"     an interface dies with a process assigned or queued, or  *)
(*                is asked for when dead and not yet known to be           *)
(*   "RECONECTA"  a connection while another is being taken down           *)
(*   "ERROR"      an I/O that ends with an error                           *)
(***************************************************************************)
EXTENDS Integers, Sequences, FiniteSets, FiniteSetsExt

CONSTANTS
  Procesos,
  Interfaces,   \* runs of the entradasalida program, each with one connection
  Nombres,
  nombre,       \* the name each run is given
  MaxFd,        \* bound: descriptors of the kernel for these sockets
  NULO,
  Casos

ASSUME InterfacesAssumption ==
  /\ nombre \in [Interfaces -> Nombres]
  /\ MaxFd \in Nat \ {0}
  /\ NULO \notin Procesos \union Interfaces
  /\ Casos \subseteq {"EN USO", "RECONECTA", "ERROR"}

VARIABLES
  proceso_io,               \* run -> state of the entradasalida process
  pedidos,                  \* run -> what the kernel has sent it
  respuestas,               \* run -> what it has sent to the kernel
  descriptor,               \* descriptor -> run at the other end, or NULO
  lista_instancias_global,  \* instances; each has the name of its run
  instancia,                \* run -> t_instancia_io
  estado,                   \* process -> where it is
  hilo,                     \* run -> thread of its connection
  despacho,                 \* thread of the dispatch socket
  caido

conexionVars == <<proceso_io, descriptor>>
listaVars == <<lista_instancias_global, instancia>>
vars == <<conexionVars, pedidos, respuestas, listaVars, estado, hilo,
          despacho, caido>>

-----------------------------------------------------------------------------
(* Types *)

Fds == 1..MaxFd

NOMBRE == [op |-> "NOMBRE_ENTRADA_SALIDA"]
Fin == [op: {"FIN_ENTRADASALIDA"}, pid: Procesos, resultado: {"OK", "ERROR"}]

Instancia ==
  [socket: Fds \union {0}, libre: {0, 1}, cola_de_espera: Seq(Procesos),
   pcb_con_interfaz_asignada: Procesos \union {NULO},
   mochila_destruida: BOOLEAN,   \* what that pointer points to is freed
   viva: BOOLEAN]                \* malloc'ed and not freed

SinInstancia ==
  [socket |-> 0, libre |-> 0, cola_de_espera |-> <<>>,
   pcb_con_interfaz_asignada |-> NULO, mochila_destruida |-> FALSE,
   viva |-> FALSE]

Reposo == [pc |-> "reposo", pid |-> NULO, instancia |-> NULO]

InterfacesTypeOK ==
  /\ proceso_io \in [Interfaces -> {"sin conectar", "conectado", "caido"}]
  /\ pedidos \in [Interfaces -> Seq({NOMBRE} \union [pid: Procesos])]
  /\ respuestas \in [Interfaces -> Seq({NOMBRE} \union Fin)]
  /\ descriptor \in [Fds -> Interfaces \union {NULO}]
  /\ lista_instancias_global \in Seq(Interfaces)
  /\ instancia \in [Interfaces -> Instancia]
  /\ estado \in [Procesos -> {"ready", "exec", "blocked", "en mano", "exit"}]
  /\ hilo \in [Interfaces ->
       [pc: {"sin empezar", "reposo", "fin", "error", "siguiente", "liberar",
             "a ready", "desconexion", "eliminar", "terminado"},
        socket: Fds \union {0},
        pid: Procesos \union {NULO},
        instancia: Interfaces \union {NULO}]]
  /\ despacho \in [pc: {"reposo", "validar", "asignar", "encolar"},
                   pid: Procesos \union {NULO},
                   instancia: Interfaces \union {NULO}]
  /\ caido \in {"", "puntero nulo", "instancia liberada", "doble free"}

Init ==
  /\ proceso_io = [i \in Interfaces |-> "sin conectar"]
  /\ pedidos = [i \in Interfaces |-> <<>>]
  /\ respuestas = [i \in Interfaces |-> <<>>]
  /\ descriptor = [f \in Fds |-> NULO]
  /\ lista_instancias_global = <<>>
  /\ instancia = [i \in Interfaces |-> SinInstancia]
  /\ estado = [p \in Procesos |-> "ready"]
  /\ hilo = [i \in Interfaces |->
               [pc |-> "sin empezar", socket |-> 0, pid |-> NULO,
                instancia |-> NULO]]
  /\ despacho = Reposo
  /\ caido = ""

-----------------------------------------------------------------------------
(* Helpers *)

En(i, pc) == hilo[i].pc = pc
Pasa(i, pc) == hilo' = [hilo EXCEPT ![i].pc = pc]
VuelveALeer(i) == hilo' = [hilo EXCEPT ![i].pc = "reposo", ![i].pid = NULO,
                                       ![i].instancia = NULO]

Listada(i) == \E k \in DOMAIN lista_instancias_global :
                lista_instancias_global[k] = i

\* list_find: the first element of the list in the set, or NULL
Primera(cuales) ==
  LET pos == {k \in DOMAIN lista_instancias_global :
                lista_instancias_global[k] \in cuales} IN
  IF pos = {} THEN NULO ELSE lista_instancias_global[Min(pos)]

obtener_instancia_por_nombre(n) == Primera({i \in Interfaces : nombre[i] = n})

LaPrimera(s) == Primera(Interfaces)  \* mutant: list_get(lista, 0)
obtener_instancia_por_socket(s) ==
  Primera({i \in Interfaces : instancia[i].socket = s})

\* The run at the other end of a descriptor; a message to none is lost.
ConMensaje(f, m) ==
  IF f = 0 THEN pedidos
  ELSE [i \in Interfaces |->
          IF descriptor[f] = i /\ proceso_io[i] = "conectado"
          THEN Append(pedidos[i], m) ELSE pedidos[i]]

Muere(de_que) ==
  /\ caido' = de_que
  /\ UNCHANGED <<conexionVars, pedidos, respuestas, listaVars, estado, hilo,
                 despacho>>

SacandoInstancia ==
  \E i \in Interfaces : \/ proceso_io[i] = "caido" /\ ~En(i, "terminado")
                        \/ En(i, "desconexion") \/ En(i, "eliminar")

-----------------------------------------------------------------------------
(* server_escucha_entrada_salida: accept, which gives the lowest            *)
(* descriptor free, and the request for the name                           *)

Conectar(i) ==
  LET f == Min({g \in Fds : descriptor[g] = NULO}) IN
  /\ proceso_io[i] = "sin conectar"
  /\ \E g \in Fds : descriptor[g] = NULO
  /\ SacandoInstancia => "RECONECTA" \in Casos
  /\ \A j \in Interfaces \ {i} :  \* two live interfaces have two names
       nombre[j] = nombre[i] => proceso_io[j] # "conectado"
  /\ proceso_io' = [proceso_io EXCEPT ![i] = "conectado"]
  /\ descriptor' = [descriptor EXCEPT ![f] = i]
  /\ hilo' = [hilo EXCEPT ![i].pc = "reposo", ![i].socket = f]
  /\ pedidos' = [pedidos EXCEPT ![i] = Append(@, NOMBRE)]
  /\ UNCHANGED <<respuestas, listaVars, estado, despacho, caido>>

-----------------------------------------------------------------------------
(* The entradasalida process, from the kernel's side *)

Responde(i, m) ==
  /\ pedidos' = [pedidos EXCEPT ![i] = Tail(@)]
  /\ respuestas' = [respuestas EXCEPT ![i] = Append(@, m)]
  /\ UNCHANGED <<conexionVars, listaVars, estado, hilo, despacho, caido>>

EnviarNombre(i) ==
  /\ proceso_io[i] = "conectado"
  /\ pedidos[i] # <<>>
  /\ Head(pedidos[i]) = NOMBRE
  /\ Responde(i, NOMBRE)

TerminarOperacion(i, resultado) ==
  /\ proceso_io[i] = "conectado"
  /\ pedidos[i] # <<>>
  /\ Head(pedidos[i]) # NOMBRE
  /\ resultado = "ERROR" => "ERROR" \in Casos
  /\ Responde(i, [op |-> "FIN_ENTRADASALIDA", pid |-> Head(pedidos[i]).pid,
                  resultado |-> resultado])

EnUso(i) ==
  \/ instancia[i].libre = 0 \/ instancia[i].cola_de_espera # <<>>
  \/ despacho.instancia = i
  \/ respuestas[i] # <<>>
  \/ ~En(i, "reposo")

\* The process ends, or is killed; its socket is closed.
Morir(i) ==
  /\ proceso_io[i] = "conectado"
  /\ Listada(i)  \* the log of case -1 reads the instance (undefined before)
  /\ EnUso(i) => "EN USO" \in Casos
  /\ proceso_io' = [proceso_io EXCEPT ![i] = "caido"]
  /\ pedidos' = [pedidos EXCEPT ![i] = <<>>]
  /\ UNCHANGED <<descriptor, respuestas, listaVars, estado, hilo, despacho,
                 caido>>

-----------------------------------------------------------------------------
(* atender_kernel_entradasalida *)

\* The run whose bytes thread i reads: its descriptor may have been closed,
\* and given to another connection.
LeeDe(i) == descriptor[hilo[i].socket]

HayMensaje(i, op) ==
  /\ En(i, "reposo")
  /\ LeeDe(i) # NULO
  /\ respuestas[LeeDe(i)] # <<>>
  /\ Head(respuestas[LeeDe(i)]).op = op

Recibido(i) == respuestas' = [respuestas EXCEPT ![LeeDe(i)] = Tail(@)]

\* asignar_nombre_y_tipo_y_agregar_a_listas: the instance is that of the run
\* whose name was read, and has the descriptor of the thread that read it.
AgregarInstancia(i) ==
  /\ HayMensaje(i, "NOMBRE_ENTRADA_SALIDA")
  /\ Recibido(i)
  /\ instancia' = [instancia EXCEPT ![LeeDe(i)] =
       [socket |-> hilo[i].socket, libre |-> 1, cola_de_espera |-> <<>>,
        pcb_con_interfaz_asignada |-> NULO, mochila_destruida |-> FALSE,
        viva |-> TRUE]]
  /\ lista_instancias_global' = Append(lista_instancias_global, LeeDe(i))
  /\ UNCHANGED <<conexionVars, pedidos, estado, hilo, despacho, caido>>

\* FIN_ENTRADASALIDA, up to pausador
RecibirFin(i) ==
  LET m == Head(respuestas[LeeDe(i)]) IN
  /\ HayMensaje(i, "FIN_ENTRADASALIDA")
  /\ Recibido(i)
  /\ hilo' = [hilo EXCEPT
       ![i].pc = IF m.resultado = "OK" THEN "fin" ELSE "error",
       ![i].pid = m.pid,
       ![i].instancia = obtener_instancia_por_socket(hilo[i].socket)]
  /\ UNCHANGED <<conexionVars, pedidos, listaVars, estado, despacho, caido>>

BuscarYRemover(i) ==
  /\ En(i, "fin")
  /\ estado' = [estado EXCEPT ![hilo[i].pid] = "en mano"]
  /\ Pasa(i, "siguiente")
  /\ UNCHANGED <<conexionVars, pedidos, respuestas, listaVars, despacho, caido>>

\* The error ends the process and nothing else: the interface stays busy.
FinConError(i) ==
  /\ En(i, "error")
  /\ estado' = [estado EXCEPT ![hilo[i].pid] = "exit"]
  /\ VuelveALeer(i)
  /\ UNCHANGED <<conexionVars, pedidos, respuestas, listaVars, despacho, caido>>

\* mutant: the head is sent and stays in the queue
SinSacar(cola) == cola
Restantes(cola) == Tail(cola)

\* sacar_pcb_siguiente_de_la_cola_de_espera_y_mandar_a_ejecutar_entrada_salida
\* reads the queue after a pausador, with the pointer it had before it.
SacarSiguiente(i) ==
  LET j == hilo[i].instancia IN
  /\ En(i, "siguiente")
  /\ instancia[j].viva
  /\ IF instancia[j].cola_de_espera = <<>>
     THEN /\ Pasa(i, "liberar")
          /\ UNCHANGED <<instancia, pedidos>>
     ELSE LET p == Head(instancia[j].cola_de_espera) IN
          /\ instancia' = [instancia EXCEPT
                             ![j].cola_de_espera = Restantes(@),
                             ![j].pcb_con_interfaz_asignada = p,
                             ![j].mochila_destruida = TRUE]
          /\ pedidos' = ConMensaje(instancia[j].socket, [pid |-> p])
          /\ Pasa(i, "a ready")
  /\ UNCHANGED <<conexionVars, respuestas, lista_instancias_global, estado,
                 despacho, caido>>

SigueOcupada == 0  \* mutant: `libre' is not set again
LibreTrasElFin == 1

LiberarInterfaz(i) ==
  LET j == hilo[i].instancia IN
  /\ En(i, "liberar")
  /\ instancia[j].viva
  /\ instancia' = [instancia EXCEPT ![j].libre = LibreTrasElFin,
                                    ![j].pcb_con_interfaz_asignada = NULO]
  /\ Pasa(i, "a ready")
  /\ UNCHANGED <<conexionVars, pedidos, respuestas, lista_instancias_global,
                 estado, despacho, caido>>

AgregarAReady(i) ==
  /\ En(i, "a ready")
  /\ estado' = [estado EXCEPT ![hilo[i].pid] = "ready"]
  /\ VuelveALeer(i)
  /\ UNCHANGED <<conexionVars, pedidos, respuestas, listaVars, despacho, caido>>

UsarLiberada(i) ==
  /\ En(i, "siguiente") \/ En(i, "liberar")
  /\ ~instancia[hilo[i].instancia].viva
  /\ Muere("instancia liberada")

-----------------------------------------------------------------------------
(* Disconnection *)

\* recibir_operacion fails, and closes the descriptor.
LeerFinDeSocket(i) ==
  /\ En(i, "reposo")
  /\ \/ LeeDe(i) = NULO
     \/ LeeDe(i) # NULO /\ proceso_io[LeeDe(i)] = "caido"
                        /\ respuestas[LeeDe(i)] = <<>>
  /\ descriptor' = [descriptor EXCEPT ![hilo[i].socket] = NULO]
  /\ Pasa(i, "desconexion")
  /\ UNCHANGED <<proceso_io, pedidos, respuestas, listaVars, estado, despacho,
                 caido>>

BuscarLaPropia(i) ==
  /\ En(i, "desconexion")
  /\ hilo' = [hilo EXCEPT
       ![i].pc = "eliminar",
       ![i].instancia = obtener_instancia_por_socket(hilo[i].socket)]
  /\ UNCHANGED <<conexionVars, pedidos, respuestas, listaVars, estado, despacho,
                 caido>>

SinQuitar(j) == lista_instancias_global  \* mutant: destroyed and still listed
ListaSin(j) ==
  LET k == CHOOSE n \in DOMAIN lista_instancias_global :
             lista_instancias_global[n] = j IN
  [n \in 1..(Len(lista_instancias_global) - 1) |->
     lista_instancias_global[IF n < k THEN n ELSE n + 1]]

Victima(i) == obtener_instancia_por_nombre(nombre[hilo[i].instancia])

\* What mandar_pcb_a_entrada_salida destroyed once it had sent it
ApuntaALiberado(j) == /\ instancia[j].pcb_con_interfaz_asignada # NULO
                      /\ instancia[j].mochila_destruida

\* eliminar_interfaz takes the first instance with the name, and
\* destruir_interfaz closes its descriptor, whoever has that number now.
EliminarInterfaz(i) ==
  LET j == Victima(i)
      f == instancia[j].socket IN
  /\ En(i, "eliminar")
  /\ hilo[i].instancia # NULO /\ instancia[hilo[i].instancia].viva
  /\ ~ApuntaALiberado(j)
  /\ descriptor' = [descriptor EXCEPT ![f] = NULO]
  /\ lista_instancias_global' = ListaSin(j)
  /\ instancia' = [instancia EXCEPT ![j] = SinInstancia]
  /\ hilo' = [hilo EXCEPT ![i].pc = "terminado", ![i].instancia = NULO]
  /\ UNCHANGED <<proceso_io, pedidos, respuestas, estado, despacho, caido>>

EliminarDosVeces(i) ==
  /\ En(i, "eliminar")
  /\ hilo[i].instancia # NULO /\ instancia[hilo[i].instancia].viva
  /\ ApuntaALiberado(Victima(i))
  /\ Muere("doble free")

\* The comparison with the name of a NULL or freed instance
EliminarNula(i) ==
  /\ En(i, "eliminar")
  /\ \/ hilo[i].instancia = NULO
     \/ hilo[i].instancia # NULO /\ ~instancia[hilo[i].instancia].viva
  /\ lista_instancias_global # <<>>
  /\ Muere(IF hilo[i].instancia = NULO THEN "puntero nulo"
           ELSE "instancia liberada")

EliminarDeListaVacia(i) ==
  /\ En(i, "eliminar")
  /\ lista_instancias_global = <<>>
  /\ Pasa(i, "terminado")
  /\ UNCHANGED <<conexionVars, pedidos, respuestas, listaVars, estado, despacho,
                 caido>>

-----------------------------------------------------------------------------
(* The I/O services of the dispatch thread *)

\* The process in EXEC asks for an interface by name.  Kernel has what
\* happens when there is none.
Pedir(p, n) ==
  LET j == obtener_instancia_por_nombre(n) IN
  /\ despacho.pc = "reposo"
  /\ estado[p] = "ready"
  /\ \A q \in Procesos : estado[q] # "exec"
  /\ j # NULO
  /\ "EN USO" \in Casos \/ proceso_io[j] = "conectado"
  /\ estado' = [estado EXCEPT ![p] = "exec"]
  /\ despacho' = [pc |-> "validar", pid |-> p, instancia |-> j]
  /\ UNCHANGED <<conexionVars, pedidos, respuestas, listaVars, hilo, caido>>

\* existe_interfaz, and the test of `libre'
Validar ==
  LET j == despacho.instancia IN
  /\ despacho.pc = "validar"
  /\ instancia[j].viva
  /\ despacho' = [despacho EXCEPT
       !.pc = IF instancia[j].libre = 1 THEN "asignar" ELSE "encolar"]
  /\ UNCHANGED <<conexionVars, pedidos, respuestas, listaVars, estado, hilo,
                 caido>>

Bloquea == estado' = [estado EXCEPT ![despacho.pid] = "blocked"]

Ocupada == 0

AsignarInterfaz ==
  LET j == despacho.instancia IN
  /\ despacho.pc = "asignar"
  /\ instancia[j].viva
  /\ Bloquea
  /\ instancia' = [instancia EXCEPT
                     ![j].pcb_con_interfaz_asignada = despacho.pid,
                     ![j].mochila_destruida = FALSE,
                     ![j].libre = Ocupada]
  /\ pedidos' = ConMensaje(instancia[j].socket, [pid |-> despacho.pid])
  /\ despacho' = Reposo
  /\ UNCHANGED <<conexionVars, respuestas, lista_instancias_global, hilo, caido>>

EncolarEnInterfaz ==
  LET j == despacho.instancia IN
  /\ despacho.pc = "encolar"
  /\ instancia[j].viva
  /\ Bloquea
  /\ instancia' = [instancia EXCEPT
                     ![j].cola_de_espera = Append(@, despacho.pid)]
  /\ despacho' = Reposo
  /\ UNCHANGED <<conexionVars, pedidos, respuestas, lista_instancias_global,
                 hilo, caido>>

DespacharLiberada ==
  /\ despacho.pc # "reposo"
  /\ ~instancia[despacho.instancia].viva
  /\ Muere("instancia liberada")

-----------------------------------------------------------------------------
EntradaSalida(i) ==
  EnviarNombre(i) \/ \E r \in {"OK", "ERROR"} : TerminarOperacion(i, r)

HiloDeConexion(i) ==
  \/ AgregarInstancia(i)
  \/ RecibirFin(i) \/ BuscarYRemover(i) \/ FinConError(i)
  \/ SacarSiguiente(i) \/ LiberarInterfaz(i)
  \/ AgregarAReady(i) \/ UsarLiberada(i)
  \/ LeerFinDeSocket(i) \/ BuscarLaPropia(i)
  \/ EliminarInterfaz(i) \/ EliminarDosVeces(i) \/ EliminarNula(i)
  \/ EliminarDeListaVacia(i)

HiloDespacho ==
  Validar \/ AsignarInterfaz \/ EncolarEnInterfaz \/ DespacharLiberada

Next ==
  /\ caido = ""
  /\ \/ \E i \in Interfaces :
          Conectar(i) \/ Morir(i) \/ EntradaSalida(i) \/ HiloDeConexion(i)
     \/ \E p \in Procesos, n \in Nombres : Pedir(p, n)
     \/ HiloDespacho

\* An interface that lives answers what it is asked; threads go on.
Spec ==
  /\ Init /\ [][Next]_vars
  /\ \A i \in Interfaces :
       WF_vars(caido = "" /\ EntradaSalida(i))
         /\ WF_vars(caido = "" /\ HiloDeConexion(i))
  /\ WF_vars(caido = "" /\ HiloDespacho)

-----------------------------------------------------------------------------
(* Properties *)

\* An instance the dispatch thread can find has a socket that is open and
\* leads to the interface of that name, through disconnections that close
\* descriptors whose numbers are given again, and nobody has in hand one that
\* has been freed.  Only the thread that is taking it down may find it closed.
ConexionesPropias ==
  /\ caido = ""
  /\ \A k \in DOMAIN lista_instancias_global :
       LET i == lista_instancias_global[k] IN
       /\ instancia[i].viva
       /\ \/ descriptor[instancia[i].socket] = i
          \/ hilo[i].pc \in {"desconexion", "eliminar"}
       /\ \A n \in DOMAIN lista_instancias_global :
            nombre[lista_instancias_global[n]] = nombre[i] => n = k
  /\ despacho.instancia # NULO => instancia[despacho.instancia].viva

\* Requests for and answers of process p under way on connection i
EnCamino(i, p) ==
  \/ \E k \in DOMAIN pedidos[i] : pedidos[i][k] = [pid |-> p]
  \/ \E k \in DOMAIN respuestas[i] : /\ respuestas[i][k] \in Fin
                                     /\ respuestas[i][k].pid = p
  \/ hilo[i].pc \in {"fin", "error"} /\ hilo[i].pid = p

EnCola(i, p) == \E k \in DOMAIN instancia[i].cola_de_espera :
                  instancia[i].cola_de_espera[k] = p

\* A process that is blocked is with one interface, that can still be found:
\* being served by it, or in its queue, and not both, whoever was about to set
\* `libre' when it was tested; and an interface serves one process at a time.
BloqueadoAtendido ==
  /\ \A p \in Procesos : estado[p] = "blocked" =>
       \E i \in Interfaces :
         /\ Listada(i)
         /\ EnCamino(i, p) <=> ~EnCola(i, p)
         /\ \A j \in Interfaces \ {i} : ~EnCamino(j, p) /\ ~EnCola(j, p)
  /\ \A i \in Interfaces, p, q \in Procesos :
       EnCamino(i, p) /\ EnCamino(i, q) => p = q

\* Whatever fails, no process is with two interfaces, or twice with one, and
\* none that has gone on is still with one: each I/O ends at most once, even
\* when descriptors and queues are taken from under the threads that use them.
UnaSolaInterfaz ==
  \A p \in Procesos :
    LET conP == {i \in Interfaces : EnCamino(i, p) \/ EnCola(i, p)} IN
    /\ conP # {} => estado[p] = "blocked" /\ Cardinality(conP) = 1
    /\ \A i \in Interfaces : ~(EnCamino(i, p) /\ EnCola(i, p))

\* Who is being served comes back, or is ended by an error; and so does who
\* waits behind another, taken out by the end of the one before, unless an I/O of that
\* interface fails.  Nothing moves the queue but those ends: who is queued when
\* the last has looked at it stays there, VuelveElQueEspera.
VuelvenTodos ==
  \A i \in Interfaces, p \in Procesos :
    /\ estado[p] = "blocked" /\ EnCamino(i, p) ~> estado[p] # "blocked"
    /\ []~En(i, "error") =>
         (EnCola(i, p) /\ instancia[i].libre = 0 /\ ~En(i, "liberar")
            ~> ~EnCola(i, p))

VuelveElQueEspera ==
  \A p \in Procesos : estado[p] = "blocked" ~> estado[p] # "blocked"
==============================================================================
