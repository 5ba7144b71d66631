\* Three processes on one resource may hang a thread on the copy of a locked
\* mutex, or two on each other (MCKernel_TresProcesos): the system may stop.
SPECIFICATION Spec
CONSTANTS
  MaxPid = 3
  Recursos = {r1}
  InstanciasDe <- MCUnaInstancia
  Interfaces = {}
  Grado = 3
  Algoritmo = "RR"
  Desprendidos = {d1}
  Sucesos = {"WAIT", "QUANTUM"}
  EstadosFinalizables = {}
  MaxPasos = 1
  MaxFin = 0
  MaxIrq = 1
  MaxPendientes = 2
  Nadie = Nadie
CHECK_DEADLOCK FALSE
INVARIANT UnaSolaLista
INVARIANT EstadoSegunLista
INVARIANT BloqueadoConMotivo
INVARIANT SinEsperaInutil
INVARIANT NadieOcioso
