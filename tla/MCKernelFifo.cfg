\* A process queued on an interface that has just been freed stays there
\* (MCKernel_BloqueadoConMotivo): the system may stop.
SPECIFICATION Spec
CONSTANTS
  MaxPid = 2
  Recursos = {r1}
  InstanciasDe <- MCUnaInstancia
  Interfaces = {i1}
  Grado = 2
  Algoritmo = "FIFO"
  Desprendidos = {d1, d2}
  Sucesos = {"WAIT", "IO", "SIGNAL_DESCONOCIDO", "EXIT_CON_RECURSOS",
    "OUT_OF_MEMORY"}
  EstadosFinalizables = {}
  MaxPasos = 2
  MaxFin = 0
  MaxIrq = 1
  MaxPendientes = 2
  Nadie = Nadie
CHECK_DEADLOCK FALSE
SYMMETRY Simetria
INVARIANT NadieMuere
INVARIANT CpuEjecutaElDeExec
INVARIANT CupoConservado
PROPERTY ExitEsFinal
PROPERTY ImplementaCiclo
