\* Threads may hang and processes be stranded: the system may stop.
SPECIFICATION Spec
CONSTANTS
  MaxPid = 2
  Recursos = {r1}
  InstanciasDe <- MCUnaInstancia
  Interfaces = {i1}
  Grado = 2
  Algoritmo = "FIFO"
  Desprendidos = {d1, d2}
  Sucesos = {"WAIT", "IO", "IO_INADMISIBLE", "IO_DESCONOCIDA", "GENERICA",
    "OTRA", "IO_ERROR", "WAIT_DESCONOCIDO", "SIGNAL_DESCONOCIDO",
    "EXIT_CON_RECURSOS", "OUT_OF_MEMORY"}
  EstadosFinalizables = {"NINGUNO", "NEW", "READY", "EXEC", "BLOCKED",
    "EXIT"}
  MaxPasos = 1
  MaxFin = 1
  MaxIrq = 1
  MaxPendientes = 2
  Nadie = Nadie
CHECK_DEADLOCK FALSE
SYMMETRY Simetria
INVARIANT TypeOK
INVARIANT ExecUnico
