\* As in MCKernelFifo, the system may stop; under VRR also with a process that
\* only lista_ready_prioridad holds.
SPECIFICATION Spec
CONSTANTS
  MaxPid = 2
  Recursos = {}
  InstanciasDe <- MCUnaInstancia
  Interfaces = {i1}
  Grado = 2
  Algoritmo = "VRR"
  Desprendidos = {d1, d2}
  Sucesos = {"IO"}
  EstadosFinalizables = {"EXEC"}
  MaxPasos = 1
  MaxFin = 1
  MaxIrq = 1
  MaxPendientes = 1
  Nadie = Nadie
CHECK_DEADLOCK FALSE
SYMMETRY Simetria
INVARIANT ExecUnico
