SPECIFICATION FairSpec
CONSTANTS
  MaxPid = 3
  Recursos = {r1}
  InstanciasDe <- MCUnaInstancia
  Interfaces = {}
  Grado = 2
  Algoritmo = "FIFO"
  Desprendidos = {d1, d2, d3, d4, d5}
  Sucesos = {"WAIT", "EXIT_CON_RECURSOS"}
  EstadosFinalizables = {}
  MaxPasos = 1
  MaxFin = 0
  MaxIrq = 1
  MaxPendientes = 2
  Nadie = Nadie
PROPERTY TodosTerminan
