SPECIFICATION Spec
CONSTANTS
  i3 = i3
  A = A
  B = B
  Procesos = {p1, p2}
  Interfaces = {i1, i2, i3}
  Nombres = {A, B}
  nombre <- NombreMC
  MaxFd = 2
  NULO = NULO
  Casos = {"ERROR"}
\* The interfaces and the processes may all have ended.
CHECK_DEADLOCK FALSE
INVARIANTS
  
  BloqueadoAtendido

  
