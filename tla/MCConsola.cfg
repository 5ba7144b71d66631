SPECIFICATION Spec
CONSTANTS
  Procesos = {p1, p2}
  MaxOrdenes = 3
  MaxGrado = 2
  GradoInicial = 1
  Nadie = Nadie
  Casos = {}
\* The script may have ended, and the processes too.
CHECK_DEADLOCK FALSE
INVARIANTS
  CuposExactos
PROPERTIES
  NadiePasaEnPausa
  TodosTerminan
