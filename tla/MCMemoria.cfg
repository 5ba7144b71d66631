SPECIFICATION FairSpec
CONSTANTS
  Procesos = {p1, p2, p3}
  CantMarcos = 2
  TAM_PAGINA = 4
  MaxTamanio = 9
  Bloques = {b1, b2, b3, b4}
  NULO = NULO
  FinalizaBloqueados = FALSE
  LiberaAusentes = TRUE
INVARIANTS
  TypeOK
  MarcosExclusivos
  LibreSiiSinPagina
  CargaAlcanza
PROPERTIES
  ImplementaReparto
  PedidosTerminan
