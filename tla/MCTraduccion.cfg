SPECIFICATION TraduccionSpec
CONSTANTS
  Procesos = {p1, p2}
  CantMarcos = 3
  TAM_PAGINA = 1
  MaxTamanio = 3
  Bloques = {b1, b2, b3, b4, b5, b6}
  NULO = NULO
  FinalizaBloqueados = FALSE
  LiberaAusentes = TRUE
  CANT_ENTRADAS_TLB = 2
  ALGORITMO_TLB = "LRU"
  Elementos <- ElementosMC
  Tamanios = {1, 3}
  MaxIO = 1
SYMMETRY Simetria
INVARIANTS
  OrdenCompleto
  PaginaUnaVez
  AccesoPropio
PROPERTIES
  ImplementaCola
