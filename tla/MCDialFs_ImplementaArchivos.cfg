SPECIFICATION Spec
CONSTANTS
  Nombres = {a, b}
  BLOCK_SIZE = 2
  BLOCK_COUNT = 3
  BitsPorByte = 3
  MaxTamanio = 6
  Largos = {2}
  Casos = {"MUDAR"}
SYMMETRY Simetria
PROPERTIES
  ImplementaArchivos
