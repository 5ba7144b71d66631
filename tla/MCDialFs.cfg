SPECIFICATION Spec
CONSTANTS
  Nombres = {a, b}
  BLOCK_SIZE = 2
  BLOCK_COUNT = 3
  BitsPorByte = 3
  MaxTamanio = 6
  Largos = {2}
  Casos = {"FUERA", "MUDAR"}
SYMMETRY Simetria
INVARIANTS
  TypeOK
  ExtensionesDisjuntas
  BitmapExacto
  MetadataFiel
PROPERTIES
  SoloEsoDania
