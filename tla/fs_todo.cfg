CONSTANTS
  c1 = c1
  c2 = c2
  v1 = v1
  v2 = v2
  CERO = CERO
  VACIO = VACIO
  Inicial <- BASE
  Contenidos = {c1}
  Nombres <- DosNombres
  CantBloques = 3
  TamanioBloque = 2
  Tamanios = {0, 3}
  MaxBLOCKS = 2
  Cargas <- Todas
SPECIFICATION Spec
CHECK_DEADLOCK FALSE
PROPERTIES
  SinFuga
  Aislamiento
  CaidaLocal
SYMMETRY SimetriaTags
