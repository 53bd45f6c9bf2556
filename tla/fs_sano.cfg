CONSTANTS
  c1 = c1
  c2 = c2
  v1 = v1
  v2 = v2
  CERO = CERO
  VACIO = VACIO
  Inicial <- BASE
  Contenidos = {c1, CERO}
  Nombres <- MCNombres
  CantBloques = 4
  TamanioBloque = 2
  Tamanios = {0, 1, 4}
  MaxBLOCKS = 3
  Cargas <- Sanas
SPECIFICATION Spec
CHECK_DEADLOCK FALSE
INVARIANTS
  StorageTypeOK
  BitmapExacto
  IndiceFiel
  UnSoloBloque
  Sellado
PROPERTY Independientes
SYMMETRY SimetriaTags
