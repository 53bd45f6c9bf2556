CONSTANTS
  c1 = c1
  c2 = c2
  v1 = v1
  v2 = v2
  CERO = CERO
  VACIO = VACIO
  Inicial <- BASE
  Contenidos = {c1, c2}
  Nombres <- DosNombres
  CantBloques = 4
  TamanioBloque = 1
  Tamanios = {0, 1}
  MaxBLOCKS = 2
  Cargas <- DeRiesgo
SPECIFICATION Spec
CHECK_DEADLOCK FALSE
PROPERTY CommitConserva
