CONSTANTS
  w1 = w1
  w2 = w2
  q1 = q1
  q2 = q2
  q3 = q3
  NULL = NULL
  Workers <- MCWorkers
  Queries <- DosQueries
  Algoritmo = "FIFO"
  TiempoAging = 0
  PrioridadInicial <- SinPrioridad
  Programa <- ConCommit
  Fallas = {"operacion", "flush"}
  WorkersQueCaen = {w2}
  WorkersConSenial = {w1}
  SleepAlcanza = TRUE
  QCsQueCaen = {}
SPECIFICATION Spec
CHECK_DEADLOCK FALSE
INVARIANTS
  TypeOK
  NingunaQueryPerdida
  Atribucion
  FinDefinitivo
  TrabajoConservado
PROPERTIES
  PorOrdenDeLlegada
  CaidaTardia
