CONSTANTS
  w1 = w1
  w2 = w2
  q1 = q1
  q2 = q2
  q3 = q3
  NULL = NULL
  Workers <- MCWorkers
  Queries <- DosQueries
  Algoritmo = "FIFO"
  TiempoAging = 0
  PrioridadInicial <- SinPrioridad
  Programa <- MCPrograma
  Fallas = {"operacion"}
  WorkersQueCaen = {}
  WorkersConSenial = {}
  SleepAlcanza = TRUE
  QCsQueCaen = {}
SPECIFICATION FairSpec
CHECK_DEADLOCK FALSE
INVARIANT
  MasterVivo
PROPERTY TodasTerminan
