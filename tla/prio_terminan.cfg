CONSTANTS
  w1 = w1
  w2 = w2
  q1 = q1
  q2 = q2
  q3 = q3
  NULL = NULL
  Workers <- UnWorker
  Queries <- DosQueries
  Algoritmo = "PRIORIDADES"
  TiempoAging = 1
  PrioridadInicial <- MCPrioridad
  Programa <- MCPrograma
  Fallas = {}
  WorkersQueCaen = {}
  WorkersConSenial = {}
  SleepAlcanza = TRUE
  QCsQueCaen = {}
SPECIFICATION FairSpec
CHECK_DEADLOCK FALSE
PROPERTY TodasTerminan
