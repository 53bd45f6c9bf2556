CONSTANTS
  w1 = w1
  w2 = w2
  q1 = q1
  q2 = q2
  q3 = q3
  NULL = NULL
  Workers <- UnWorker
  Queries <- DosQueries
  Algoritmo = "PRIORIDADES"
  TiempoAging = 1
  PrioridadInicial <- MCPrioridad
  Programa <- ConInvalida
  Fallas = {"operacion", "flush"}
  WorkersQueCaen = {w1}
  WorkersConSenial = {w1}
  SleepAlcanza = FALSE
  QCsQueCaen = {q2}
SPECIFICATION Spec
CHECK_DEADLOCK FALSE
INVARIANTS
  UnaCopia
  Atribucion
  FinDefinitivo
