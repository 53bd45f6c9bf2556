CONSTANTS
  w1 = w1
  w2 = w2
  q1 = q1
  q2 = q2
  q3 = q3
  NULL = NULL
  Workers <- MCWorkers
  Queries <- MCQueries
  Algoritmo = "PRIORIDADES"
  TiempoAging = 1
  PrioridadInicial <- MCPrioridad
  Programa <- UnaLarga
  Fallas = {}
  WorkersQueCaen = {}
  WorkersConSenial = {}
  SleepAlcanza = TRUE
  QCsQueCaen = {}
SPECIFICATION Spec
CHECK_DEADLOCK FALSE
CONSTRAINT CuatroConectados
SYMMETRY Simetria
INVARIANTS
  UnaCopia
  Atribucion
  SinReejecucion
PROPERTIES
  DespachoPorPrioridad
  PedidoJustificado
  CaidaPorOlvido
