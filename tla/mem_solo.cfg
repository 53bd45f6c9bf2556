CONSTANTS
  base = base
  f = f
  g = g
  a = a
  NUL = NUL
  Inicial = base
  Nombres = {base, f}
  Compartidos = {}
  TamPag = 2
  CantFrames = 2
  MaxPaginas = 2
  MaxBloques = 2
  Caracteres = {a}
  Algoritmos = {"LRU", "CLOCK-M"}
  Escrituras <- MCEscrituras
  Lecturas <- MCLecturas
  Usos = {"CREATE", "TRUNCATE", "WRITE", "READ", "COMMIT", "FLUSH", "DELETE", "DESALOJO"}
  UsosDeOtros = {}
SPECIFICATION Spec
CHECK_DEADLOCK FALSE
INVARIANTS
  MarcosBien
  TablasBien
  LecturaCorrecta
  EscrituraCompleta
  Persistido
  ClockMClasico
PROPERTIES
  SinPerdida
  Transparente
  VistaIndependiente
