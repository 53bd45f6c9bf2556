CONSTANTS
  base = base
  f = f
  g = g
  a = a
  NUL = NUL
  Inicial = base
  Nombres = {base, f}
  Compartidos = {f}
  TamPag = 1
  CantFrames = 2
  MaxPaginas = 2
  MaxBloques = 1
  Caracteres = {a}
  Algoritmos = {"LRU", "CLOCK-M"}
  Escrituras <- EscriturasUnByte
  Lecturas <- LecturasUnByte
  Usos = {"CREATE", "TRUNCATE", "TRUNCATE_MENOS", "WRITE", "READ", "TAG", "COMMIT", "FLUSH", "DELETE", "DESALOJO"}
  UsosDeOtros = {"WRITE", "COMMIT", "DELETE"}
SPECIFICATION Spec
CHECK_DEADLOCK FALSE
INVARIANT MarcosRecuperables
