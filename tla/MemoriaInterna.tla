---------------------------- MODULE MemoriaInterna ----------------------------
(***************************************************************************)
(* The page cache of a worker (worker/src/memoria_interna.c) and the       *)
(* instructions that use it (the ejecutar* functions of                    *)
(* ciclo_instruccion.c): page tables, frames, LRU and CLOCK-M, write-back. *)
(* Behind it is the storage of TagsIndependientes, which other workers     *)
(* change between two requests of this one.  One action reaches from one   *)
(* storage request to the next; nothing but storage sees the difference.   *)
(*                                                                         *)
(* Pages are bytes: a WRITE stores the terminating NUL of its argument,    *)
(* and a block travels in a message as a C string, so that what follows a  *)
(* NUL never reaches storage and is arbitrary after a page-in.             *)
(***************************************************************************)
EXTENDS Integers, FiniteSets, SequencesExt

CONSTANTS
  Nombres,      \* the File:Tag names, which no two tables confuse
  Inicial,      \* initial_file:BASE
  Compartidos,  \* names that other workers also use
  TamPag, CantFrames,
  MaxPaginas,   \* bound: pages 0 .. MaxPaginas - 1 are addressed
  MaxBloques,   \* bound: blocks a TRUNCATE can leave in a tag
  Caracteres, NUL,
  Algoritmos,   \* values of ALGORITMO_REEMPLAZO in this instance
  Escrituras,   \* arguments of WRITE: base address and string
  Lecturas,     \* arguments of READ: base address and size
  Usos,         \* instructions the queries of this instance use
  UsosDeOtros   \* requests other workers send for the Compartidos

Frames == 0 .. CantFrames - 1
Paginas == 0 .. MaxPaginas - 1
Bytes == Caracteres \cup {NUL}
Pagina == [1 .. TamPag -> Bytes]

ASSUME MemoriaAssumption ==
  /\ TamPag \in Nat \ {0} /\ CantFrames \in Nat \ {0}
  /\ MaxPaginas \in Nat /\ MaxBloques \in Nat
  /\ NUL \notin Caracteres
  /\ Inicial \in Nombres /\ Compartidos \subseteq Nombres \ {Inicial}
  /\ Algoritmos \subseteq {"LRU", "CLOCK-M"}

\* WRITE reaches one byte past its string.
ASSUME DireccionesAssumption ==
  /\ Escrituras \subseteq [dir : Nat, contenido : Seq(Caracteres)]
  /\ Lecturas \subseteq [dir : Nat, tam : Int]
  /\ \A e \in Escrituras : e.dir + Len(e.contenido) < MaxPaginas * TamPag
  /\ \A l \in Lecturas : l.dir + l.tam <= MaxPaginas * TamPag /\ l.dir < MaxPaginas * TamPag

\* string_from_format with "%s" stops at the first NUL; escribirEnBloque
\* pads with zeros.
aBloque(p) ==
  [i \in 1 .. TamPag |-> IF \E j \in 1 .. i : p[j] = NUL THEN NUL ELSE p[i]]
Bloque == {aBloque(p) : p \in Pagina}
CERO == [i \in 1 .. TamPag |-> NUL]

VARIABLES
  archivos,        \* what storage holds
  algoritmo,       \* config_worker->algoritmo_reemplazo
  tabla_general,   \* the names that have a table, in the order of the list
  paginas,         \* the pages with an entry in each table, in that order
  entrada,         \* EntradaDeTabla of each page of each name
  usada_antes,     \* pairs of present pages, the first with the smaller last_used_ms
  ptr_gb,          \* CLOCK-M's hand: table and entry, counted from 1
  bitMap,          \* the frames taken
  memoria,
  instruccion, paso, hecho,  \* the instruction, where it is, bytes done
  leido,           \* mensaje of leerEnMemoria
  contenido_pagina,
  enviados,        \* what this instruction sent to the master
  es_error_o_end   \* what it returned

almacen == <<archivos>>
tablas == <<tabla_general, paginas, entrada, usada_antes, ptr_gb>>
marcos == <<bitMap, memoria>>
ejecucion == <<instruccion, paso, hecho, leido, contenido_pagina, enviados,
               es_error_o_end>>
vars == <<almacen, algoritmo, tablas, marcos, ejecucion>>

FS == INSTANCE TagsIndependientes WITH Contenidos <- Bloque

Pares == Nombres \X Paginas
Entrada == [nro_frame : Frames \cup {-1}, bit_presencia : BOOLEAN,
            bit_uso : BOOLEAN, bit_modificado : BOOLEAN]

\* A page with no entry is described by the one crearEntradaPagina makes.
crearEntradaPagina ==
  [nro_frame |-> -1, bit_presencia |-> FALSE, bit_uso |-> TRUE,
   bit_modificado |-> FALSE]

Operacion == {"NINGUNA", "CREATE", "TRUNCATE", "WRITE", "READ", "TAG", "COMMIT",
              "FLUSH", "DELETE", "DESALOJO"}
Paso == {"libre", "accediendo", "page_fault", "flusheando", "commiteando",
         "hecho", "caido"}
Mensaje == [tipo : {"LEER", "ERROR"}, contenido : Seq(Bytes)]
Ninguna == [op |-> "NINGUNA", nombre |-> Inicial, dir |-> 0, datos |-> <<>>,
            total |-> 0]

AlmacenTypeOK ==
  /\ DOMAIN archivos \subseteq Nombres
  /\ \A n \in DOMAIN archivos :
       archivos[n] \in [estado : FS!Estado, bloques : Seq(Bloque)]

TablasTypeOK ==
  /\ tabla_general \in Seq(Nombres)
  /\ paginas \in [Nombres -> Seq(Paginas)]
  /\ entrada \in [Pares -> Entrada]
  /\ usada_antes \subseteq Pares \X Pares
  /\ ptr_gb \in (Nat \ {0}) \X (Nat \ {0})

MarcosTypeOK == bitMap \subseteq Frames /\ memoria \in [Frames -> Pagina]

EjecucionTypeOK ==
  /\ instruccion \in [op : Operacion, nombre : Nombres, dir : Nat,
                      datos : Seq(Bytes), total : Nat]
  /\ paso \in Paso /\ hecho \in Nat
  /\ leido \in Seq(Bytes) /\ contenido_pagina \in Pagina
  /\ enviados \in Seq(Mensaje)
  /\ es_error_o_end \in BOOLEAN

MemoriaTypeOK ==
  /\ AlmacenTypeOK /\ TablasTypeOK /\ MarcosTypeOK /\ EjecucionTypeOK
  /\ algoritmo \in Algoritmos

\* iniciarMemoria; the frames hold whatever malloc returned, which nothing
\* reads before a page-in.
Init ==
  /\ FS!Init
  /\ algoritmo \in Algoritmos
  /\ tabla_general = <<>>
  /\ paginas = [n \in Nombres |-> <<>>]
  /\ entrada = [x \in Pares |-> crearEntradaPagina]
  /\ usada_antes = {}
  /\ ptr_gb = <<1, 1>>
  /\ bitMap = {}
  /\ memoria = [f \in Frames |-> CERO]
  /\ instruccion = Ninguna /\ paso = "libre" /\ hecho = 0
  /\ leido = <<>> /\ contenido_pagina = CERO
  /\ enviados = <<>> /\ es_error_o_end = FALSE

-----------------------------------------------------------------------------
(* Page tables.                                                            *)

Agregar(s, e) == IF e \in ToSet(s) THEN s ELSE Append(s, e)

\* Mutant: the table made is not added to tabla_general.
tablaSinAgregar(n) == UNCHANGED tabla_general

buscarOCrearTabla(n) == tabla_general' = Agregar(tabla_general, n)

presentes(ent) == {x \in Pares : ent[x].bit_presencia}

IndiceDe(s, e) == CHOOSE i \in DOMAIN s : s[i] = e
lugar(x) == <<IndiceDe(tabla_general, x[1]), IndiceDe(paginas[x[1]], x[2])>>

\* The order in which every loop over tables and entries meets them.
antes(l, m) == l[1] < m[1] \/ (l[1] = m[1] /\ l[2] < m[2])

-----------------------------------------------------------------------------
(* Replacement.  A victim is a set: empty when there is none.              *)

\* elegirVictimaLRU.  Every access is preceded by hacerRetardo, of at least 5
\* ms in every configuration, so that no two last_used_ms are equal.
elegirVictimaLRU ==
  {x \in presentes(entrada) : \A y \in presentes(entrada) \ {x} :
     <<x, y>> \in usada_antes}

normalizar_puntero_clockm ==
  IF ptr_gb[1] > Len(tabla_general) THEN <<1, 1>>
  ELSE IF ptr_gb[2] > Len(paginas[tabla_general[ptr_gb[1]]])
  THEN <<ptr_gb[1], 1>> ELSE ptr_gb

\* From the hand to the end, and then from the beginning to the hand.
antesEnVuelta(x, y) ==
  LET pasada(z) == antes(lugar(z), normalizar_puntero_clockm)
  IN IF pasada(x) = pasada(y) THEN antes(lugar(x), lugar(y)) ELSE pasada(y)

\* One turn of the hand, taken only when the previous ones found nothing.
cicloClockM(r, resetear, uso, modificado) ==
  LET candidatas == {x \in presentes(r.entrada) :
                       /\ r.entrada[x].bit_uso = uso
                       /\ r.entrada[x].bit_modificado = modificado}
      victima == {x \in candidatas :
                    \A y \in candidatas \ {x} : antesEnVuelta(x, y)}
      recorridas == {x \in presentes(r.entrada) :
                       \A v \in victima : x # v /\ antesEnVuelta(x, v)}
  IN IF r.victima # {} THEN r
     ELSE [victima |-> victima,
           entrada |-> [x \in Pares |->
             IF resetear /\ x \in recorridas
             THEN [r.entrada[x] EXCEPT !.bit_uso = FALSE] ELSE r.entrada[x]]]

\* Mutant: no turn of the hand clears bit_uso.
clockMSinLimpiar ==
  LET primera == cicloClockM([victima |-> {}, entrada |-> entrada], FALSE, FALSE, FALSE)
      segunda == cicloClockM(primera, FALSE, FALSE, TRUE)
      tercera == cicloClockM(segunda, FALSE, FALSE, FALSE)
  IN cicloClockM(tercera, FALSE, FALSE, TRUE)

clockM ==
  LET primera == cicloClockM([victima |-> {}, entrada |-> entrada], FALSE, FALSE, FALSE)
      segunda == cicloClockM(primera, TRUE, FALSE, TRUE)
      tercera == cicloClockM(segunda, FALSE, FALSE, FALSE)
  IN cicloClockM(tercera, FALSE, FALSE, TRUE)

\* Mutant: positions counted from 0 when the hand wraps.
siguienteDesdeCero(x) ==
  LET l == lugar(x)
  IN IF l[2] < Len(paginas[x[1]]) THEN <<l[1], l[2] + 1>>
     ELSE <<(l[1] + 1) % Len(tabla_general), 1>>

\* The hand stays after the victim, at the next entry of its table or at the
\* first of the next table.
siguienteDe(x) ==
  LET l == lugar(x)
  IN IF l[2] < Len(paginas[x[1]]) THEN <<l[1], l[2] + 1>>
     ELSE <<(l[1] % Len(tabla_general)) + 1, 1>>

aplicarPoliticaReemplazo ==
  IF algoritmo = "LRU" THEN [victima |-> elegirVictimaLRU, entrada |-> entrada]
  ELSE clockM

moverPuntero(victima) ==
  ptr_gb' = IF algoritmo = "LRU" THEN ptr_gb
            ELSE IF victima = {} THEN normalizar_puntero_clockm
            ELSE siguienteDe(CHOOSE x \in victima : TRUE)

-----------------------------------------------------------------------------
(* Access to the page an instruction is at.                                *)

pag_actual == (instruccion.dir + hecho) \div TamPag

\* Mutant: the offset is that of the base address in every page.
despDeLaBase == instruccion.dir % TamPag

desp_actual == (instruccion.dir + hecho) % TamPag
pag == <<instruccion.nombre, pag_actual>>

por_copiar ==
  LET restan == instruccion.total - hecho
      espacioLibre == TamPag - desp_actual
  IN IF restan > espacioLibre THEN espacioLibre ELSE restan

\* A C string that starts with these bytes.
hastaNUL(s) ==
  LET validos == {i \in DOMAIN s : \A j \in 1 .. i : s[j] # NUL}
  IN SubSeq(s, 1, Cardinality(validos))

mensaje(tipo, contenido) == [tipo |-> tipo, contenido |-> contenido]

terminar(mensajes, finaliza) ==
  /\ paso' = "hecho"
  /\ enviados' = enviados \o mensajes
  /\ es_error_o_end' = finaliza

\* Mutant: the failure is sent to the master, but not returned.
terminarYSeguir ==
  /\ terminar(<<mensaje("ERROR", <<>>)>>, FALSE)
  /\ contenido_pagina' = CERO
  /\ UNCHANGED <<instruccion, hecho, leido>>

\* ejecutarWrite and ejecutarRead, told that the access failed.
terminarConError ==
  /\ terminar(<<mensaje("ERROR", <<>>)>>, TRUE)
  /\ contenido_pagina' = CERO
  /\ UNCHANGED <<instruccion, hecho, leido>>

\* The page becomes the last used of those that ent leaves present.
usar(ent) ==
  LET otras == presentes(ent) \ {pag}
  IN (usada_antes \cap (otras \X otras)) \cup (otras \X {pag})

enTramo(i) == desp_actual < i /\ i <= desp_actual + por_copiar

\* Mutant: memcpy always takes the argument from its first byte.
escritaDesdeElPrincipio(p) ==
  [i \in 1 .. TamPag |-> IF enTramo(i) THEN instruccion.datos[i - desp_actual]
                         ELSE p[i]]

\* Page p after this turn of a WRITE.
escrita(p) ==
  [i \in 1 .. TamPag |->
     IF enTramo(i) THEN instruccion.datos[hecho + i - desp_actual] ELSE p[i]]

\* One turn of the loop of escribirEnMemoria or leerEnMemoria, with the page
\* in frame f: mem and ent are memory and entries before it.  last_used_ms
\* is kept where it is read, under LRU.
copiarTramo(f, mem, ent) ==
  LET escribe == instruccion.op = "WRITE"
      todo == leido \o SubSeq(mem[f], desp_actual + 1, desp_actual + por_copiar)
  IN
  /\ memoria' = IF escribe THEN [mem EXCEPT ![f] = escrita(@)] ELSE mem
  /\ entrada' = [ent EXCEPT ![pag].bit_uso = TRUE,
                            ![pag].bit_modificado = @ \/ escribe]
  /\ usada_antes' = IF algoritmo = "LRU" THEN usar(ent) ELSE usada_antes
  /\ hecho' = hecho + por_copiar
  /\ leido' = IF escribe THEN leido ELSE todo
  /\ \/ /\ hecho' < instruccion.total /\ paso' = "accediendo"
        /\ UNCHANGED <<enviados, es_error_o_end>>
     \/ /\ hecho' >= instruccion.total
        /\ terminar(IF escribe THEN <<>> ELSE <<mensaje("LEER", hastaNUL(todo))>>,
                    FALSE)

acceder ==
  /\ paso = "accediendo" /\ entrada[pag].bit_presencia
  /\ copiarTramo(entrada[pag].nro_frame, memoria, entrada)
  /\ UNCHANGED <<almacen, algoritmo, tabla_general, paginas, ptr_gb, bitMap,
                 instruccion, contenido_pagina>>

\* What memcpy of tam_pag bytes can take from the string storage answered:
\* past its NUL it reads the heap.
recibidos(b) == {p \in Pagina : aBloque(p) = b}

\* gestionarPAGE_FAULT asks for LEER_BLOQUE once the entry exists.
gestionarPAGE_FAULT ==
  /\ paso = "accediendo" /\ ~ entrada[pag].bit_presencia
  /\ paginas' = [paginas EXCEPT ![instruccion.nombre] = Agregar(@, pag_actual)]
  /\ \/ /\ FS!TieneBloque(instruccion.nombre, pag_actual + 1)
        /\ contenido_pagina' \in
             recibidos(archivos[instruccion.nombre].bloques[pag_actual + 1])
        /\ paso' = "page_fault"
        /\ UNCHANGED <<instruccion, hecho, leido, enviados, es_error_o_end>>
     \/ /\ ~ FS!TieneBloque(instruccion.nombre, pag_actual + 1)
        /\ terminarConError
  /\ UNCHANGED <<almacen, algoritmo, tabla_general, entrada, usada_antes, ptr_gb,
                 marcos>>

conMarco(e, f) == [e EXCEPT !.bit_presencia = TRUE, !.nro_frame = f]

\* Mutant: the frame keeps the bytes of its last page.
asignarSinEscribirPagina(f, ent) ==
  /\ copiarTramo(f, memoria, [ent EXCEPT ![pag] = conMarco(@, f)])
  /\ contenido_pagina' = CERO
  /\ UNCHANGED <<tabla_general, paginas, instruccion>>

\* escribirPagina and the rest of the turn, with the frame assigned.
asignarMarco(f, ent) ==
  /\ copiarTramo(f, [memoria EXCEPT ![f] = contenido_pagina],
                 [ent EXCEPT ![pag] = conMarco(@, f)])
  /\ contenido_pagina' = CERO
  /\ UNCHANGED <<tabla_general, paginas, instruccion>>

\* buscarFrameLibreEnBitmap.
frameLibre == {f \in Frames \ bitMap : \A g \in Frames \ bitMap : f <= g}

devolverFrameLibre ==
  /\ paso = "page_fault"
  /\ \E f \in frameLibre :
       /\ bitMap' = bitMap \cup {f}
       /\ asignarMarco(f, entrada)
  /\ UNCHANGED <<almacen, algoritmo, ptr_gb>>

\* Mutant: the victim's entry keeps its frame.
desalojadaSinSoltar(e) == [e EXCEPT !.bit_modificado = FALSE, !.bit_uso = FALSE]

desalojada(e) == [e EXCEPT !.bit_presencia = FALSE, !.bit_modificado = FALSE,
                           !.bit_uso = FALSE, !.nro_frame = -1]

\* What leerBloque reads goes to storage as the page's block.
escribirEnStorage(x) ==
  FS!Escribir(x[1], x[2] + 1, aBloque(memoria[entrada[x].nro_frame]))

\* Mutant: the frame is reused whatever storage answers.
desalojarSinMirarRespuesta ==
  LET r == aplicarPoliticaReemplazo
  IN
  /\ paso = "page_fault" /\ frameLibre = {}
  /\ moverPuntero(r.victima)
  /\ \E v \in r.victima :
       /\ IF entrada[v].bit_modificado /\ FS!AdmiteEscritura(v[1], v[2] + 1)
          THEN escribirEnStorage(v) ELSE UNCHANGED almacen
       /\ asignarMarco(entrada[v].nro_frame,
                       [r.entrada EXCEPT ![v] = desalojada(@)])
  /\ UNCHANGED <<algoritmo, bitMap>>

\* Mutant: a refused victim is asked for again until storage takes it.
reintentarDesalojo ==
  LET r == aplicarPoliticaReemplazo
  IN
  /\ paso = "page_fault" /\ frameLibre = {}
  /\ \E v \in r.victima :
       /\ entrada[v].bit_modificado => FS!AdmiteEscritura(v[1], v[2] + 1)
       /\ IF entrada[v].bit_modificado THEN escribirEnStorage(v)
                                       ELSE UNCHANGED almacen
       /\ asignarMarco(entrada[v].nro_frame,
                       [r.entrada EXCEPT ![v] = desalojada(@)])
  /\ moverPuntero(r.victima)
  /\ UNCHANGED <<algoritmo, bitMap>>

\* gestionarBitModificado: a dirty victim goes to storage first, and if
\* storage refuses it stays, with the use bits cleared on the way to it.
gestionarBitModificado ==
  LET r == aplicarPoliticaReemplazo
  IN
  /\ paso = "page_fault" /\ frameLibre = {}
  /\ moverPuntero(r.victima)
  /\ \E v \in r.victima :
       \/ /\ entrada[v].bit_modificado => FS!AdmiteEscritura(v[1], v[2] + 1)
          /\ IF entrada[v].bit_modificado THEN escribirEnStorage(v)
                                          ELSE UNCHANGED almacen
          /\ asignarMarco(entrada[v].nro_frame,
                          [r.entrada EXCEPT ![v] = desalojada(@)])
       \/ /\ entrada[v].bit_modificado /\ ~ FS!AdmiteEscritura(v[1], v[2] + 1)
          /\ entrada' = r.entrada
          /\ terminarConError
          /\ UNCHANGED <<almacen, tabla_general, paginas, usada_antes, memoria>>
  /\ UNCHANGED <<algoritmo, bitMap>>

\* No page is present and no frame is free: CLOCK-M gives up with an error,
\* LRU dereferences the null answer of elegirVictimaLRU.
sinVictima ==
  /\ paso = "page_fault" /\ frameLibre = {}
  /\ aplicarPoliticaReemplazo.victima = {}
  /\ moverPuntero({})
  /\ \/ algoritmo = "CLOCK-M" /\ terminarConError
     \/ /\ algoritmo = "LRU" /\ paso' = "caido"
        /\ UNCHANGED <<instruccion, hecho, leido, contenido_pagina, enviados,
                       es_error_o_end>>
  /\ UNCHANGED <<almacen, algoritmo, tabla_general, paginas, entrada,
                 usada_antes, marcos>>

-----------------------------------------------------------------------------
(* Execute, from the fetched instruction to its first storage request.     *)

Ejecutar(op, n, dir, datos, total, p) ==
  /\ paso = "libre" /\ op \in Usos
  /\ instruccion' = [op |-> op, nombre |-> n, dir |-> dir, datos |-> datos,
                     total |-> total]
  /\ paso' = p
  /\ UNCHANGED <<algoritmo, paginas, entrada, usada_antes, ptr_gb, marcos, hecho,
                 leido, contenido_pagina>>

ejecutarWrite(n) ==
  /\ \E e \in Escrituras :
       Ejecutar("WRITE", n, e.dir, Append(e.contenido, NUL), Len(e.contenido) + 1,
                "accediendo")
  /\ buscarOCrearTabla(n)
  /\ UNCHANGED <<almacen, enviados, es_error_o_end>>

\* leerEnMemoria refuses a size that is not positive before it makes a table.
ejecutarRead(n) ==
  /\ \E l \in Lecturas :
       \/ /\ l.tam > 0
          /\ Ejecutar("READ", n, l.dir, <<>>, l.tam, "accediendo")
          /\ buscarOCrearTabla(n)
          /\ UNCHANGED <<enviados, es_error_o_end>>
       \/ /\ l.tam <= 0
          /\ Ejecutar("READ", n, l.dir, <<>>, 0, "hecho")
          /\ terminar(<<mensaje("ERROR", <<>>)>>, TRUE)
          /\ UNCHANGED tabla_general
  /\ UNCHANGED almacen

\* Mutant: COMMIT does not flush first.
commitSinFlush(n) ==
  /\ \/ Ejecutar("FLUSH", n, 0, <<>>, 0, "flusheando")
     \/ Ejecutar("COMMIT", n, 0, <<>>, 0, "commiteando")
  /\ UNCHANGED <<almacen, tabla_general, enviados, es_error_o_end>>

ejecutarFlush(n) ==
  /\ \/ Ejecutar("FLUSH", n, 0, <<>>, 0, "flusheando")
     \/ Ejecutar("COMMIT", n, 0, <<>>, 0, "flusheando")
  /\ UNCHANGED <<almacen, tabla_general, enviados, es_error_o_end>>

\* An instruction that is one request: acepta is storage's OK, rechaza when it
\* answers anything else.
pedirAStorage(op, n, acepta, rechaza) ==
  /\ Ejecutar(op, n, 0, <<>>, 0, "hecho")
  /\ \/ acepta /\ terminar(<<>>, FALSE)
     \/ rechaza /\ terminar(<<mensaje("ERROR", <<>>)>>, TRUE) /\ UNCHANGED almacen
  /\ UNCHANGED tabla_general

\* Storage refuses a File:Tag that exists, and also a file it still lists
\* after its last tag was deleted.
ejecutarCreate(n) == pedirAStorage("CREATE", n, FS!Crear(n), TRUE)

\* TRUNCATE of a COMMITED tag, which storage grants, is left to Storage.
ejecutarTruncate(n) ==
  /\ n \in DOMAIN archivos => FS!EnProgreso(n)
  /\ pedirAStorage("TRUNCATE", n,
       \/ /\ FS!EnProgreso(n)
          /\ \E k \in 1 .. MaxBloques - Len(archivos[n].bloques) : FS!Agrandar(n, k)
       \/ "TRUNCATE_MENOS" \in Usos /\ FS!Achicar(n),
       n \notin DOMAIN archivos)

ejecutarTag(n) ==
  \E d \in Nombres :
    pedirAStorage("TAG", n, FS!Copiar(n, d),
                  n \notin DOMAIN archivos \/ d \in DOMAIN archivos)

\* The table goes with the File:Tag; a File:Tag with none ends the worker on
\* the null answer of list_remove(-1).  The frames stay taken.  Bound: nobody
\* deletes initial_file:BASE, which Storage looks at.
ejecutarDelete(n) ==
  /\ paso = "libre" /\ "DELETE" \in Usos /\ n # Inicial
  /\ instruccion' = [Ninguna EXCEPT !.op = "DELETE", !.nombre = n]
  /\ \/ /\ FS!Eliminar(n) /\ n \in ToSet(tabla_general)
        /\ tabla_general' = RemoveAt(tabla_general, IndiceDe(tabla_general, n))
        /\ paginas' = [paginas EXCEPT ![n] = <<>>]
        /\ entrada' = [x \in Pares |-> IF x[1] = n THEN crearEntradaPagina ELSE entrada[x]]
        /\ usada_antes' = {r \in usada_antes : r[1][1] # n /\ r[2][1] # n}
        /\ terminar(<<>>, FALSE)
     \/ /\ FS!Eliminar(n) /\ n \notin ToSet(tabla_general)
        /\ paso' = "caido"
        /\ UNCHANGED <<tabla_general, paginas, entrada, usada_antes, enviados,
                       es_error_o_end>>
     \/ /\ n \notin DOMAIN archivos
        /\ terminar(<<mensaje("ERROR", <<>>)>>, TRUE)
        /\ UNCHANGED <<almacen, tabla_general, paginas, entrada, usada_antes>>
  /\ UNCHANGED <<algoritmo, ptr_gb, marcos, hecho, leido, contenido_pagina>>

-----------------------------------------------------------------------------
(* Write-back of FLUSH, COMMIT and a preemption.                           *)

\* gestionarCheckInterrupt flushes every table.
alcance ==
  IF instruccion.op = "DESALOJO" THEN ToSet(tabla_general)
  ELSE {instruccion.nombre} \cap ToSet(tabla_general)

\* Mutant: a page not used since the last turn of the hand is left out.
entradasUsadasAFlushear ==
  {x \in Pares : x[1] \in alcance /\ entrada[x].bit_modificado /\ entrada[x].bit_uso}

obtenerEntradasAFlushear ==
  {x \in Pares : x[1] \in alcance /\ entrada[x].bit_modificado}

primeraAFlushear ==
  {x \in obtenerEntradasAFlushear :
     \A y \in obtenerEntradasAFlushear \ {x} : antes(lugar(x), lugar(y))}

\* COMMIT goes on whatever its flush returned.
trasElFlush(mensajes, finaliza) ==
  \/ instruccion.op # "COMMIT" /\ terminar(mensajes, finaliza)
  \/ /\ instruccion.op = "COMMIT" /\ paso' = "commiteando"
     /\ enviados' = enviados \o mensajes
     /\ UNCHANGED es_error_o_end

\* Mutant: bit_modificado is cleared whatever storage answers.
flushearSinMirarRespuesta ==
  /\ paso = "flusheando"
  /\ \E x \in primeraAFlushear :
       /\ IF FS!AdmiteEscritura(x[1], x[2] + 1) THEN escribirEnStorage(x)
                                                ELSE UNCHANGED almacen
       /\ entrada' = [entrada EXCEPT ![x].bit_modificado = FALSE]
  /\ UNCHANGED <<algoritmo, tabla_general, paginas, usada_antes, ptr_gb, marcos,
                 instruccion, hecho, leido, contenido_pagina, paso, enviados,
                 es_error_o_end>>

flushearEntrada ==
  /\ paso = "flusheando"
  /\ \E x \in primeraAFlushear :
       \/ /\ escribirEnStorage(x)
          /\ entrada' = [entrada EXCEPT ![x].bit_modificado = FALSE]
          /\ UNCHANGED <<paso, enviados, es_error_o_end>>
       \/ /\ ~ FS!AdmiteEscritura(x[1], x[2] + 1)
          /\ trasElFlush(<<mensaje("ERROR", <<>>)>>, TRUE)
          /\ UNCHANGED <<almacen, entrada>>
  /\ UNCHANGED <<algoritmo, tabla_general, paginas, usada_antes, ptr_gb, marcos,
                 instruccion, hecho, leido, contenido_pagina>>

finDelFlush ==
  /\ paso = "flusheando" /\ obtenerEntradasAFlushear = {}
  /\ trasElFlush(<<>>, FALSE)
  /\ UNCHANGED <<almacen, algoritmo, tablas, marcos, instruccion, hecho, leido,
                 contenido_pagina>>

\* Storage answers OK to the COMMIT of a tag that already is COMMITED.
ejecutarCommit ==
  LET n == instruccion.nombre
  IN
  /\ paso = "commiteando"
  /\ \/ /\ n \in DOMAIN archivos
        /\ FS!Commitear(n) \/ (~ FS!EnProgreso(n) /\ UNCHANGED almacen)
        /\ terminar(<<>>, FALSE)
     \/ /\ n \notin DOMAIN archivos /\ UNCHANGED almacen
        /\ terminar(<<mensaje("ERROR", <<>>)>>, TRUE)
  /\ UNCHANGED <<algoritmo, tablas, marcos, instruccion, hecho, leido,
                 contenido_pagina>>

-----------------------------------------------------------------------------
(* The instruction loop around them, and the other workers.                *)

limpiar ==
  /\ hecho' = 0 /\ leido' = <<>> /\ enviados' = <<>> /\ es_error_o_end' = FALSE
  /\ UNCHANGED <<almacen, algoritmo, tablas, marcos, contenido_pagina>>

\* checkInterrupt with no order pending: the next instruction, of this query
\* or of the next.
siguiente ==
  paso = "hecho" /\ paso' = "libre" /\ instruccion' = Ninguna /\ limpiar

\* hubo_interrupcion.
gestionarCheckInterrupt ==
  /\ paso = "hecho" /\ "DESALOJO" \in Usos
  /\ instruccion.op \notin {"NINGUNA", "DESALOJO"}
  /\ paso' = "flusheando"
  /\ instruccion' = [Ninguna EXCEPT !.op = "DESALOJO"]
  /\ limpiar

accesoDelWorker ==
  \/ acceder \/ gestionarPAGE_FAULT
  \/ devolverFrameLibre \/ gestionarBitModificado \/ sinVictima
  \/ flushearEntrada \/ finDelFlush \/ ejecutarCommit
  \/ siguiente

Execute(n) ==
  \/ ejecutarCreate(n) \/ ejecutarTruncate(n) \/ ejecutarTag(n)
  \/ ejecutarWrite(n) \/ ejecutarRead(n) \/ ejecutarFlush(n) \/ ejecutarDelete(n)

\* Requests of the other workers, as storage serves them.
otroWorker(n) ==
  /\ n \in Compartidos
  /\ \/ /\ "WRITE" \in UsosDeOtros /\ FS!EnProgreso(n)
        /\ \E i \in DOMAIN archivos[n].bloques, c \in Bloque : FS!Escribir(n, i, c)
     \/ "COMMIT" \in UsosDeOtros /\ FS!Commitear(n)
     \/ "DELETE" \in UsosDeOtros /\ FS!Eliminar(n)
  /\ UNCHANGED <<algoritmo, tablas, marcos, ejecucion>>

Next ==
  \/ accesoDelWorker \/ gestionarCheckInterrupt
  \/ \E n \in Nombres : Execute(n) \/ otroWorker(n)

Spec == Init /\ [][Next]_vars

\* The instruction loop of one process, which blocks only on storage.
FairSpec == Spec /\ WF_vars(accesoDelWorker)

-----------------------------------------------------------------------------
(* Properties.                                                             *)

ocupada(x) == entrada[x].bit_presencia
paginaDe(x) == memoria[entrada[x].nro_frame]

\* What the queries of this worker see of block i of n: the cached page, as
\* far as it can reach storage, or else the block.
vista(n, i) ==
  IF <<n, i - 1>> \in Pares /\ entrada[<<n, i - 1>>].bit_presencia
  THEN aBloque(paginaDe(<<n, i - 1>>))
  ELSE archivos[n].bloques[i]

propios == DOMAIN archivos \ Compartidos

\* Two resident pages never share a frame, their frames are taken, and only a
\* resident page is dirty: otherwise an access or a write-back would use the
\* bytes of another File:Tag (devolverFrameLibre, gestionarBitModificado).
MarcosBien ==
  /\ \A x, y \in presentes(entrada) :
       entrada[x].nro_frame = entrada[y].nro_frame => x = y
  /\ \A x \in Pares :
       /\ ocupada(x) => entrada[x].nro_frame \in bitMap
       /\ entrada[x].bit_modificado => ocupada(x)

ordena(R, P) ==
  /\ R \subseteq P \X P
  /\ \A x, y \in P : x # y => (<<x, y>> \in R <=> <<y, x>> \notin R)
  /\ \A x, y, z \in P : <<x, y>> \in R /\ <<y, z>> \in R => <<x, z>> \in R /\ x # z

\* The tables and the times of use say the same as the entries: a resident
\* page is in its table, where every loop finds it, and under LRU the resident
\* pages are in one order, so that one of them is the victim.
TablasBien ==
  /\ \A x \in presentes(entrada) :
       x[1] \in ToSet(tabla_general) /\ x[2] \in ToSet(paginas[x[1]])
  /\ algoritmo = "LRU" => ordena(usada_antes, presentes(entrada))

\* A page stops being dirty only once storage holds what it held, or with
\* the File:Tag this worker deleted (gestionarBitModificado, ejecutarFlush).
SinPerdida ==
  [][\A x \in Pares :
       entrada[x].bit_modificado /\ ~ entrada'[x].bit_modificado =>
         \/ instruccion'.op = "DELETE" /\ x[1] \notin DOMAIN archivos'
         \/ /\ FS!TieneBloque(x[1], x[2] + 1)'
            /\ archivos'[x[1]].bloques[x[2] + 1] = aBloque(paginaDe(x))]_vars

\* Faults, replacements, flushes and reads never change what a File:Tag of
\* this worker alone reads as; only WRITE does, one page at a time.
Transparente ==
  [][\A n \in propios : n \in DOMAIN archivos' =>
       \A i \in DOMAIN archivos[n].bloques \cap DOMAIN archivos'[n].bloques :
         vista(n, i)' # vista(n, i) =>
           instruccion.op = "WRITE" /\ pag = <<n, i - 1>> /\ hecho' > hecho]_vars

\* The bytes a query sees from a base address on.
byteVisto(n, d) == vista(n, (d \div TamPag) + 1)[(d % TamPag) + 1]

\* No NUL before the address in its page, so that a C string from the start
\* of the page reaches it.
alcanzable(n, d) ==
  \A i \in 1 .. d % TamPag : vista(n, (d \div TamPag) + 1)[i] # NUL

contesto(op, n) ==
  paso = "hecho" /\ instruccion.op = op /\ instruccion.nombre = n /\ ~ es_error_o_end

\* A READ that is answered, from an address a string from the start of its
\* page reaches, carries the bytes of its File:Tag up to the first NUL, however
\* many pages were replaced meanwhile.
LecturaCorrecta ==
  \A n \in propios : contesto("READ", n) /\ alcanzable(n, instruccion.dir) =>
    Last(enviados).contenido =
      hastaNUL([i \in 1 .. instruccion.total |-> byteVisto(n, instruccion.dir + i - 1)])

\* Every byte of a WRITE that ends well is in its page while the page is in
\* memory, and is what a query sees wherever the page is now, even if the
\* first pages of the WRITE were replaced before its last was written; except
\* behind a NUL of its page, where escribirEnStorage's "%s" does not reach:
\* replaced, the page loses what was written there.
EscrituraCompleta ==
  \A n \in propios : contesto("WRITE", n) => \A i \in 1 .. instruccion.total :
    LET d == instruccion.dir + i - 1
        x == <<n, d \div TamPag>>
    IN /\ x \in presentes(entrada) => paginaDe(x)[(d % TamPag) + 1] = instruccion.datos[i]
       /\ alcanzable(n, d) => byteVisto(n, d) = instruccion.datos[i]

\* After a FLUSH, a COMMIT or a preemption that reported no ERROR, storage
\* holds what this worker's queries saw: another worker resumes from there.
Persistido ==
  paso = "hecho" /\ instruccion.op \in {"FLUSH", "COMMIT", "DESALOJO"} /\ enviados = <<>> =>
    /\ obtenerEntradasAFlushear = {}
    /\ \A n \in propios \cap alcance : \A i \in DOMAIN archivos[n].bloques :
         archivos[n].bloques[i] = vista(n, i)

tiposDe(mensajes) == [i \in DOMAIN mensajes |-> mensajes[i].tipo]

\* What an instruction sends the master and returns is what the loop of
\* WorkerCiclo.Execute and gestionarCheckInterrupt count on; only a COMMIT may
\* send ERROR and go on, or send it twice.
ContratoConCiclo ==
  LET dado == <<tiposDe(enviados), es_error_o_end>>
  IN paso = "hecho" =>
       /\ instruccion.op = "READ" => dado \in {<<<<"LEER">>, FALSE>>, <<<<"ERROR">>, TRUE>>}
       /\ instruccion.op = "COMMIT" =>
            dado \in {<<<<>>, FALSE>>, <<<<"ERROR">>, TRUE>>, <<<<"ERROR">>, FALSE>>,
                      <<<<"ERROR", "ERROR">>, TRUE>>}
       /\ instruccion.op = "DESALOJO" => tiposDe(enviados) \in {<<>>, <<"ERROR">>}
       /\ instruccion.op \notin {"READ", "COMMIT", "DESALOJO"} =>
            dado \in {<<<<>>, FALSE>>, <<<<"ERROR">>, TRUE>>}

\* CLOCK-M's four turns choose the first page, from the hand on, of the best
\* class by use and modification, and one always when a page is resident,
\* wherever deletions left the hand (cicloClockM, normalizar_puntero_clockm).
ClockMClasico ==
  LET clase(x) == (IF entrada[x].bit_uso THEN 2 ELSE 0) +
                  (IF entrada[x].bit_modificado THEN 1 ELSE 0)
      mejor(x, y) == clase(x) < clase(y) \/ (clase(x) = clase(y) /\ antesEnVuelta(x, y))
      P == presentes(entrada)
  IN algoritmo = "CLOCK-M" /\ paso = "page_fault" /\ P # {} =>
       \E v \in P : clockM.victima = {v} /\ \A y \in P \ {v} : mejor(v, y)

\* "las paginas se van a ir limpiando a medida que corran los reemplazos"
\* (ejecutarDelete): a frame taken holds a resident page, which a later
\* replacement can evict.
MarcosRecuperables ==
  bitMap = {entrada[x].nro_frame : x \in presentes(entrada)}

\* Every instruction and every preemption ends, whatever storage refuses.
Termina == paso # "libre" ~> paso \in {"libre", "caido"}

\* A COMMITED tag is what storage has; the others, what this worker sees.
visto ==
  [n \in DOMAIN archivos |->
     [estado |-> archivos[n].estado,
      bloques |-> IF archivos[n].estado = "COMMITED" THEN archivos[n].bloques
                  ELSE [i \in DOMAIN archivos[n].bloques |-> vista(n, i)]]]

Vista == INSTANCE TagsIndependientes WITH archivos <- visto, Contenidos <- Bloque

\* The worker and its cache are, for its queries, the storage that
\* TagsIndependientes promises.
VistaIndependiente == Vista!Spec
=============================================================================
