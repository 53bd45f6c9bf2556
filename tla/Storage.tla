------------------------------- MODULE Storage -------------------------------
(***************************************************************************)
(* The storage process (storage/src): File:Tags made of logical blocks,    *)
(* each a hard link to a physical block; the bitmap of physical blocks;    *)
(* copy on write; deduplication at COMMIT through blocks_hash_index; and   *)
(* the reconstruction of all of it after a restart with FRESH_START=FALSE. *)
(* Every request runs with mutex_files held from its first check to its    *)
(* last write, so it is one action; one that is refused changes nothing.   *)
(* The process may be killed between two of the system calls of a request: *)
(* what reached the disk is what the next start finds.                     *)
(* A logical block's position counts from 1 here, from 0 in the code.      *)
(***************************************************************************)
EXTENDS Integers, Sequences, FiniteSets, SequencesExt, TLC

CONSTANTS
  Nombres,        \* pairs <<file, tag>> the workers use
  Inicial,        \* <<"initial_file", "BASE">>
  CantBloques,    \* FS_SIZE / BLOCK_SIZE
  TamanioBloque,  \* BLOCK_SIZE
  Tamanios,       \* sizes a TRUNCATE may ask for
  MaxBLOCKS,      \* bound on the BLOCKS entry, which TRUNCATE only extends
  Contenidos,     \* contents a WRITE may bring: CERO too, sent as ""
  CERO, VACIO,    \* a block of zeros; a physical block never written
  Cargas          \* workloads: kinds of request made together, and restarts

ASSUME StorageAssumption ==
  /\ Inicial \in Nombres
  /\ CantBloques \in Nat \ {0} /\ TamanioBloque \in Nat \ {0}
  /\ Tamanios \subseteq Nat /\ MaxBLOCKS \in Nat
  /\ CERO # VACIO /\ VACIO \notin Contenidos
  /\ Cargas \subseteq SUBSET {"CREATE", "TRUNCATE_MAS", "TRUNCATE_MENOS",
                              "TRUNCATE_COMMITED", "TAG", "TAG_FILE_NUEVO", "WRITE",
                              "COMMIT", "DELETE", "INICIAL", "REINICIO", "CAIDA"}

VARIABLES
  lista_files,   \* names in lista_files_gb
  tags,          \* existing File:Tag -> struct Tag, its metadata and its links
  bitmap,        \* physical blocks whose bit is set
  contenido,     \* physical block -> what it holds
  hash_index,    \* content -> physical block (blocks_hash_index.config)
  caido,         \* the process died on a null pointer
  usos           \* the workload of this behaviour, which never changes

\* Workloads that do not ask what the code gets wrong: a TRUNCATE of a COMMITED
\* tag, which leaves its hashes behind; one to less before a TAG or a restart,
\* which trust the BLOCKS it forgot; a DELETE of a tag that was copied; a
\* DELETE of initial_file:BASE, whose block0 every new logical block links to;
\* and a death inside a COMMIT, which leaves hashes of a tag still writable.
CargaSana(u) ==
  /\ u \cap {"TRUNCATE_COMMITED", "INICIAL", "CAIDA"} = {}
  /\ "TRUNCATE_MENOS" \in u => u \cap {"TAG", "REINICIO"} = {}
  /\ ~ {"TAG", "DELETE"} \subseteq u

vars == <<lista_files, tags, bitmap, contenido, hash_index, caido, usos>>

Fisicos == 0 .. CantBloques - 1
SIN_ENLACE == -1   \* a logical block whose file is missing
Datos == Contenidos \cup {CERO, VACIO}

\* struct Tag with its metadata.config: bloques_logicos holds the pointers of
\* the structures in memory, hl what the files in logical_blocks/ link to.
Tag == [estado : {"WORK_IN_PROGRESS", "COMMITED"}, tamanio : Nat,
        BLOCKS : Seq(Fisicos), bloques_logicos : Seq(Fisicos), hl : Seq(Fisicos)]

StorageTypeOK ==
  /\ lista_files \subseteq {n[1] : n \in Nombres}
  /\ DOMAIN tags \subseteq Nombres
  /\ \A n \in DOMAIN tags :
       /\ tags[n] \in Tag
       /\ n[1] \in lista_files
       /\ Len(tags[n].hl) = Len(tags[n].bloques_logicos)
       /\ Len(tags[n].bloques_logicos) <= Len(tags[n].BLOCKS)
  /\ bitmap \subseteq Fisicos
  /\ contenido \in [Fisicos -> Datos]
  /\ DOMAIN hash_index \subseteq Datos
  /\ \A h \in DOMAIN hash_index : hash_index[h] \in Fisicos
  /\ caido \in BOOLEAN /\ usos \in Cargas

\* iniciarStorage with FRESH_START=TRUE: crearInitialFile links its only block
\* to block0, fills it with zeros, and commits.  Its TAMANIO stays 0.
Init ==
  /\ lista_files = {Inicial[1]}
  /\ tags = [n \in {Inicial} |->
               [estado |-> "COMMITED", tamanio |-> 0, BLOCKS |-> <<0>>,
                bloques_logicos |-> <<0>>, hl |-> <<0>>]]
  /\ bitmap = {0}
  /\ contenido = [b \in Fisicos |-> IF b = 0 THEN CERO ELSE VACIO]
  /\ hash_index = [h \in {CERO} |-> 0]
  /\ caido = FALSE
  /\ usos \in Cargas

-----------------------------------------------------------------------------
(* The steps of the loops work on a record of the state they change.       *)

disco == [tags |-> tags, bitmap |-> bitmap, contenido |-> contenido,
          hash_index |-> hash_index]

guardar(d) ==
  /\ tags' = d.tags /\ bitmap' = d.bitmap
  /\ contenido' = d.contenido /\ hash_index' = d.hash_index

\* config_set_value, or list_add of a tag: f with the entry k.
conEntrada(f, k, v) == [x \in DOMAIN f \cup {k} |-> IF x = k THEN v ELSE f[x]]

\* The logical blocks linked to b: st_nlink less the physical block itself.
enlaces(ts, b) ==
  UNION {{<<n, i>> : i \in {i \in DOMAIN ts[n].hl : ts[n].hl[i] = b}} : n \in DOMAIN ts}

\* Mutant: the name in physical_blocks/ is not counted.
contadorSinElFisico(ts, b) == Cardinality(enlaces(ts, b))

contadorHLinks(ts, b) == 1 + Cardinality(enlaces(ts, b))
tieneHLinks(ts, b) == contadorHLinks(ts, b) > 1

\* Mutant: the file is unlinked and its structure stays in the list.
quitarSoloElArchivo(d, n) == [d EXCEPT !.tags[n].hl = Front(@)]

\* list_remove of the last logical block and unlink of its file.
quitarUltimo(d, n) ==
  [d EXCEPT !.tags[n].bloques_logicos = Front(@), !.tags[n].hl = Front(@)]

\* Mutant: the block is never freed.
unlinkearSinLiberar(d, n) == quitarUltimo(d, n)

\* unlinkearBloquesLogicos, one turn: a block left with no links is freed and
\* zeroed.  BLOCKS and the hash index keep naming it.
unlinkearBloqueLogico(d, n) ==
  LET b == Last(d.tags[n].bloques_logicos)
      q == quitarUltimo(d, n)
  IN IF tieneHLinks(q.tags, b) THEN q
     ELSE [q EXCEPT !.bitmap = @ \ {b}, !.contenido[b] = CERO]

\* The disk after k turns of each loop.
unlinkearBloquesLogicos(d, n, k) ==
  LET tras[j \in 0 .. k] ==
        IF j = 0 THEN d ELSE unlinkearBloqueLogico(tras[j - 1], n)
  IN tras[k]

\* Mutant: the hash of a freed block stays in the index.
eliminarSinOlvidarHash(d, n) ==
  LET b == Last(d.tags[n].bloques_logicos)
      q == quitarUltimo(d, n)
  IN IF tieneHLinks(q.tags, b) THEN q ELSE [q EXCEPT !.bitmap = @ \ {b}]

\* unlinkearBloquesLogicosParaELIMINAR_UN_TAG, one turn: the freed block keeps
\* its content and, when the tag was COMMITED, its hash is forgotten.
unlinkearParaEliminar(d, n) ==
  LET b == Last(d.tags[n].bloques_logicos)
      q == quitarUltimo(d, n)
      claves == IF d.tags[n].estado = "COMMITED"
                THEN DOMAIN d.hash_index \ {d.contenido[b]} ELSE DOMAIN d.hash_index
  IN IF tieneHLinks(q.tags, b) THEN q
     ELSE [q EXCEPT !.bitmap = @ \ {b},
                    !.hash_index = [h \in claves |-> d.hash_index[h]]]

unlinkearTodoParaEliminar(d, n, k) ==
  LET tras[j \in 0 .. k] ==
        IF j = 0 THEN d ELSE unlinkearParaEliminar(tras[j - 1], n)
  IN tras[k]

\* Mutant: the old block is never freed.
reapuntarSinLiberar(d, n, i, b) ==
  [d EXCEPT !.tags[n].hl[i] = b, !.tags[n].BLOCKS[i] = b,
            !.tags[n].bloques_logicos[i] = b]

\* Mutant: metadata.config keeps the old block.
reapuntarSinMetadata(d, n, i, b) ==
  LET viejo == d.tags[n].bloques_logicos[i]
      q == [d EXCEPT !.tags[n].hl[i] = b, !.tags[n].bloques_logicos[i] = b]
  IN IF tieneHLinks(q.tags, viejo) THEN q ELSE [q EXCEPT !.bitmap = @ \ {viejo}]

\* Mutant: the old block is zeroed, as TRUNCATE does, whatever links it has.
reapuntarLimpiando(d, n, i, b) ==
  LET viejo == d.tags[n].bloques_logicos[i]
      q == [d EXCEPT !.tags[n].hl[i] = b, !.tags[n].BLOCKS[i] = b,
                     !.tags[n].bloques_logicos[i] = b, !.contenido[viejo] = CERO]
  IN IF tieneHLinks(q.tags, viejo) THEN q ELSE [q EXCEPT !.bitmap = @ \ {viejo}]

\* reapuntarBloque: the link, BLOCKS and the pointer move to b; the old block
\* is freed if that was its last link.
reapuntarBloque(d, n, i, b) ==
  LET viejo == d.tags[n].bloques_logicos[i]
      q == [d EXCEPT !.tags[n].hl[i] = b, !.tags[n].BLOCKS[i] = b,
                     !.tags[n].bloques_logicos[i] = b]
  IN IF tieneHLinks(q.tags, viejo) THEN q ELSE [q EXCEPT !.bitmap = @ \ {viejo}]

\* escribirEnHashIndex, one turn: a content already in the index moves the
\* logical block to the block the index names, which is not read again.
escribirEnHashIndex(d, n, i) ==
  LET b == d.tags[n].bloques_logicos[i]
      h == d.contenido[b]
  IN IF h \in DOMAIN d.hash_index /\ b # 0
     THEN reapuntarBloque(d, n, i, d.hash_index[h])
     ELSE [d EXCEPT !.hash_index = conEntrada(@, h, b)]

indexarBloques(d, n, k) ==
  LET tras[j \in 0 .. k] ==
        IF j = 0 THEN d ELSE escribirEnHashIndex(tras[j - 1], n, j)
  IN tras[k]

\* obtenerBloqueFisicoLibre: the first clear bit, as a set of at most one.
BloqueFisicoLibre ==
  {b \in Fisicos \ bitmap : \A c \in Fisicos \ bitmap : b <= c}

\* crearTag followed by asignarBloquesFisicosATagCopiado.
TagNuevo(tamanio, bloques) ==
  [estado |-> "WORK_IN_PROGRESS", tamanio |-> tamanio, BLOCKS |-> bloques,
   bloques_logicos |-> bloques, hl |-> bloques]

agregarTag(n, t) == tags' = conEntrada(tags, n, t)

-----------------------------------------------------------------------------
(* The requests.                                                           *)

\* "INICIAL" allows requests that change initial_file:BASE.
pide(n, uso) ==
  /\ uso \in usos /\ ~ caido
  /\ n = Inicial => "INICIAL" \in usos
existe(n) == n \in DOMAIN tags
commiteado(n) == tags[n].estado = "COMMITED"

\* A file whose tags were all deleted is still in lista_files_gb.
realizarCREATE(n) ==
  /\ pide(n, "CREATE") /\ n[1] \notin lista_files
  /\ lista_files' = lista_files \cup {n[1]}
  /\ agregarTag(n, TagNuevo(0, <<>>))
  /\ UNCHANGED <<bitmap, contenido, hash_index, caido>>

\* agrandarEnTruncate: every new logical block is a link to block0.
agrandarEnTruncate(n, tam) ==
  LET k == (tam - tags[n].tamanio) \div TamanioBloque
      ceros == [i \in 1 .. k |-> 0]
  IN
  /\ pide(n, "TRUNCATE_MAS") /\ existe(n) /\ tags[n].tamanio < tam
  /\ commiteado(n) => "TRUNCATE_COMMITED" \in usos
  /\ Len(tags[n].BLOCKS) + k <= MaxBLOCKS
  /\ tags' = [tags EXCEPT ![n].tamanio = tam,
                          ![n].BLOCKS = @ \o ceros,
                          ![n].bloques_logicos = @ \o ceros,
                          ![n].hl = @ \o ceros]
  /\ UNCHANGED <<lista_files, bitmap, contenido, hash_index, caido>>

\* ferConLaMexicana: with sizes that are not multiples of BLOCK_SIZE it can
\* ask for more blocks than there are and pop a null pointer.
ferConLaMexicana(n, tam) ==
  LET k == (tags[n].tamanio - tam) \div TamanioBloque
      hay == Len(tags[n].bloques_logicos)
  IN
  /\ pide(n, "TRUNCATE_MENOS") /\ existe(n) /\ tags[n].tamanio > tam
  /\ commiteado(n) => "TRUNCATE_COMMITED" \in usos
  /\ \/ /\ k <= hay
        /\ guardar([unlinkearBloquesLogicos(disco, n, k) EXCEPT !.tags[n].tamanio = tam])
        /\ UNCHANGED caido
     \/ /\ k > hay
        /\ guardar(unlinkearBloquesLogicos(disco, n, hay))
        /\ caido' = TRUE
  /\ UNCHANGED lista_files

\* realizarTAG: to a file that does not exist it creates an empty tag; to one
\* that does it copies TAMANIO and BLOCKS, not the logical blocks.
realizarTAG(o, n) ==
  /\ existe(o) /\ ~ existe(n)
  /\ \/ /\ pide(n, "TAG_FILE_NUEVO") /\ n[1] \notin lista_files
        /\ lista_files' = lista_files \cup {n[1]}
        /\ agregarTag(n, TagNuevo(0, <<>>))
     \/ /\ pide(n, "TAG") /\ n[1] \in lista_files
        /\ agregarTag(n, TagNuevo(tags[o].tamanio, tags[o].BLOCKS))
        /\ UNCHANGED lista_files
  /\ UNCHANGED <<bitmap, contenido, hash_index, caido>>

realizarCOMMIT(n) ==
  LET indexado == indexarBloques(disco, n, Len(tags[n].bloques_logicos))
  IN
  /\ pide(n, "COMMIT") /\ existe(n) /\ ~ commiteado(n)
  /\ guardar([indexado EXCEPT !.tags[n].estado = "COMMITED"])
  /\ UNCHANGED <<lista_files, caido>>

\* realizarWRITE: a block with other links is written in a new physical one;
\* with none free the log line before the check reads a null pointer.
realizarWRITE(n, i, c) ==
  LET inodo == tags[n].hl[i]
      compartido == contadorHLinks(tags, inodo) > 2
      escribirEnBloque(d) == [d EXCEPT !.contenido[d.tags[n].hl[i]] = c]
  IN
  /\ pide(n, "WRITE") /\ existe(n) /\ ~ commiteado(n)
  /\ i \in DOMAIN tags[n].bloques_logicos
  /\ \/ /\ ~ compartido
        /\ guardar(escribirEnBloque(disco))
        /\ UNCHANGED caido
     \/ /\ compartido
        /\ \E b \in BloqueFisicoLibre :
             LET reservado == [disco EXCEPT !.bitmap = @ \cup {b}]
             IN guardar(escribirEnBloque(reapuntarBloque(reservado, n, i, b)))
        /\ UNCHANGED caido
     \/ /\ compartido /\ BloqueFisicoLibre = {}
        /\ caido' = TRUE
        /\ UNCHANGED <<tags, bitmap, contenido, hash_index>>
  /\ UNCHANGED lista_files

\* realizarELIMINAR_UN_TAG: obtenerIndexDeFileEnFileGB compares pointers, never
\* finds the file, and list_remove(-1) removes nothing.
realizarELIMINAR_UN_TAG(n) ==
  LET d == unlinkearTodoParaEliminar(disco, n, Len(tags[n].bloques_logicos))
      quedan == DOMAIN tags \ {n}
  IN
  /\ pide(n, "DELETE") /\ existe(n)
  /\ guardar([d EXCEPT !.tags = [m \in quedan |-> d.tags[m]]])
  /\ UNCHANGED <<lista_files, caido>>

\* realizarREAD changes nothing; this is what it answers for block i of n.
realizarREAD(n, i) == contenido[tags[n].bloques_logicos[i]]

reconstruirBitmapDesdeHardlinks(ts) == {b \in Fisicos : tieneHLinks(ts, b)}

\* Mutant: the logical blocks are the files found, not those BLOCKS lists.
reconstruirDesdeArchivos(d) ==
  LET quedan(t) == SelectSeq(t.hl, LAMBDA b : b # SIN_ENLACE)
      recuperados == [n \in DOMAIN d.tags |->
                        [d.tags[n] EXCEPT !.bloques_logicos = quedan(d.tags[n]),
                                          !.hl = quedan(d.tags[n])]]
  IN [d EXCEPT !.tags = recuperados,
               !.bitmap = reconstruirBitmapDesdeHardlinks(recuperados)]

\* What a start with FRESH_START=FALSE makes of disk d: RECONSTRUCCION takes
\* the logical blocks from BLOCKS (a link whose file exists stays as it was)
\* and the bitmap is rebuilt from the link counts.
reconstruir(d) ==
  LET enlazar(t) == [i \in DOMAIN t.BLOCKS |->
                       IF i \in DOMAIN t.hl /\ t.hl[i] # SIN_ENLACE
                       THEN t.hl[i] ELSE t.BLOCKS[i]]
      recuperados == [n \in DOMAIN d.tags |->
                        [d.tags[n] EXCEPT !.bloques_logicos = d.tags[n].BLOCKS,
                                          !.hl = enlazar(d.tags[n])]]
  IN [d EXCEPT !.tags = recuperados,
               !.bitmap = reconstruirBitmapDesdeHardlinks(recuperados)]

\* The process ends between two requests (or was already dead) and starts.
RECONSTRUCCION ==
  /\ "REINICIO" \in usos
  /\ guardar(reconstruir(disco))
  /\ caido' = FALSE
  /\ UNCHANGED lista_files

-----------------------------------------------------------------------------
(* The process is killed inside a request and starts again.  Bounds: a     *)
(* config_save and an fwrite reach the disk whole, and the machine does    *)
(* not fail.                                                               *)

caer(n, uso, discos) ==
  /\ "CAIDA" \in usos /\ pide(n, uso)
  /\ \E d \in discos : guardar(reconstruir(d))
  /\ UNCHANGED caido

\* The disk after each step of reapuntarBloque: unlink, link, BLOCKS.
reapunteParcial(d, n, i, b) ==
  LET enlazado == [d EXCEPT !.tags[n].hl[i] = b]
  IN {[d EXCEPT !.tags[n].hl[i] = SIN_ENLACE], enlazado,
      [enlazado EXCEPT !.tags[n].BLOCKS[i] = b]}

caidaEnWRITE(n, i) ==
  /\ existe(n) /\ ~ commiteado(n) /\ i \in DOMAIN tags[n].bloques_logicos
  /\ contadorHLinks(tags, tags[n].hl[i]) > 2
  /\ \E b \in BloqueFisicoLibre : caer(n, "WRITE", reapunteParcial(disco, n, i, b))
  /\ UNCHANGED lista_files

\* blocks_hash_index.config is saved for each block, ESTADO at the end.
caidaEnCOMMIT(n) ==
  LET indexados(j) == indexarBloques(disco, n, j)
      aMedias(d, i) ==
        LET h == d.contenido[d.tags[n].bloques_logicos[i]]
        IN IF h \in DOMAIN d.hash_index /\ d.tags[n].bloques_logicos[i] # 0
           THEN reapunteParcial(d, n, i, d.hash_index[h]) ELSE {}
      bloques == DOMAIN tags[n].bloques_logicos
  IN
  /\ existe(n) /\ ~ commiteado(n)
  /\ caer(n, "COMMIT", {indexados(j) : j \in bloques} \cup
                       UNION {aMedias(indexados(i - 1), i) : i \in bloques})
  /\ UNCHANGED lista_files

\* Links to block0 that no BLOCKS names are those the next TRUNCATE makes:
\* the first difference is BLOCKS saved before TAMANIO.
caidaEnAgrandar(n, tam) ==
  LET k == (tam - tags[n].tamanio) \div TamanioBloque
      ceros == [i \in 1 .. k |-> 0]
  IN
  /\ existe(n) /\ tags[n].tamanio < tam
  /\ commiteado(n) => "TRUNCATE_COMMITED" \in usos
  /\ Len(tags[n].BLOCKS) + k <= MaxBLOCKS
  /\ caer(n, "TRUNCATE_MAS", {[disco EXCEPT !.tags[n].BLOCKS = @ \o ceros,
                                           !.tags[n].hl = @ \o ceros]})
  /\ UNCHANGED lista_files

caidaEnAchicar(n, tam) ==
  LET k == (tags[n].tamanio - tam) \div TamanioBloque
      hay == Len(tags[n].bloques_logicos)
  IN
  /\ existe(n) /\ tags[n].tamanio > tam
  /\ commiteado(n) => "TRUNCATE_COMMITED" \in usos
  /\ caer(n, "TRUNCATE_MENOS",
          {unlinkearBloquesLogicos(disco, n, j) : j \in {j \in 1 .. k : j <= hay}})
  /\ UNCHANGED lista_files

\* CREATE, or TAG to a file that does not exist, makes the directory of the
\* file before the tag's; TAG to one that does, an empty tag before it copies.
caidaEnAlta(o, n) ==
  /\ ~ existe(n)
  /\ \/ /\ n[1] \notin lista_files
        /\ caer(n, "CREATE", {disco})
        /\ lista_files' = lista_files \cup {n[1]}
     \/ /\ existe(o) /\ n[1] \in lista_files
        /\ caer(n, "TAG", {[disco EXCEPT !.tags = conEntrada(@, n, TagNuevo(0, <<>>))]})
        /\ UNCHANGED lista_files

\* The links go one by one, metadata.config next, and the directories last:
\* crearTag finds one without metadata and makes it new.
caidaEnELIMINAR(n) ==
  LET hay == Len(tags[n].bloques_logicos)
      unlinkeados(j) == unlinkearTodoParaEliminar(disco, n, j)
      vacio == [unlinkeados(hay) EXCEPT !.tags[n] = TagNuevo(0, <<>>)]
  IN
  /\ existe(n)
  /\ caer(n, "DELETE", {unlinkeados(j) : j \in 1 .. hay} \cup {vacio})
  /\ UNCHANGED lista_files

CAIDA ==
  \E n \in Nombres :
    \/ \E i \in 1 .. MaxBLOCKS : caidaEnWRITE(n, i)
    \/ caidaEnCOMMIT(n) \/ caidaEnELIMINAR(n)
    \/ \E tam \in Tamanios : caidaEnAgrandar(n, tam) \/ caidaEnAchicar(n, tam)
    \/ \E o \in Nombres : caidaEnAlta(o, n)

\* pedidoDeLaburante: one request of one worker about n.
pedidoDeLaburante(n) ==
  \/ realizarCREATE(n)
  \/ \E tam \in Tamanios : agrandarEnTruncate(n, tam)
  \/ \E tam \in Tamanios : ferConLaMexicana(n, tam)
  \/ \E o \in Nombres : realizarTAG(o, n)
  \/ realizarCOMMIT(n)
  \/ \E i \in 1 .. MaxBLOCKS, c \in Contenidos : realizarWRITE(n, i, c)
  \/ realizarELIMINAR_UN_TAG(n)

Next ==
  /\ (\E n \in Nombres : pedidoDeLaburante(n)) \/ RECONSTRUCCION \/ CAIDA
  /\ UNCHANGED usos

Spec == Init /\ [][Next]_vars

-----------------------------------------------------------------------------
(* Properties.                                                             *)

enUso == UNION {ToSet(tags[n].hl) : n \in DOMAIN tags}
leidos(n) == [i \in DOMAIN tags[n].bloques_logicos |-> realizarREAD(n, i)]

\* The bitmap says exactly which blocks some File:Tag uses, though reserving,
\* moving, deduplicating and unlinking touch it from four functions.
BitmapExacto == bitmap = enUso

\* Every entry of blocks_hash_index names a block in use with that content:
\* what COMMIT relies on when it deduplicates without reading the block.
IndiceFiel ==
  \A h \in DOMAIN hash_index :
    contenido[hash_index[h]] = h /\ hash_index[h] \in enUso

\* READ goes through ptr_bloque_fisico, WRITE through the hard link.
PunterosFieles == \A n \in DOMAIN tags : tags[n].hl = tags[n].bloques_logicos

\* RECONSTRUCCION and TAG go through BLOCKS.
BLOCKSFieles == \A n \in DOMAIN tags : tags[n].BLOCKS = tags[n].bloques_logicos

\* READ, WRITE and, at the next start, RECONSTRUCCION find a logical block by
\* its pointer, its hard link and its entry in BLOCKS: they agree, unless a
\* TRUNCATE to less, which forgets BLOCKS, comes first.
UnSoloBloque ==
  /\ PunterosFieles
  /\ "TRUNCATE_MENOS" \notin usos => BLOCKSFieles

\* Every block the index names is held by a COMMITED tag, which no WRITE can
\* change: what keeps a stale entry from ever being made, when CargaSana.
Sellado ==
  \A h \in DOMAIN hash_index :
    \E l \in enlaces(tags, hash_index[h]) : commiteado(l[1])

\* Whatever is asked, and however stale the index, no block stays reserved
\* after its last link is gone, while the structures point to what is linked.
SinFuga ==
  [][PunterosFieles /\ bitmap \subseteq enUso => bitmap' \subseteq enUso']_vars

leeDistinto(n) == n \notin DOMAIN tags' \/ leidos(n)' # leidos(n)

\* Copy on write and the link counts isolate the File:Tags: while the bitmap
\* is exact and the structures point to the linked blocks, a request about n
\* (for TAG, the copy) makes, deletes or changes no other File:Tag, neither
\* its metadata nor what it reads.
Aislamiento ==
  [][BitmapExacto /\ PunterosFieles =>
       \A n \in Nombres : pedidoDeLaburante(n) =>
         /\ DOMAIN tags' \subseteq DOMAIN tags \cup {n}
         /\ \A m \in DOMAIN tags \ {n} : ~ leeDistinto(m) /\ tags'[m] = tags[m]]_vars

\* A death inside a request costs at most what the request was changing, when
\* the records agreed before it: the block being written, nothing in a COMMIT,
\* all or nothing of a DELETE (RECONSTRUCCION).
CaidaLocal ==
  [][BitmapExacto /\ IndiceFiel /\ PunterosFieles /\ BLOCKSFieles =>
       \A m \in {m \in DOMAIN tags : leeDistinto(m)} :
         /\ ~ RECONSTRUCCION
         /\ \A n \in DOMAIN tags :
              /\ ~ caidaEnCOMMIT(n)
              /\ caidaEnELIMINAR(n) => m = n /\ leidos(n)' = <<>>
              /\ \A i \in 1 .. MaxBLOCKS : caidaEnWRITE(n, i) =>
                   m = n /\ \E c \in Datos : leidos(n)' = [leidos(n) EXCEPT ![i] = c]]_vars

\* "Bloque logico %d reapuntado al Bloque fisico %d correctamente"
\* (operaciones.c:992): COMMIT moves logical blocks to equal ones.
CommitConserva ==
  [][\A n \in Nombres : realizarCOMMIT(n) => leidos(n)' = leidos(n)]_vars

\* Storage implements independent File:Tags.
Abstracto == INSTANCE TagsIndependientes
  WITH Contenidos <- Contenidos \cup {CERO},
       archivos <- [n \in DOMAIN tags |->
                      [estado |-> tags[n].estado, bloques |-> leidos(n)]]

Independientes == Abstracto!Spec
=============================================================================
