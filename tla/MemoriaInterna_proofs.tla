----------------------- MODULE MemoriaInterna_proofs -----------------------
(***************************************************************************)
(* Proofs about MemoriaInterna for any number of File:Tags, frames, pages  *)
(* and page size, any instructions, both replacement policies and any      *)
(* requests of the other workers.                                          *)
(***************************************************************************)
EXTENDS MemoriaInterna, SequenceTheorems, FiniteSetTheorems, WellFoundedInduction, TLAPS

-----------------------------------------------------------------------------
(* Lists and the arithmetic of addresses.                                  *)

\* list_add.
LEMMA AgregarAlFinal ==
  ASSUME NEW S, NEW s \in Seq(S), NEW e \in S
  PROVE  Append(s, e) \in Seq(S) /\ ToSet(Append(s, e)) = ToSet(s) \cup {e}
<1>1. DOMAIN Append(s, e) = DOMAIN s \cup {Len(s) + 1}
  OBVIOUS
<1>2. \A i \in DOMAIN s : Append(s, e)[i] = s[i]
  OBVIOUS
<1>3. Append(s, e)[Len(s) + 1] = e
  OBVIOUS
<1> QED BY <1>1, <1>2, <1>3 DEF ToSet

LEMMA AgregarTipo ==
  ASSUME NEW S, NEW s \in Seq(S), NEW e \in S
  PROVE  Agregar(s, e) \in Seq(S) /\ ToSet(Agregar(s, e)) = ToSet(s) \cup {e}
  BY AgregarAlFinal DEF Agregar

\* list_get of the index list_iterator found.
LEMMA IndiceEnLista ==
  ASSUME NEW S, NEW s \in Seq(S), NEW e \in ToSet(s)
  PROVE  IndiceDe(s, e) \in 1 .. Len(s) /\ s[IndiceDe(s, e)] = e
  BY DEF ToSet, IndiceDe

\* list_remove: what is not at the index stays.
LEMMA QuitarDeLista ==
  ASSUME NEW S, NEW s \in Seq(S), NEW i \in 1 .. Len(s)
  PROVE  /\ RemoveAt(s, i) \in Seq(S)
         /\ \A e \in ToSet(s) : e # s[i] => e \in ToSet(RemoveAt(s, i))
<1> DEFINE p == SubSeq(s, 1, i - 1)
           q == SubSeq(s, i + 1, Len(s))
           r == p \o q
<1>1. /\ p \in Seq(S) /\ Len(p) = i - 1 /\ \A j \in 1 .. i - 1 : p[j] = s[j]
      /\ q \in Seq(S) /\ Len(q) = Len(s) - i
      /\ \A j \in 1 .. Len(s) - i : q[j] = s[i + j]
  OBVIOUS
<1>2. /\ r \in Seq(S) /\ Len(r) = Len(s) - 1
      /\ \A j \in 1 .. Len(s) - 1 : r[j] = IF j < i THEN p[j] ELSE q[j - (i - 1)]
  <2> HIDE DEF p, q
  <2>1. p \in Seq(S) /\ q \in Seq(S) /\ Len(p) + Len(q) = Len(s) - 1
    BY <1>1
  <2>2. r \in Seq(S) /\ Len(r) = Len(p) + Len(q)
    BY <2>1
  <2>3. \A j \in 1 .. Len(p) + Len(q) :
          r[j] = IF j <= Len(p) THEN p[j] ELSE q[j - Len(p)]
    BY <2>1
  <2> QED BY <1>1, <2>1, <2>2, <2>3
<1>3. \A j \in 1 .. Len(s) - 1 : r[j] = IF j < i THEN s[j] ELSE s[j + 1]
  <2> HIDE DEF r
  <2>1. SUFFICES ASSUME NEW j \in 1 .. Len(s) - 1
                 PROVE  r[j] = IF j < i THEN s[j] ELSE s[j + 1]
    OBVIOUS
  <2>2. CASE j < i
    <3> HIDE DEF p, q
    <3> QED BY <1>1, <1>2, <2>2
  <2>3. CASE j >= i
    <3>1. j - (i - 1) \in 1 .. Len(s) - i /\ i + (j - (i - 1)) = j + 1
      BY <2>3
    <3> HIDE DEF p, q
    <3>2. r[j] = s[i + (j - (i - 1))]
      BY <1>1, <1>2, <2>3, <3>1
    <3> QED BY <2>3, <3>1, <3>2
  <2> QED BY <2>2, <2>3
<1>4. ASSUME NEW e \in ToSet(s), e # s[i] PROVE e \in ToSet(r)
  <2>1. PICK j \in 1 .. Len(s) : s[j] = e
    BY DEF ToSet
  <2>2. j # i
    BY <1>4, <2>1
  <2> HIDE DEF r
  <2>3. CASE j < i
    <3>1. j \in 1 .. Len(s) - 1 /\ r[j] = e
      BY <1>3, <2>1, <2>3
    <3> QED BY <1>2, <3>1 DEF ToSet
  <2>4. CASE j > i
    <3>1. j - 1 \in 1 .. Len(s) - 1 /\ r[j - 1] = e
      BY <1>3, <2>1, <2>4
    <3> QED BY <1>2, <3>1 DEF ToSet
  <2> QED BY <2>2, <2>3, <2>4
<1> QED BY <1>2, <1>4 DEF RemoveAt

LEMMA Desplazamiento ==
  ASSUME NEW a \in Nat
  PROVE  a % TamPag \in 0 .. TamPag - 1 /\ a \div TamPag \in Nat
<1>1. TamPag \in Nat /\ TamPag > 0
  BY MemoriaAssumption
<1> QED BY <1>1

LEMMA PaginaDeDireccion ==
  ASSUME NEW a \in Nat, a < MaxPaginas * TamPag
  PROVE  a \div TamPag \in Paginas
<1>1. TamPag \in Nat /\ TamPag > 0 /\ MaxPaginas \in Nat
  BY MemoriaAssumption
<1>2. a \div TamPag < MaxPaginas
  BY <1>1
<1>3. a \div TamPag \in Nat
  BY Desplazamiento
<1> QED BY <1>1, <1>2, <1>3 DEF Paginas

LEMMA CeroEsBloque == CERO \in Pagina /\ CERO \in Bloque
<1>1. CERO \in Pagina
  BY DEF CERO, Pagina, Bytes
<1>2. aBloque(CERO) = CERO
  BY DEF aBloque, CERO
<1> QED BY <1>1, <1>2 DEF Bloque

-----------------------------------------------------------------------------
(* Storage, as the worker sees it.                                         *)

LEMMA EscribirTipo ==
  ASSUME AlmacenTypeOK, NEW n \in Nombres, NEW i, NEW b \in Bloque, FS!Escribir(n, i, b)
  PROVE  /\ AlmacenTypeOK'
         /\ FS!TieneBloque(n, i)' /\ archivos'[n].bloques[i] = b
<1>1. /\ n \in DOMAIN archivos /\ i \in DOMAIN archivos[n].bloques
      /\ archivos' = [archivos EXCEPT ![n].bloques[i] = b]
  BY DEF FS!Escribir, FS!AdmiteEscritura, FS!TieneBloque
<1>2. archivos[n] \in [estado : FS!Estado, bloques : Seq(Bloque)]
  BY <1>1 DEF AlmacenTypeOK
<1>3. [archivos[n].bloques EXCEPT ![i] = b] \in Seq(Bloque)
  BY <1>1, <1>2
<1>4. archivos'[n] = [archivos[n] EXCEPT !.bloques = [archivos[n].bloques EXCEPT ![i] = b]]
  BY <1>1
<1>5. archivos'[n] \in [estado : FS!Estado, bloques : Seq(Bloque)]
  BY <1>2, <1>3, <1>4
<1>6. archivos'[n].bloques = [archivos[n].bloques EXCEPT ![i] = b]
  BY <1>2, <1>4
<1>7. DOMAIN archivos' = DOMAIN archivos /\ \A m \in DOMAIN archivos : m # n => archivos'[m] = archivos[m]
  BY <1>1
<1> QED BY <1>1, <1>5, <1>6, <1>7 DEF AlmacenTypeOK, FS!TieneBloque

LEMMA NuevoTipo ==
  ASSUME AlmacenTypeOK, NEW n \in Nombres, NEW bs \in Seq(Bloque), FS!Nuevo(n, bs)
  PROVE  AlmacenTypeOK'
  BY DEF AlmacenTypeOK, FS!Nuevo, FS!Estado

LEMMA CrearTipo ==
  ASSUME AlmacenTypeOK, NEW n \in Nombres, FS!Crear(n)
  PROVE  AlmacenTypeOK'
<1>1. <<>> \in Seq(Bloque)
  OBVIOUS
<1> QED BY <1>1, NuevoTipo DEF FS!Crear

LEMMA CopiarTipo ==
  ASSUME AlmacenTypeOK, NEW o, NEW d \in Nombres, FS!Copiar(o, d)
  PROVE  AlmacenTypeOK'
<1>1. archivos[o].bloques \in Seq(Bloque)
  BY DEF AlmacenTypeOK, FS!Copiar
<1> QED BY <1>1, NuevoTipo DEF FS!Copiar

\* A change of the blocks of one File:Tag.
LEMMA BloquesTipo ==
  ASSUME AlmacenTypeOK, NEW n \in DOMAIN archivos, NEW bs \in Seq(Bloque),
         archivos' = [archivos EXCEPT ![n].bloques = bs]
  PROVE  AlmacenTypeOK'
<1>1. archivos'[n] = [archivos[n] EXCEPT !.bloques = bs]
  OBVIOUS
<1>2. archivos'[n] \in [estado : FS!Estado, bloques : Seq(Bloque)]
  BY <1>1 DEF AlmacenTypeOK
<1>3. DOMAIN archivos' = DOMAIN archivos /\ \A m \in DOMAIN archivos : m # n => archivos'[m] = archivos[m]
  OBVIOUS
<1> QED BY <1>2, <1>3 DEF AlmacenTypeOK

LEMMA AchicarTipo ==
  ASSUME AlmacenTypeOK, NEW n \in Nombres, FS!Achicar(n)
  PROVE  AlmacenTypeOK'
<1>1. PICK k \in 0 .. Len(archivos[n].bloques) :
        archivos' = [archivos EXCEPT ![n].bloques = SubSeq(archivos[n].bloques, 1, k)]
  BY DEF FS!Achicar
<1>2. n \in DOMAIN archivos /\ archivos[n].bloques \in Seq(Bloque)
  BY DEF FS!Achicar, FS!EnProgreso, AlmacenTypeOK
<1>3. SubSeq(archivos[n].bloques, 1, k) \in Seq(Bloque)
  BY <1>2
<1> QED BY <1>1, <1>2, <1>3, BloquesTipo

LEMMA AgrandarTipo ==
  ASSUME AlmacenTypeOK, NEW n \in Nombres, NEW k \in Nat, FS!Agrandar(n, k)
  PROVE  AlmacenTypeOK'
<1>1. [i \in 1 .. k |-> CERO] \in Seq(Bloque)
  BY CeroEsBloque
<1>2. n \in DOMAIN archivos /\ archivos[n].bloques \in Seq(Bloque)
  BY DEF FS!Agrandar, FS!EnProgreso, AlmacenTypeOK
<1>3. archivos[n].bloques \o [i \in 1 .. k |-> CERO] \in Seq(Bloque)
  BY <1>1, <1>2
<1> QED BY <1>2, <1>3, BloquesTipo DEF FS!Agrandar

LEMMA CommitearTipo ==
  ASSUME AlmacenTypeOK, NEW n \in Nombres, FS!Commitear(n)
  PROVE  AlmacenTypeOK'
  BY DEF AlmacenTypeOK, FS!Commitear, FS!EnProgreso, FS!Estado

LEMMA EliminarTipo ==
  ASSUME AlmacenTypeOK, NEW n \in Nombres, FS!Eliminar(n)
  PROVE  AlmacenTypeOK' /\ n \notin DOMAIN archivos'
  BY DEF AlmacenTypeOK, FS!Eliminar

-----------------------------------------------------------------------------
(* Replacement: the victim is a resident page, and looking for it changes  *)
(* only bits of use.                                                       *)

SoloBitsDeUso(ent) ==
  /\ ent \in [Pares -> Entrada]
  /\ \A x \in Pares : /\ ent[x].nro_frame = entrada[x].nro_frame
                      /\ ent[x].bit_presencia = entrada[x].bit_presencia
                      /\ ent[x].bit_modificado = entrada[x].bit_modificado

Busqueda(r) == r.victima \subseteq presentes(entrada) /\ SoloBitsDeUso(r.entrada)

LEMMA CicloBien ==
  ASSUME NEW r, Busqueda(r), NEW resetear \in BOOLEAN, NEW uso \in BOOLEAN,
         NEW modificado \in BOOLEAN
  PROVE  Busqueda(cicloClockM(r, resetear, uso, modificado))
<1> DEFINE c == cicloClockM(r, resetear, uso, modificado)
<1>1. CASE r.victima # {}
  BY <1>1 DEF cicloClockM
<1>2. CASE r.victima = {}
  <2>1. c.victima \subseteq presentes(r.entrada)
    BY <1>2 DEF cicloClockM
  <2>2. presentes(r.entrada) = presentes(entrada)
    BY DEF Busqueda, SoloBitsDeUso, presentes
  <2>3. \A x \in Pares : \/ c.entrada[x] = r.entrada[x]
                         \/ c.entrada[x] = [r.entrada[x] EXCEPT !.bit_uso = FALSE]
    BY <1>2 DEF cicloClockM
  <2>4. c.entrada = [x \in Pares |-> c.entrada[x]]
    BY <1>2 DEF cicloClockM
  <2>5. SoloBitsDeUso(c.entrada)
    <3> HIDE DEF c
    <3>1. SUFFICES ASSUME NEW x \in Pares
                   PROVE  /\ c.entrada[x] \in Entrada
                          /\ c.entrada[x].nro_frame = r.entrada[x].nro_frame
                          /\ c.entrada[x].bit_presencia = r.entrada[x].bit_presencia
                          /\ c.entrada[x].bit_modificado = r.entrada[x].bit_modificado
      BY <2>4 DEF Busqueda, SoloBitsDeUso
    <3>2. r.entrada[x] \in Entrada
      BY DEF Busqueda, SoloBitsDeUso
    <3>3. CASE c.entrada[x] = r.entrada[x]
      BY <3>2, <3>3
    <3>4. CASE c.entrada[x] = [r.entrada[x] EXCEPT !.bit_uso = FALSE]
      BY <3>2, <3>4 DEF Entrada
    <3> QED BY <2>3, <3>3, <3>4
  <2> QED BY <2>1, <2>2, <2>5 DEF Busqueda
<1> QED BY <1>1, <1>2

LEMMA VictimaPresente ==
  ASSUME TablasTypeOK
  PROVE  Busqueda(aplicarPoliticaReemplazo)
<1>1. ASSUME NEW S, S \subseteq presentes(entrada)
      PROVE  Busqueda([victima |-> S, entrada |-> entrada])
  BY <1>1 DEF Busqueda, SoloBitsDeUso, TablasTypeOK
<1>2. Busqueda(clockM)
  <2> DEFINE r0 == [victima |-> {}, entrada |-> entrada]
             r1 == cicloClockM(r0, FALSE, FALSE, FALSE)
             r2 == cicloClockM(r1, TRUE, FALSE, TRUE)
             r3 == cicloClockM(r2, FALSE, FALSE, FALSE)
             r4 == cicloClockM(r3, FALSE, FALSE, TRUE)
  <2>0. Busqueda(r0)
    BY <1>1
  <2>1. Busqueda(r1)
    BY <2>0, CicloBien
  <2>2. Busqueda(r2)
    BY <2>1, CicloBien
  <2>3. Busqueda(r3)
    BY <2>2, CicloBien
  <2>4. Busqueda(r4)
    BY <2>3, CicloBien
  <2> QED BY <2>4 DEF clockM
<1>3. elegirVictimaLRU \subseteq presentes(entrada)
  BY DEF elegirVictimaLRU
<1> QED BY <1>1, <1>2, <1>3 DEF aplicarPoliticaReemplazo

-----------------------------------------------------------------------------
(* The inductive invariant.                                                *)

AccediendoBien ==
  /\ instruccion.op \in {"WRITE", "READ"} /\ hecho < instruccion.total
  /\ instruccion.op = "WRITE" => instruccion.total = Len(instruccion.datos)
  /\ instruccion.nombre \in ToSet(tabla_general)
  /\ paso = "page_fault" => pag_actual \in ToSet(paginas[instruccion.nombre])

\* Where an instruction is says what it has sent and what it still needs.
Curso ==
  /\ instruccion.dir + instruccion.total <= MaxPaginas * TamPag
  /\ paso \in {"accediendo", "page_fault"} => AccediendoBien
  /\ paso = "flusheando" => instruccion.op \in {"FLUSH", "COMMIT", "DESALOJO"}
  /\ paso = "commiteando" => /\ instruccion.op = "COMMIT"
                             /\ enviados \in {<<>>, <<mensaje("ERROR", <<>>)>>}
  /\ paso = "libre" => hecho = 0
  /\ paso \in {"libre", "accediendo", "page_fault", "flusheando"} => enviados = <<>>
  /\ paso # "hecho" => ~ es_error_o_end
  /\ ContratoConCiclo

IInv == MemoriaTypeOK /\ Curso /\ MarcosBien /\ TablasBien

EnAcceso == MemoriaTypeOK /\ paso \in {"accediendo", "page_fault"} /\ AccediendoBien
            /\ instruccion.dir + instruccion.total <= MaxPaginas * TamPag

LEMMA Tramo ==
  ASSUME EnAcceso
  PROVE  /\ pag \in Pares
         /\ desp_actual \in 0 .. TamPag - 1
         /\ por_copiar \in Nat /\ hecho + por_copiar <= instruccion.total
         /\ desp_actual + por_copiar <= TamPag
<1>1. /\ instruccion.dir \in Nat /\ instruccion.total \in Nat /\ hecho \in Nat
      /\ instruccion.nombre \in Nombres /\ hecho < instruccion.total
      /\ instruccion.dir + instruccion.total <= MaxPaginas * TamPag
      /\ TamPag \in Nat /\ MaxPaginas \in Nat
  BY MemoriaAssumption DEF EnAcceso, MemoriaTypeOK, EjecucionTypeOK, AccediendoBien
<1>2. instruccion.dir + hecho \in Nat /\ MaxPaginas * TamPag \in Nat
  BY <1>1
<1>3. instruccion.dir + hecho < MaxPaginas * TamPag
  BY <1>1, <1>2
<1>4. pag \in Pares
  BY <1>1, <1>2, <1>3, PaginaDeDireccion DEF pag, pag_actual, Pares
<1>5. desp_actual \in 0 .. TamPag - 1
  BY <1>2, Desplazamiento DEF desp_actual
<1> QED BY <1>1, <1>4, <1>5 DEF por_copiar

LEMMA EscritaTipo ==
  ASSUME EnAcceso, instruccion.op = "WRITE", NEW p \in Pagina
  PROVE  escrita(p) \in Pagina
<1>1. /\ desp_actual \in Nat /\ por_copiar \in Nat /\ hecho \in Nat
      /\ hecho + por_copiar <= Len(instruccion.datos)
      /\ instruccion.datos \in Seq(Bytes)
  BY Tramo DEF EnAcceso, AccediendoBien, MemoriaTypeOK, EjecucionTypeOK
<1>2. SUFFICES ASSUME NEW i \in 1 .. TamPag, enTramo(i)
               PROVE  instruccion.datos[hecho + i - desp_actual] \in Bytes
  BY DEF escrita, Pagina
<1>3. TamPag \in Nat
  BY MemoriaAssumption
<1>4. hecho + i - desp_actual \in 1 .. Len(instruccion.datos)
  BY <1>1, <1>2, <1>3 DEF enTramo
<1> QED BY <1>1, <1>4

LEMMA HastaNULTipo ==
  ASSUME NEW s \in Seq(Bytes)
  PROVE  hastaNUL(s) \in Seq(Bytes)
<1> DEFINE validos == {i \in DOMAIN s : \A j \in 1 .. i : s[j] # NUL}
<1>1. IsFiniteSet(1 .. Len(s)) /\ Cardinality(1 .. Len(s)) = Len(s)
  <2>1. Len(s) \in Nat /\ 1 \in Int /\ Len(s) \in Int
    OBVIOUS
  <2>2. /\ IsFiniteSet(1 .. Len(s))
        /\ Cardinality(1 .. Len(s)) = IF 1 > Len(s) THEN 0 ELSE Len(s) - 1 + 1
    BY <2>1, FS_Interval
  <2> QED BY <2>1, <2>2
<1>2. validos \subseteq 1 .. Len(s)
  OBVIOUS
<1>3. Cardinality(validos) \in Nat /\ Cardinality(validos) <= Len(s)
  BY <1>1, <1>2, FS_Subset, FS_CardinalityType
<1>4. SubSeq(s, 1, Cardinality(validos)) \in Seq(Bytes)
  <2> HIDE DEF validos
  <2> QED BY <1>3
<1> QED BY <1>4 DEF hastaNUL

\* One turn of a WRITE or a READ, with the page in frame f of mem.
LEMMA CopiarTramoTipo ==
  ASSUME EnAcceso, enviados = <<>>, ~ es_error_o_end,
         NEW f \in Frames, NEW mem \in [Frames -> Pagina], NEW ent \in [Pares -> Entrada],
         copiarTramo(f, mem, ent)
  PROVE  /\ memoria' \in [Frames -> Pagina] /\ entrada' \in [Pares -> Entrada]
         /\ usada_antes' \subseteq Pares \X Pares
         /\ hecho' \in Nat /\ leido' \in Seq(Bytes)
         /\ enviados' \in Seq(Mensaje)
         /\ es_error_o_end' = FALSE
<1>1. pag \in Pares /\ desp_actual \in Nat /\ por_copiar \in Nat
      /\ desp_actual + por_copiar <= TamPag
  BY Tramo
<1>2. memoria' \in [Frames -> Pagina]
  BY EscritaTipo DEF copiarTramo
<1>3. entrada' \in [Pares -> Entrada]
  <2>1. ent[pag] \in Entrada
    BY <1>1
  <2>2. [ent[pag] EXCEPT !.bit_uso = TRUE,
                         !.bit_modificado = ent[pag].bit_modificado \/ instruccion.op = "WRITE"]
           \in Entrada
    BY <2>1 DEF Entrada
  <2> QED BY <1>1, <2>2 DEF copiarTramo
<1>4. usada_antes' \subseteq Pares \X Pares
  <2>1. presentes(ent) \subseteq Pares /\ usada_antes \subseteq Pares \X Pares
    BY DEF presentes, EnAcceso, MemoriaTypeOK, TablasTypeOK
  <2> QED BY <1>1, <2>1 DEF copiarTramo, usar
<1>5. hecho' \in Nat
  BY <1>1 DEF copiarTramo, EnAcceso, MemoriaTypeOK, EjecucionTypeOK
<1> DEFINE todo == leido \o SubSeq(mem[f], desp_actual + 1, desp_actual + por_copiar)
<1>6. todo \in Seq(Bytes)
  <2>1. mem[f] \in Seq(Bytes) /\ Len(mem[f]) = TamPag
    BY MemoriaAssumption DEF Pagina
  <2>2. SubSeq(mem[f], desp_actual + 1, desp_actual + por_copiar) \in Seq(Bytes)
    BY <1>1, <2>1
  <2> QED BY <2>2 DEF EnAcceso, MemoriaTypeOK, EjecucionTypeOK
<1>7. leido' \in Seq(Bytes)
  BY <1>6 DEF copiarTramo, EnAcceso, MemoriaTypeOK, EjecucionTypeOK
<1>8. mensaje("LEER", hastaNUL(todo)) \in Mensaje
  BY <1>6, HastaNULTipo DEF mensaje, Mensaje
<1>9. enviados' \in Seq(Mensaje)
  <2>1. \/ enviados' = enviados
        \/ enviados' = enviados \o <<>>
        \/ enviados' = enviados \o <<mensaje("LEER", hastaNUL(todo))>>
    BY DEF copiarTramo, terminar
  <2>2. enviados \in Seq(Mensaje)
    BY DEF EnAcceso, MemoriaTypeOK, EjecucionTypeOK
  <2> DEFINE m == mensaje("LEER", hastaNUL(todo))
  <2> HIDE DEF m
  <2>3. enviados \o <<>> \in Seq(Mensaje) /\ enviados \o <<m>> \in Seq(Mensaje)
    BY <1>8, <2>2 DEF m
  <2> QED BY <2>1, <2>2, <2>3 DEF m
<1>10. es_error_o_end' = FALSE
  <2>1. es_error_o_end' = es_error_o_end \/ es_error_o_end' = FALSE
    BY DEF copiarTramo, terminar
  <2>2. es_error_o_end \in BOOLEAN
    BY DEF EnAcceso, MemoriaTypeOK, EjecucionTypeOK
  <2> QED BY <2>1, <2>2, Zenon
<1> QED BY <1>2, <1>3, <1>4, <1>5, <1>7, <1>9, <1>10

LEMMA CopiarTramoEntradas ==
  ASSUME EnAcceso, NEW f, NEW mem, NEW ent \in [Pares -> Entrada], copiarTramo(f, mem, ent)
  PROVE  \A x \in Pares : /\ entrada'[x].nro_frame = ent[x].nro_frame
                          /\ (entrada'[x].bit_presencia <=> ent[x].bit_presencia)
                          /\ ent[x].bit_modificado => entrada'[x].bit_modificado
                          /\ entrada'[x].bit_modificado => ent[x].bit_modificado \/ x = pag
<1>1. pag \in Pares /\ ent[pag] \in Entrada
  BY Tramo
<1>2. entrada' = [ent EXCEPT ![pag] =
         [ent[pag] EXCEPT !.bit_uso = TRUE,
                          !.bit_modificado = ent[pag].bit_modificado \/ instruccion.op = "WRITE"]]
  BY DEF copiarTramo
<1>3. /\ entrada'[pag].nro_frame = ent[pag].nro_frame
      /\ entrada'[pag].bit_presencia = ent[pag].bit_presencia
      /\ entrada'[pag].bit_modificado = (ent[pag].bit_modificado \/ instruccion.op = "WRITE")
  BY <1>1, <1>2 DEF Entrada
<1>4. \A x \in Pares : x # pag => entrada'[x] = ent[x]
  BY <1>2
<1> QED BY <1>3, <1>4

LEMMA Tipos ==
  /\ tiposDe(<<>>) = <<>>
  /\ \A a : tiposDe(<<a>>) = <<a.tipo>>
  /\ \A a, b : tiposDe(<<a, b>>) = <<a.tipo, b.tipo>>
<1>1. DOMAIN <<>> = {} /\ tiposDe(<<>>) = <<>>
  BY DEF tiposDe
<1>2. \A a : tiposDe(<<a>>) = <<a.tipo>>
  <2>1. SUFFICES ASSUME NEW a PROVE tiposDe(<<a>>) = <<a.tipo>>
    OBVIOUS
  <2>2. DOMAIN <<a>> = 1 .. 1 /\ DOMAIN <<a.tipo>> = 1 .. 1
    OBVIOUS
  <2> QED BY <2>2 DEF tiposDe
<1>3. \A a, b : tiposDe(<<a, b>>) = <<a.tipo, b.tipo>>
  <2>1. SUFFICES ASSUME NEW a, NEW b PROVE tiposDe(<<a, b>>) = <<a.tipo, b.tipo>>
    OBVIOUS
  <2>2. DOMAIN <<a, b>> = 1 .. 2 /\ DOMAIN <<a.tipo, b.tipo>> = 1 .. 2
    OBVIOUS
  <2> QED BY <2>2 DEF tiposDe
<1> QED BY <1>1, <1>2, <1>3

LEMMA CopiarTramoCurso ==
  ASSUME EnAcceso, enviados = <<>>, ~ es_error_o_end,
         NEW f, NEW mem, NEW ent, copiarTramo(f, mem, ent),
         instruccion' = instruccion, tabla_general' = tabla_general
  PROVE  paso' \in Paso /\ Curso'
<1>1. CASE paso' = "accediendo"
  <2>1. hecho' < instruccion.total /\ enviados' = <<>> /\ ~ es_error_o_end'
    BY <1>1 DEF copiarTramo, terminar
  <2>2. AccediendoBien'
    BY <1>1, <2>1 DEF EnAcceso, AccediendoBien
  <2>3. ContratoConCiclo'
    BY <1>1 DEF ContratoConCiclo
  <2> QED BY <1>1, <2>1, <2>2, <2>3 DEF Curso, EnAcceso, Paso
<1>2. CASE paso' = "hecho"
  <2> DEFINE todo == leido \o SubSeq(mem[f], desp_actual + 1, desp_actual + por_copiar)
  <2>1. /\ instruccion.op = "WRITE" => enviados' = <<>> \o <<>>
        /\ instruccion.op # "WRITE" => enviados' = <<>> \o <<mensaje("LEER", hastaNUL(todo))>>
        /\ es_error_o_end' = FALSE
    BY <1>2 DEF copiarTramo, terminar
  <2>2. <<>> \o <<>> = <<>> /\ \A m : <<>> \o <<m>> = <<m>>
    OBVIOUS
  <2>3. instruccion.op = "WRITE" => tiposDe(enviados') = <<>>
    BY <2>1, <2>2, Tipos
  <2>4. instruccion.op # "WRITE" => tiposDe(enviados') = <<"LEER">>
    BY <2>1, <2>2, Tipos DEF mensaje
  <2>5. ContratoConCiclo'
    BY <2>1, <2>3, <2>4 DEF ContratoConCiclo, EnAcceso, AccediendoBien
  <2> QED BY <1>2, <2>5 DEF Curso, EnAcceso, Paso
<1> QED BY <1>1, <1>2 DEF copiarTramo, terminar

\* ejecutarWrite and ejecutarRead report a failure once.
LEMMA ErrorCurso ==
  ASSUME IInv, paso \in {"accediendo", "page_fault"}, terminarConError
  PROVE  EjecucionTypeOK' /\ Curso'
<1>1. enviados' = <<mensaje("ERROR", <<>>)>> /\ es_error_o_end' = TRUE /\ paso' = "hecho"
  <2>1. enviados = <<>>
    BY DEF IInv, Curso
  <2>2. \A m : <<>> \o <<m>> = <<m>>
    OBVIOUS
  <2> QED BY <2>1, <2>2 DEF terminarConError, terminar
<1>2. mensaje("ERROR", <<>>) \in Mensaje
  BY DEF mensaje, Mensaje
<1>3. EjecucionTypeOK'
  BY <1>1, <1>2, CeroEsBloque
     DEF terminarConError, IInv, MemoriaTypeOK, EjecucionTypeOK, Paso
<1>4. tiposDe(enviados') = <<"ERROR">>
  BY <1>1, Tipos DEF mensaje
<1>5. instruccion' = instruccion /\ instruccion.op \in {"WRITE", "READ"}
  BY DEF terminarConError, IInv, Curso, AccediendoBien
<1>6. ContratoConCiclo'
  BY <1>1, <1>4, <1>5 DEF ContratoConCiclo
<1> QED BY <1>1, <1>3, <1>5, <1>6 DEF Curso, IInv

-----------------------------------------------------------------------------
(* Frames and tables after one turn, in terms of the entries before it.    *)

MarcosDe(ent, bm) ==
  /\ \A x, y \in Pares : ent[x].bit_presencia /\ ent[y].bit_presencia
                       /\ ent[x].nro_frame = ent[y].nro_frame => x = y
  /\ \A x \in Pares : /\ ent[x].bit_presencia => ent[x].nro_frame \in bm
                      /\ ent[x].bit_modificado => ent[x].bit_presencia

LEMMA MarcosDefinicion == MarcosBien <=> MarcosDe(entrada, bitMap)
  BY DEF MarcosBien, MarcosDe, presentes, ocupada

EnTablas(ent) ==
  \A x \in Pares : ent[x].bit_presencia =>
    x[1] \in ToSet(tabla_general) /\ x[2] \in ToSet(paginas[x[1]])

LEMMA OrdenTrasUso ==
  ASSUME NEW R, NEW P, ordena(R, P), NEW Q, NEW e, Q \ {e} \subseteq P, e \in Q
  PROVE  ordena((R \cap ((Q \ {e}) \X (Q \ {e}))) \cup ((Q \ {e}) \X {e}), Q)
<1> DEFINE O == Q \ {e}
           T == (R \cap (O \X O)) \cup (O \X {e})
<1>1. T \subseteq Q \X Q
  OBVIOUS
<1>2. \A x, y : <<x, y>> \in T <=> \/ x \in O /\ y \in O /\ <<x, y>> \in R
                                   \/ x \in O /\ y = e
  <2>1. \A x, y, A, B : <<x, y>> \in A \X B <=> x \in A /\ y \in B
    OBVIOUS
  <2>2. \A x, y : <<x, y>> \in T <=> \/ <<x, y>> \in R /\ <<x, y>> \in O \X O
                                     \/ <<x, y>> \in O \X {e}
    OBVIOUS
  <2>3. \A y : y \in {e} <=> y = e
    OBVIOUS
  <2> HIDE DEF T, O
  <2> QED BY <2>1, <2>2, <2>3, Zenon
<1>3. e \notin O /\ O \subseteq P /\ \A x \in Q : x = e \/ x \in O
  OBVIOUS
<1>4. /\ \A x, y \in O : x # y => (<<x, y>> \in R <=> <<y, x>> \notin R)
      /\ \A x, y, z \in O : <<x, y>> \in R /\ <<y, z>> \in R => <<x, z>> \in R /\ x # z
  BY <1>3 DEF ordena
<1> HIDE DEF T, O
<1>5. \A x, y \in Q : x # y => (<<x, y>> \in T <=> <<y, x>> \notin T)
  <2>1. SUFFICES ASSUME NEW x \in Q, NEW y \in Q, x # y
                 PROVE  <<x, y>> \in T <=> <<y, x>> \notin T
    OBVIOUS
  <2>2. CASE x = e
    BY <1>2, <1>3, <2>1, <2>2
  <2>3. CASE y = e
    BY <1>2, <1>3, <2>1, <2>3
  <2>4. CASE x \in O /\ y \in O
    BY <1>2, <1>3, <1>4, <2>1, <2>4
  <2> QED BY <1>3, <2>2, <2>3, <2>4
<1>6. \A x, y, z \in Q : <<x, y>> \in T /\ <<y, z>> \in T => <<x, z>> \in T /\ x # z
  <2>1. SUFFICES ASSUME NEW x \in Q, NEW y \in Q, NEW z \in Q, <<x, y>> \in T, <<y, z>> \in T
                 PROVE  <<x, z>> \in T /\ x # z
    OBVIOUS
  <2>2. x \in O /\ y \in O /\ <<x, y>> \in R
    BY <1>2, <1>3, <2>1
  <2>3. CASE z = e
    BY <1>2, <1>3, <2>2, <2>3
  <2>4. CASE z \in O /\ <<y, z>> \in R
    BY <1>2, <1>4, <2>2, <2>4
  <2> QED BY <1>2, <2>1, <2>3, <2>4
<1>7. ordena(T, Q)
  BY <1>1, <1>5, <1>6 DEF ordena
<1> QED BY <1>7 DEF T, O

LEMMA CopiarTramoBien ==
  ASSUME IInv, EnAcceso, NEW f, NEW mem, NEW ent \in [Pares -> Entrada],
         copiarTramo(f, mem, ent), MarcosDe(ent, bitMap'), ent[pag].bit_presencia,
         \A x \in Pares : x # pag /\ ent[x].bit_presencia => entrada[x].bit_presencia,
         pag_actual \in ToSet(paginas[instruccion.nombre]),
         UNCHANGED <<tabla_general, paginas, algoritmo>>
  PROVE  MarcosBien' /\ TablasBien'
<1>1. pag \in Pares /\ pag[1] = instruccion.nombre /\ pag[2] = pag_actual
  BY Tramo DEF pag
<1>2. \A x \in Pares : /\ entrada'[x].nro_frame = ent[x].nro_frame
                       /\ (entrada'[x].bit_presencia <=> ent[x].bit_presencia)
                       /\ ent[x].bit_modificado => entrada'[x].bit_modificado
                       /\ entrada'[x].bit_modificado => ent[x].bit_modificado \/ x = pag
  BY CopiarTramoEntradas
<1>3. MarcosDe(entrada', bitMap')
  <2>1. \A x, y \in Pares : entrada'[x].bit_presencia /\ entrada'[y].bit_presencia
                          /\ entrada'[x].nro_frame = entrada'[y].nro_frame => x = y
    BY <1>2, Zenon DEF MarcosDe
  <2>2. \A x \in Pares : entrada'[x].bit_presencia => entrada'[x].nro_frame \in bitMap'
    BY <1>2, Zenon DEF MarcosDe
  <2>3. \A x \in Pares : entrada'[x].bit_modificado => entrada'[x].bit_presencia
    BY <1>2, Zenon DEF MarcosDe
  <2> QED BY <2>1, <2>2, <2>3 DEF MarcosDe
<1>4. MarcosBien'
  BY <1>3 DEF MarcosBien, MarcosDe, presentes, ocupada
<1>5. presentes(entrada') = presentes(ent) /\ presentes(ent) \ {pag} \subseteq presentes(entrada)
      /\ pag \in presentes(ent)
  <2>1. presentes(entrada') = presentes(ent)
    BY <1>2, Zenon DEF presentes
  <2>2. presentes(ent) \ {pag} \subseteq presentes(entrada)
    BY DEF presentes
  <2>3. pag \in presentes(ent)
    BY <1>1 DEF presentes
  <2> QED BY <2>1, <2>2, <2>3
<1>6. \A x \in presentes(entrada') : x[1] \in ToSet(tabla_general) /\ x[2] \in ToSet(paginas[x[1]])
  BY <1>1, <1>5 DEF IInv, TablasBien, EnAcceso, AccediendoBien
<1>7. ASSUME algoritmo = "LRU" PROVE ordena(usada_antes', presentes(entrada'))
  <2>1. ordena(usada_antes, presentes(entrada))
    BY <1>7 DEF IInv, TablasBien
  <2>2. usada_antes' = usar(ent)
    BY <1>7 DEF copiarTramo
  <2> QED BY <1>5, <2>1, <2>2, OrdenTrasUso DEF usar
<1>8. TablasBien'
  BY <1>6, <1>7 DEF TablasBien
<1> QED BY <1>4, <1>8

LEMMA accederInv ==
  ASSUME IInv, acceder
  PROVE  IInv'
<1>1. EnAcceso /\ enviados = <<>> /\ ~ es_error_o_end
  BY DEF acceder, IInv, Curso, EnAcceso
<1> DEFINE f == entrada[pag].nro_frame
<1>2. pag \in Pares /\ entrada[pag].bit_presencia
  BY <1>1, Tramo DEF acceder
<1>3. f \in Frames /\ memoria \in [Frames -> Pagina] /\ entrada \in [Pares -> Entrada]
  BY <1>2 DEF IInv, MarcosBien, ocupada, MemoriaTypeOK, MarcosTypeOK, TablasTypeOK
<1>4. copiarTramo(f, memoria, entrada)
  BY DEF acceder
<1> HIDE DEF f
<1>5. MarcosBien' /\ TablasBien'
  <2>1. MarcosDe(entrada, bitMap')
    BY MarcosDefinicion DEF acceder, IInv
  <2>2. pag_actual \in ToSet(paginas[instruccion.nombre])
    BY <1>2 DEF IInv, TablasBien, presentes, pag
  <2> QED BY <1>1, <1>2, <1>3, <1>4, <2>1, <2>2, CopiarTramoBien DEF acceder
<1>6. paso' \in Paso /\ Curso'
  BY <1>1, <1>4, CopiarTramoCurso DEF acceder
<1>7. MemoriaTypeOK'
  BY <1>1, <1>3, <1>4, <1>6, CopiarTramoTipo
     DEF acceder, IInv, MemoriaTypeOK, AlmacenTypeOK, TablasTypeOK, MarcosTypeOK,
         EjecucionTypeOK, almacen
<1> QED BY <1>5, <1>6, <1>7 DEF IInv

-----------------------------------------------------------------------------
(* Faults, replacements and the answers storage gives them.                *)

LEMMA gestionarPAGE_FAULTInv ==
  ASSUME IInv, gestionarPAGE_FAULT
  PROVE  IInv'
<1>1. EnAcceso
  BY DEF gestionarPAGE_FAULT, IInv, Curso, EnAcceso
<1>2. pag_actual \in Paginas /\ instruccion.nombre \in Nombres
  BY <1>1, Tramo DEF pag, Pares
<1>3. /\ paginas \in [Nombres -> Seq(Paginas)]
      /\ paginas' = [paginas EXCEPT ![instruccion.nombre] =
                       Agregar(paginas[instruccion.nombre], pag_actual)]
  BY DEF gestionarPAGE_FAULT, IInv, MemoriaTypeOK, TablasTypeOK
<1>4. /\ Agregar(paginas[instruccion.nombre], pag_actual) \in Seq(Paginas)
      /\ ToSet(Agregar(paginas[instruccion.nombre], pag_actual)) =
           ToSet(paginas[instruccion.nombre]) \cup {pag_actual}
  BY <1>2, <1>3, AgregarTipo
<1>5. /\ paginas' \in [Nombres -> Seq(Paginas)]
      /\ \A n \in Nombres : ToSet(paginas[n]) \subseteq ToSet(paginas'[n])
      /\ pag_actual \in ToSet(paginas'[instruccion.nombre])
  BY <1>2, <1>3, <1>4
<1>6. MarcosBien' /\ TablasBien'
  <2>1. MarcosBien'
    BY DEF gestionarPAGE_FAULT, IInv, MarcosBien, presentes, ocupada, marcos
  <2>2. presentes(entrada)' = presentes(entrada) /\ presentes(entrada) \subseteq Pares
    BY DEF gestionarPAGE_FAULT, presentes
  <2>3. \A x \in presentes(entrada) : x[1] \in Nombres
    BY <2>2 DEF Pares
  <2> QED BY <1>5, <2>1, <2>2, <2>3 DEF gestionarPAGE_FAULT, IInv, TablasBien
<1>7. TablasTypeOK' /\ AlmacenTypeOK' /\ MarcosTypeOK' /\ algoritmo' \in Algoritmos
  BY <1>5 DEF gestionarPAGE_FAULT, IInv, MemoriaTypeOK, TablasTypeOK, AlmacenTypeOK,
              MarcosTypeOK, almacen, marcos
<1>8. CASE terminarConError
  <2>1. EjecucionTypeOK' /\ Curso'
    BY <1>8, ErrorCurso DEF gestionarPAGE_FAULT
  <2> QED BY <1>6, <1>7, <2>1 DEF IInv, MemoriaTypeOK
<1>9. CASE /\ paso' = "page_fault" /\ contenido_pagina' \in Pagina
           /\ UNCHANGED <<instruccion, hecho, leido, enviados, es_error_o_end>>
  <2>1. EjecucionTypeOK'
    BY <1>9 DEF IInv, MemoriaTypeOK, EjecucionTypeOK, Paso
  <2>2. AccediendoBien'
    BY <1>1, <1>5, <1>9
       DEF EnAcceso, AccediendoBien, gestionarPAGE_FAULT, pag_actual
  <2>3. Curso'
    BY <1>9, <2>2 DEF gestionarPAGE_FAULT, IInv, Curso, ContratoConCiclo
  <2> QED BY <1>6, <1>7, <2>1, <2>3 DEF IInv, MemoriaTypeOK
<1>10. terminarConError \/ /\ paso' = "page_fault" /\ contenido_pagina' \in Pagina
                           /\ UNCHANGED <<instruccion, hecho, leido, enviados, es_error_o_end>>
  BY DEF gestionarPAGE_FAULT, recibidos
<1> QED BY <1>8, <1>9, <1>10

LEMMA moverPunteroTipo ==
  ASSUME IInv, NEW S, S \subseteq presentes(entrada), moverPuntero(S)
  PROVE  ptr_gb' \in (Nat \ {0}) \X (Nat \ {0})
<1>1. ptr_gb \in (Nat \ {0}) \X (Nat \ {0})
  BY DEF IInv, MemoriaTypeOK, TablasTypeOK
<1>2. normalizar_puntero_clockm \in (Nat \ {0}) \X (Nat \ {0})
  BY <1>1 DEF normalizar_puntero_clockm
<1>3. ASSUME NEW x \in presentes(entrada)
      PROVE  siguienteDe(x) \in (Nat \ {0}) \X (Nat \ {0})
  <2>1. x[1] \in Nombres /\ x[1] \in ToSet(tabla_general) /\ x[2] \in ToSet(paginas[x[1]])
    BY DEF IInv, TablasBien, presentes, Pares
  <2>2. tabla_general \in Seq(Nombres) /\ paginas[x[1]] \in Seq(Paginas)
    BY <2>1 DEF IInv, MemoriaTypeOK, TablasTypeOK
  <2>3. /\ IndiceDe(tabla_general, x[1]) \in 1 .. Len(tabla_general)
        /\ IndiceDe(paginas[x[1]], x[2]) \in 1 .. Len(paginas[x[1]])
    BY <2>1, <2>2, IndiceEnLista
  <2>4. PICK i \in Nat \ {0}, j \in Nat \ {0} : lugar(x) = <<i, j>>
    BY <2>2, <2>3 DEF lugar
  <2>5. Len(tabla_general) \in Nat /\ Len(tabla_general) > 0
    BY <2>2, <2>3
  <2>6. (i % Len(tabla_general)) + 1 \in Nat \ {0} /\ j + 1 \in Nat \ {0}
    BY <2>5
  <2> QED BY <2>4, <2>6 DEF siguienteDe
<1>4. S # {} => (CHOOSE x \in S : TRUE) \in presentes(entrada)
  OBVIOUS
<1> QED BY <1>1, <1>2, <1>3, <1>4 DEF moverPuntero

\* escribirPagina: an entry with its frame.
LEMMA ConMarco ==
  ASSUME NEW e \in Entrada, NEW f \in Frames
  PROVE  /\ conMarco(e, f) \in Entrada
         /\ conMarco(e, f).nro_frame = f
         /\ conMarco(e, f).bit_presencia
         /\ conMarco(e, f).bit_modificado <=> e.bit_modificado
  BY DEF Entrada, conMarco

\* What asignarMarco needs of the entries before it: no resident page has the
\* frame it gives.
LEMMA asignarMarcoInv ==
  ASSUME IInv, paso = "page_fault",
         NEW f \in Frames, NEW ent \in [Pares -> Entrada], asignarMarco(f, ent),
         MarcosDe(ent, bitMap),
         \A x \in Pares : ent[x].bit_presencia => /\ entrada[x].bit_presencia
                                                  /\ ent[x].nro_frame # f,
         bitMap' = bitMap \cup {f}, AlmacenTypeOK', algoritmo' = algoritmo,
         ptr_gb' \in (Nat \ {0}) \X (Nat \ {0})
  PROVE  IInv'
<1> DEFINE mem == [memoria EXCEPT ![f] = contenido_pagina]
           nueva == [ent EXCEPT ![pag] = conMarco(ent[pag], f)]
<1>1. EnAcceso /\ enviados = <<>> /\ ~ es_error_o_end /\ pag \in Pares
  <2>1. EnAcceso /\ enviados = <<>> /\ ~ es_error_o_end
    BY DEF IInv, Curso, EnAcceso
  <2> QED BY <2>1, Tramo
<1>2. mem \in [Frames -> Pagina]
  BY DEF IInv, MemoriaTypeOK, MarcosTypeOK, EjecucionTypeOK
<1>3. /\ nueva[pag].nro_frame = f /\ nueva[pag].bit_presencia
      /\ nueva[pag].bit_modificado <=> ent[pag].bit_modificado
      /\ nueva[pag] \in Entrada /\ nueva \in [Pares -> Entrada]
      /\ \A x \in Pares : x # pag => nueva[x] = ent[x]
  <2>1. ent[pag] \in Entrada
    BY <1>1
  <2>2. nueva[pag] = conMarco(ent[pag], f)
    BY <1>1
  <2>3. nueva[pag] \in Entrada
    BY <2>1, <2>2, ConMarco
  <2>4. /\ nueva[pag].nro_frame = f
        /\ nueva[pag].bit_presencia
        /\ nueva[pag].bit_modificado <=> ent[pag].bit_modificado
    BY <2>1, <2>2, ConMarco
  <2>5. \A x \in Pares : x # pag => nueva[x] = ent[x]
    OBVIOUS
  <2>6. nueva \in [Pares -> Entrada]
    BY <1>1, <2>3
  <2> QED BY <2>3, <2>4, <2>5, <2>6
<1>4. copiarTramo(f, mem, nueva) /\ contenido_pagina' = CERO
      /\ UNCHANGED <<tabla_general, paginas, instruccion>>
  BY DEF asignarMarco
<1> HIDE DEF mem, nueva
<1>5. MarcosDe(nueva, bitMap')
  <2>1. ASSUME NEW x \in Pares, NEW y \in Pares, nueva[x].bit_presencia,
               nueva[y].bit_presencia, nueva[x].nro_frame = nueva[y].nro_frame
        PROVE  x = y
    BY <1>3, <2>1 DEF MarcosDe
  <2>2. ASSUME NEW x \in Pares
        PROVE  /\ nueva[x].bit_presencia => nueva[x].nro_frame \in bitMap'
               /\ nueva[x].bit_modificado => nueva[x].bit_presencia
    BY <1>3 DEF MarcosDe
  <2> QED BY <2>1, <2>2 DEF MarcosDe
<1>6. MarcosBien' /\ TablasBien'
  <2>1. \A x \in Pares : x # pag /\ nueva[x].bit_presencia => entrada[x].bit_presencia
    BY <1>3
  <2>2. pag_actual \in ToSet(paginas[instruccion.nombre])
    BY DEF IInv, Curso, AccediendoBien
  <2> QED BY <1>1, <1>3, <1>4, <1>5, <2>1, <2>2, CopiarTramoBien
<1>7. paso' \in Paso /\ Curso'
  BY <1>1, <1>4, CopiarTramoCurso
<1>8. MemoriaTypeOK'
  <2>1. bitMap' \subseteq Frames
    BY DEF IInv, MemoriaTypeOK, MarcosTypeOK
  <2> QED BY <1>1, <1>2, <1>3, <1>4, <1>7, <2>1, CopiarTramoTipo, CeroEsBloque
             DEF IInv, MemoriaTypeOK, TablasTypeOK, MarcosTypeOK, EjecucionTypeOK
<1> QED BY <1>6, <1>7, <1>8 DEF IInv

LEMMA devolverFrameLibreInv ==
  ASSUME IInv, devolverFrameLibre
  PROVE  IInv'
<1>1. PICK f \in frameLibre : bitMap' = bitMap \cup {f} /\ asignarMarco(f, entrada)
  BY DEF devolverFrameLibre
<1>2. f \in Frames /\ f \notin bitMap
  BY DEF frameLibre
<1>3. MarcosDe(entrada, bitMap)
  BY MarcosDefinicion DEF IInv
<1>4. \A x \in Pares : entrada[x].bit_presencia => entrada[x].nro_frame # f
  BY <1>2, <1>3 DEF MarcosDe
<1>5. /\ paso = "page_fault" /\ algoritmo' = algoritmo /\ entrada \in [Pares -> Entrada]
      /\ ptr_gb' \in (Nat \ {0}) \X (Nat \ {0})
  BY DEF devolverFrameLibre, IInv, MemoriaTypeOK, TablasTypeOK
<1>6. AlmacenTypeOK'
  BY DEF devolverFrameLibre, almacen, IInv, MemoriaTypeOK, AlmacenTypeOK
<1> QED BY <1>1, <1>2, <1>3, <1>4, <1>5, <1>6, asignarMarcoInv

\* What an eviction leaves in the entry of its victim.
LEMMA DesalojadaTipo ==
  ASSUME NEW e \in Entrada
  PROVE  /\ desalojada(e) \in Entrada
         /\ desalojada(e).bit_presencia = FALSE /\ desalojada(e).bit_modificado = FALSE
  BY DEF Entrada, desalojada

LEMMA PaginaABloque ==
  ASSUME NEW x \in presentes(entrada), MarcosTypeOK, MarcosBien
  PROVE  /\ entrada[x].nro_frame \in bitMap /\ entrada[x].nro_frame \in Frames
         /\ aBloque(memoria[entrada[x].nro_frame]) \in Bloque
  BY DEF MarcosTypeOK, MarcosBien, presentes, ocupada, Bloque

LEMMA gestionarBitModificadoInv ==
  ASSUME IInv, gestionarBitModificado
  PROVE  IInv'
<1> DEFINE r == aplicarPoliticaReemplazo
<1>1. PICK v \in r.victima :
        \/ /\ entrada[v].bit_modificado => FS!AdmiteEscritura(v[1], v[2] + 1)
           /\ IF entrada[v].bit_modificado THEN escribirEnStorage(v)
                                           ELSE UNCHANGED almacen
           /\ asignarMarco(entrada[v].nro_frame,
                           [r.entrada EXCEPT ![v] = desalojada(r.entrada[v])])
        \/ /\ entrada' = r.entrada /\ terminarConError
           /\ UNCHANGED <<almacen, tabla_general, paginas, usada_antes, memoria>>
  BY DEF gestionarBitModificado
<1>2. r.victima \subseteq presentes(entrada) /\ SoloBitsDeUso(r.entrada)
  BY VictimaPresente DEF IInv, MemoriaTypeOK, Busqueda
<1>3. /\ paso = "page_fault" /\ algoritmo' = algoritmo /\ bitMap' = bitMap
      /\ moverPuntero(r.victima)
  BY DEF gestionarBitModificado
<1> HIDE DEF r
<1>4. ptr_gb' \in (Nat \ {0}) \X (Nat \ {0})
  BY <1>2, <1>3, moverPunteroTipo
<1>5. v \in presentes(entrada) /\ v \in Pares
  BY <1>1, <1>2 DEF presentes
<1>6. /\ entrada[v].nro_frame \in bitMap /\ entrada[v].nro_frame \in Frames
      /\ aBloque(memoria[entrada[v].nro_frame]) \in Bloque
  BY <1>5, PaginaABloque DEF IInv, MemoriaTypeOK
<1>7. MarcosDe(entrada, bitMap) /\ MarcosDe(r.entrada, bitMap)
  <2>1. MarcosDe(entrada, bitMap)
    BY MarcosDefinicion DEF IInv
  <2> QED BY <1>2, <2>1 DEF MarcosDe, SoloBitsDeUso
<1>8. CASE /\ IF entrada[v].bit_modificado THEN escribirEnStorage(v)
                                           ELSE UNCHANGED almacen
           /\ asignarMarco(entrada[v].nro_frame,
                           [r.entrada EXCEPT ![v] = desalojada(r.entrada[v])])
  <2> DEFINE ent == [r.entrada EXCEPT ![v] = desalojada(r.entrada[v])]
             f == entrada[v].nro_frame
  <2>1. AlmacenTypeOK'
    <3>1. CASE escribirEnStorage(v)
      <4>1. v[1] \in Nombres
        BY <1>5 DEF Pares
      <4> QED BY <1>6, <3>1, <4>1, EscribirTipo
                 DEF escribirEnStorage, IInv, MemoriaTypeOK
    <3>2. CASE UNCHANGED almacen
      BY <3>2 DEF almacen, IInv, MemoriaTypeOK, AlmacenTypeOK
    <3> QED BY <1>8, <3>1, <3>2
  <2>2. /\ ent \in [Pares -> Entrada]
        /\ ent[v].bit_presencia = FALSE /\ ent[v].bit_modificado = FALSE
        /\ \A x \in Pares : x # v => ent[x] = r.entrada[x]
    <3>1. r.entrada \in [Pares -> Entrada] /\ r.entrada[v] \in Entrada
      BY <1>2, <1>5 DEF SoloBitsDeUso
    <3> QED BY <1>5, <3>1, DesalojadaTipo
  <2>3. asignarMarco(f, ent)
    BY <1>8
  <2> HIDE DEF ent
  <2>4. MarcosDe(ent, bitMap)
    <3>1. ASSUME NEW x \in Pares, NEW y \in Pares, ent[x].bit_presencia,
                 ent[y].bit_presencia, ent[x].nro_frame = ent[y].nro_frame
          PROVE  x = y
      BY <1>7, <2>2, <3>1 DEF MarcosDe
    <3>2. ASSUME NEW x \in Pares
          PROVE  /\ ent[x].bit_presencia => ent[x].nro_frame \in bitMap
                 /\ ent[x].bit_modificado => ent[x].bit_presencia
      BY <1>7, <2>2 DEF MarcosDe
    <3> QED BY <3>1, <3>2 DEF MarcosDe
  <2>5. ASSUME NEW x \in Pares, ent[x].bit_presencia
        PROVE  entrada[x].bit_presencia /\ ent[x].nro_frame # f
    <3>1. x # v /\ ent[x] = r.entrada[x]
      BY <2>2, <2>5
    <3>2. entrada[x].bit_presencia /\ ent[x].nro_frame = entrada[x].nro_frame
      BY <1>2, <2>5, <3>1 DEF SoloBitsDeUso
    <3>3. entrada[v].bit_presencia
      BY <1>5 DEF presentes
    <3> QED BY <1>5, <1>7, <3>1, <3>2, <3>3 DEF MarcosDe
  <2>6. bitMap' = bitMap \cup {f}
    BY <1>3, <1>6
  <2>7. f \in Frames
    BY <1>6
  <2> HIDE DEF f
  <2> QED BY <1>3, <1>4, <2>1, <2>2, <2>3, <2>4, <2>5, <2>6, <2>7, asignarMarcoInv
<1>9. CASE /\ entrada' = r.entrada /\ terminarConError
           /\ UNCHANGED <<almacen, tabla_general, paginas, usada_antes, memoria>>
  <2>1. EjecucionTypeOK' /\ Curso'
    BY <1>3, <1>9, ErrorCurso
  <2>2. MarcosBien'
    BY <1>3, <1>7, <1>9 DEF MarcosBien, MarcosDe, presentes, ocupada
  <2>3. presentes(entrada') = presentes(entrada)
    BY <1>2, <1>9 DEF SoloBitsDeUso, presentes
  <2>4. TablasBien'
    BY <1>3, <1>9, <2>3 DEF IInv, TablasBien
  <2>5. MemoriaTypeOK'
    BY <1>2, <1>3, <1>4, <1>9, <2>1
       DEF IInv, MemoriaTypeOK, AlmacenTypeOK, almacen, TablasTypeOK, MarcosTypeOK,
           SoloBitsDeUso
  <2> QED BY <2>1, <2>2, <2>4, <2>5 DEF IInv
<1> QED BY <1>1, <1>8, <1>9

LEMMA sinVictimaInv ==
  ASSUME IInv, sinVictima
  PROVE  IInv'
<1>1. ptr_gb' \in (Nat \ {0}) \X (Nat \ {0})
  BY moverPunteroTipo DEF sinVictima
<1>2. MarcosBien' /\ TablasBien'
  BY DEF sinVictima, IInv, MarcosBien, TablasBien, presentes, ocupada, marcos
<1>3. TablasTypeOK' /\ AlmacenTypeOK' /\ MarcosTypeOK' /\ algoritmo' \in Algoritmos
  BY <1>1 DEF sinVictima, IInv, MemoriaTypeOK, TablasTypeOK, AlmacenTypeOK,
              MarcosTypeOK, almacen, marcos
<1>4. CASE terminarConError
  <2>1. EjecucionTypeOK' /\ Curso'
    BY <1>4, ErrorCurso DEF sinVictima
  <2> QED BY <1>2, <1>3, <2>1 DEF IInv, MemoriaTypeOK
<1>5. CASE /\ paso' = "caido"
           /\ UNCHANGED <<instruccion, hecho, leido, contenido_pagina, enviados,
                          es_error_o_end>>
  <2>1. EjecucionTypeOK'
    BY <1>5 DEF IInv, MemoriaTypeOK, EjecucionTypeOK, Paso
  <2>2. Curso'
    BY <1>5 DEF sinVictima, IInv, Curso, ContratoConCiclo
  <2> QED BY <1>2, <1>3, <2>1, <2>2 DEF IInv, MemoriaTypeOK
<1> QED BY <1>4, <1>5 DEF sinVictima

-----------------------------------------------------------------------------
(* The instructions of a query.                                            *)

\* What Ejecutar leaves for its callers to finish.
Ejecutada(op, n, dir, datos, total) ==
  /\ (TablasTypeOK /\ MarcosTypeOK /\ algoritmo \in Algoritmos /\ MarcosBien /\ TablasBien)'
  /\ instruccion' = [op |-> op, nombre |-> n, dir |-> dir, datos |-> datos,
                     total |-> total]
  /\ instruccion' \in [op : Operacion, nombre : Nombres, dir : Nat,
                       datos : Seq(Bytes), total : Nat]
  /\ hecho' = 0 /\ leido' \in Seq(Bytes) /\ contenido_pagina' \in Pagina
  /\ enviados = <<>> /\ ~ es_error_o_end /\ es_error_o_end \in BOOLEAN

LEMMA EjecutarInv ==
  ASSUME IInv, NEW op \in Operacion, NEW n \in Nombres, NEW dir \in Nat,
         NEW datos \in Seq(Bytes), NEW total \in Nat, NEW p,
         Ejecutar(op, n, dir, datos, total, p),
         AlmacenTypeOK',
         tabla_general' \in Seq(Nombres), ToSet(tabla_general) \subseteq ToSet(tabla_general')
  PROVE  Ejecutada(op, n, dir, datos, total)
<1>1. TablasTypeOK' /\ MarcosTypeOK' /\ algoritmo' \in Algoritmos
  BY DEF Ejecutar, IInv, MemoriaTypeOK, TablasTypeOK, MarcosTypeOK, marcos
<1>2. MarcosBien'
  BY DEF Ejecutar, marcos, IInv, MarcosBien, presentes, ocupada
<1>3. TablasBien'
  <2>1. presentes(entrada)' = presentes(entrada)
    BY DEF Ejecutar, presentes
  <2> QED BY <2>1 DEF Ejecutar, IInv, TablasBien
<1>4. ~ es_error_o_end /\ es_error_o_end \in BOOLEAN
  BY DEF Ejecutar, IInv, Curso, MemoriaTypeOK, EjecucionTypeOK
<1>5. /\ hecho' = 0 /\ leido' \in Seq(Bytes) /\ contenido_pagina' \in Pagina /\ enviados = <<>>
      /\ instruccion' = [op |-> op, nombre |-> n, dir |-> dir, datos |-> datos,
                         total |-> total]
  BY DEF Ejecutar, IInv, Curso, MemoriaTypeOK, EjecucionTypeOK
<1> QED BY <1>1, <1>2, <1>3, <1>4, <1>5 DEF Ejecutada

\* An instruction that ends in the action that starts it.
LEMMA TerminarInv ==
  ASSUME enviados = <<>>,
         instruccion' \in [op : Operacion, nombre : Nombres, dir : Nat,
                           datos : Seq(Bytes), total : Nat],
         instruccion'.op \in {"READ", "COMMIT", "DESALOJO"} =>
           instruccion'.op = "READ" /\ terminar(<<mensaje("ERROR", <<>>)>>, TRUE),
         instruccion'.dir + instruccion'.total <= MaxPaginas * TamPag,
         hecho' \in Nat, leido' \in Seq(Bytes), contenido_pagina' \in Pagina,
         terminar(<<>>, FALSE) \/ terminar(<<mensaje("ERROR", <<>>)>>, TRUE)
  PROVE  EjecucionTypeOK' /\ Curso'
<1>1. \/ enviados' = <<>> /\ es_error_o_end' = FALSE
      \/ enviados' = <<mensaje("ERROR", <<>>)>> /\ es_error_o_end' = TRUE
  <2>1. <<>> \o <<>> = <<>> /\ \A m : <<>> \o <<m>> = <<m>>
    OBVIOUS
  <2> QED BY <2>1 DEF terminar
<1>2. paso' = "hecho"
  BY DEF terminar
<1>3. mensaje("ERROR", <<>>) \in Mensaje /\ mensaje("ERROR", <<>>).tipo = "ERROR"
  BY DEF mensaje, Mensaje
<1>4. EjecucionTypeOK'
  <2>1. \A m \in Mensaje : <<m>> \in Seq(Mensaje)
    OBVIOUS
  <2>2. <<>> \in Seq(Mensaje) /\ <<mensaje("ERROR", <<>>)>> \in Seq(Mensaje)
    BY <1>3, <2>1
  <2>3. enviados' \in Seq(Mensaje)
    BY <1>1, <2>2
  <2>4. es_error_o_end' \in BOOLEAN
    BY <1>1
  <2> QED BY <1>2, <2>3, <2>4 DEF EjecucionTypeOK, Paso
<1>5. \/ tiposDe(enviados') = <<>> /\ es_error_o_end' = FALSE
      \/ tiposDe(enviados') = <<"ERROR">> /\ es_error_o_end' = TRUE
  BY <1>1, <1>3, Tipos
<1>6. ASSUME terminar(<<mensaje("ERROR", <<>>)>>, TRUE)
      PROVE  tiposDe(enviados') = <<"ERROR">> /\ es_error_o_end' = TRUE
  <2>1. es_error_o_end' = TRUE
    BY <1>6 DEF terminar
  <2> QED BY <1>5, <2>1
<1>7. ContratoConCiclo'
  BY <1>5, <1>6 DEF ContratoConCiclo
<1> QED BY <1>2, <1>4, <1>7 DEF Curso

LEMMA BuscarOCrearTabla ==
  ASSUME IInv, NEW n \in Nombres, buscarOCrearTabla(n)
  PROVE  /\ tabla_general' \in Seq(Nombres)
         /\ ToSet(tabla_general) \subseteq ToSet(tabla_general')
         /\ n \in ToSet(tabla_general')
<1>1. tabla_general \in Seq(Nombres)
  BY DEF IInv, MemoriaTypeOK, TablasTypeOK
<1> QED BY <1>1, AgregarTipo DEF buscarOCrearTabla

\* Both instructions that access pages start the same way.
LEMMA AccesoInv ==
  ASSUME IInv, NEW op \in {"WRITE", "READ"}, NEW n \in Nombres, NEW dir \in Nat,
         NEW datos \in Seq(Bytes), NEW total \in Nat \ {0},
         op = "WRITE" => total = Len(datos),
         dir + total <= MaxPaginas * TamPag,
         Ejecutar(op, n, dir, datos, total, "accediendo"), buscarOCrearTabla(n),
         UNCHANGED <<almacen, enviados, es_error_o_end>>
  PROVE  IInv'
<1>1. AlmacenTypeOK'
  BY DEF almacen, IInv, MemoriaTypeOK, AlmacenTypeOK
<1>2. /\ tabla_general' \in Seq(Nombres) /\ n \in ToSet(tabla_general')
      /\ ToSet(tabla_general) \subseteq ToSet(tabla_general')
  BY BuscarOCrearTabla
<1>3. op \in Operacion /\ total \in Nat
  BY DEF Operacion
<1>4. Ejecutada(op, n, dir, datos, total)
  BY <1>1, <1>2, <1>3, EjecutarInv
<1>5. paso' = "accediendo"
  BY DEF Ejecutar
<1>6. EjecucionTypeOK'
  BY <1>4, <1>5 DEF Ejecutada, IInv, MemoriaTypeOK, EjecucionTypeOK, Paso
<1>7. AccediendoBien'
  BY <1>2, <1>4, <1>5 DEF Ejecutada, AccediendoBien
<1>8. Curso'
  BY <1>4, <1>5, <1>7 DEF Ejecutada, Curso, ContratoConCiclo
<1> QED BY <1>1, <1>4, <1>6, <1>8 DEF Ejecutada, IInv, MemoriaTypeOK

\* An instruction with no access ends here, or goes on at paso p.
LEMMA PedidoInv ==
  ASSUME IInv, NEW op \in Operacion \ {"DESALOJO", "READ", "COMMIT"}, NEW n \in Nombres,
         Ejecutar(op, n, 0, <<>>, 0, "hecho"), AlmacenTypeOK',
         terminar(<<>>, FALSE) \/ terminar(<<mensaje("ERROR", <<>>)>>, TRUE),
         UNCHANGED tabla_general
  PROVE  IInv'
<1>1. tabla_general \in Seq(Nombres)
  BY DEF IInv, MemoriaTypeOK, TablasTypeOK
<1>2. /\ <<>> \in Seq(Bytes) /\ 0 \in Nat /\ MaxPaginas * TamPag \in Nat
      /\ op \in Operacion
      /\ tabla_general' \in Seq(Nombres)
      /\ ToSet(tabla_general) \subseteq ToSet(tabla_general')
  BY <1>1, MemoriaAssumption
<1>3. Ejecutada(op, n, 0, <<>>, 0)
  BY <1>2, EjecutarInv
<1>4. /\ instruccion'.op \notin {"READ", "COMMIT", "DESALOJO"}
      /\ instruccion'.dir + instruccion'.total <= MaxPaginas * TamPag
  BY <1>2, <1>3 DEF Ejecutada
<1>5. EjecucionTypeOK' /\ Curso'
  BY <1>3, <1>4, TerminarInv DEF Ejecutada
<1> QED BY <1>3, <1>5 DEF Ejecutada, IInv, MemoriaTypeOK

LEMMA ejecutarWriteInv ==
  ASSUME IInv, NEW n \in Nombres, ejecutarWrite(n)
  PROVE  IInv'
<1>1. PICK e \in Escrituras :
        Ejecutar("WRITE", n, e.dir, Append(e.contenido, NUL), Len(e.contenido) + 1,
                 "accediendo")
  BY DEF ejecutarWrite
<1>2. e.dir \in Nat /\ e.contenido \in Seq(Caracteres)
      /\ e.dir + Len(e.contenido) < MaxPaginas * TamPag
  BY DireccionesAssumption
<1>3. e.contenido \in Seq(Bytes) /\ NUL \in Bytes
  BY <1>2 DEF Bytes
<1>4. /\ Append(e.contenido, NUL) \in Seq(Bytes)
      /\ Len(Append(e.contenido, NUL)) = Len(e.contenido) + 1
      /\ Len(e.contenido) \in Nat
  BY <1>3
<1>5. e.dir + (Len(e.contenido) + 1) <= MaxPaginas * TamPag
  <2>1. MaxPaginas * TamPag \in Nat
    BY MemoriaAssumption
  <2> QED BY <1>2, <1>4, <2>1
<1>6. Len(e.contenido) + 1 \in Nat \ {0}
  BY <1>4
<1>7. buscarOCrearTabla(n) /\ UNCHANGED <<almacen, enviados, es_error_o_end>>
  BY DEF ejecutarWrite
<1> QED BY <1>1, <1>2, <1>4, <1>5, <1>6, <1>7, AccesoInv

LEMMA ejecutarReadInv ==
  ASSUME IInv, NEW n \in Nombres, ejecutarRead(n)
  PROVE  IInv'
<1>1. PICK l \in Lecturas :
        \/ /\ l.tam > 0
           /\ Ejecutar("READ", n, l.dir, <<>>, l.tam, "accediendo")
           /\ buscarOCrearTabla(n)
           /\ UNCHANGED <<enviados, es_error_o_end>>
        \/ /\ l.tam <= 0
           /\ Ejecutar("READ", n, l.dir, <<>>, 0, "hecho")
           /\ terminar(<<mensaje("ERROR", <<>>)>>, TRUE)
           /\ UNCHANGED tabla_general
  BY DEF ejecutarRead
<1>2. l.dir \in Nat /\ l.tam \in Int /\ l.dir + l.tam <= MaxPaginas * TamPag
      /\ l.dir < MaxPaginas * TamPag /\ <<>> \in Seq(Bytes) /\ UNCHANGED almacen
  BY DireccionesAssumption DEF ejecutarRead
<1>3. CASE l.tam > 0
  <2>1. /\ Ejecutar("READ", n, l.dir, <<>>, l.tam, "accediendo")
        /\ buscarOCrearTabla(n)
        /\ UNCHANGED <<almacen, enviados, es_error_o_end>>
    <3>1. ~ l.tam <= 0
      BY <1>2, <1>3
    <3> QED BY <1>1, <1>2, <3>1, Zenon DEF almacen
  <2>2. l.tam \in Nat \ {0}
    BY <1>2, <1>3
  <2> QED BY <1>2, <2>1, <2>2, AccesoInv
<1>4. CASE ~ l.tam > 0
  <2>1. /\ Ejecutar("READ", n, l.dir, <<>>, 0, "hecho")
        /\ terminar(<<mensaje("ERROR", <<>>)>>, TRUE)
        /\ UNCHANGED tabla_general
    BY <1>1, <1>2, <1>4
  <2>2. /\ AlmacenTypeOK' /\ "READ" \in Operacion /\ 0 \in Nat
        /\ tabla_general' \in Seq(Nombres)
        /\ ToSet(tabla_general) \subseteq ToSet(tabla_general')
    BY <1>2, <2>1 DEF almacen, IInv, MemoriaTypeOK, AlmacenTypeOK, TablasTypeOK, Operacion
  <2>3. Ejecutada("READ", n, l.dir, <<>>, 0)
    BY <1>2, <2>1, <2>2, EjecutarInv
  <2>4. /\ instruccion'.op = "READ" /\ hecho' \in Nat
        /\ instruccion'.dir + instruccion'.total <= MaxPaginas * TamPag
    <3>1. MaxPaginas * TamPag \in Nat
      BY MemoriaAssumption
    <3> QED BY <1>2, <2>3, <3>1 DEF Ejecutada
  <2>5. EjecucionTypeOK' /\ Curso'
    BY <2>1, <2>3, <2>4, TerminarInv DEF Ejecutada
  <2> QED BY <2>2, <2>3, <2>5 DEF Ejecutada, IInv, MemoriaTypeOK
<1> QED BY <1>3, <1>4

LEMMA SinCambioEnStorage ==
  ASSUME IInv, UNCHANGED almacen
  PROVE  AlmacenTypeOK'
  BY DEF almacen, IInv, MemoriaTypeOK, AlmacenTypeOK

\* The three instructions that are one request.
LEMMA pedirAStorageInv ==
  ASSUME IInv, NEW op \in {"CREATE", "TRUNCATE", "TAG"}, NEW n \in Nombres,
         Ejecutar(op, n, 0, <<>>, 0, "hecho"), AlmacenTypeOK',
         terminar(<<>>, FALSE) \/ terminar(<<mensaje("ERROR", <<>>)>>, TRUE),
         UNCHANGED tabla_general
  PROVE  IInv'
<1>1. op \in Operacion \ {"DESALOJO", "READ", "COMMIT"}
  BY DEF Operacion
<1> QED BY <1>1, PedidoInv

LEMMA ejecutarCreateInv ==
  ASSUME IInv, NEW n \in Nombres, ejecutarCreate(n)
  PROVE  IInv'
<1>1. /\ Ejecutar("CREATE", n, 0, <<>>, 0, "hecho")
      /\ \/ FS!Crear(n) /\ terminar(<<>>, FALSE)
         \/ terminar(<<mensaje("ERROR", <<>>)>>, TRUE) /\ UNCHANGED almacen
      /\ UNCHANGED tabla_general
  BY DEF ejecutarCreate, pedirAStorage
<1>2. AlmacenTypeOK'
  BY <1>1, CrearTipo, SinCambioEnStorage DEF IInv, MemoriaTypeOK
<1> QED BY <1>1, <1>2, pedirAStorageInv

LEMMA ejecutarTruncateInv ==
  ASSUME IInv, NEW n \in Nombres, ejecutarTruncate(n)
  PROVE  IInv'
<1>1. /\ Ejecutar("TRUNCATE", n, 0, <<>>, 0, "hecho")
      /\ \/ /\ \/ \E k \in 1 .. MaxBloques - Len(archivos[n].bloques) : FS!Agrandar(n, k)
               \/ FS!Achicar(n)
            /\ terminar(<<>>, FALSE)
         \/ terminar(<<mensaje("ERROR", <<>>)>>, TRUE) /\ UNCHANGED almacen
      /\ UNCHANGED tabla_general
  BY DEF ejecutarTruncate, pedirAStorage
<1>2. AlmacenTypeOK'
  <2>1. CASE \E k \in 1 .. MaxBloques - Len(archivos[n].bloques) : FS!Agrandar(n, k)
    <3>1. PICK k \in 1 .. MaxBloques - Len(archivos[n].bloques) : FS!Agrandar(n, k)
      BY <2>1
    <3>2. archivos[n].bloques \in Seq(Bloque)
      BY <3>1 DEF FS!Agrandar, FS!EnProgreso, IInv, MemoriaTypeOK, AlmacenTypeOK
    <3>3. k \in Nat
      BY <3>2, MemoriaAssumption
    <3> QED BY <3>1, <3>3, AgrandarTipo DEF IInv, MemoriaTypeOK
  <2>2. CASE FS!Achicar(n)
    BY <2>2, AchicarTipo DEF IInv, MemoriaTypeOK
  <2> QED BY <1>1, <2>1, <2>2, SinCambioEnStorage
<1> QED BY <1>1, <1>2, pedirAStorageInv

LEMMA ejecutarTagInv ==
  ASSUME IInv, NEW n \in Nombres, ejecutarTag(n)
  PROVE  IInv'
<1>1. PICK d \in Nombres :
      /\ Ejecutar("TAG", n, 0, <<>>, 0, "hecho")
      /\ \/ FS!Copiar(n, d) /\ terminar(<<>>, FALSE)
         \/ terminar(<<mensaje("ERROR", <<>>)>>, TRUE) /\ UNCHANGED almacen
      /\ UNCHANGED tabla_general
  BY DEF ejecutarTag, pedirAStorage
<1>2. AlmacenTypeOK'
  BY <1>1, CopiarTipo, SinCambioEnStorage DEF IInv, MemoriaTypeOK
<1> QED BY <1>1, <1>2, pedirAStorageInv

LEMMA ejecutarFlushInv ==
  ASSUME IInv, NEW n \in Nombres, ejecutarFlush(n)
  PROVE  IInv'
<1>1. PICK op \in {"FLUSH", "COMMIT"} : Ejecutar(op, n, 0, <<>>, 0, "flusheando")
  BY DEF ejecutarFlush
<1>2. UNCHANGED <<almacen, tabla_general, enviados, es_error_o_end>>
  BY DEF ejecutarFlush
<1>3. AlmacenTypeOK'
  BY <1>2, SinCambioEnStorage
<1>4. /\ <<>> \in Seq(Bytes) /\ 0 \in Nat /\ MaxPaginas * TamPag \in Nat
      /\ op \in Operacion
      /\ tabla_general' \in Seq(Nombres)
      /\ ToSet(tabla_general) \subseteq ToSet(tabla_general')
  BY <1>2, MemoriaAssumption DEF IInv, MemoriaTypeOK, TablasTypeOK, Operacion
<1>5. Ejecutada(op, n, 0, <<>>, 0)
  BY <1>1, <1>3, <1>4, EjecutarInv
<1>6. paso' = "flusheando"
  BY <1>1 DEF Ejecutar
<1>7. EjecucionTypeOK'
  BY <1>2, <1>5, <1>6 DEF Ejecutada, IInv, MemoriaTypeOK, EjecucionTypeOK, Paso
<1>8. Curso'
  BY <1>2, <1>4, <1>5, <1>6 DEF Ejecutada, Curso, ContratoConCiclo
<1> QED BY <1>3, <1>5, <1>7, <1>8 DEF Ejecutada, IInv, MemoriaTypeOK

\* The order of use of what DELETE leaves.
LEMMA OrdenRestringido ==
  ASSUME NEW R, NEW P, ordena(R, P), NEW Q, Q \subseteq P, NEW T, T \subseteq Q \X Q,
         \A x, y \in Q : <<x, y>> \in T <=> <<x, y>> \in R
  PROVE  ordena(T, Q)
  BY DEF ordena

LEMMA ejecutarDeleteInv ==
  ASSUME IInv, NEW n \in Nombres, ejecutarDelete(n)
  PROVE  IInv'
<1>1. /\ paso = "libre" /\ instruccion' = [Ninguna EXCEPT !.op = "DELETE", !.nombre = n]
      /\ enviados = <<>> /\ ~ es_error_o_end /\ es_error_o_end \in BOOLEAN
      /\ UNCHANGED <<algoritmo, ptr_gb, marcos, hecho, leido, contenido_pagina>>
  BY DEF ejecutarDelete, IInv, Curso, MemoriaTypeOK, EjecucionTypeOK
<1>2. /\ instruccion' = [op |-> "DELETE", nombre |-> n, dir |-> 0, datos |-> <<>>, total |-> 0]
      /\ instruccion' \in [op : Operacion, nombre : Nombres, dir : Nat,
                           datos : Seq(Bytes), total : Nat]
      /\ instruccion'.op = "DELETE"
      /\ instruccion'.dir + instruccion'.total <= MaxPaginas * TamPag
  <2>1. <<>> \in Seq(Bytes) /\ 0 \in Nat /\ MaxPaginas * TamPag \in Nat
    BY MemoriaAssumption
  <2>2. instruccion' = [op |-> "DELETE", nombre |-> n, dir |-> 0, datos |-> <<>>, total |-> 0]
    BY <1>1 DEF Ninguna
  <2>3. "DELETE" \in Operacion
    BY DEF Operacion
  <2>4. instruccion' \in [op : Operacion, nombre : Nombres, dir : Nat,
                          datos : Seq(Bytes), total : Nat]
    BY <2>1, <2>2, <2>3
  <2>5. instruccion'.dir + instruccion'.total <= MaxPaginas * TamPag
    BY <2>1, <2>2
  <2> QED BY <2>2, <2>4, <2>5
<1>3. /\ MarcosTypeOK' /\ algoritmo' \in Algoritmos
      /\ hecho' \in Nat /\ leido' \in Seq(Bytes) /\ contenido_pagina' \in Pagina
  BY <1>1 DEF marcos, IInv, MemoriaTypeOK, MarcosTypeOK, EjecucionTypeOK
<1>4. ASSUME terminar(<<>>, FALSE) \/ terminar(<<mensaje("ERROR", <<>>)>>, TRUE)
      PROVE  EjecucionTypeOK' /\ Curso'
  BY <1>1, <1>2, <1>3, <1>4, TerminarInv
<1>5. ASSUME UNCHANGED <<tabla_general, paginas, entrada, usada_antes>>
      PROVE  TablasTypeOK' /\ MarcosBien' /\ TablasBien'
  BY <1>1, <1>5 DEF IInv, MemoriaTypeOK, TablasTypeOK, marcos, MarcosBien, TablasBien,
                    presentes, ocupada
<1>6. CASE /\ FS!Eliminar(n) /\ n \in ToSet(tabla_general)
           /\ tabla_general' = RemoveAt(tabla_general, IndiceDe(tabla_general, n))
           /\ paginas' = [paginas EXCEPT ![n] = <<>>]
           /\ entrada' = [x \in Pares |-> IF x[1] = n THEN crearEntradaPagina ELSE entrada[x]]
           /\ usada_antes' = {r \in usada_antes : r[1][1] # n /\ r[2][1] # n}
           /\ terminar(<<>>, FALSE)
  <2>1. AlmacenTypeOK'
    BY <1>6, EliminarTipo DEF IInv, MemoriaTypeOK
  <2>2. /\ tabla_general' \in Seq(Nombres)
        /\ \A m \in ToSet(tabla_general) : m # n => m \in ToSet(tabla_general')
    <3>1. tabla_general \in Seq(Nombres)
      BY DEF IInv, MemoriaTypeOK, TablasTypeOK
    <3>2. /\ IndiceDe(tabla_general, n) \in 1 .. Len(tabla_general)
          /\ tabla_general[IndiceDe(tabla_general, n)] = n
      BY <1>6, <3>1, IndiceEnLista
    <3> QED BY <1>6, <3>1, <3>2, QuitarDeLista
  <2>3. /\ paginas' \in [Nombres -> Seq(Paginas)]
        /\ \A m \in Nombres : m # n => paginas'[m] = paginas[m]
    <3>1. <<>> \in Seq(Paginas) /\ paginas \in [Nombres -> Seq(Paginas)]
      BY DEF IInv, MemoriaTypeOK, TablasTypeOK
    <3> QED BY <1>6, <3>1
  <2>4. crearEntradaPagina \in Entrada /\ ~ crearEntradaPagina.bit_presencia
        /\ ~ crearEntradaPagina.bit_modificado
    BY DEF crearEntradaPagina, Entrada
  <2>5. /\ entrada' \in [Pares -> Entrada]
        /\ \A x \in Pares : x[1] = n => entrada'[x] = crearEntradaPagina
        /\ \A x \in Pares : x[1] # n => entrada'[x] = entrada[x]
    BY <1>6, <2>4 DEF IInv, MemoriaTypeOK, TablasTypeOK
  <2>6. /\ \A x \in Pares : x[1] = n => x \notin presentes(entrada')
        /\ \A x \in Pares : x[1] # n => (x \in presentes(entrada') <=> x \in presentes(entrada))
        /\ presentes(entrada') \subseteq Pares /\ presentes(entrada) \subseteq Pares
    BY <2>4, <2>5 DEF presentes
  <2>7. MarcosBien'
    <3>1. MarcosDe(entrada, bitMap) /\ bitMap' = bitMap
      BY <1>1, MarcosDefinicion DEF IInv, marcos
    <3>2. \A x, y \in presentes(entrada') :
            entrada'[x].nro_frame = entrada'[y].nro_frame => x = y
      BY <2>5, <2>6, <3>1 DEF MarcosDe, presentes
    <3>3. \A x \in Pares : /\ entrada'[x].bit_presencia => entrada'[x].nro_frame \in bitMap'
                           /\ entrada'[x].bit_modificado => entrada'[x].bit_presencia
      BY <2>4, <2>5, <3>1 DEF MarcosDe
    <3> QED BY <3>2, <3>3 DEF MarcosBien, ocupada
  <2>8. TablasBien'
    <3>1. ASSUME NEW x \in presentes(entrada')
          PROVE  x[1] \in ToSet(tabla_general') /\ x[2] \in ToSet(paginas'[x[1]])
      <4>1. x \in Pares /\ x \in presentes(entrada) /\ x[1] # n /\ x[1] \in Nombres
        BY <2>6, <3>1 DEF Pares
      <4>2. x[1] \in ToSet(tabla_general) /\ x[2] \in ToSet(paginas[x[1]])
        BY <4>1 DEF IInv, TablasBien
      <4> QED BY <2>2, <2>3, <4>1, <4>2
    <3>2. ASSUME algoritmo = "LRU" PROVE ordena(usada_antes', presentes(entrada'))
      <4>1. ordena(usada_antes, presentes(entrada))
        BY <3>2 DEF IInv, TablasBien
      <4>2. /\ presentes(entrada') \subseteq presentes(entrada)
            /\ \A x \in presentes(entrada) : x \in presentes(entrada') <=> x[1] # n
        BY <2>6
      <4>3. usada_antes' = {r \in usada_antes : r[1][1] # n /\ r[2][1] # n}
        BY <1>6
      <4>4. \A x, y \in presentes(entrada') :
              <<x, y>> \in usada_antes' <=> <<x, y>> \in usada_antes
        BY <2>6, <4>3
      <4>5. usada_antes' \subseteq presentes(entrada') \X presentes(entrada')
        <5>1. SUFFICES ASSUME NEW r \in usada_antes'
                       PROVE  r \in presentes(entrada') \X presentes(entrada')
          OBVIOUS
        <5>2. PICK x \in presentes(entrada), y \in presentes(entrada) : r = <<x, y>>
          BY <4>1, <4>3 DEF ordena
        <5> QED BY <4>2, <4>3, <5>2
      <4> QED BY <4>1, <4>2, <4>4, <4>5, OrdenRestringido
    <3>3. algoritmo' = algoritmo
      BY <1>1
    <3> QED BY <3>1, <3>2, <3>3 DEF TablasBien
  <2>9. TablasTypeOK'
    BY <1>1, <1>6, <2>2, <2>3, <2>5 DEF IInv, MemoriaTypeOK, TablasTypeOK
  <2>10. EjecucionTypeOK' /\ Curso'
    BY <1>4, <1>6
  <2> QED BY <1>3, <2>1, <2>7, <2>8, <2>9, <2>10 DEF IInv, MemoriaTypeOK
<1>7. CASE /\ FS!Eliminar(n) /\ paso' = "caido"
           /\ UNCHANGED <<tabla_general, paginas, entrada, usada_antes, enviados,
                          es_error_o_end>>
  <2>1. AlmacenTypeOK'
    BY <1>7, EliminarTipo DEF IInv, MemoriaTypeOK
  <2>2. enviados' = <<>> /\ ~ es_error_o_end' /\ es_error_o_end' \in BOOLEAN
    BY <1>1, <1>7
  <2>3. EjecucionTypeOK'
    BY <1>1, <1>2, <1>3, <1>7, <2>2
       DEF IInv, MemoriaTypeOK, EjecucionTypeOK, Paso
  <2>4. Curso'
    BY <1>2, <1>7, <2>2 DEF Curso, ContratoConCiclo
  <2> QED BY <1>3, <1>5, <1>7, <2>1, <2>3, <2>4 DEF IInv, MemoriaTypeOK
<1>8. CASE /\ terminar(<<mensaje("ERROR", <<>>)>>, TRUE)
           /\ UNCHANGED <<almacen, tabla_general, paginas, entrada, usada_antes>>
  <2>1. AlmacenTypeOK'
    BY <1>8, SinCambioEnStorage
  <2> QED BY <1>3, <1>4, <1>5, <1>8, <2>1 DEF IInv, MemoriaTypeOK
<1> QED BY <1>6, <1>7, <1>8 DEF ejecutarDelete

-----------------------------------------------------------------------------
(* Write-back, the end of an instruction and the other workers.            *)

LEMMA AFlushear ==
  ASSUME IInv, NEW x \in obtenerEntradasAFlushear
  PROVE  x \in Pares /\ x \in presentes(entrada) /\ x[1] \in Nombres
         /\ entrada[x].nro_frame \in Frames /\ aBloque(paginaDe(x)) \in Bloque
<1>1. x \in Pares /\ x \in presentes(entrada) /\ x[1] \in Nombres
  BY DEF obtenerEntradasAFlushear, IInv, MarcosBien, ocupada, presentes, Pares
<1> QED BY <1>1, PaginaABloque DEF IInv, MemoriaTypeOK, paginaDe

\* A flush that ends: COMMIT goes on, FLUSH and the preemption do not.
LEMMA trasElFlushInv ==
  ASSUME IInv, paso = "flusheando",
         trasElFlush(<<>>, FALSE) \/ trasElFlush(<<mensaje("ERROR", <<>>)>>, TRUE),
         UNCHANGED <<instruccion, hecho, leido, contenido_pagina>>
  PROVE  EjecucionTypeOK' /\ Curso'
<1>1. /\ enviados = <<>> /\ ~ es_error_o_end /\ es_error_o_end \in BOOLEAN
      /\ instruccion.op \in {"FLUSH", "COMMIT", "DESALOJO"}
      /\ instruccion.dir + instruccion.total <= MaxPaginas * TamPag
  BY DEF IInv, Curso, MemoriaTypeOK, EjecucionTypeOK
<1>2. <<>> \o <<>> = <<>> /\ \A m : <<>> \o <<m>> = <<m>>
  OBVIOUS
<1>3. enviados' \in {<<>>, <<mensaje("ERROR", <<>>)>>}
  BY <1>1, <1>2 DEF trasElFlush, terminar
<1>4. enviados' \in Seq(Mensaje)
  <2>1. mensaje("ERROR", <<>>) \in Mensaje
    BY DEF mensaje, Mensaje
  <2>2. \A m \in Mensaje : <<m>> \in Seq(Mensaje)
    OBVIOUS
  <2>3. <<>> \in Seq(Mensaje) /\ <<mensaje("ERROR", <<>>)>> \in Seq(Mensaje)
    BY <2>1, <2>2
  <2> QED BY <1>3, <2>3
<1>5. CASE instruccion.op = "COMMIT"
  <2>1. paso' = "commiteando" /\ ~ es_error_o_end' /\ es_error_o_end' \in BOOLEAN
    BY <1>1, <1>5 DEF trasElFlush
  <2>2. EjecucionTypeOK'
    BY <1>4, <2>1 DEF IInv, MemoriaTypeOK, EjecucionTypeOK, Paso
  <2>3. Curso'
    BY <1>1, <1>3, <1>5, <2>1 DEF Curso, ContratoConCiclo, mensaje
  <2> QED BY <2>2, <2>3
<1>6. CASE instruccion.op # "COMMIT"
  <2>1. \/ enviados' = <<>> /\ es_error_o_end' = FALSE
        \/ enviados' = <<mensaje("ERROR", <<>>)>> /\ es_error_o_end' = TRUE
    BY <1>1, <1>2, <1>6 DEF trasElFlush, terminar
  <2>2. paso' = "hecho"
    BY <1>6 DEF trasElFlush, terminar
  <2>3. EjecucionTypeOK'
    BY <1>4, <2>1, <2>2 DEF IInv, MemoriaTypeOK, EjecucionTypeOK, Paso
  <2>4. mensaje("ERROR", <<>>).tipo = "ERROR"
    BY DEF mensaje
  <2>5. \/ tiposDe(enviados') = <<>> /\ es_error_o_end' = FALSE
        \/ tiposDe(enviados') = <<"ERROR">> /\ es_error_o_end' = TRUE
    BY <2>1, <2>4, Tipos
  <2>6. ContratoConCiclo'
    BY <1>1, <1>6, <2>5 DEF ContratoConCiclo
  <2> QED BY <1>1, <2>2, <2>3, <2>6 DEF Curso
<1> QED BY <1>5, <1>6

LEMMA flushearEntradaInv ==
  ASSUME IInv, flushearEntrada
  PROVE  IInv'
<1>1. PICK x \in primeraAFlushear :
       \/ /\ escribirEnStorage(x)
          /\ entrada' = [entrada EXCEPT ![x].bit_modificado = FALSE]
          /\ UNCHANGED <<paso, enviados, es_error_o_end>>
       \/ /\ trasElFlush(<<mensaje("ERROR", <<>>)>>, TRUE)
          /\ UNCHANGED <<almacen, entrada>>
  BY DEF flushearEntrada
<1>2. x \in Pares /\ x[1] \in Nombres /\ aBloque(memoria[entrada[x].nro_frame]) \in Bloque
  BY AFlushear DEF primeraAFlushear, paginaDe
<1>3. /\ paso = "flusheando"
      /\ UNCHANGED <<algoritmo, tabla_general, paginas, usada_antes, ptr_gb, bitMap, memoria,
                     instruccion, hecho, leido, contenido_pagina>>
  BY DEF flushearEntrada, marcos
<1>4. CASE /\ escribirEnStorage(x)
           /\ entrada' = [entrada EXCEPT ![x].bit_modificado = FALSE]
           /\ UNCHANGED <<paso, enviados, es_error_o_end>>
  <2>1. AlmacenTypeOK'
    BY <1>2, <1>4, EscribirTipo DEF escribirEnStorage, IInv, MemoriaTypeOK
  <2>2. /\ entrada' \in [Pares -> Entrada]
        /\ \A y \in Pares : /\ entrada'[y].nro_frame = entrada[y].nro_frame
                            /\ entrada'[y].bit_presencia <=> entrada[y].bit_presencia
                            /\ entrada'[y].bit_modificado => entrada[y].bit_modificado
    <3>1. entrada[x] \in Entrada /\ entrada \in [Pares -> Entrada]
      BY <1>2 DEF IInv, MemoriaTypeOK, TablasTypeOK
    <3> DEFINE e == [entrada[x] EXCEPT !.bit_modificado = FALSE]
    <3>2. /\ e \in Entrada /\ e.nro_frame = entrada[x].nro_frame
          /\ e.bit_presencia <=> entrada[x].bit_presencia
          /\ ~ e.bit_modificado
      BY <3>1 DEF Entrada
    <3>3. entrada' = [entrada EXCEPT ![x] = e]
      BY <1>4
    <3> HIDE DEF e
    <3>4. entrada' \in [Pares -> Entrada] /\ entrada'[x] = e
      BY <1>2, <3>1, <3>2, <3>3
    <3>5. \A y \in Pares : y # x => entrada'[y] = entrada[y]
      BY <3>1, <3>3
    <3> QED BY <3>2, <3>4, <3>5
  <2>3. presentes(entrada') = presentes(entrada)
    BY <2>2, Zenon DEF presentes
  <2>4. MarcosBien'
    <3>1. MarcosDe(entrada, bitMap)
      BY MarcosDefinicion DEF IInv
    <3>2. MarcosDe(entrada', bitMap)
      BY <2>2, <3>1 DEF MarcosDe
    <3> QED BY <1>3, <3>2 DEF MarcosBien, MarcosDe, presentes, ocupada
  <2>5. TablasBien'
    BY <1>3, <2>3 DEF IInv, TablasBien
  <2>6. TablasTypeOK' /\ MarcosTypeOK' /\ EjecucionTypeOK' /\ algoritmo' \in Algoritmos
    BY <1>3, <1>4, <2>2
       DEF IInv, MemoriaTypeOK, TablasTypeOK, MarcosTypeOK, EjecucionTypeOK
  <2>7. Curso'
    BY <1>3, <1>4 DEF IInv, Curso, ContratoConCiclo
  <2> QED BY <2>1, <2>4, <2>5, <2>6, <2>7 DEF IInv, MemoriaTypeOK
<1>5. CASE /\ trasElFlush(<<mensaje("ERROR", <<>>)>>, TRUE)
           /\ UNCHANGED <<almacen, entrada>>
  <2>1. EjecucionTypeOK' /\ Curso'
    BY <1>3, <1>5, trasElFlushInv
  <2>2. AlmacenTypeOK'
    BY <1>5, SinCambioEnStorage
  <2>3. MarcosBien' /\ TablasBien' /\ TablasTypeOK' /\ MarcosTypeOK' /\ algoritmo' \in Algoritmos
    BY <1>3, <1>5 DEF IInv, MarcosBien, TablasBien, presentes, ocupada, MemoriaTypeOK,
                      TablasTypeOK, MarcosTypeOK
  <2> QED BY <2>1, <2>2, <2>3 DEF IInv, MemoriaTypeOK
<1> QED BY <1>1, <1>4, <1>5

\* Steps that change no table and no frame.
LEMMA SinCambioEnMemoria ==
  ASSUME IInv, UNCHANGED <<algoritmo, tablas, marcos>>
  PROVE  /\ MarcosBien' /\ TablasBien' /\ TablasTypeOK' /\ MarcosTypeOK'
         /\ algoritmo' \in Algoritmos
<1>1. UNCHANGED <<algoritmo, tabla_general, paginas, entrada, usada_antes, ptr_gb,
                  bitMap, memoria>>
  BY DEF tablas, marcos
<1> QED BY <1>1 DEF IInv, MarcosBien, TablasBien, presentes, ocupada, MemoriaTypeOK,
                    TablasTypeOK, MarcosTypeOK

LEMMA finDelFlushInv ==
  ASSUME IInv, finDelFlush
  PROVE  IInv'
<1>1. EjecucionTypeOK' /\ Curso'
  BY trasElFlushInv DEF finDelFlush
<1>2. AlmacenTypeOK'
  BY SinCambioEnStorage DEF finDelFlush
<1> QED BY <1>1, <1>2, SinCambioEnMemoria DEF finDelFlush, IInv, MemoriaTypeOK

LEMMA ejecutarCommitInv ==
  ASSUME IInv, ejecutarCommit
  PROVE  IInv'
<1> DEFINE n == instruccion.nombre
           error == mensaje("ERROR", <<>>)
<1>1. /\ paso = "commiteando" /\ enviados \in {<<>>, <<error>>}
      /\ instruccion.op = "COMMIT" /\ n \in Nombres
      /\ instruccion.dir + instruccion.total <= MaxPaginas * TamPag
      /\ UNCHANGED <<algoritmo, tablas, marcos, instruccion, hecho, leido, contenido_pagina>>
  BY DEF ejecutarCommit, IInv, Curso, MemoriaTypeOK, EjecucionTypeOK
<1>2. AlmacenTypeOK'
  BY <1>1, CommitearTipo, SinCambioEnStorage DEF ejecutarCommit, IInv, MemoriaTypeOK
<1>3. /\ paso' = "hecho"
      /\ \/ enviados' = enviados \o <<>> /\ es_error_o_end' = FALSE
         \/ enviados' = enviados \o <<error>> /\ es_error_o_end' = TRUE
  BY DEF ejecutarCommit, terminar
<1>4. error \in Mensaje /\ error.tipo = "ERROR"
  BY DEF mensaje, Mensaje
<1> HIDE DEF error
<1>5. \/ enviados' = <<>> /\ es_error_o_end' = FALSE
      \/ enviados' = <<error>> /\ es_error_o_end' = FALSE
      \/ enviados' = <<error>> /\ es_error_o_end' = TRUE
      \/ enviados' = <<error, error>> /\ es_error_o_end' = TRUE
  <2>1. /\ <<>> \o <<>> = <<>> /\ <<>> \o <<error>> = <<error>>
        /\ <<error>> \o <<>> = <<error>> /\ <<error>> \o <<error>> = <<error, error>>
    <3>1. <<error>> \o <<error>> = <<error, error>>
      <4>1. <<error>> \in Seq({error}) /\ <<error, error>> \in Seq({error})
        OBVIOUS
      <4>2. <<error>> \o <<error>> \in Seq({error}) /\ Len(<<error>> \o <<error>>) = 2
        BY <4>1
      <4>3. (<<error>> \o <<error>>)[1] = error /\ (<<error>> \o <<error>>)[2] = error
        BY <4>1
      <4>4. Len(<<error, error>>) = 2 /\ <<error, error>>[1] = error /\ <<error, error>>[2] = error
        OBVIOUS
      <4>5. \A i \in 1 .. 2 : i = 1 \/ i = 2
        OBVIOUS
      <4> QED BY <4>1, <4>2, <4>3, <4>4, <4>5, SeqEqual
    <3>2. \A m : <<>> \o <<m>> = <<m>> /\ <<m>> \o <<>> = <<m>>
      OBVIOUS
    <3>3. <<>> \o <<>> = <<>>
      OBVIOUS
    <3> QED BY <3>1, <3>2, <3>3
  <2>2. CASE enviados = <<>>
    BY <1>3, <2>1, <2>2
  <2>3. CASE enviados = <<error>>
    BY <1>3, <2>1, <2>3
  <2> QED BY <1>1, <2>2, <2>3
<1>6. EjecucionTypeOK'
  <2>1. \A m \in Mensaje : <<m>> \in Seq(Mensaje) /\ <<m, m>> \in Seq(Mensaje)
                           /\ <<>> \in Seq(Mensaje)
    OBVIOUS
  <2>2. enviados' \in Seq(Mensaje)
    BY <1>4, <1>5, <2>1
  <2> QED BY <1>1, <1>3, <2>2 DEF IInv, MemoriaTypeOK, EjecucionTypeOK, Paso
<1>7. \/ tiposDe(enviados') = <<>> /\ es_error_o_end' = FALSE
      \/ tiposDe(enviados') = <<"ERROR">> /\ es_error_o_end' = FALSE
      \/ tiposDe(enviados') = <<"ERROR">> /\ es_error_o_end' = TRUE
      \/ tiposDe(enviados') = <<"ERROR", "ERROR">> /\ es_error_o_end' = TRUE
  BY <1>4, <1>5, Tipos
<1>8. ContratoConCiclo'
  BY <1>1, <1>7 DEF ContratoConCiclo
<1>9. Curso'
  BY <1>1, <1>3, <1>8 DEF Curso
<1> QED BY <1>1, <1>2, <1>6, <1>9, SinCambioEnMemoria DEF IInv, MemoriaTypeOK

LEMMA siguienteInv ==
  ASSUME IInv, siguiente \/ gestionarCheckInterrupt
  PROVE  IInv'
<1>1. limpiar
  BY DEF siguiente, gestionarCheckInterrupt
<1>2. AlmacenTypeOK' /\ contenido_pagina' \in Pagina
  BY <1>1, SinCambioEnStorage DEF limpiar, IInv, MemoriaTypeOK, EjecucionTypeOK
<1>3. \/ paso' = "libre" /\ instruccion' = Ninguna
      \/ paso' = "flusheando" /\ instruccion' = [Ninguna EXCEPT !.op = "DESALOJO"]
  BY DEF siguiente, gestionarCheckInterrupt
<1>4. /\ instruccion' \in [op : Operacion, nombre : Nombres, dir : Nat,
                           datos : Seq(Bytes), total : Nat]
      /\ instruccion'.dir = 0 /\ instruccion'.total = 0
      /\ paso' = "flusheando" => instruccion'.op = "DESALOJO"
  <2>1. <<>> \in Seq(Bytes) /\ 0 \in Nat /\ Inicial \in Nombres
    BY MemoriaAssumption
  <2>2. \/ /\ paso' = "libre"
           /\ instruccion' = [op |-> "NINGUNA", nombre |-> Inicial, dir |-> 0,
                              datos |-> <<>>, total |-> 0]
        \/ instruccion' = [op |-> "DESALOJO", nombre |-> Inicial, dir |-> 0,
                           datos |-> <<>>, total |-> 0]
    BY <1>3 DEF Ninguna
  <2>3. "NINGUNA" \in Operacion /\ "DESALOJO" \in Operacion
    BY DEF Operacion
  <2>4. /\ instruccion'.dir = 0 /\ instruccion'.total = 0
        /\ paso' = "flusheando" => instruccion'.op = "DESALOJO"
    BY <2>2
  <2>5. instruccion' \in [op : Operacion, nombre : Nombres, dir : Nat,
                          datos : Seq(Bytes), total : Nat]
    <3>1. \A op \in Operacion :
            [op |-> op, nombre |-> Inicial, dir |-> 0, datos |-> <<>>, total |-> 0]
              \in [op : Operacion, nombre : Nombres, dir : Nat, datos : Seq(Bytes), total : Nat]
      BY <2>1
    <3> QED BY <2>2, <2>3, <3>1, Zenon
  <2> QED BY <2>4, <2>5
<1>5. hecho' = 0 /\ leido' = <<>> /\ enviados' = <<>> /\ es_error_o_end' = FALSE
  BY <1>1 DEF limpiar
<1>6. EjecucionTypeOK'
  <2>1. leido' \in Seq(Bytes) /\ enviados' \in Seq(Mensaje)
    BY <1>5
  <2> QED BY <1>2, <1>3, <1>4, <1>5, <2>1 DEF EjecucionTypeOK, Paso
<1>7. 0 + 0 <= MaxPaginas * TamPag
  <2>1. MaxPaginas * TamPag \in Nat
    BY MemoriaAssumption
  <2> QED BY <2>1
<1>8. Curso'
  BY <1>3, <1>4, <1>5, <1>7 DEF Curso, ContratoConCiclo
<1> QED BY <1>1, <1>2, <1>6, <1>8, SinCambioEnMemoria DEF limpiar, IInv, MemoriaTypeOK

LEMMA otroWorkerInv ==
  ASSUME IInv, NEW n \in Nombres, otroWorker(n)
  PROVE  IInv'
<1>1. AlmacenTypeOK'
  BY EscribirTipo, CommitearTipo, EliminarTipo DEF otroWorker, IInv, MemoriaTypeOK
<1>2. EjecucionTypeOK'
  BY DEF otroWorker, ejecucion, IInv, MemoriaTypeOK, EjecucionTypeOK
<1>3. Curso'
  BY DEF otroWorker, ejecucion, tablas, IInv, Curso, AccediendoBien, ContratoConCiclo,
         pag_actual
<1> QED BY <1>1, <1>2, <1>3, SinCambioEnMemoria DEF otroWorker, IInv, MemoriaTypeOK

-----------------------------------------------------------------------------
(* The theorems.                                                           *)

LEMMA IniciarMemoria == Init => IInv
<1> SUFFICES ASSUME Init PROVE IInv
  OBVIOUS
<1>1. AlmacenTypeOK
  <2>1. Inicial \in Nombres
    BY MemoriaAssumption
  <2>2. <<CERO>> \in Seq(Bloque)
    BY CeroEsBloque
  <2> QED BY <2>1, <2>2 DEF Init, FS!Init, AlmacenTypeOK, FS!Estado
<1>2. presentes(entrada) = {}
  BY DEF Init, presentes, crearEntradaPagina
<1>3. TablasTypeOK
  BY DEF Init, TablasTypeOK, crearEntradaPagina, Entrada
<1>4. MarcosTypeOK
  BY CeroEsBloque DEF Init, MarcosTypeOK
<1>5. EjecucionTypeOK
  <2>1. <<>> \in Seq(Bytes) /\ <<>> \in Seq(Mensaje)
    OBVIOUS
  <2>2. Inicial \in Nombres
    BY MemoriaAssumption
  <2> QED BY <2>1, <2>2, CeroEsBloque DEF Init, EjecucionTypeOK, Ninguna, Operacion, Paso
<1>6. Curso
  <2>1. 0 + 0 <= MaxPaginas * TamPag
    <3>1. MaxPaginas * TamPag \in Nat
      BY MemoriaAssumption
    <3> QED BY <3>1
  <2> QED BY <2>1 DEF Init, Curso, ContratoConCiclo, Ninguna
<1>7. MarcosBien
  BY <1>2 DEF Init, MarcosBien, ocupada, crearEntradaPagina
<1>8. TablasBien
  BY <1>2 DEF Init, TablasBien, ordena
<1> QED BY <1>1, <1>3, <1>4, <1>5, <1>6, <1>7, <1>8 DEF Init, IInv, MemoriaTypeOK

LEMMA PasoInv == IInv /\ [Next]_vars => IInv'
<1> SUFFICES ASSUME IInv, [Next]_vars PROVE IInv'
  OBVIOUS
<1>1. CASE accesoDelWorker
  BY <1>1, accederInv, gestionarPAGE_FAULTInv, devolverFrameLibreInv,
     gestionarBitModificadoInv, sinVictimaInv, flushearEntradaInv, finDelFlushInv,
     ejecutarCommitInv, siguienteInv DEF accesoDelWorker
<1>2. CASE gestionarCheckInterrupt
  BY <1>2, siguienteInv
<1>3. ASSUME NEW n \in Nombres, Execute(n) PROVE IInv'
  BY <1>3, ejecutarCreateInv, ejecutarTruncateInv, ejecutarTagInv, ejecutarWriteInv,
     ejecutarReadInv, ejecutarFlushInv, ejecutarDeleteInv DEF Execute
<1>4. ASSUME NEW n \in Nombres, otroWorker(n) PROVE IInv'
  BY <1>4, otroWorkerInv
<1>5. CASE UNCHANGED vars
  <2>1. /\ UNCHANGED <<almacen, algoritmo, tablas, marcos, ejecucion>>
        /\ UNCHANGED <<instruccion, paso, hecho, leido, contenido_pagina, enviados,
                       es_error_o_end, tabla_general, paginas>>
    BY <1>5 DEF vars, ejecucion, tablas
  <2>2. AlmacenTypeOK'
    BY <2>1, SinCambioEnStorage
  <2>3. EjecucionTypeOK'
    BY <2>1 DEF IInv, MemoriaTypeOK, EjecucionTypeOK
  <2>4. Curso'
    BY <2>1 DEF IInv, Curso, AccediendoBien, ContratoConCiclo, pag_actual
  <2> QED BY <2>1, <2>2, <2>3, <2>4, SinCambioEnMemoria DEF IInv, MemoriaTypeOK
<1> QED BY <1>1, <1>2, <1>3, <1>4, <1>5 DEF Next

LEMMA IInvInvariante == Spec => []IInv
  BY IniciarMemoria, PasoInv, PTL DEF Spec

\* MemoriaTypeOK, for any number of File:Tags, pages and frames and any size
\* of page: every address an instruction computes is of a page, the hand of
\* CLOCK-M is always a position, and what WRITE and READ copy stays inside the
\* frame (memoria_interna.c).
THEOREM MemoriaTipoSiempre == Spec => []MemoriaTypeOK
<1>1. IInv => MemoriaTypeOK
  BY DEF IInv
<1> QED BY <1>1, IInvInvariante, PTL

\* MarcosBien: no two resident pages share a frame, under either policy,
\* whatever is replaced, refused by storage or deleted.
THEOREM MarcosBienSiempre == Spec => []MarcosBien
<1>1. IInv => MarcosBien
  BY DEF IInv
<1> QED BY <1>1, IInvInvariante, PTL

\* TablasBien: every resident page is found by the loops over the tables, and
\* the times of last use order the resident pages.
THEOREM TablasBienSiempre == Spec => []TablasBien
<1>1. IInv => TablasBien
  BY DEF IInv
<1> QED BY <1>1, IInvInvariante, PTL

\* ContratoConCiclo: whatever the cache and storage do, an instruction sends
\* the master and returns what the instruction loop was modelled to expect.
THEOREM ContratoSiempre == Spec => []ContratoConCiclo
<1>1. IInv => ContratoConCiclo
  BY DEF IInv, Curso
<1> QED BY <1>1, IInvInvariante, PTL

-----------------------------------------------------------------------------
(* No modified page is lost.                                               *)

Guardada(x) ==
  entrada[x].bit_modificado /\ ~ entrada'[x].bit_modificado =>
    \/ instruccion'.op = "DELETE" /\ x[1] \notin DOMAIN archivos'
    \/ /\ FS!TieneBloque(x[1], x[2] + 1)'
       /\ archivos'[x[1]].bloques[x[2] + 1] = aBloque(paginaDe(x))

\* A turn of WRITE or READ leaves dirty what the entries before it had dirty.
LEMMA GuardadaAlAsignar ==
  ASSUME IInv, paso = "page_fault", NEW f \in Frames, NEW ent \in [Pares -> Entrada],
         asignarMarco(f, ent), NEW x \in Pares, ent[x].bit_modificado
  PROVE  entrada'[x].bit_modificado
<1> DEFINE mem == [memoria EXCEPT ![f] = contenido_pagina]
           nueva == [ent EXCEPT ![pag] = conMarco(ent[pag], f)]
<1>1. EnAcceso
  BY DEF IInv, Curso, EnAcceso
<1>2. pag \in Pares /\ ent[pag] \in Entrada
  BY <1>1, Tramo
<1>3. nueva[pag] = conMarco(ent[pag], f) /\ \A y \in Pares : y # pag => nueva[y] = ent[y]
  BY <1>2
<1>4. nueva \in [Pares -> Entrada]
  BY <1>2, ConMarco
<1>5. copiarTramo(f, mem, nueva)
  BY DEF asignarMarco
<1> HIDE DEF mem, nueva
<1>6. nueva[x].bit_modificado
  BY <1>2, <1>3, ConMarco
<1> QED BY <1>1, <1>4, <1>5, <1>6, CopiarTramoEntradas

LEMMA GuardadaAlDesalojar ==
  ASSUME IInv, gestionarBitModificado, NEW x \in Pares
  PROVE  Guardada(x)
<1> DEFINE r == aplicarPoliticaReemplazo
<1>1. PICK v \in r.victima :
        \/ /\ IF entrada[v].bit_modificado THEN escribirEnStorage(v)
                                           ELSE UNCHANGED almacen
           /\ asignarMarco(entrada[v].nro_frame,
                           [r.entrada EXCEPT ![v] = desalojada(r.entrada[v])])
        \/ entrada' = r.entrada
  BY DEF gestionarBitModificado
<1>2. r.victima \subseteq presentes(entrada) /\ SoloBitsDeUso(r.entrada)
  BY VictimaPresente DEF IInv, MemoriaTypeOK, Busqueda
<1>3. paso = "page_fault"
  BY DEF gestionarBitModificado
<1> HIDE DEF r
<1>4. v \in presentes(entrada) /\ v \in Pares /\ v[1] \in Nombres
  BY <1>1, <1>2 DEF presentes, Pares
<1>5. entrada[v].nro_frame \in Frames /\ aBloque(memoria[entrada[v].nro_frame]) \in Bloque
  BY <1>4, PaginaABloque DEF IInv, MemoriaTypeOK
<1>6. CASE entrada' = r.entrada
  BY <1>2, <1>6 DEF SoloBitsDeUso, Guardada
<1>7. CASE /\ IF entrada[v].bit_modificado THEN escribirEnStorage(v)
                                           ELSE UNCHANGED almacen
           /\ asignarMarco(entrada[v].nro_frame,
                           [r.entrada EXCEPT ![v] = desalojada(r.entrada[v])])
  <2>1. CASE x = v /\ entrada[v].bit_modificado
    <3>1. FS!Escribir(v[1], v[2] + 1, aBloque(memoria[entrada[v].nro_frame]))
      BY <1>7, <2>1 DEF escribirEnStorage
    <3>2. /\ FS!TieneBloque(v[1], v[2] + 1)'
          /\ archivos'[v[1]].bloques[v[2] + 1] = aBloque(memoria[entrada[v].nro_frame])
      BY <1>4, <1>5, <3>1, EscribirTipo DEF IInv, MemoriaTypeOK
    <3> QED BY <2>1, <3>2 DEF Guardada, paginaDe
  <2>2. CASE x # v /\ entrada[x].bit_modificado
    <3> DEFINE ent == [r.entrada EXCEPT ![v] = desalojada(r.entrada[v])]
    <3>1. ent \in [Pares -> Entrada] /\ ent[x] = r.entrada[x]
      BY <1>2, <1>4, <2>2, DesalojadaTipo DEF SoloBitsDeUso
    <3>2. asignarMarco(entrada[v].nro_frame, ent)
      BY <1>7
    <3> HIDE DEF ent
    <3>3. ent[x].bit_modificado
      BY <1>2, <2>2, <3>1 DEF SoloBitsDeUso
    <3>4. entrada'[x].bit_modificado
      BY <1>3, <1>5, <3>1, <3>2, <3>3, GuardadaAlAsignar
    <3> QED BY <3>4 DEF Guardada
  <2>3. CASE ~ entrada[x].bit_modificado
    BY <2>3 DEF Guardada
  <2> QED BY <2>1, <2>2, <2>3
<1> QED BY <1>1, <1>6, <1>7

LEMMA GuardadaEnCadaPaso ==
  ASSUME IInv, [Next]_vars, NEW x \in Pares
  PROVE  Guardada(x)
<1>1. CASE UNCHANGED entrada
  BY <1>1 DEF Guardada
<1>2. CASE acceder
  <2>1. EnAcceso /\ entrada \in [Pares -> Entrada]
        /\ copiarTramo(entrada[pag].nro_frame, memoria, entrada)
    BY <1>2 DEF acceder, IInv, Curso, EnAcceso, MemoriaTypeOK, TablasTypeOK
  <2>2. entrada[x].bit_modificado => entrada'[x].bit_modificado
    BY <2>1, CopiarTramoEntradas
  <2> QED BY <2>2 DEF Guardada
<1>3. CASE devolverFrameLibre
  <2>1. PICK f \in Frames : asignarMarco(f, entrada)
    BY <1>3 DEF devolverFrameLibre, frameLibre
  <2>2. paso = "page_fault" /\ entrada \in [Pares -> Entrada]
    BY <1>3 DEF devolverFrameLibre, IInv, MemoriaTypeOK, TablasTypeOK
  <2>3. entrada[x].bit_modificado => entrada'[x].bit_modificado
    BY <2>1, <2>2, GuardadaAlAsignar
  <2> QED BY <2>3 DEF Guardada
<1>4. CASE gestionarBitModificado
  BY <1>4, GuardadaAlDesalojar
<1>5. CASE flushearEntrada
  <2>1. PICK y \in primeraAFlushear :
           \/ /\ escribirEnStorage(y)
              /\ entrada' = [entrada EXCEPT ![y].bit_modificado = FALSE]
           \/ entrada' = entrada
    BY <1>5 DEF flushearEntrada
  <2>2. CASE entrada' = entrada
    BY <1>1, <2>2
  <2>3. CASE /\ escribirEnStorage(y)
             /\ entrada' = [entrada EXCEPT ![y].bit_modificado = FALSE]
    <3>1. y \in Pares /\ y[1] \in Nombres /\ aBloque(memoria[entrada[y].nro_frame]) \in Bloque
      BY AFlushear DEF primeraAFlushear, paginaDe
    <3>2. /\ FS!TieneBloque(y[1], y[2] + 1)'
          /\ archivos'[y[1]].bloques[y[2] + 1] = aBloque(memoria[entrada[y].nro_frame])
      BY <2>3, <3>1, EscribirTipo DEF escribirEnStorage, IInv, MemoriaTypeOK
    <3>3. x # y => entrada'[x] = entrada[x]
      BY <2>3, <3>1 DEF IInv, MemoriaTypeOK, TablasTypeOK
    <3> QED BY <3>2, <3>3 DEF Guardada, paginaDe
  <2> QED BY <2>1, <2>2, <2>3
<1>6. ASSUME NEW n \in Nombres, ejecutarDelete(n), ~ UNCHANGED entrada
      PROVE  Guardada(x)
  <2>1. /\ FS!Eliminar(n) /\ instruccion' = [Ninguna EXCEPT !.op = "DELETE", !.nombre = n]
        /\ entrada' = [y \in Pares |-> IF y[1] = n THEN crearEntradaPagina ELSE entrada[y]]
    BY <1>6 DEF ejecutarDelete
  <2>2. n \notin DOMAIN archivos' /\ instruccion'.op = "DELETE"
    BY <2>1, EliminarTipo DEF IInv, MemoriaTypeOK, Ninguna
  <2>3. x[1] # n => entrada'[x] = entrada[x]
    BY <2>1
  <2> QED BY <2>2, <2>3 DEF Guardada
<1>7. \/ UNCHANGED entrada \/ acceder \/ devolverFrameLibre \/ gestionarBitModificado
      \/ flushearEntrada \/ \E n \in Nombres : ejecutarDelete(n)
  BY DEF Next, vars, tablas, accesoDelWorker, gestionarPAGE_FAULT, sinVictima, finDelFlush,
         ejecutarCommit, siguiente, gestionarCheckInterrupt, limpiar, Execute, Ejecutar,
         ejecutarCreate, ejecutarTruncate, ejecutarTag, pedirAStorage, ejecutarWrite,
         ejecutarRead, ejecutarFlush, otroWorker
<1> QED BY <1>1, <1>2, <1>3, <1>4, <1>5, <1>6, <1>7

\* SinPerdida: whatever page is replaced or flushed, and whatever storage
\* answers, a page stops being dirty only when storage holds its bytes or its
\* File:Tag was deleted.
THEOREM SinPerdidaSiempre == Spec => SinPerdida
<1>1. IInv /\ [Next]_vars =>
        [\A x \in Pares :
           entrada[x].bit_modificado /\ ~ entrada'[x].bit_modificado =>
             \/ instruccion'.op = "DELETE" /\ x[1] \notin DOMAIN archivos'
             \/ /\ FS!TieneBloque(x[1], x[2] + 1)'
                /\ archivos'[x[1]].bloques[x[2] + 1] = aBloque(paginaDe(x))]_vars
  BY GuardadaEnCadaPaso DEF Guardada
<1> QED BY <1>1, IInvInvariante, PTL DEF Spec, SinPerdida

-----------------------------------------------------------------------------
(* What CLOCK-M chooses.                                                   *)

\* Natural numbers have a least one.
LEMMA MenorNatural ==
  ASSUME NEW S \in SUBSET Nat, S # {}
  PROVE  \E n \in S : \A m \in S : n <= m
<1> DEFINE R == {ss \in Nat \X Nat : ss[1] < ss[2]}
<1>1. IsWellFoundedOn(R, Nat)
  BY NatLessThanWellFounded DEF OpToRel
<1>2. PICK n \in S : \A m \in S : <<m, n>> \notin R
  <2> HIDE DEF R
  <2> QED BY <1>1, WFMin
<1>3. \A m \in S : ~ (m < n)
  BY <1>2
<1> QED BY <1>3

\* In the order of the loops, the places of any resident pages have a first.
LEMMA PrimerLugar ==
  ASSUME NEW S, S # {}, \A x \in S : lugar(x) \in Nat \X Nat
  PROVE  \E x \in S : \A y \in S : ~ antes(lugar(y), lugar(x))
<1> DEFINE I == {lugar(x)[1] : x \in S}
<1>1. I \in SUBSET Nat /\ I # {}
  OBVIOUS
<1>2. PICK i \in I : \A j \in I : i <= j
  BY <1>1, MenorNatural
<1> DEFINE T == {x \in S : lugar(x)[1] = i}
           J == {lugar(x)[2] : x \in T}
<1>3. J \in SUBSET Nat /\ J # {}
  OBVIOUS
<1>4. PICK k \in J : \A j \in J : k <= j
  BY <1>3, MenorNatural
<1>5. PICK x \in S : lugar(x)[1] = i /\ lugar(x)[2] = k
  OBVIOUS
<1>6. ASSUME NEW y \in S PROVE ~ antes(lugar(y), lugar(x))
  <2>1. lugar(y)[1] \in Nat /\ lugar(y)[2] \in Nat /\ i <= lugar(y)[1]
    BY <1>2
  <2>2. lugar(y)[1] = i => k <= lugar(y)[2]
    BY <1>4
  <2> QED BY <1>1, <1>3, <1>5, <2>1, <2>2 DEF antes
<1> QED BY <1>5, <1>6

\* No two resident pages are at one place of the loops.
LEMMA LugarDistinto ==
  ASSUME MemoriaTypeOK, TablasBien
  PROVE  /\ \A x \in presentes(entrada) : lugar(x) \in Nat \X Nat
         /\ \A x, y \in presentes(entrada) : lugar(x) = lugar(y) => x = y
<1>1. ASSUME NEW x \in presentes(entrada)
      PROVE  /\ lugar(x) \in Nat \X Nat /\ x = <<x[1], x[2]>>
             /\ tabla_general[lugar(x)[1]] = x[1] /\ paginas[x[1]][lugar(x)[2]] = x[2]
  <2>1. /\ x \in Nombres \X Paginas /\ x[1] \in ToSet(tabla_general)
        /\ x[2] \in ToSet(paginas[x[1]])
    BY DEF presentes, TablasBien, Pares
  <2>2. tabla_general \in Seq(Nombres) /\ paginas[x[1]] \in Seq(Paginas)
    BY <2>1 DEF MemoriaTypeOK, TablasTypeOK
  <2>3. IndiceDe(tabla_general, x[1]) \in Nat /\ tabla_general[IndiceDe(tabla_general, x[1])] = x[1]
    BY <2>1, <2>2, IndiceEnLista
  <2>4. IndiceDe(paginas[x[1]], x[2]) \in Nat
        /\ paginas[x[1]][IndiceDe(paginas[x[1]], x[2])] = x[2]
    BY <2>1, <2>2, IndiceEnLista
  <2> QED BY <2>1, <2>3, <2>4 DEF lugar
<1> QED BY <1>1

\* From the hand on, the resident pages are in one order, and any of them have
\* a first.
LEMMA OrdenDeVuelta ==
  ASSUME MemoriaTypeOK, TablasBien
  PROVE  /\ \A x, y \in presentes(entrada) :
              x # y => antesEnVuelta(x, y) \/ antesEnVuelta(y, x)
         /\ \A x, y \in presentes(entrada) : ~ (antesEnVuelta(x, y) /\ antesEnVuelta(y, x))
         /\ \A S \in SUBSET presentes(entrada) : S # {} =>
              \E x \in S : \A y \in S \ {x} : antesEnVuelta(x, y)
<1> DEFINE P == presentes(entrada)
           pasada(z) == antes(lugar(z), normalizar_puntero_clockm)
<1>1. /\ \A x \in P : lugar(x) \in Nat \X Nat
      /\ \A x, y \in P : lugar(x) = lugar(y) => x = y
  BY LugarDistinto
<1>2. \A x, y \in P : x # y => antes(lugar(x), lugar(y)) \/ antes(lugar(y), lugar(x))
  <2> HIDE DEF P
  <2> SUFFICES ASSUME NEW x \in P, NEW y \in P, x # y
               PROVE  antes(lugar(x), lugar(y)) \/ antes(lugar(y), lugar(x))
    OBVIOUS
  <2>1. lugar(x) \in Nat \X Nat /\ lugar(y) \in Nat \X Nat /\ lugar(x) # lugar(y)
    BY <1>1
  <2> QED BY <2>1 DEF antes
<1>3. \A x, y \in P : ~ (antes(lugar(x), lugar(y)) /\ antes(lugar(y), lugar(x)))
  <2> HIDE DEF P
  <2> SUFFICES ASSUME NEW x \in P, NEW y \in P
               PROVE  ~ (antes(lugar(x), lugar(y)) /\ antes(lugar(y), lugar(x)))
    OBVIOUS
  <2>1. lugar(x) \in Nat \X Nat /\ lugar(y) \in Nat \X Nat
    BY <1>1
  <2> QED BY <2>1 DEF antes
<1>4. \A x, y : antesEnVuelta(x, y) <=>
        IF pasada(x) <=> pasada(y) THEN antes(lugar(x), lugar(y)) ELSE pasada(y)
  BY DEF antesEnVuelta, antes
<1> HIDE DEF P, pasada
<1>5. \A x, y \in P : x # y => antesEnVuelta(x, y) \/ antesEnVuelta(y, x)
  BY <1>2, <1>4
<1>6. \A x, y \in P : ~ (antesEnVuelta(x, y) /\ antesEnVuelta(y, x))
  BY <1>3, <1>4
<1>7. ASSUME NEW S \in SUBSET P, S # {}
      PROVE  \E x \in S : \A y \in S \ {x} : antesEnVuelta(x, y)
  <2> DEFINE A == {x \in S : ~ pasada(x)}
             T == IF A # {} THEN A ELSE S
  <2>1. T # {} /\ T \subseteq S /\ \A x \in T : lugar(x) \in Nat \X Nat
    BY <1>1, <1>7
  <2>2. PICK x \in T : \A y \in T : ~ antes(lugar(y), lugar(x))
    BY <2>1, PrimerLugar
  <2>3. ASSUME NEW y \in S \ {x} PROVE antesEnVuelta(x, y)
    <3>1. x \in P /\ y \in P /\ x # y
      BY <2>1
    <3>2. CASE y \in T
      <4>1. antes(lugar(x), lugar(y))
        BY <1>2, <2>2, <3>1, <3>2
      <4>2. pasada(x) <=> pasada(y)
        BY <3>2
      <4> QED BY <1>4, <4>1, <4>2
    <3>3. CASE y \notin T
      <4>1. pasada(y) /\ ~ pasada(x)
        BY <3>3
      <4> QED BY <1>4, <4>1
    <3> QED BY <3>2, <3>3
  <2> QED BY <2>1, <2>3
<1> QED BY <1>5, <1>6, <1>7 DEF P

\* The resident pages of one class, and the one that is chosen among them.
Candidatas(ent, uso, modificado) ==
  {x \in presentes(entrada) : ent[x].bit_uso = uso /\ ent[x].bit_modificado = modificado}

Elige(v, S) == v \in S /\ \A y \in S \ {v} : antesEnVuelta(v, y)

\* A turn of the hand that starts from the entries ent and looks for the pages
\* in C: it stops at the first of them, and otherwise meets every resident page.
Vuelta(c, ent, C, resetear) ==
  /\ C # {} => \E v : c.victima = {v} /\ Elige(v, C)
  /\ C = {} => /\ c.victima = {}
               /\ \A x \in presentes(entrada) :
                    c.entrada[x].bit_uso = (ent[x].bit_uso /\ ~ resetear)

\* That is what one turn of cicloClockM does while nothing is chosen.
LEMMA VueltaDeAguja ==
  ASSUME MemoriaTypeOK, TablasBien, NEW r, Busqueda(r), r.victima = {},
         NEW resetear \in BOOLEAN, NEW uso \in BOOLEAN, NEW modificado \in BOOLEAN,
         NEW c, c = cicloClockM(r, resetear, uso, modificado)
  PROVE  Vuelta(c, r.entrada, Candidatas(r.entrada, uso, modificado), resetear)
<1> DEFINE P == presentes(entrada)
           C == Candidatas(r.entrada, uso, modificado)
           V == {x \in C : \A y \in C \ {x} : antesEnVuelta(x, y)}
           recorridas == {x \in P : \A v \in V : x # v /\ antesEnVuelta(x, v)}
<1>1. presentes(r.entrada) = P /\ C \subseteq P /\ P \subseteq Pares
  BY DEF Busqueda, SoloBitsDeUso, presentes, Candidatas
<1>2. /\ c.victima = V
      /\ c.entrada = [x \in Pares |-> IF resetear /\ x \in recorridas
                                      THEN [r.entrada[x] EXCEPT !.bit_uso = FALSE]
                                      ELSE r.entrada[x]]
  BY <1>1 DEF cicloClockM, Candidatas
<1>3. ASSUME C # {} PROVE \E v : c.victima = {v} /\ Elige(v, C)
  <2>1. PICK v \in C : \A y \in C \ {v} : antesEnVuelta(v, y)
    BY <1>1, <1>3, OrdenDeVuelta
  <2>2. \A x \in C : x # v => ~ antesEnVuelta(x, v)
    BY <1>1, <2>1, OrdenDeVuelta
  <2> HIDE DEF C
  <2>3. V = {v}
    BY <2>1, <2>2
  <2> QED BY <1>2, <2>1, <2>3 DEF Elige
<1>4. ASSUME C = {}
      PROVE  /\ c.victima = {}
             /\ \A x \in P : c.entrada[x].bit_uso = (r.entrada[x].bit_uso /\ ~ resetear)
  <2>1. V = {} /\ recorridas = P
    BY <1>4
  <2>2. ASSUME NEW x \in P
        PROVE  c.entrada[x].bit_uso = (r.entrada[x].bit_uso /\ ~ resetear)
    <3>1. r.entrada[x] \in Entrada /\ x \in Pares
      BY <1>1 DEF Busqueda, SoloBitsDeUso
    <3>2. r.entrada[x].bit_uso \in BOOLEAN
      BY <3>1 DEF Entrada
    <3>3. c.entrada[x] = IF resetear THEN [r.entrada[x] EXCEPT !.bit_uso = FALSE] ELSE r.entrada[x]
      BY <1>2, <2>1, <3>1
    <3>4. CASE resetear
      <4>1. c.entrada[x].bit_uso = FALSE
        BY <3>1, <3>3, <3>4 DEF Entrada
      <4> QED BY <3>4, <4>1
    <3>5. CASE ~ resetear
      BY <3>2, <3>3, <3>5
    <3> QED BY <3>3, <3>4, <3>5
  <2> QED BY <1>2, <2>1, <2>2
<1> QED BY <1>3, <1>4 DEF P, Vuelta

\* The four classes of ClockMClasico, and what is best in them.
Clase(x) == (IF entrada[x].bit_uso THEN 2 ELSE 0) + (IF entrada[x].bit_modificado THEN 1 ELSE 0)
DeClase(k) == {x \in presentes(entrada) : Clase(x) = k}
Mejor(x, y) == Clase(x) < Clase(y) \/ (Clase(x) = Clase(y) /\ antesEnVuelta(x, y))
EsLaMejor(v) == v \in presentes(entrada) /\ \A y \in presentes(entrada) \ {v} : Mejor(v, y)

\* The class of a page is its two bits.
LEMMA Clases ==
  ASSUME TablasTypeOK, NEW x \in presentes(entrada)
  PROVE  /\ Clase(x) \in 0 .. 3
         /\ Clase(x) = 0 <=> entrada[x].bit_uso = FALSE /\ entrada[x].bit_modificado = FALSE
         /\ Clase(x) = 1 <=> entrada[x].bit_uso = FALSE /\ entrada[x].bit_modificado = TRUE
         /\ Clase(x) = 2 <=> entrada[x].bit_uso = TRUE /\ entrada[x].bit_modificado = FALSE
         /\ Clase(x) = 3 <=> entrada[x].bit_uso = TRUE /\ entrada[x].bit_modificado = TRUE
<1>1. entrada[x] \in Entrada
  BY DEF TablasTypeOK, presentes
<1>2. entrada[x].bit_uso \in BOOLEAN /\ entrada[x].bit_modificado \in BOOLEAN
  BY <1>1 DEF Entrada
<1> QED BY <1>2 DEF Clase

\* The first of a class, with no page of a better one.
LEMMA ElegidaMejor ==
  ASSUME TablasTypeOK, NEW k \in Nat, NEW v, Elige(v, DeClase(k)),
         \A x \in presentes(entrada) : Clase(x) >= k
  PROVE  EsLaMejor(v)
<1>1. v \in presentes(entrada) /\ Clase(v) = k
  BY DEF Elige, DeClase
<1>2. ASSUME NEW y \in presentes(entrada) \ {v} PROVE Mejor(v, y)
  <2>1. Clase(y) \in 0 .. 3 /\ Clase(y) >= k
    BY Clases
  <2>2. Clase(y) = k => antesEnVuelta(v, y)
    BY DEF Elige, DeClase
  <2> QED BY <1>1, <2>1, <2>2 DEF Mejor
<1> QED BY <1>1, <1>2 DEF EsLaMejor

\* No resident page is of a class that has none.
LEMMA ClaseVacia ==
  ASSUME TablasTypeOK, NEW k \in Nat, DeClase(k) = {},
         NEW x \in presentes(entrada)
  PROVE  Clase(x) # k
BY DEF DeClase

\* ClockMClasico, for any number of tables, pages and frames: the four turns
\* of the hand amount to one choice among all the resident pages.
THEOREM ClockMClasicoSiempre == Spec => []ClockMClasico
<1>1. IInv => ClockMClasico
  <2> SUFFICES ASSUME IInv, presentes(entrada) # {}
               PROVE  \E v : clockM.victima = {v} /\ EsLaMejor(v)
    BY DEF ClockMClasico, EsLaMejor, Mejor, Clase
  <2> DEFINE r0 == [victima |-> {}, entrada |-> entrada]
             r1 == cicloClockM(r0, FALSE, FALSE, FALSE)
             r2 == cicloClockM(r1, TRUE, FALSE, TRUE)
             r3 == cicloClockM(r2, FALSE, FALSE, FALSE)
             r4 == cicloClockM(r3, FALSE, FALSE, TRUE)
  <2>1. MemoriaTypeOK /\ TablasBien /\ TablasTypeOK
    BY DEF IInv, MemoriaTypeOK
  <2>2. Busqueda(r0) /\ r0.victima = {} /\ r0.entrada = entrada
    BY <2>1 DEF Busqueda, SoloBitsDeUso, TablasTypeOK
  <2>3. Busqueda(r1)
    BY <2>2, CicloBien
  <2>4. Busqueda(r2)
    BY <2>3, CicloBien
  <2>5. Busqueda(r3)
    BY <2>4, CicloBien
  <2>6. ASSUME NEW r, r.victima # {}, NEW t, NEW u, NEW m PROVE cicloClockM(r, t, u, m) = r
    BY <2>6 DEF cicloClockM
  <2>7. clockM = r4
    BY DEF clockM
  <2>8. \A r : Busqueda(r) =>
          \A x \in presentes(entrada) : r.entrada[x].bit_modificado = entrada[x].bit_modificado
    BY DEF Busqueda, SoloBitsDeUso, presentes
  <2>9. \A x \in presentes(entrada) : x \in Pares /\ entrada[x] \in Entrada
    BY <2>1 DEF TablasTypeOK, presentes
  <2> DEFINE C1 == Candidatas(r0.entrada, FALSE, FALSE)
             C2 == Candidatas(r1.entrada, FALSE, TRUE)
             C3 == Candidatas(r2.entrada, FALSE, FALSE)
             C4 == Candidatas(r3.entrada, FALSE, TRUE)
  <2> HIDE DEF r0
  <2>0. \A x \in presentes(entrada) : Clase(x) \in 0 .. 3
    BY <2>1, Clases, Zenon
  <2>10. /\ C1 # {} => \E v : r1.victima = {v} /\ Elige(v, C1)
         /\ C1 = {} => /\ r1.victima = {}
                       /\ \A x \in presentes(entrada) :
                            r1.entrada[x].bit_uso = (r0.entrada[x].bit_uso /\ ~ FALSE)
    <3>1. Vuelta(r1, r0.entrada, C1, FALSE)
      BY <2>1, <2>2, VueltaDeAguja
    <3> QED BY <3>1 DEF Vuelta
  <2> HIDE DEF r1
  <2>11. ASSUME r1.victima = {}
         PROVE  /\ C2 # {} => \E v : r2.victima = {v} /\ Elige(v, C2)
                /\ C2 = {} => /\ r2.victima = {}
                              /\ \A x \in presentes(entrada) :
                                   r2.entrada[x].bit_uso = FALSE
    <3>1. Vuelta(r2, r1.entrada, C2, TRUE)
      BY <2>1, <2>3, <2>11, VueltaDeAguja
    <3> HIDE DEF r2, C2
    <3> QED BY <3>1 DEF Vuelta
  <2> HIDE DEF r2
  <2>12. ASSUME r2.victima = {}
         PROVE  /\ C3 # {} => \E v : r3.victima = {v} /\ Elige(v, C3)
                /\ C3 = {} => /\ r3.victima = {}
                              /\ \A x \in presentes(entrada) :
                                   r3.entrada[x].bit_uso = (r2.entrada[x].bit_uso /\ ~ FALSE)
    <3>1. Vuelta(r3, r2.entrada, C3, FALSE)
      BY <2>1, <2>4, <2>12, VueltaDeAguja
    <3> HIDE DEF r3, C3
    <3> QED BY <3>1 DEF Vuelta
  <2> HIDE DEF r3
  <2>13. ASSUME r3.victima = {}, C4 # {}
         PROVE  \E v : r4.victima = {v} /\ Elige(v, C4)
    <3>1. Vuelta(r4, r3.entrada, C4, FALSE)
      BY <2>1, <2>5, <2>13, VueltaDeAguja
    <3> HIDE DEF r4, C4
    <3> QED BY <2>13, <3>1 DEF Vuelta
  <2> HIDE DEF r4
  <2>14. C1 = DeClase(0)
    BY <2>1, <2>2, Clases DEF Candidatas, DeClase
  <2>15. ASSUME C1 # {} PROVE \E v : r4.victima = {v} /\ EsLaMejor(v)
    <3>1. PICK v : r1.victima = {v} /\ Elige(v, DeClase(0))
      BY <2>10, <2>14, <2>15
    <3>2. \A x \in presentes(entrada) : Clase(x) >= 0
      BY <2>0
    <3>3. r4.victima = r1.victima
      <4>1. r1.victima # {}
        BY <3>1
      <4>2. r2 = r1
        BY <2>6, <4>1 DEF r2
      <4>3. r3 = r1
        BY <2>6, <4>1, <4>2 DEF r3
      <4>4. r4 = r1
        BY <2>6, <4>1, <4>3 DEF r4
      <4> QED BY <4>4
    <3> QED BY <2>1, <3>1, <3>2, <3>3, ElegidaMejor
  <2>16. ASSUME C1 = {}
         PROVE  /\ r1.victima = {} /\ C2 = DeClase(1)
                /\ \A x \in presentes(entrada) : Clase(x) >= 1
    <3>1. \A x \in presentes(entrada) :
            /\ r1.entrada[x].bit_uso = entrada[x].bit_uso
            /\ r1.entrada[x].bit_modificado = entrada[x].bit_modificado
      BY <2>2, <2>3, <2>8, <2>9, <2>10, <2>16 DEF Entrada
    <3>2. C2 = DeClase(1)
      BY <2>1, <3>1, Clases DEF Candidatas, DeClase
    <3>3. \A x \in presentes(entrada) : Clase(x) >= 1
      <4> SUFFICES ASSUME NEW x \in presentes(entrada) PROVE Clase(x) >= 1
        OBVIOUS
      <4>1. Clase(x) \in 0 .. 3 /\ Clase(x) >= 0
        BY <2>0
      <4>2. Clase(x) # 0
        BY <2>1, <2>14, <2>16, ClaseVacia
      <4> QED BY <4>1, <4>2
    <3> QED BY <2>10, <2>16, <3>2, <3>3
  <2>17. ASSUME C1 = {}, C2 # {} PROVE \E v : r4.victima = {v} /\ EsLaMejor(v)
    <3>1. PICK v : r2.victima = {v} /\ Elige(v, DeClase(1))
      BY <2>11, <2>16, <2>17
    <3>2. r4.victima = r2.victima
      <4>1. r2.victima # {}
        BY <3>1
      <4>2. r3 = r2
        BY <2>6, <4>1 DEF r3
      <4>3. r4 = r2
        BY <2>6, <4>1, <4>2 DEF r4
      <4> QED BY <4>3
    <3> QED BY <2>1, <2>16, <2>17, <3>1, <3>2, ElegidaMejor
  <2>18. ASSUME C1 = {}, C2 = {}
         PROVE  /\ r2.victima = {} /\ C3 = DeClase(2)
                /\ \A x \in presentes(entrada) : r2.entrada[x].bit_uso = FALSE /\ Clase(x) >= 2
    <3>1. \A x \in presentes(entrada) : Clase(x) >= 2
      <4> SUFFICES ASSUME NEW x \in presentes(entrada) PROVE Clase(x) >= 2
        OBVIOUS
      <4>1. Clase(x) \in 0 .. 3 /\ Clase(x) >= 1
        BY <2>0, <2>16, <2>18
      <4>2. Clase(x) # 1
        BY <2>1, <2>16, <2>18, ClaseVacia
      <4> QED BY <4>1, <4>2
    <3>2. /\ r2.victima = {}
          /\ \A x \in presentes(entrada) :
               /\ r2.entrada[x].bit_uso = FALSE
               /\ r2.entrada[x].bit_modificado = entrada[x].bit_modificado
      BY <2>4, <2>8, <2>11, <2>16, <2>18
    <3>3. C3 = DeClase(2)
      <4>1. \A x \in presentes(entrada) :
              Clase(x) = 2 <=> r2.entrada[x].bit_uso = FALSE /\ r2.entrada[x].bit_modificado = FALSE
        <5> SUFFICES ASSUME NEW x \in presentes(entrada)
                     PROVE  Clase(x) = 2 <=> /\ r2.entrada[x].bit_uso = FALSE
                                             /\ r2.entrada[x].bit_modificado = FALSE
          OBVIOUS
        <5>1. Clase(x) \in 0 .. 3 /\ Clase(x) >= 2
          BY <2>0, <3>1
        <5>2. /\ Clase(x) = 0 \/ Clase(x) = 2 => entrada[x].bit_modificado = FALSE
              /\ Clase(x) = 1 \/ Clase(x) = 3 => entrada[x].bit_modificado = TRUE
          BY <2>1, Clases
        <5> QED BY <3>2, <5>1, <5>2
      <4> QED BY <4>1 DEF Candidatas, DeClase
    <3> QED BY <3>1, <3>2, <3>3
  <2>19. ASSUME C1 = {}, C2 = {}, C3 # {} PROVE \E v : r4.victima = {v} /\ EsLaMejor(v)
    <3>1. PICK v : r3.victima = {v} /\ Elige(v, DeClase(2))
      BY <2>12, <2>18, <2>19
    <3>2. r4.victima = r3.victima
      BY <2>6, <3>1 DEF r4
    <3> QED BY <2>1, <2>18, <2>19, <3>1, <3>2, ElegidaMejor
  <2>20. ASSUME C1 = {}, C2 = {}, C3 = {} PROVE \E v : r4.victima = {v} /\ EsLaMejor(v)
    <3>1. \A x \in presentes(entrada) : Clase(x) = 3
      <4> SUFFICES ASSUME NEW x \in presentes(entrada) PROVE Clase(x) = 3
        OBVIOUS
      <4>1. Clase(x) \in 0 .. 3 /\ Clase(x) >= 2
        BY <2>0, <2>18, <2>20
      <4>2. Clase(x) # 2
        BY <2>1, <2>18, <2>20, ClaseVacia
      <4> QED BY <4>1, <4>2
    <3>2. /\ r3.victima = {}
          /\ \A x \in presentes(entrada) :
               /\ r3.entrada[x].bit_uso = FALSE
               /\ r3.entrada[x].bit_modificado = entrada[x].bit_modificado
      BY <2>5, <2>8, <2>12, <2>18, <2>20
    <3>3. C4 = DeClase(3) /\ C4 # {}
      BY <2>1, <3>1, <3>2, Clases DEF Candidatas, DeClase
    <3>4. PICK v : r4.victima = {v} /\ Elige(v, DeClase(3))
      BY <2>13, <3>2, <3>3
    <3> QED BY <2>1, <3>1, <3>4, ElegidaMejor
  <2> QED BY <2>7, <2>15, <2>17, <2>19, <2>20
<1> QED BY <1>1, IInvInvariante, PTL

=============================================================================
