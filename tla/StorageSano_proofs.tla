-------------------------- MODULE StorageSano_proofs --------------------------
(***************************************************************************)
(* Proofs about Storage on the workloads CargaSana admits, for any         *)
(* File:Tags, number of blocks, block size and contents: the bitmap is     *)
(* exact, the hash index tells the truth, and storage implements           *)
(* TagsIndependientes.  The inductive invariant is Sano.                   *)
(***************************************************************************)
EXTENDS Storage_proofs

\* A block is reserved when it is linked.
Exacto(ts, bm) == \A b \in Fisicos : b \in bm <=> Enlazado(ts, b)

\* Some COMMITED tag holds b.
EnlazaCommiteado(ts, b) ==
  \E m \in DOMAIN ts : /\ ts[m].estado = "COMMITED"
                       /\ \E i \in DOMAIN ts[m].hl : ts[m].hl[i] = b

\* Every block the index names is held by a COMMITED tag: nobody writes it.
Sellados(ts, hi) == \A h \in DOMAIN hi : EnlazaCommiteado(ts, hi[h])

\* No logical block but i of m is a link to its physical block.
Solo(ts, m, i) ==
  \A x \in DOMAIN ts : \A j \in DOMAIN ts[x].hl :
    ts[x].hl[j] = ts[m].hl[i] => x = m /\ j = i

\* The blocks of m, less those that are still block0, are its own.
Propios(ts, m) == \A i \in DOMAIN ts[m].hl : ts[m].hl[i] = 0 \/ Solo(ts, m, i)

\* With no TAG, what can be written is not shared.
SinCopia(ts) ==
  \A m \in DOMAIN ts : ts[m].estado = "WORK_IN_PROGRESS" => Propios(ts, m)

\* A restart and a TAG find the blocks READ finds.
MismosBLOCKS(ts) == \A m \in DOMAIN ts : ts[m].BLOCKS = ts[m].bloques_logicos

\* initial_file:BASE as it was made.
ConInicial(ts, co) ==
  /\ Inicial \in DOMAIN ts /\ ts[Inicial].estado = "COMMITED"
  /\ ts[Inicial].hl = <<0>> /\ co[0] = CERO

\* The inductive invariant, on sane workloads.
Sano ==
  /\ Base /\ CargaSana(usos)
  /\ Punteros(tags) /\ Exacto(tags, bitmap)
  /\ Fieles(contenido, hash_index) /\ Sellados(tags, hash_index)
  /\ "TAG" \notin usos => SinCopia(tags)
  /\ "TRUNCATE_MENOS" \notin usos => MismosBLOCKS(tags)
  /\ ConInicial(tags, contenido)

\* A File:Tag is WORK_IN_PROGRESS or COMMITED.
LEMMA Estados ==
  ASSUME NEW ts, TagsOK(ts), NEW m \in DOMAIN ts
  PROVE  ts[m].estado = "WORK_IN_PROGRESS" <=> ts[m].estado # "COMMITED"
BY DEF TagsOK, Tag

\* What a COMMITED tag holds is linked.
LEMMA EnlazaAlguno ==
  ASSUME NEW ts, NEW b, EnlazaCommiteado(ts, b)
  PROVE  Enlazado(ts, b)
BY DEF EnlazaCommiteado, Enlazado

\* block0 is held by initial_file:BASE.
LEMMA BloqueCero ==
  ASSUME NEW ts, NEW co, ConInicial(ts, co)
  PROVE  EnlazaCommiteado(ts, 0) /\ Enlazado(ts, 0)
<1>1. 1 \in DOMAIN ts[Inicial].hl /\ ts[Inicial].hl[1] = 0
  BY DEF ConInicial
<1> QED BY <1>1 DEF ConInicial, EnlazaCommiteado, Enlazado

\* A COMMITED tag that stays as it was holds what it held.
LEMMA SigueSellado ==
  ASSUME NEW ts, NEW us,
         \A m \in DOMAIN ts : ts[m].estado = "COMMITED" => m \in DOMAIN us /\ us[m] = ts[m],
         NEW b, EnlazaCommiteado(ts, b)
  PROVE  EnlazaCommiteado(us, b)
BY DEF EnlazaCommiteado

\* No request of a sane workload names initial_file:BASE.
LEMMA PideSano ==
  ASSUME CargaSana(usos), NEW n, NEW uso, pide(n, uso)
  PROVE  uso \in usos /\ n # Inicial
BY DEF CargaSana, pide

\* New links are to blocks that were linked already, and of one File:Tag that
\* is not COMMITED.
LEMMA MasEnlacesSano ==
  ASSUME Sano, NEW n, n # Inicial,
         n \in DOMAIN tags => tags[n].estado # "COMMITED",
         \A m \in DOMAIN tags : m # n => m \in DOMAIN tags' /\ tags'[m] = tags[m],
         \A b : Enlazado(tags', b) <=> Enlazado(tags, b),
         UNCHANGED <<bitmap, contenido, hash_index>>
  PROVE  /\ Exacto(tags', bitmap') /\ Fieles(contenido', hash_index')
         /\ Sellados(tags', hash_index') /\ ConInicial(tags', contenido')
<1>1. Sellados(tags', hash_index')
  <2>1. \A m \in DOMAIN tags : tags[m].estado = "COMMITED" => m \in DOMAIN tags' /\ tags'[m] = tags[m]
    OBVIOUS
  <2> QED BY <2>1, SigueSellado DEF Sano, Sellados
<1> QED BY <1>1 DEF Sano, Exacto, Fieles, ConInicial

\* What a request leaves: Sano, given that Base holds after every step.
Sanado ==
  /\ Punteros(tags) /\ Exacto(tags, bitmap)
  /\ Fieles(contenido, hash_index) /\ Sellados(tags, hash_index)
  /\ "TAG" \notin usos => SinCopia(tags)
  /\ "TRUNCATE_MENOS" \notin usos => MismosBLOCKS(tags)
  /\ ConInicial(tags, contenido)

\* A new tag with no blocks.
LEMMA SanoVacio ==
  ASSUME Sano, UNCHANGED usos, NEW n \in Nombres, n \notin DOMAIN tags,
         agregarTag(n, TagNuevo(0, <<>>)), UNCHANGED <<bitmap, contenido, hash_index>>
  PROVE  Sanado'
<1>1. /\ DOMAIN tags' = DOMAIN tags \cup {n} /\ tags'[n] = TagNuevo(0, <<>>)
      /\ \A m \in DOMAIN tags : m # n /\ tags'[m] = tags[m]
  <2>1. <<>> \in Seq(Fisicos) /\ 0 \in Nat
    OBVIOUS
  <2> QED BY <2>1, AgregarTag DEF Sano
<1>2. /\ tags'[n].hl = <<>> /\ tags'[n].bloques_logicos = <<>> /\ tags'[n].BLOCKS = <<>>
      /\ DOMAIN tags'[n].hl = {}
  BY <1>1 DEF TagNuevo
<1>3. \A b : Enlazado(tags', b) <=> Enlazado(tags, b)
  BY <1>1, <1>2 DEF Enlazado
<1>4. /\ Exacto(tags', bitmap') /\ Fieles(contenido', hash_index')
      /\ Sellados(tags', hash_index') /\ ConInicial(tags', contenido')
  <2>1. n # Inicial
    BY DEF Sano, ConInicial
  <2> QED BY <1>1, <1>3, <2>1, MasEnlacesSano
<1>5. Punteros(tags')
  BY <1>1, <1>2 DEF Sano, Punteros
<1>6. "TRUNCATE_MENOS" \notin usos => MismosBLOCKS(tags')
  BY <1>1, <1>2 DEF Sano, MismosBLOCKS
<1>7. "TAG" \notin usos => SinCopia(tags')
  BY <1>1, <1>2 DEF Sano, SinCopia, Propios, Solo
<1> QED BY <1>4, <1>5, <1>6, <1>7 DEF Sanado

\* CREATE keeps Sano.
LEMMA SanoCREATE ==
  ASSUME Sano, UNCHANGED usos, NEW n \in Nombres, realizarCREATE(n)
  PROVE  Sanado'
BY SanoVacio DEF realizarCREATE, Sano, Base

\* TAG keeps Sano: BLOCKS, which it copies, is what is linked.
LEMMA SanoTAG ==
  ASSUME Sano, UNCHANGED usos, NEW n \in Nombres, NEW o \in Nombres, realizarTAG(o, n)
  PROVE  Sanado'
<1>1. /\ n \notin DOMAIN tags /\ o \in DOMAIN tags
      /\ UNCHANGED <<bitmap, contenido, hash_index>>
  BY DEF realizarTAG, existe
<1>2. CASE agregarTag(n, TagNuevo(0, <<>>))
  BY <1>1, <1>2, SanoVacio
<1>3. CASE pide(n, "TAG") /\ agregarTag(n, TagNuevo(tags[o].tamanio, tags[o].BLOCKS))
  <2> DEFINE s == tags[o].BLOCKS
  <2>1. "TAG" \in usos /\ "TRUNCATE_MENOS" \notin usos
    BY <1>3, PideSano DEF Sano, CargaSana
  <2>2. s \in Seq(Fisicos) /\ tags[o].tamanio \in Nat
    BY <1>1 DEF Sano, Base, DiscoBien, TagsOK, Tag
  <2>3. s = tags[o].hl
    BY <1>1, <2>1 DEF Sano, MismosBLOCKS, Punteros
  <2>4. /\ DOMAIN tags' = DOMAIN tags \cup {n}
        /\ tags'[n] = TagNuevo(tags[o].tamanio, s)
        /\ \A m \in DOMAIN tags : m # n /\ tags'[m] = tags[m]
    <3> HIDE DEF s
    <3> QED BY <1>1, <1>3, <2>2, AgregarTag DEF Sano, s
  <2>5. tags'[n].hl = s /\ tags'[n].bloques_logicos = s /\ tags'[n].BLOCKS = s
    BY <2>4 DEF TagNuevo
  <2>6. \A b : Enlazado(tags', b) <=> Enlazado(tags, b)
    BY <1>1, <2>3, <2>4, <2>5 DEF Enlazado
  <2>7. n # Inicial
    BY <1>3, PideSano DEF Sano
  <2>8. /\ Exacto(tags', bitmap') /\ Fieles(contenido', hash_index')
        /\ Sellados(tags', hash_index') /\ ConInicial(tags', contenido')
    <3> HIDE DEF s
    <3> QED BY <1>1, <2>4, <2>6, <2>7, MasEnlacesSano
  <2>9. Punteros(tags') /\ MismosBLOCKS(tags')
    BY <2>1, <2>4, <2>5 DEF Sano, Punteros, MismosBLOCKS
  <2> QED BY <2>1, <2>8, <2>9 DEF Sanado
<1> QED BY <1>2, <1>3 DEF realizarTAG

\* TRUNCATE to more keeps Sano.
LEMMA SanoAgrandar ==
  ASSUME Sano, UNCHANGED usos, NEW n \in Nombres, NEW tam \in Tamanios,
         agrandarEnTruncate(n, tam)
  PROVE  Sanado'
<1> DEFINE t == tags[n]
           u == tags'[n]
<1>1. /\ n \in DOMAIN tags /\ Salvo(tags, tags', n)
      /\ UNCHANGED <<bitmap, contenido, hash_index>>
  BY TrasAgrandar DEF Sano
<1>2. PICK k \in Nat :
        LET ceros == [i \in 1 .. k |-> 0]
        IN  /\ u.estado = t.estado
            /\ u.BLOCKS = t.BLOCKS \o ceros
            /\ u.bloques_logicos = t.bloques_logicos \o ceros
            /\ u.hl = t.hl \o ceros
  BY TrasAgrandar DEF Sano
<1>3. n # Inicial /\ t.estado # "COMMITED"
  BY PideSano DEF agrandarEnTruncate, Sano, CargaSana, commiteado
<1>4. t.hl \in Seq(Fisicos)
  BY <1>1 DEF Sano, Base, DiscoBien, TagsOK, Tag
<1>5. /\ \A i \in DOMAIN t.hl : i \in DOMAIN u.hl /\ u.hl[i] = t.hl[i]
      /\ \A i \in DOMAIN u.hl : i \in DOMAIN t.hl \/ u.hl[i] = 0
  <2> DEFINE r == t.hl \o [i \in 1 .. k |-> 0]
  <2> HIDE DEF t, u
  <2>1. /\ r \in Seq(Fisicos) /\ Len(r) = Len(t.hl) + k
        /\ \A i \in 1 .. Len(t.hl) : r[i] = t.hl[i]
        /\ \A i \in Len(t.hl) + 1 .. Len(t.hl) + k : r[i] = 0
    BY <1>4, ConCeros
  <2>2. u.hl = r
    BY <1>2
  <2> HIDE DEF r
  <2>3. Len(t.hl) \in Nat /\ DOMAIN t.hl = 1 .. Len(t.hl) /\ DOMAIN r = 1 .. Len(t.hl) + k
    BY <1>4, <2>1
  <2> QED BY <2>1, <2>2, <2>3
<1>6. \A m \in DOMAIN tags' : m \in DOMAIN tags /\ (m # n => tags'[m] = tags[m])
  BY <1>1 DEF Salvo
<1>7. Enlazado(tags, 0)
  BY BloqueCero DEF Sano
<1>8. \A b : Enlazado(tags', b) <=> Enlazado(tags, b)
  <2> HIDE DEF t, u
  <2>1. \A b : Enlazado(tags, b) => Enlazado(tags', b)
    BY <1>1, <1>5 DEF Enlazado, Salvo, t, u
  <2>2. ASSUME NEW b, NEW m \in DOMAIN tags', NEW i \in DOMAIN tags'[m].hl, tags'[m].hl[i] = b
        PROVE  Enlazado(tags, b)
    <3>1. CASE m = n
      BY <1>1, <1>5, <1>7, <2>2, <3>1 DEF Enlazado, t, u
    <3>2. CASE m # n
      BY <1>6, <2>2, <3>2 DEF Enlazado
    <3> QED BY <3>1, <3>2
  <2> QED BY <2>1, <2>2 DEF Enlazado
<1>9. /\ Exacto(tags', bitmap') /\ Fieles(contenido', hash_index')
      /\ Sellados(tags', hash_index') /\ ConInicial(tags', contenido')
  <2> HIDE DEF t, u
  <2> QED BY <1>1, <1>3, <1>8, MasEnlacesSano DEF Salvo, t
<1>10. Punteros(tags')
  <2>1. u.hl = u.bloques_logicos
    BY <1>1, <1>2 DEF Sano, Punteros
  <2> QED BY <1>1, <2>1 DEF Sano, Punteros, Salvo
<1>11. "TRUNCATE_MENOS" \notin usos => MismosBLOCKS(tags')
  <2>1. "TRUNCATE_MENOS" \notin usos => u.BLOCKS = u.bloques_logicos
    BY <1>1, <1>2 DEF Sano, MismosBLOCKS
  <2> QED BY <1>1, <2>1 DEF Sano, MismosBLOCKS, Salvo
<1>12. ASSUME "TAG" \notin usos PROVE SinCopia(tags')
  <2> SUFFICES ASSUME NEW m \in DOMAIN tags', tags'[m].estado = "WORK_IN_PROGRESS",
                      NEW i \in DOMAIN tags'[m].hl, tags'[m].hl[i] # 0,
                      NEW x \in DOMAIN tags', NEW j \in DOMAIN tags'[x].hl,
                      tags'[x].hl[j] = tags'[m].hl[i]
               PROVE  x = m /\ j = i
    BY DEF SinCopia, Propios, Solo
  <2>1. /\ m \in DOMAIN tags /\ i \in DOMAIN tags[m].hl /\ tags[m].hl[i] = tags'[m].hl[i]
        /\ tags[m].estado = "WORK_IN_PROGRESS"
    <3> HIDE DEF t, u
    <3> QED BY <1>2, <1>5, <1>6 DEF t, u
  <2>2. x \in DOMAIN tags /\ j \in DOMAIN tags[x].hl /\ tags[x].hl[j] = tags'[x].hl[j]
    <3> HIDE DEF t, u
    <3> QED BY <1>5, <1>6 DEF t, u
  <2> QED BY <1>12, <2>1, <2>2 DEF Sano, SinCopia, Propios, Solo
<1> QED BY <1>9, <1>10, <1>11, <1>12 DEF Sanado

\* Links that go leave what was alone, alone.
LEMMA MenosEnlacesSolo ==
  ASSUME NEW ts, NEW us, SinCopia(ts),
         \A m \in DOMAIN us :
           /\ m \in DOMAIN ts /\ us[m].estado = ts[m].estado
           /\ \A i \in DOMAIN us[m].hl : i \in DOMAIN ts[m].hl /\ us[m].hl[i] = ts[m].hl[i]
  PROVE  SinCopia(us)
<1> SUFFICES ASSUME NEW m \in DOMAIN us, us[m].estado = "WORK_IN_PROGRESS",
                    NEW i \in DOMAIN us[m].hl, us[m].hl[i] # 0,
                    NEW x \in DOMAIN us, NEW j \in DOMAIN us[x].hl, us[x].hl[j] = us[m].hl[i]
             PROVE  x = m /\ j = i
  BY DEF SinCopia, Propios, Solo
<1>1. /\ m \in DOMAIN ts /\ ts[m].estado = "WORK_IN_PROGRESS"
      /\ i \in DOMAIN ts[m].hl /\ ts[m].hl[i] = us[m].hl[i]
  OBVIOUS
<1>2. x \in DOMAIN ts /\ j \in DOMAIN ts[x].hl /\ ts[x].hl[j] = us[x].hl[j]
  OBVIOUS
<1> QED BY <1>1, <1>2 DEF SinCopia, Propios, Solo

\* TRUNCATE to less keeps Sano.
LEMMA SanoAchicar ==
  ASSUME Sano, UNCHANGED usos, NEW n \in Nombres, NEW tam \in Tamanios,
         ferConLaMexicana(n, tam)
  PROVE  Sanado'
<1> DEFINE t == tags[n]
           u == tags'[n]
<1>1. n # Inicial /\ "TRUNCATE_MENOS" \in usos /\ t.estado # "COMMITED"
  BY PideSano DEF ferConLaMexicana, Sano, CargaSana, commiteado
<1>2. PICK k : Achicado(n, k)
  BY TrasFerConLaMexicana DEF Sano
<1>3. /\ n \in DOMAIN tags /\ k \in 0 .. Len(t.bloques_logicos)
      /\ DOMAIN tags' = DOMAIN tags /\ \A m \in DOMAIN tags : m # n => tags'[m] = tags[m]
      /\ u.estado = t.estado
      /\ Len(u.bloques_logicos) = Len(t.bloques_logicos) - k
      /\ \A i \in 1 .. Len(t.bloques_logicos) - k : u.hl[i] = t.hl[i]
      /\ Punteros(tags')
      /\ bitmap' = bitmap \ {b \in Fisicos : Enlazado(tags, b) /\ ~ Enlazado(tags', b)}
      /\ hash_index' = hash_index
      /\ \A b : Enlazado(tags', b) => Enlazado(tags, b) /\ contenido'[b] = contenido[b]
      /\ TagsOK(tags')
  BY <1>2 DEF Achicado, Sano, Salvo, DiscoBien
<1>4. Exacto(tags', bitmap')
  BY <1>3 DEF Sano, Exacto
<1>5. \A b : EnlazaCommiteado(tags, b) => EnlazaCommiteado(tags', b)
  <2>1. \A m \in DOMAIN tags : tags[m].estado = "COMMITED" => m \in DOMAIN tags' /\ tags'[m] = tags[m]
    BY <1>1, <1>3
  <2> QED BY <2>1, SigueSellado
<1>6. Sellados(tags', hash_index')
  BY <1>3, <1>5 DEF Sano, Sellados
<1>7. Fieles(contenido', hash_index')
  BY <1>3, <1>6, EnlazaAlguno DEF Sano, Sellados, Fieles
<1>8. ConInicial(tags', contenido')
  <2>1. EnlazaCommiteado(tags', 0)
    BY <1>5, BloqueCero DEF Sano
  <2>2. contenido'[0] = contenido[0]
    BY <1>3, <2>1, EnlazaAlguno
  <2> QED BY <1>1, <1>3, <2>2 DEF Sano, ConInicial
<1>9. ASSUME "TAG" \notin usos PROVE SinCopia(tags')
  <2>1. \A i \in DOMAIN u.hl : i \in DOMAIN t.hl /\ u.hl[i] = t.hl[i]
    <3>1. /\ t.hl \in Seq(Fisicos) /\ u.hl \in Seq(Fisicos)
          /\ t.bloques_logicos \in Seq(Fisicos)
          /\ Len(t.hl) = Len(t.bloques_logicos) /\ Len(u.hl) = Len(u.bloques_logicos)
      BY <1>3 DEF Sano, Base, DiscoBien, TagsOK, Tag
    <3> HIDE DEF t, u
    <3>2. /\ DOMAIN t.hl = 1 .. Len(t.hl) /\ DOMAIN u.hl = 1 .. Len(u.hl)
          /\ Len(t.hl) \in Nat /\ k \in Nat
      BY <1>3, <3>1
    <3> QED BY <1>3, <3>1, <3>2
  <2>2. \A m \in DOMAIN tags' :
          /\ m \in DOMAIN tags /\ tags'[m].estado = tags[m].estado
          /\ \A i \in DOMAIN tags'[m].hl : i \in DOMAIN tags[m].hl /\ tags'[m].hl[i] = tags[m].hl[i]
    <3> HIDE DEF t, u
    <3> QED BY <1>3, <2>1 DEF t, u
  <2> QED BY <1>9, <2>2, MenosEnlacesSolo DEF Sano
<1> QED BY <1>1, <1>3, <1>4, <1>6, <1>7, <1>8, <1>9 DEF Sanado

\* A block with no link but i of n, which is not COMMITED, is neither block0
\* nor in the index.
LEMMA EnlaceUnico ==
  ASSUME Sano, NEW n \in DOMAIN tags, tags[n].estado # "COMMITED",
         NEW i \in DOMAIN tags[n].hl, ~ (contadorHLinks(tags, tags[n].hl[i]) > 2)
  PROVE  ~ EnlazaCommiteado(tags, tags[n].hl[i])
<1> SUFFICES ASSUME EnlazaCommiteado(tags, tags[n].hl[i]) PROVE FALSE
  OBVIOUS
<1>1. PICK m \in DOMAIN tags : /\ tags[m].estado = "COMMITED"
                               /\ \E j \in DOMAIN tags[m].hl : tags[m].hl[j] = tags[n].hl[i]
  BY DEF EnlazaCommiteado
<1>2. PICK j \in DOMAIN tags[m].hl : tags[m].hl[j] = tags[n].hl[i]
  BY <1>1
<1>3. <<m, j>> # <<n, i>>
  BY <1>1
<1>4. IsFiniteSet(DOMAIN tags) /\ \A x \in DOMAIN tags : tags[x].hl \in Seq(Int)
  BY FisicosEnteros, SecuenciaDe DEF Sano, Base, DiscoBien, TagsOK, Tag
<1> QED BY <1>2, <1>3, <1>4, EstaCompartido

\* A WRITE in place keeps Sano: the index does not name its block.
LEMMA SanoEnLugar ==
  ASSUME Sano, UNCHANGED usos, NEW n \in DOMAIN tags, NEW i \in DOMAIN tags[n].bloques_logicos,
         tags[n].estado # "COMMITED", NEW c, EscritoEnLugar(n, i, c)
  PROVE  Sanado'
<1> DEFINE b == tags[n].hl[i]
<1>1. i \in DOMAIN tags[n].hl
  BY DEF Sano, Punteros
<1>2. ~ EnlazaCommiteado(tags, b)
  BY <1>1, EnlaceUnico DEF EscritoEnLugar
<1>3. /\ contenido' = [contenido EXCEPT ![b] = c]
      /\ UNCHANGED <<tags, bitmap, hash_index>>
  BY DEF EscritoEnLugar
<1> HIDE DEF b
<1>4. \A x \in Fisicos : x # b => contenido'[x] = contenido[x]
  BY <1>3 DEF Sano, Base, DiscoBien
<1>5. Fieles(contenido', hash_index')
  <2>1. ASSUME NEW h \in DOMAIN hash_index PROVE contenido'[hash_index[h]] = h
    <3>1. hash_index[h] \in Fisicos /\ hash_index[h] # b
      BY <1>2 DEF Sano, Sellados, Base, DiscoBien, IndiceOK
    <3> QED BY <1>4, <3>1 DEF Sano, Fieles
  <2> QED BY <1>3, <2>1 DEF Fieles
<1>6. contenido'[0] = contenido[0]
  BY <1>2, <1>4, BloqueCero, HayCero DEF Sano
<1> QED BY <1>3, <1>5, <1>6 DEF Sano, Sanado, ConInicial

\* A WRITE in a new block keeps Sano.
LEMMA SanoAparte ==
  ASSUME Sano, UNCHANGED usos, NEW n \in DOMAIN tags, n # Inicial,
         NEW i \in DOMAIN tags[n].bloques_logicos,
         tags[n].estado # "COMMITED", NEW c, NEW b, EscritoAparte(n, i, c, b)
  PROVE  Sanado'
<1> DEFINE t == tags[n]
           u == tags'[n]
           viejo == t.hl[i]
<1>1. /\ t.hl \in Seq(Fisicos) /\ t.bloques_logicos = t.hl /\ i \in DOMAIN t.hl
      /\ TagsOK(tags)
  BY DEF Sano, Punteros, Base, DiscoBien, TagsOK, Tag
<1>2. /\ b \in Fisicos /\ b \notin bitmap
      /\ DOMAIN tags' = DOMAIN tags /\ \A m \in DOMAIN tags : m # n => tags'[m] = tags[m]
      /\ Salvo(tags, tags', n)
      /\ u.estado = t.estado
      /\ u.BLOCKS = [t.BLOCKS EXCEPT ![i] = b]
      /\ u.bloques_logicos = [t.hl EXCEPT ![i] = b]
      /\ u.hl = [t.hl EXCEPT ![i] = b]
      /\ Enlazado(tags', viejo) => bitmap' = bitmap \cup {b}
      /\ ~ Enlazado(tags', viejo) => bitmap' = (bitmap \cup {b}) \ {viejo}
      /\ contenido' = [contenido EXCEPT ![b] = c]
      /\ hash_index' = hash_index
  BY <1>1 DEF EscritoAparte, Salvo
<1>3. ~ Enlazado(tags, b)
  BY <1>2 DEF Sano, Exacto
<1>4. EnlaceMovido(tags, tags', n, i, b)
  BY <1>1, <1>2, EnlacesReapuntados
<1>5. viejo # b /\ viejo \in Fisicos /\ Enlazado(tags, viejo)
  BY <1>1, <1>3 DEF Enlazado
<1>6. Exacto(tags', bitmap')
  <2> HIDE DEF t, u, viejo
  <2> SUFFICES ASSUME NEW x \in Fisicos PROVE x \in bitmap' <=> Enlazado(tags', x)
    BY DEF Exacto
  <2>1. /\ Enlazado(tags', b)
        /\ Enlazado(tags', x) => x = b \/ Enlazado(tags, x)
        /\ Enlazado(tags, x) => x = viejo \/ Enlazado(tags', x)
    BY <1>4 DEF EnlaceMovido, viejo, t
  <2>2. x \in bitmap <=> Enlazado(tags, x)
    BY DEF Sano, Exacto
  <2> QED BY <1>2, <1>5, <2>1, <2>2
<1>7. Sellados(tags', hash_index')
  <2>1. \A m \in DOMAIN tags : tags[m].estado = "COMMITED" => m \in DOMAIN tags' /\ tags'[m] = tags[m]
    BY <1>2
  <2>2. \A x : EnlazaCommiteado(tags, x) => EnlazaCommiteado(tags', x)
    BY <2>1, SigueSellado
  <2> QED BY <1>2, <2>2 DEF Sano, Sellados
<1>8. \A x \in Fisicos : x # b => contenido'[x] = contenido[x]
  BY <1>2 DEF Sano, Base, DiscoBien
<1>9. Fieles(contenido', hash_index')
  <2>1. ASSUME NEW h \in DOMAIN hash_index PROVE contenido'[hash_index[h]] = h
    <3>1. hash_index[h] \in Fisicos /\ hash_index[h] # b
      BY <1>3, EnlazaAlguno DEF Sano, Sellados, Base, DiscoBien, IndiceOK
    <3> QED BY <1>8, <3>1 DEF Sano, Fieles
  <2> QED BY <1>2, <2>1 DEF Fieles
<1>10. ConInicial(tags', contenido')
  <2>1. contenido'[0] = contenido[0]
    BY <1>3, <1>8, BloqueCero, HayCero DEF Sano
  <2> QED BY <1>2, <2>1 DEF Sano, ConInicial
<1>11. Punteros(tags')
  <2>1. u.hl = u.bloques_logicos
    BY <1>2
  <2> QED BY <1>2, <2>1 DEF Sano, Punteros
<1>12. "TRUNCATE_MENOS" \notin usos => MismosBLOCKS(tags')
  <2>1. "TRUNCATE_MENOS" \notin usos => u.BLOCKS = u.bloques_logicos
    BY <1>1, <1>2 DEF Sano, MismosBLOCKS
  <2> QED BY <1>2, <2>1 DEF Sano, MismosBLOCKS
<1>13. ASSUME "TAG" \notin usos PROVE SinCopia(tags')
  <2> SUFFICES ASSUME NEW m \in DOMAIN tags', tags'[m].estado = "WORK_IN_PROGRESS",
                      NEW j \in DOMAIN tags'[m].hl, tags'[m].hl[j] # 0,
                      NEW x \in DOMAIN tags', NEW k \in DOMAIN tags'[x].hl,
                      tags'[x].hl[k] = tags'[m].hl[j]
               PROVE  x = m /\ k = j
    BY DEF SinCopia, Propios, Solo
  <2>1. /\ \A y \in DOMAIN u.hl : y \in DOMAIN t.hl /\ u.hl[y] = IF y = i THEN b ELSE t.hl[y]
    <3> HIDE DEF t, u
    <3> QED BY <1>1, <1>2
  <2>2. \A y \in DOMAIN tags' : \A z \in DOMAIN tags'[y].hl :
          /\ y \in DOMAIN tags /\ z \in DOMAIN tags[y].hl
          /\ tags'[y].hl[z] = IF y = n /\ z = i THEN b ELSE tags[y].hl[z]
    <3> HIDE DEF t, u
    <3> QED BY <1>2, <2>1 DEF t, u
  <2>3. \A y \in DOMAIN tags : \A z \in DOMAIN tags[y].hl : tags[y].hl[z] # b
    BY <1>3 DEF Enlazado
  <2>4. CASE m = n /\ j = i
    BY <2>2, <2>3, <2>4
  <2>5. CASE ~ (m = n /\ j = i)
    <3>1. /\ m \in DOMAIN tags /\ j \in DOMAIN tags[m].hl /\ tags'[m].hl[j] = tags[m].hl[j]
          /\ tags[m].estado = "WORK_IN_PROGRESS"
      <4>1. /\ m \in DOMAIN tags /\ j \in DOMAIN tags[m].hl /\ tags'[m].hl[j] = tags[m].hl[j]
        BY <2>2, <2>5
      <4>2. tags[m].estado = "WORK_IN_PROGRESS"
        BY <1>2
      <4> QED BY <4>1, <4>2
    <3>2. /\ x \in DOMAIN tags /\ k \in DOMAIN tags[x].hl /\ tags[x].hl[k] = tags[m].hl[j]
      BY <2>2, <2>3, <3>1
    <3> QED BY <1>13, <3>1, <3>2 DEF Sano, SinCopia, Propios, Solo
  <2> QED BY <2>4, <2>5
<1> QED BY <1>6, <1>7, <1>9, <1>10, <1>11, <1>12, <1>13 DEF Sanado

\* WRITE keeps Sano.
LEMMA SanoWRITE ==
  ASSUME Sano, UNCHANGED usos, NEW n \in Nombres, NEW i \in Nat, NEW c \in Contenidos,
         realizarWRITE(n, i, c)
  PROVE  Sanado'
<1>1. n # Inicial
  BY PideSano DEF realizarWRITE, Sano
<1>2. /\ n \in DOMAIN tags /\ i \in DOMAIN tags[n].bloques_logicos /\ tags[n].estado # "COMMITED"
      /\ \/ EscritoEnLugar(n, i, c)
         \/ \E b : EscritoAparte(n, i, c, b)
         \/ UNCHANGED <<tags, bitmap, contenido, hash_index>>
  BY TrasWRITE DEF Sano, commiteado
<1>3. CASE UNCHANGED <<tags, bitmap, contenido, hash_index>>
  BY <1>3 DEF Sano, Sanado
<1> QED BY <1>1, <1>2, <1>3, SanoEnLugar, SanoAparte

\* A restart finds everything as it was.
LEMMA SanoReinicio ==
  ASSUME Sano, UNCHANGED usos, RECONSTRUCCION
  PROVE  /\ Sanado' /\ UNCHANGED <<bitmap, contenido, hash_index>>
         /\ DOMAIN tags' = DOMAIN tags /\ \A m \in DOMAIN tags : tags'[m] = tags[m]
<1> DEFINE r == reconstruir(disco)
<1>1. DiscoOK(disco) /\ guardar(r) /\ "REINICIO" \in usos
  BY DelDisco DEF RECONSTRUCCION, Sano, Base
<1>2. Recuperado(disco, r)
  BY <1>1, TodoLegible, Reconstruir
<1>3. /\ tags' = r.tags /\ bitmap' = r.bitmap /\ contenido' = r.contenido
      /\ hash_index' = r.hash_index
  BY <1>1 DEF guardar
<1> HIDE DEF r
<1>4. MismosBLOCKS(tags)
  BY <1>1 DEF Sano, CargaSana
<1>5. TagsOK(tags') /\ DOMAIN tags' = DOMAIN tags /\ DOMAIN tags' \subseteq Nombres
  BY <1>2, <1>3, DelDisco DEF Recuperado, DiscoOK, TagsOK
<1>6. ASSUME NEW m \in DOMAIN tags
      PROVE  tags'[m] = tags[m]
  <2> DEFINE t == tags[m]
             u == tags'[m]
  <2>1. t \in Tag /\ u \in Tag
    BY <1>5 DEF TagsOK, Sano, Base, DiscoBien
  <2>2. t.hl = t.BLOCKS /\ t.bloques_logicos = t.BLOCKS
    BY <1>4 DEF Sano, Punteros, MismosBLOCKS
  <2>3. /\ u.estado = t.estado /\ u.tamanio = t.tamanio /\ u.BLOCKS = t.BLOCKS
        /\ u.bloques_logicos = t.BLOCKS
        /\ t.hl = t.BLOCKS => u.hl = t.BLOCKS
    BY <1>2, <1>3, DelDisco DEF Recuperado
  <2> HIDE DEF t, u
  <2>4. u = t
    BY <2>1, <2>2, <2>3 DEF Tag
  <2> QED BY <2>4 DEF t, u
<1>7. \A b : Enlazado(tags', b) <=> Enlazado(tags, b)
  BY <1>5, <1>6 DEF Enlazado
<1>8. Exacto(tags', bitmap')
  BY <1>2, <1>3 DEF Recuperado, Exacto
<1>9. bitmap' = bitmap
  <2>1. bitmap' \subseteq Fisicos /\ bitmap \subseteq Fisicos
    BY <1>2, <1>3 DEF Recuperado, DiscoOK, Sano, Base, DiscoBien
  <2> QED BY <1>7, <1>8, <2>1 DEF Sano, Exacto
<1>10. contenido' = contenido /\ hash_index' = hash_index
  BY <1>2, <1>3, DelDisco DEF Recuperado
<1>11. \A b : EnlazaCommiteado(tags', b) <=> EnlazaCommiteado(tags, b)
  BY <1>5, <1>6 DEF EnlazaCommiteado
<1>12. /\ Fieles(contenido', hash_index') /\ Sellados(tags', hash_index')
       /\ ConInicial(tags', contenido')
  <2>1. Sellados(tags', hash_index')
    BY <1>10, <1>11 DEF Sano, Sellados
  <2>2. ConInicial(tags', contenido')
    BY <1>5, <1>6, <1>10 DEF Sano, ConInicial
  <2> QED BY <1>10, <2>1, <2>2 DEF Sano, Fieles
<1>13. Punteros(tags') /\ MismosBLOCKS(tags')
  BY <1>4, <1>5, <1>6 DEF Sano, Punteros, MismosBLOCKS
<1>14. "TAG" \notin usos => SinCopia(tags')
  BY <1>5, <1>6, MenosEnlacesSolo DEF Sano
<1> QED BY <1>5, <1>6, <1>8, <1>9, <1>10, <1>12, <1>13, <1>14 DEF Sanado

\* One turn of a DELETE, link by link.
LEMMA QuitarEnlace ==
  ASSUME NEW d, DiscoOK(d), NEW n \in DOMAIN d.tags, d.tags[n].bloques_logicos # <<>>,
         Punteros(d.tags), NEW x, Enlazado(d.tags, x), x # Last(d.tags[n].bloques_logicos)
  PROVE  Enlazado(quitarUltimo(d, n).tags, x)
<1> DEFINE ts == quitarUltimo(d, n).tags
           t == d.tags[n]
<1>1. Salvo(d.tags, ts, n) /\ ts[n].hl = Front(t.hl)
  BY Quitar
<1>2. t.hl = t.bloques_logicos /\ t.hl \in Seq(Fisicos) /\ t.hl # <<>>
  BY DEF Punteros, DiscoOK, TagsOK, Tag
<1>3. PICK m \in DOMAIN d.tags : \E i \in DOMAIN d.tags[m].hl : d.tags[m].hl[i] = x
  BY DEF Enlazado
<1>4. PICK i \in DOMAIN d.tags[m].hl : d.tags[m].hl[i] = x
  BY <1>3
<1> HIDE DEF ts
<1>5. m \in DOMAIN ts /\ (m # n => ts[m] = d.tags[m])
  BY <1>1 DEF Salvo
<1>6. CASE m # n
  BY <1>4, <1>5, <1>6 DEF Enlazado, ts
<1>7. CASE m = n
  <2>1. i \in DOMAIN t.hl /\ t.hl[i] = x
    BY <1>4, <1>7
  <2> DEFINE s == t.hl
  <2>2. s \in Seq(Fisicos) /\ s # <<>> /\ i \in DOMAIN s /\ s[i] = x /\ Last(s) # x
        /\ ts[n].hl = Front(s)
    BY <1>1, <1>2, <2>1
  <2> HIDE DEF s
  <2>3. /\ Last(s) = s[Len(s)] /\ Front(s) \in Seq(Fisicos) /\ Len(Front(s)) = Len(s) - 1
        /\ \A y \in 1 .. Len(s) - 1 : Front(s)[y] = s[y]
    BY <2>2, UltimoYFrente
  <2>4. i \in 1 .. Len(s) - 1
    BY <2>2, <2>3
  <2>5. i \in DOMAIN Front(s) /\ Front(s)[i] = x
    BY <2>2, <2>3, <2>4
  <2> QED BY <1>5, <1>7, <2>2, <2>5 DEF Enlazado, ts
<1> QED BY <1>6, <1>7

\* What the index of a COMMITED tag's deletion still names has links.
LEMMA IndiceAlEliminar ==
  ASSUME NEW d, DiscoOK(d), NEW n \in DOMAIN d.tags,
         NEW k \in 0 .. Len(d.tags[n].bloques_logicos),
         Punteros(d.tags), Fieles(d.contenido, d.hash_index),
         \A h \in DOMAIN d.hash_index : Enlazado(d.tags, d.hash_index[h])
  PROVE  LET r == unlinkearTodoParaEliminar(d, n, k)
         IN \A h \in DOMAIN r.hash_index :
              /\ h \in DOMAIN d.hash_index /\ r.hash_index[h] = d.hash_index[h]
              /\ d.tags[n].estado = "COMMITED" => Enlazado(r.tags, d.hash_index[h])
<1> DEFINE Hecho(r) ==
             \A h \in DOMAIN r.hash_index :
               /\ h \in DOMAIN d.hash_index /\ r.hash_index[h] = d.hash_index[h]
               /\ d.tags[n].estado = "COMMITED" => Enlazado(r.tags, d.hash_index[h])
<1>1. PICK f : TrazaDeEliminar(f, d, n, k)
  BY TrasParaEliminar
<1>2. k \in Nat /\ f[0] = d /\ unlinkearTodoParaEliminar(d, n, k) = f[k]
  BY <1>1 DEF TrazaDeEliminar, DiscoOK, TagsOK, Tag
<1>3. Hecho(d)
  OBVIOUS
<1>4. ASSUME NEW j \in 1 .. k, Hecho(f[j - 1])
      PROVE  Hecho(f[j])
  <2> DEFINE e == f[j - 1]
             r == f[j]
             ts == quitarUltimo(e, n).tags
             b == Last(e.tags[n].bloques_logicos)
  <2>1. j - 1 \in 0 .. k
    BY <1>2
  <2>2. /\ r = unlinkearParaEliminar(e, n) /\ e.tags[n].bloques_logicos # <<>>
        /\ DiscoOK(e) /\ Salvo(d.tags, e.tags, n) /\ SinUltimos(d.tags[n], e.tags[n], j - 1)
        /\ Liberados(d, e) /\ e.contenido = d.contenido
    BY <1>1, <2>1 DEF TrazaDeEliminar
  <2>3. n \in DOMAIN e.tags /\ e.tags[n].estado = d.tags[n].estado /\ Punteros(e.tags)
    BY <2>2 DEF Salvo, SinUltimos, Liberados
  <2>4. /\ r.tags = ts
        /\ Enlazado(ts, b) => r.hash_index = e.hash_index
        /\ ~ Enlazado(ts, b) =>
             /\ DOMAIN r.hash_index = IF e.tags[n].estado = "COMMITED"
                                      THEN DOMAIN e.hash_index \ {e.contenido[b]}
                                      ELSE DOMAIN e.hash_index
             /\ \A h \in DOMAIN r.hash_index : r.hash_index[h] = e.hash_index[h]
    <3>1. LET rr == unlinkearParaEliminar(e, n)
              tts == quitarUltimo(e, n).tags
              bb == Last(e.tags[n].bloques_logicos)
          IN  /\ rr.tags = tts
              /\ Enlazado(tts, bb) => rr.hash_index = e.hash_index
              /\ ~ Enlazado(tts, bb) =>
                   /\ DOMAIN rr.hash_index = IF e.tags[n].estado = "COMMITED"
                                             THEN DOMAIN e.hash_index \ {e.contenido[bb]}
                                             ELSE DOMAIN e.hash_index
                   /\ \A h \in DOMAIN rr.hash_index : rr.hash_index[h] = e.hash_index[h]
      <4> HIDE DEF e, Hecho
      <4> QED BY <2>2, <2>3, ParaEliminar
    <3> HIDE DEF e, r, Hecho
    <3> QED BY <2>2, <3>1
  <2>5. \A x : Enlazado(e.tags, x) => x = b \/ Enlazado(ts, x)
    <3> HIDE DEF e, Hecho
    <3> QED BY <2>2, <2>3, QuitarEnlace
  <2>6. ASSUME NEW h \in DOMAIN r.hash_index
        PROVE  /\ h \in DOMAIN e.hash_index /\ r.hash_index[h] = e.hash_index[h]
               /\ ~ Enlazado(ts, b) /\ e.tags[n].estado = "COMMITED" => h # e.contenido[b]
    <3> HIDE DEF e, r, ts, b, Hecho
    <3> QED BY <2>4
  <2>7. ASSUME NEW h \in DOMAIN r.hash_index, d.tags[n].estado = "COMMITED"
        PROVE  Enlazado(r.tags, d.hash_index[h])
    <3>1. h \in DOMAIN e.hash_index /\ h \in DOMAIN d.hash_index /\ Enlazado(e.tags, d.hash_index[h])
      BY <1>4, <2>6, <2>7
    <3>2. d.contenido[d.hash_index[h]] = h
      BY <3>1 DEF Fieles
    <3>3. d.hash_index[h] = b => Enlazado(ts, b)
      BY <2>2, <2>3, <2>6, <2>7, <3>2
    <3> HIDE DEF e, r, ts, b, Hecho
    <3> QED BY <2>4, <2>5, <3>1, <3>3
  <2> QED BY <1>4, <2>6, <2>7
<1>5. \A j \in 0 .. k : Hecho(f[j])
  <2> DEFINE S == {j \in 0 .. k : Hecho(f[j])}
  <2> HIDE DEF Hecho
  <2>1. 0 \in S
    BY <1>2, <1>3
  <2>2. \A j \in 1 .. k : j - 1 \in S => j \in S
    BY <1>4
  <2>3. 0 .. k \subseteq S
    <3> HIDE DEF S
    <3> QED BY <1>2, <2>1, <2>2, PorVueltas
  <2> QED BY <2>3
<1>6. Hecho(f[k])
  <2> HIDE DEF Hecho
  <2> QED BY <1>2, <1>5
<1> QED BY <1>2, <1>6

\* DELETE keeps Sano.
LEMMA SanoELIMINAR ==
  ASSUME Sano, UNCHANGED usos, NEW n \in Nombres, realizarELIMINAR_UN_TAG(n)
  PROVE  Sanado'
<1> DEFINE N == Len(tags[n].bloques_logicos)
           d == unlinkearTodoParaEliminar(disco, n, N)
<1>1. n # Inicial /\ "TAG" \notin usos /\ n \in DOMAIN tags
  BY PideSano DEF realizarELIMINAR_UN_TAG, existe, Sano, CargaSana
<1>2. Eliminado(n, d)
  BY TrasELIMINAR DEF Sano
<1>3. /\ DiscoOK(disco) /\ disco.tags = tags /\ disco.contenido = contenido
      /\ disco.hash_index = hash_index /\ N \in 0 .. Len(disco.tags[n].bloques_logicos)
      /\ disco.bitmap = bitmap
  BY <1>1, DelDisco DEF Sano, Base, DiscoBien, TagsOK, Tag
<1>4. \A h \in DOMAIN d.hash_index :
        /\ h \in DOMAIN hash_index /\ d.hash_index[h] = hash_index[h]
        /\ tags[n].estado = "COMMITED" => Enlazado(d.tags, hash_index[h])
  <2>1. /\ Punteros(disco.tags) /\ Fieles(disco.contenido, disco.hash_index)
        /\ \A h \in DOMAIN disco.hash_index : Enlazado(disco.tags, disco.hash_index[h])
    BY <1>3, EnlazaAlguno DEF Sano, Sellados
  <2> HIDE DEF N
  <2> QED BY <1>1, <1>3, <2>1, IndiceAlEliminar
<1> HIDE DEF d
<1>5. /\ DOMAIN tags' = DOMAIN tags \ {n} /\ \A m \in DOMAIN tags' : tags'[m] = tags[m]
      /\ \A b : Enlazado(tags', b) <=> Enlazado(d.tags, b)
      /\ bitmap' = bitmap \ {b \in Fisicos : Enlazado(tags, b) /\ ~ Enlazado(d.tags, b)}
      /\ hash_index' = d.hash_index /\ contenido' = contenido
  BY <1>2, <1>3 DEF Eliminado, Liberados, Sano
<1>6. \A b : Enlazado(tags', b) => Enlazado(tags, b)
  BY <1>5 DEF Enlazado
<1>7. Exacto(tags', bitmap')
  BY <1>5, <1>6 DEF Sano, Exacto
<1>8. ConInicial(tags', contenido')
  BY <1>1, <1>5 DEF Sano, ConInicial
<1>9. ASSUME NEW h \in DOMAIN hash_index'
      PROVE  EnlazaCommiteado(tags', hash_index'[h])
  <2> DEFINE b == hash_index[h]
  <2>1. h \in DOMAIN hash_index /\ hash_index'[h] = b
    BY <1>4, <1>5, <1>9
  <2>2. PICK x \in DOMAIN tags : /\ tags[x].estado = "COMMITED"
                                 /\ \E i \in DOMAIN tags[x].hl : tags[x].hl[i] = b
    BY <2>1 DEF Sano, Sellados, EnlazaCommiteado
  <2> HIDE DEF b
  <2>3. CASE x # n
    BY <1>5, <2>1, <2>2, <2>3 DEF EnlazaCommiteado
  <2>4. CASE x = n
    <3>1. Enlazado(tags', b)
      BY <1>4, <1>5, <1>9, <2>2, <2>4 DEF b
    <3>2. PICK m \in DOMAIN tags' : \E i \in DOMAIN tags'[m].hl : tags'[m].hl[i] = b
      BY <3>1 DEF Enlazado
    <3>3. PICK i \in DOMAIN tags'[m].hl : tags'[m].hl[i] = b
      BY <3>2
    <3>4. m \in DOMAIN tags /\ m # n /\ i \in DOMAIN tags[m].hl /\ tags[m].hl[i] = b
          /\ tags'[m] = tags[m]
      BY <1>5, <3>3
    <3>5. CASE tags[m].estado = "COMMITED"
      BY <2>1, <3>3, <3>4, <3>5 DEF EnlazaCommiteado
    <3>6. CASE tags[m].estado # "COMMITED"
      <4>1. tags[m].estado = "WORK_IN_PROGRESS"
        BY <3>4, <3>6, Estados DEF Sano, Base, DiscoBien
      <4>2. b = 0 \/ Solo(tags, m, i)
        BY <1>1, <3>4, <4>1 DEF Sano, SinCopia, Propios
      <4>3. ~ Solo(tags, m, i)
        BY <2>2, <2>4, <3>4 DEF Solo
      <4> QED BY <1>8, <2>1, <4>2, <4>3, BloqueCero
    <3> QED BY <3>5, <3>6
  <2> QED BY <2>3, <2>4
<1>10. Fieles(contenido', hash_index') /\ Sellados(tags', hash_index')
  BY <1>4, <1>5, <1>9 DEF Sano, Fieles, Sellados
<1>11. Punteros(tags') /\ ("TRUNCATE_MENOS" \notin usos => MismosBLOCKS(tags'))
  BY <1>5 DEF Sano, Punteros, MismosBLOCKS
<1>12. SinCopia(tags')
  BY <1>1, <1>5, MenosEnlacesSolo DEF Sano
<1> QED BY <1>7, <1>8, <1>10, <1>11, <1>12 DEF Sanado

\* The disk e after j turns of escribirEnHashIndex over n.
AMedioIndexar(n, e, j) ==
  /\ DiscoOK(e) /\ Salvo(tags, e.tags, n) /\ e.contenido = contenido
  /\ Punteros(e.tags) /\ e.tags[n].estado = tags[n].estado
  /\ Len(e.tags[n].hl) = Len(tags[n].hl)
  /\ Exacto(e.tags, e.bitmap) /\ Fieles(contenido, e.hash_index)
  /\ \A h \in DOMAIN e.hash_index :
       \/ EnlazaCommiteado(e.tags, e.hash_index[h])
       \/ \E i \in DOMAIN e.tags[n].hl : i <= j /\ e.tags[n].hl[i] = e.hash_index[h]
  /\ \A i \in DOMAIN tags[n].hl : contenido[e.tags[n].hl[i]] = contenido[tags[n].hl[i]]
  /\ "TRUNCATE_MENOS" \notin usos => MismosBLOCKS(e.tags)
  /\ "TAG" \notin usos =>
       \A m \in DOMAIN e.tags :
         m # n /\ e.tags[m].estado = "WORK_IN_PROGRESS" => Propios(e.tags, m)

\* A turn of COMMIT that deduplicates.
LEMMA VueltaQueReapunta ==
  ASSUME Sano, NEW n \in DOMAIN tags, tags[n].estado # "COMMITED",
         NEW j \in Nat \ {0}, j \in DOMAIN tags[n].hl,
         NEW e, AMedioIndexar(n, e, j - 1),
         NEW h \in DOMAIN e.hash_index, h = contenido[e.tags[n].hl[j]],
         NEW r, Reapuntado(e, r, n, j, e.hash_index[h])
  PROVE  AMedioIndexar(n, r, j)
<1> DEFINE u == e.tags[n]
           v == r.tags[n]
           b == u.hl[j]
           c == e.hash_index[h]
<1>1. /\ DiscoOK(e) /\ TagsOK(e.tags) /\ n \in DOMAIN e.tags /\ DOMAIN e.tags = DOMAIN tags
      /\ u.bloques_logicos = u.hl /\ u.hl \in Seq(Fisicos)
      /\ DOMAIN u.hl = DOMAIN tags[n].hl /\ j \in DOMAIN u.hl
      /\ u.estado # "COMMITED" /\ c \in Fisicos
  <2>1. /\ DiscoOK(e) /\ TagsOK(e.tags) /\ n \in DOMAIN e.tags /\ DOMAIN e.tags = DOMAIN tags
        /\ u.bloques_logicos = u.hl /\ u.estado # "COMMITED" /\ c \in Fisicos
        /\ Len(u.hl) = Len(tags[n].hl)
    BY DEF AMedioIndexar, Salvo, Punteros, DiscoOK, IndiceOK
  <2>2. u.hl \in Seq(Fisicos) /\ tags[n].hl \in Seq(Fisicos)
    BY <2>1 DEF TagsOK, Tag, Sano, Base, DiscoBien
  <2> HIDE DEF u
  <2>3. DOMAIN u.hl = DOMAIN tags[n].hl
    BY <2>1, <2>2
  <2> QED BY <2>1, <2>2, <2>3
<1> HIDE DEF c
<1>2. /\ DiscoOK(r) /\ r.contenido = contenido /\ r.hash_index = e.hash_index
      /\ Salvo(e.tags, r.tags, n) /\ DOMAIN r.tags = DOMAIN e.tags
      /\ \A m \in DOMAIN e.tags : m # n => r.tags[m] = e.tags[m]
      /\ v.estado = u.estado
      /\ v.BLOCKS = [u.BLOCKS EXCEPT ![j] = c]
      /\ v.bloques_logicos = [u.hl EXCEPT ![j] = c]
      /\ v.hl = [u.hl EXCEPT ![j] = c]
      /\ Enlazado(r.tags, b) => r.bitmap = e.bitmap
      /\ ~ Enlazado(r.tags, b) => r.bitmap = e.bitmap \ {b}
  BY <1>1 DEF Reapuntado, AMedioIndexar, Salvo, c
<1>3. EnlaceMovido(e.tags, r.tags, n, j, c)
  BY <1>1, <1>2, EnlacesReapuntados
<1>4. \/ EnlazaCommiteado(e.tags, c)
      \/ \E i \in DOMAIN u.hl : i <= j - 1 /\ u.hl[i] = c
  BY DEF AMedioIndexar, c
<1>5. Enlazado(e.tags, c)
  BY <1>1, <1>4, EnlazaAlguno DEF Enlazado
<1>6. \A x : EnlazaCommiteado(e.tags, x) => EnlazaCommiteado(r.tags, x)
  <2>1. \A m \in DOMAIN e.tags : e.tags[m].estado = "COMMITED" =>
          m \in DOMAIN r.tags /\ r.tags[m] = e.tags[m]
    BY <1>1, <1>2
  <2> QED BY <2>1, SigueSellado
<1>7. \A i \in DOMAIN u.hl : /\ i \in DOMAIN v.hl /\ i # j => v.hl[i] = u.hl[i]
                             /\ i = j => v.hl[i] = c
  <2> HIDE DEF u, v
  <2> QED BY <1>1, <1>2
<1>8. Exacto(r.tags, r.bitmap)
  <2> HIDE DEF u, v, b
  <2> SUFFICES ASSUME NEW x \in Fisicos PROVE x \in r.bitmap <=> Enlazado(r.tags, x)
    BY DEF Exacto
  <2>1. /\ Enlazado(r.tags, x) => x = c \/ Enlazado(e.tags, x)
        /\ Enlazado(e.tags, x) => x = b \/ Enlazado(r.tags, x)
    BY <1>3 DEF EnlaceMovido, b, u
  <2>2. x \in e.bitmap <=> Enlazado(e.tags, x)
    BY DEF AMedioIndexar, Exacto
  <2> QED BY <1>2, <1>5, <2>1, <2>2
<1>9. \A g \in DOMAIN r.hash_index :
        \/ EnlazaCommiteado(r.tags, r.hash_index[g])
        \/ \E i \in DOMAIN v.hl : i <= j /\ v.hl[i] = r.hash_index[g]
  <2> DEFINE Cubierto(hi) ==
        \A g \in DOMAIN hi : \/ EnlazaCommiteado(r.tags, hi[g])
                             \/ \E i \in DOMAIN v.hl : i <= j /\ v.hl[i] = hi[g]
  <2>1. ASSUME NEW g \in DOMAIN e.hash_index
        PROVE  \/ EnlazaCommiteado(r.tags, e.hash_index[g])
               \/ \E i \in DOMAIN v.hl : i <= j /\ v.hl[i] = e.hash_index[g]
    <3>1. CASE EnlazaCommiteado(e.tags, e.hash_index[g])
      BY <1>6, <3>1
    <3>2. CASE \E i \in DOMAIN u.hl : i <= j - 1 /\ u.hl[i] = e.hash_index[g]
      <4>1. PICK i \in DOMAIN u.hl : i <= j - 1 /\ u.hl[i] = e.hash_index[g]
        BY <3>2
      <4>2. i \in Nat /\ i # j /\ i <= j
        BY <1>1, <4>1
      <4> HIDE DEF u, v
      <4>3. i \in DOMAIN v.hl /\ v.hl[i] = e.hash_index[g]
        BY <1>1, <1>2, <1>7, <4>1, <4>2
      <4> QED BY <4>2, <4>3
    <3> QED BY <3>1, <3>2 DEF AMedioIndexar
  <2>2. Cubierto(e.hash_index)
    BY <2>1
  <2>3. r.hash_index = e.hash_index
    BY <1>2
  <2>4. Cubierto(r.hash_index)
    <3> HIDE DEF Cubierto
    <3> QED BY <2>2, <2>3
  <2> QED BY <2>4
<1>10. \A i \in DOMAIN tags[n].hl : contenido[v.hl[i]] = contenido[tags[n].hl[i]]
  <2>1. contenido[c] = h /\ h = contenido[u.hl[j]]
    BY DEF AMedioIndexar, Fieles, c
  <2>2. \A i \in DOMAIN tags[n].hl : contenido[u.hl[i]] = contenido[tags[n].hl[i]]
    BY DEF AMedioIndexar
  <2> HIDE DEF u, v
  <2>3. \A i \in DOMAIN u.hl : v.hl[i] = IF i = j THEN c ELSE u.hl[i]
    BY <1>1, <1>2
  <2> QED BY <1>1, <2>1, <2>2, <2>3
<1>11. Punteros(r.tags) /\ Salvo(tags, r.tags, n)
  <2>1. v.hl = v.bloques_logicos
    BY <1>2
  <2>2. Punteros(e.tags) /\ Salvo(tags, e.tags, n)
    BY DEF AMedioIndexar
  <2> HIDE DEF u, v
  <2> QED BY <1>2, <2>1, <2>2 DEF Punteros, Salvo, v
<1>12. "TRUNCATE_MENOS" \notin usos => MismosBLOCKS(r.tags)
  <2>1. "TRUNCATE_MENOS" \notin usos => MismosBLOCKS(e.tags)
    BY DEF AMedioIndexar
  <2>2. "TRUNCATE_MENOS" \notin usos => v.BLOCKS = v.bloques_logicos
    BY <1>1, <1>2, <2>1 DEF MismosBLOCKS
  <2> HIDE DEF u, v
  <2> QED BY <1>2, <2>1, <2>2 DEF MismosBLOCKS, v
<1>13. Len(v.hl) = Len(tags[n].hl)
  <2>1. Len(u.hl) = Len(tags[n].hl)
    BY DEF AMedioIndexar
  <2> HIDE DEF u, v
  <2> QED BY <1>1, <1>2, <2>1, ExceptSeq
<1>14. ASSUME "TAG" \notin usos, NEW m \in DOMAIN r.tags, m # n,
              r.tags[m].estado = "WORK_IN_PROGRESS"
       PROVE  Propios(r.tags, m)
  <2>1. m \in DOMAIN e.tags /\ r.tags[m] = e.tags[m] /\ Propios(e.tags, m)
    BY <1>2, <1>14 DEF AMedioIndexar
  <2> SUFFICES ASSUME NEW i \in DOMAIN e.tags[m].hl, e.tags[m].hl[i] # 0,
                      NEW x \in DOMAIN r.tags, NEW k \in DOMAIN r.tags[x].hl,
                      r.tags[x].hl[k] = e.tags[m].hl[i]
               PROVE  x = m /\ k = i
    BY <2>1 DEF Propios, Solo
  <2>2. Solo(e.tags, m, i)
    BY <2>1 DEF Propios
  <2>3. e.tags[m].hl[i] # c
    <3>1. CASE EnlazaCommiteado(e.tags, c)
      <4>1. PICK y \in DOMAIN e.tags : /\ e.tags[y].estado = "COMMITED"
                                       /\ \E z \in DOMAIN e.tags[y].hl : e.tags[y].hl[z] = c
        BY <3>1 DEF EnlazaCommiteado
      <4>2. y # m
        BY <1>14, <2>1, <4>1
      <4> QED BY <2>2, <4>1, <4>2 DEF Solo
    <3>2. CASE \E z \in DOMAIN u.hl : u.hl[z] = c
      BY <1>1, <1>14, <2>2, <3>2 DEF Solo
    <3> QED BY <1>4, <3>1, <3>2
  <2>4. x \in DOMAIN e.tags /\ k \in DOMAIN e.tags[x].hl /\ e.tags[x].hl[k] = e.tags[m].hl[i]
    <3>1. CASE x # n
      BY <1>2, <3>1
    <3>2. CASE x = n
      <4>1. k \in DOMAIN v.hl /\ v.hl[k] # c
        BY <2>3, <3>2
      <4> HIDE DEF u, v
      <4>2. k \in DOMAIN u.hl /\ v.hl[k] = u.hl[k]
        BY <1>1, <1>2, <4>1
      <4> QED BY <1>1, <3>2, <4>2 DEF u, v
    <3> QED BY <3>1, <3>2
  <2> QED BY <2>2, <2>4 DEF Solo
<1>15. v.estado = tags[n].estado /\ Fieles(contenido, r.hash_index)
  BY <1>2 DEF AMedioIndexar
<1> QED BY <1>2, <1>8, <1>9, <1>10, <1>11, <1>12, <1>13, <1>14, <1>15 DEF AMedioIndexar

\* A turn of COMMIT, whichever it is.
LEMMA VueltaIndexando ==
  ASSUME Sano, NEW n \in DOMAIN tags, tags[n].estado # "COMMITED",
         NEW j \in Nat \ {0}, j \in DOMAIN tags[n].hl,
         NEW e, AMedioIndexar(n, e, j - 1)
  PROVE  AMedioIndexar(n, escribirEnHashIndex(e, n, j), j)
<1> DEFINE r == escribirEnHashIndex(e, n, j)
           b == e.tags[n].bloques_logicos[j]
           h == e.contenido[b]
<1>1. /\ DiscoOK(e) /\ n \in DOMAIN e.tags /\ e.contenido = contenido
      /\ e.tags[n].bloques_logicos = e.tags[n].hl
      /\ Len(e.tags[n].hl) = Len(tags[n].hl)
      /\ e.tags[n].hl \in Seq(Fisicos) /\ tags[n].hl \in Seq(Fisicos)
  BY DEF AMedioIndexar, Salvo, Punteros, DiscoOK, TagsOK, Tag, Sano, Base, DiscoBien
<1>2. j \in DOMAIN e.tags[n].bloques_logicos /\ j \in DOMAIN e.tags[n].hl
  BY <1>1
<1>3. /\ DiscoOK(r) /\ r.contenido = e.contenido /\ b \in Fisicos
      /\ h \in DOMAIN e.hash_index /\ b # 0 =>
           e.hash_index[h] \in Fisicos /\ r = reapuntarBloque(e, n, j, e.hash_index[h])
      /\ ~ (h \in DOMAIN e.hash_index /\ b # 0) =>
           /\ r.tags = e.tags /\ r.bitmap = e.bitmap
           /\ DOMAIN r.hash_index = DOMAIN e.hash_index \cup {h}
           /\ r.hash_index[h] = b
           /\ \A g \in DOMAIN e.hash_index : g # h => r.hash_index[g] = e.hash_index[g]
  <2>1. Indexado(e, r, n, j)
    BY <1>1, <1>2, Indexar
  <2> HIDE DEF r
  <2> QED BY <2>1 DEF Indexado
<1>4. CASE h \in DOMAIN e.hash_index /\ b # 0
  <2>1. Reapuntado(e, r, n, j, e.hash_index[h])
    <3> HIDE DEF r, h, b
    <3> QED BY <1>1, <1>2, <1>3, <1>4, Reapuntar
  <2>2. h = contenido[e.tags[n].hl[j]] /\ h \in DOMAIN e.hash_index
    BY <1>1, <1>4
  <2> HIDE DEF r, h
  <2>3. AMedioIndexar(n, r, j)
    BY <2>1, <2>2, VueltaQueReapunta
  <2> QED BY <2>3 DEF r
<1>5. CASE ~ (h \in DOMAIN e.hash_index /\ b # 0)
  <2> HIDE DEF r, b, h
  <2>1. /\ DiscoOK(r) /\ r.contenido = contenido /\ r.tags = e.tags /\ r.bitmap = e.bitmap
        /\ DOMAIN r.hash_index = DOMAIN e.hash_index \cup {h} /\ r.hash_index[h] = b
        /\ \A g \in DOMAIN e.hash_index : g # h => r.hash_index[g] = e.hash_index[g]
    BY <1>1, <1>3, <1>5
  <2>2. Fieles(contenido, r.hash_index)
    BY <1>1, <2>1 DEF AMedioIndexar, Fieles, h
  <2>3. \A g \in DOMAIN r.hash_index :
          \/ EnlazaCommiteado(r.tags, r.hash_index[g])
          \/ \E i \in DOMAIN r.tags[n].hl : i <= j /\ r.tags[n].hl[i] = r.hash_index[g]
    <3> SUFFICES ASSUME NEW g \in DOMAIN r.hash_index
                 PROVE  \/ EnlazaCommiteado(e.tags, r.hash_index[g])
                        \/ \E i \in DOMAIN e.tags[n].hl :
                             i <= j /\ e.tags[n].hl[i] = r.hash_index[g]
      BY <2>1
    <3>1. CASE g = h
      <4>1. e.tags[n].hl[j] = r.hash_index[g]
        BY <1>1, <2>1, <3>1 DEF b
      <4> QED BY <1>2, <4>1
    <3>2. CASE g # h
      <4>1. g \in DOMAIN e.hash_index /\ r.hash_index[g] = e.hash_index[g]
        BY <2>1, <3>2
      <4>2. \A i \in DOMAIN e.tags[n].hl : i <= j - 1 => i <= j
        BY <1>1
      <4> QED BY <4>1, <4>2 DEF AMedioIndexar
    <3> QED BY <3>1, <3>2
  <2>4. /\ Salvo(tags, e.tags, n) /\ Punteros(e.tags) /\ e.tags[n].estado = tags[n].estado
        /\ Exacto(e.tags, e.bitmap)
        /\ \A i \in DOMAIN tags[n].hl : contenido[e.tags[n].hl[i]] = contenido[tags[n].hl[i]]
        /\ "TRUNCATE_MENOS" \notin usos => MismosBLOCKS(e.tags)
        /\ "TAG" \notin usos =>
             \A m \in DOMAIN e.tags :
               m # n /\ e.tags[m].estado = "WORK_IN_PROGRESS" => Propios(e.tags, m)
    BY DEF AMedioIndexar
  <2>5. /\ Salvo(tags, r.tags, n) /\ Punteros(r.tags) /\ r.tags[n].estado = tags[n].estado
        /\ Exacto(r.tags, r.bitmap) /\ Len(r.tags[n].hl) = Len(tags[n].hl)
        /\ \A i \in DOMAIN tags[n].hl : contenido[r.tags[n].hl[i]] = contenido[tags[n].hl[i]]
        /\ "TRUNCATE_MENOS" \notin usos => MismosBLOCKS(r.tags)
    BY <1>1, <2>1, <2>4
  <2>6. "TAG" \notin usos =>
          \A m \in DOMAIN r.tags :
            m # n /\ r.tags[m].estado = "WORK_IN_PROGRESS" => Propios(r.tags, m)
    BY <2>1, <2>4
  <2>7. AMedioIndexar(n, r, j)
    BY <2>1, <2>2, <2>3, <2>5, <2>6 DEF AMedioIndexar
  <2> QED BY <2>7 DEF r
<1> QED BY <1>4, <1>5

\* All the turns of COMMIT.
LEMMA IndexarSano ==
  ASSUME Sano, NEW n \in DOMAIN tags, tags[n].estado # "COMMITED"
  PROVE  AMedioIndexar(n, indexarBloques(disco, n, Len(tags[n].bloques_logicos)),
                       Len(tags[n].bloques_logicos))
<1> DEFINE N == Len(tags[n].bloques_logicos)
<1>1. /\ DiscoOK(disco) /\ disco.tags = tags /\ disco.contenido = contenido
      /\ disco.hash_index = hash_index /\ disco.bitmap = bitmap
      /\ N \in Nat /\ tags[n].hl = tags[n].bloques_logicos /\ DOMAIN tags[n].hl = 1 .. N
  BY DelDisco DEF Sano, Punteros, Base, DiscoBien, TagsOK, Tag
<1>2. PICK f : TrazaDeIndexar(f, disco, n, N)
  <2>1. N \in 0 .. Len(disco.tags[n].bloques_logicos) /\ n \in DOMAIN disco.tags
    BY <1>1
  <2> HIDE DEF N
  <2> QED BY <1>1, <2>1, TrasIndexar
<1> HIDE DEF N
<1>3. /\ f[0] = disco /\ indexarBloques(disco, n, N) = f[N]
      /\ \A j \in 1 .. N : f[j] = escribirEnHashIndex(f[j - 1], n, j)
  BY <1>2 DEF TrazaDeIndexar
<1>4. AMedioIndexar(n, disco, 0)
  <2>1. \A m \in DOMAIN tags : "TAG" \notin usos /\ tags[m].estado = "WORK_IN_PROGRESS" =>
          Propios(tags, m)
    BY DEF Sano, SinCopia
  <2> QED BY <1>1, <2>1 DEF Sano, AMedioIndexar, Salvo, Sellados
<1>5. ASSUME NEW j \in 1 .. N, AMedioIndexar(n, f[j - 1], j - 1)
      PROVE  AMedioIndexar(n, f[j], j)
  <2>1. j \in Nat \ {0} /\ j \in DOMAIN tags[n].hl
    BY <1>1
  <2> QED BY <1>3, <1>5, <2>1, VueltaIndexando
<1>6. AMedioIndexar(n, f[N], N)
  <2> DEFINE S == {j \in 0 .. N : AMedioIndexar(n, f[j], j)}
  <2>1. 0 \in S /\ \A j \in 1 .. N : j - 1 \in S => j \in S
    BY <1>1, <1>3, <1>4, <1>5
  <2>2. 0 .. N \subseteq S
    <3> HIDE DEF S
    <3> QED BY <1>1, <2>1, PorVueltas
  <2> QED BY <1>1, <2>2
<1> QED BY <1>3, <1>6 DEF N

\* COMMIT: every File:Tag reads what it read, and n is COMMITED.
LEMMA SanoCOMMIT ==
  ASSUME Sano, UNCHANGED usos, NEW n \in Nombres, realizarCOMMIT(n)
  PROVE  /\ Sanado' /\ UNCHANGED contenido /\ n \in DOMAIN tags
         /\ tags[n].estado # "COMMITED" /\ tags'[n].estado = "COMMITED"
         /\ Salvo(tags, tags', n)
         /\ DOMAIN tags'[n].hl = DOMAIN tags[n].hl
         /\ \A i \in DOMAIN tags[n].hl : contenido[tags'[n].hl[i]] = contenido[tags[n].hl[i]]
<1> DEFINE N == Len(tags[n].bloques_logicos)
           d == indexarBloques(disco, n, N)
           r == [d EXCEPT !.tags[n].estado = "COMMITED"]
           u == d.tags[n]
<1>1. /\ n \in DOMAIN tags /\ tags[n].estado # "COMMITED" /\ guardar(r) /\ n # Inicial
  BY PideSano DEF realizarCOMMIT, existe, commiteado, Sano
<1>2. AMedioIndexar(n, d, N)
  BY <1>1, IndexarSano
<1> HIDE DEF d
<1>3. /\ DiscoOK(d) /\ Salvo(tags, d.tags, n) /\ n \in DOMAIN d.tags
      /\ DOMAIN d.tags = DOMAIN tags /\ \A m \in DOMAIN tags : m # n => d.tags[m] = tags[m]
      /\ d.contenido = contenido
  BY <1>1, <1>2 DEF AMedioIndexar, Salvo
<1>4. Commiteado(d, r, n)
  BY <1>3, EstablecerEstado
<1> HIDE DEF r
<1>5. /\ tags' = r.tags /\ bitmap' = d.bitmap /\ contenido' = contenido
      /\ hash_index' = d.hash_index
  BY <1>1, <1>3, <1>4 DEF guardar, Commiteado
<1>6. /\ DOMAIN tags' = DOMAIN d.tags /\ \A m \in DOMAIN d.tags : m # n => tags'[m] = d.tags[m]
      /\ tags'[n].estado = "COMMITED" /\ tags'[n].hl = u.hl /\ tags'[n].BLOCKS = u.BLOCKS
      /\ tags'[n].bloques_logicos = u.bloques_logicos
  BY <1>4, <1>5 DEF Commiteado, Salvo
<1>7. \A m \in DOMAIN d.tags : tags'[m].hl = d.tags[m].hl
  BY <1>6
<1>8. \A b : Enlazado(tags', b) <=> Enlazado(d.tags, b)
  BY <1>6, <1>7 DEF Enlazado
<1>9. Exacto(tags', bitmap')
  BY <1>2, <1>5, <1>8 DEF AMedioIndexar, Exacto
<1>10. Sellados(tags', hash_index')
  <2> SUFFICES ASSUME NEW h \in DOMAIN d.hash_index
               PROVE  EnlazaCommiteado(tags', d.hash_index[h])
    BY <1>5 DEF Sellados
  <2>1. CASE EnlazaCommiteado(d.tags, d.hash_index[h])
    BY <1>6, <1>7, <2>1 DEF EnlazaCommiteado
  <2>2. CASE \E i \in DOMAIN u.hl : u.hl[i] = d.hash_index[h]
    BY <1>3, <1>6, <2>2 DEF EnlazaCommiteado
  <2> QED BY <1>2, <2>1, <2>2 DEF AMedioIndexar
<1>11. Fieles(contenido', hash_index')
  BY <1>2, <1>5 DEF AMedioIndexar
<1>12. Punteros(tags') /\ ("TRUNCATE_MENOS" \notin usos => MismosBLOCKS(tags'))
  <2>1. Punteros(d.tags) /\ ("TRUNCATE_MENOS" \notin usos => MismosBLOCKS(d.tags))
    BY <1>2 DEF AMedioIndexar
  <2> QED BY <1>3, <1>6, <2>1 DEF Punteros, MismosBLOCKS
<1>13. ConInicial(tags', contenido')
  BY <1>1, <1>3, <1>5, <1>6 DEF Sano, ConInicial
<1>14. ASSUME "TAG" \notin usos PROVE SinCopia(tags')
  <2> SUFFICES ASSUME NEW m \in DOMAIN tags', tags'[m].estado = "WORK_IN_PROGRESS"
               PROVE  Propios(tags', m)
    BY DEF SinCopia
  <2>1. m # n /\ m \in DOMAIN d.tags /\ tags'[m] = d.tags[m] /\ Propios(d.tags, m)
    BY <1>2, <1>6, <1>14 DEF AMedioIndexar
  <2> QED BY <1>6, <1>7, <2>1 DEF Propios, Solo
<1>15. Salvo(tags, tags', n)
  BY <1>3, <1>6 DEF Salvo
<1>16. DOMAIN tags'[n].hl = DOMAIN tags[n].hl
  <2>1. /\ Len(u.hl) = Len(tags[n].hl) /\ u.hl \in Seq(Fisicos) /\ tags[n].hl \in Seq(Fisicos)
    BY <1>1, <1>2, <1>3 DEF AMedioIndexar, DiscoOK, TagsOK, Tag, Sano, Base, DiscoBien
  <2> HIDE DEF u
  <2> QED BY <1>6, <2>1
<1>17. \A i \in DOMAIN tags[n].hl : contenido[tags'[n].hl[i]] = contenido[tags[n].hl[i]]
  BY <1>2, <1>6 DEF AMedioIndexar
<1> QED BY <1>1, <1>5, <1>6, <1>9, <1>10, <1>11, <1>12, <1>13, <1>14, <1>15, <1>16, <1>17 DEF Sanado

-----------------------------------------------------------------------------
(* The theorems about sane workloads.                                      *)

\* Storage starts in Sano, on a sane workload.
LEMMA InicioSano == Init /\ CargaSana(usos) => Sano
<1> SUFFICES ASSUME Init, CargaSana(usos) PROVE Sano
  OBVIOUS
<1>1. /\ DOMAIN tags = {Inicial} /\ tags[Inicial].estado = "COMMITED"
      /\ tags[Inicial].hl = <<0>> /\ tags[Inicial].bloques_logicos = <<0>>
      /\ tags[Inicial].BLOCKS = <<0>>
      /\ bitmap = {0} /\ contenido[0] = CERO
      /\ DOMAIN hash_index = {CERO} /\ hash_index[CERO] = 0
  BY HayCero DEF Init
<1>2. ConInicial(tags, contenido)
  BY <1>1 DEF ConInicial
<1>3. Punteros(tags) /\ MismosBLOCKS(tags) /\ SinCopia(tags)
  BY <1>1 DEF Punteros, MismosBLOCKS, SinCopia
<1>4. Exacto(tags, bitmap)
  <2>1. \A b : Enlazado(tags, b) => b = 0
    BY <1>1 DEF Enlazado
  <2> QED BY <1>1, <1>2, <2>1, BloqueCero DEF Exacto
<1>5. Fieles(contenido, hash_index) /\ Sellados(tags, hash_index)
  BY <1>1, <1>2, BloqueCero DEF Fieles, Sellados
<1> QED BY <1>2, <1>3, <1>4, <1>5, InicioBase DEF Sano

\* Every request keeps Sano.
LEMMA SanoPedido ==
  ASSUME Sano, UNCHANGED usos, NEW n \in Nombres, pedidoDeLaburante(n)
  PROVE  Sanado'
<1>1. \/ realizarCREATE(n)
      \/ \E tam \in Tamanios : agrandarEnTruncate(n, tam)
      \/ \E tam \in Tamanios : ferConLaMexicana(n, tam)
      \/ \E o \in Nombres : realizarTAG(o, n)
      \/ realizarCOMMIT(n)
      \/ \E i \in 1 .. MaxBLOCKS, c \in Contenidos : realizarWRITE(n, i, c)
      \/ realizarELIMINAR_UN_TAG(n)
  BY DEF pedidoDeLaburante
<1>2. CASE realizarCREATE(n)
  BY <1>2, SanoCREATE
<1>3. CASE \E tam \in Tamanios : agrandarEnTruncate(n, tam)
  BY <1>3, SanoAgrandar
<1>4. CASE \E tam \in Tamanios : ferConLaMexicana(n, tam)
  BY <1>4, SanoAchicar
<1>5. CASE \E o \in Nombres : realizarTAG(o, n)
  BY <1>5, SanoTAG
<1>6. CASE realizarCOMMIT(n)
  BY <1>6, SanoCOMMIT
<1>7. CASE \E i \in 1 .. MaxBLOCKS, c \in Contenidos : realizarWRITE(n, i, c)
  <2>1. PICK i \in 1 .. MaxBLOCKS : \E c \in Contenidos : realizarWRITE(n, i, c)
    BY <1>7
  <2>2. i \in Nat
    BY StorageAssumption
  <2> QED BY <2>1, <2>2, SanoWRITE
<1>8. CASE realizarELIMINAR_UN_TAG(n)
  BY <1>8, SanoELIMINAR
<1> QED BY <1>1, <1>2, <1>3, <1>4, <1>5, <1>6, <1>7, <1>8

\* Nobody dies inside a request of a sane workload.
LEMMA SinCaidas ==
  ASSUME CargaSana(usos)
  PROVE  ~ CAIDA
<1>1. "CAIDA" \notin usos
  BY DEF CargaSana
<1>2. \A n, uso, discos : ~ caer(n, uso, discos)
  BY <1>1 DEF caer
<1>3. \A n, i : ~ caidaEnWRITE(n, i)
  BY <1>2 DEF caidaEnWRITE
<1>4. \A n : ~ caidaEnCOMMIT(n) /\ ~ caidaEnELIMINAR(n)
  BY <1>2 DEF caidaEnCOMMIT, caidaEnELIMINAR
<1>5. \A n, x : ~ caidaEnAgrandar(n, x) /\ ~ caidaEnAchicar(n, x) /\ ~ caidaEnAlta(x, n)
  BY <1>2 DEF caidaEnAgrandar, caidaEnAchicar, caidaEnAlta
<1> QED BY <1>3, <1>4, <1>5 DEF CAIDA

\* Sano is inductive.
LEMMA PasoSano == Sano /\ [Next]_vars => Sano'
<1> SUFFICES ASSUME Sano, [Next]_vars PROVE Sano'
  OBVIOUS
<1>1. UNCHANGED usos /\ Base' /\ CargaSana(usos')
  <2>1. UNCHANGED usos
    BY DEF Next, vars
  <2> QED BY <2>1, PasoBase DEF Sano
<1>2. CASE UNCHANGED vars
  BY <1>1, <1>2 DEF vars, Sano
<1>3. Sanado' => Sano'
  BY <1>1 DEF Sano, Sanado
<1>4. CASE Next
  BY <1>1, <1>3, <1>4, SanoPedido, SanoReinicio, SinCaidas DEF Next, Sano
<1> QED BY <1>2, <1>4

\* On a sane workload Sano always holds.
LEMMA SanoSiempre == Spec => [](CargaSana(usos) => Sano)
<1>1. Init => (CargaSana(usos) => Sano)
  BY InicioSano
<1>2. (CargaSana(usos) => Sano) /\ [Next]_vars => (CargaSana(usos) => Sano)'
  <2>1. [Next]_vars => usos' = usos
    BY DEF Next, vars
  <2>2. (CargaSana(usos))' /\ usos' = usos => CargaSana(usos)
    BY DEF CargaSana
  <2> QED BY <2>1, <2>2, PasoSano
<1> QED BY <1>1, <1>2, PTL DEF Spec

\* BitmapExacto: reserving, moving, deduplicating, unlinking and rebuilding
\* keep the bitmap exact.
THEOREM BitmapSiempreExacto == Spec => [](CargaSana(usos) => BitmapExacto)
<1>1. Sano => BitmapExacto
  <2> SUFFICES ASSUME Sano PROVE bitmap = enUso
    BY DEF BitmapExacto
  <2>1. \A b : b \in enUso <=> Enlazado(tags, b)
    BY EnUso DEF enUso
  <2>2. \A b : Enlazado(tags, b) => b \in Fisicos
    BY EnlazadoFisico DEF Sano, Base, DiscoBien
  <2> QED BY <2>1, <2>2 DEF Sano, Base, DiscoBien, Exacto
<1> QED BY <1>1, SanoSiempre, PTL

\* IndiceFiel: what COMMIT deduplicates to holds the same content.
THEOREM IndiceSiempreFiel == Spec => [](CargaSana(usos) => IndiceFiel)
<1>1. Sano => IndiceFiel
  BY EnUso, EnlazaAlguno DEF Sano, Fieles, Sellados, IndiceFiel, enUso
<1> QED BY <1>1, SanoSiempre, PTL

\* Sellado: every block the index names is held by a COMMITED tag.
THEOREM IndiceSiempreSellado == Spec => [](CargaSana(usos) => Sellado)
<1>1. Sano => Sellado
  <2> SUFFICES ASSUME Sano, NEW h \in DOMAIN hash_index
               PROVE  \E l \in enlaces(tags, hash_index[h]) : commiteado(l[1])
    BY DEF Sellado
  <2>1. PICK m \in DOMAIN tags : /\ tags[m].estado = "COMMITED"
                                 /\ \E i \in DOMAIN tags[m].hl : tags[m].hl[i] = hash_index[h]
    BY DEF Sano, Sellados, EnlazaCommiteado
  <2>2. PICK i \in DOMAIN tags[m].hl : tags[m].hl[i] = hash_index[h]
    BY <2>1
  <2>3. <<m, i>> \in enlaces(tags, hash_index[h])
    BY <2>2, EsEnlace
  <2>4. commiteado(<<m, i>>[1])
    BY <2>1 DEF commiteado
  <2> QED BY <2>3, <2>4
<1> QED BY <1>1, SanoSiempre, PTL

\* UnSoloBloque: READ, WRITE and RECONSTRUCCION find the same blocks.
THEOREM SiempreUnSoloBloque == Spec => [](CargaSana(usos) => UnSoloBloque)
<1>1. Sano => UnSoloBloque
  BY DEF Sano, Punteros, MismosBLOCKS, UnSoloBloque, PunterosFieles, BLOCKSFieles
<1> QED BY <1>1, SanoSiempre, PTL

-----------------------------------------------------------------------------
(* Storage implements independent File:Tags.                               *)

\* What a worker reads of n.
Leido(ts, co, n) ==
  [i \in DOMAIN ts[n].bloques_logicos |-> co[ts[n].bloques_logicos[i]]]

\* What everyone reads.
Vista(ts, co) ==
  [n \in DOMAIN ts |-> [estado |-> ts[n].estado, bloques |-> Leido(ts, co, n)]]

\* The files of the abstract specification, in this state.
archivosVistos == [n \in DOMAIN tags |-> [estado |-> tags[n].estado, bloques |-> leidos(n)]]

\* The abstract files, before and after a step.
LEMMA SonVistas ==
  /\ archivosVistos = Vista(tags, contenido)
  /\ archivosVistos' = Vista(tags', contenido')
BY DEF archivosVistos, Vista, Leido, leidos, realizarREAD

\* What is read of a File:Tag is a list of its length.
LEMMA LeidoSeq ==
  ASSUME NEW ts, TagsOK(ts), NEW co \in [Fisicos -> Datos], NEW n \in DOMAIN ts
  PROVE  LET s == Leido(ts, co, n)
         IN  /\ s \in Seq(Datos) /\ Len(s) = Len(ts[n].bloques_logicos)
             /\ DOMAIN s = DOMAIN ts[n].bloques_logicos
             /\ \A i \in DOMAIN s : s[i] = co[ts[n].bloques_logicos[i]]
<1> DEFINE bl == ts[n].bloques_logicos
           s == Leido(ts, co, n)
<1>1. bl \in Seq(Fisicos)
  BY DEF TagsOK, Tag
<1>2. s = [i \in DOMAIN bl |-> co[bl[i]]]
  BY DEF Leido
<1> HIDE DEF bl, s
<1>3. Len(bl) \in Nat /\ DOMAIN bl = 1 .. Len(bl) /\ \A i \in DOMAIN bl : bl[i] \in Fisicos
  BY <1>1
<1>4. s \in [1 .. Len(bl) -> Datos] /\ DOMAIN s = 1 .. Len(bl)
      /\ \A i \in DOMAIN s : s[i] = co[bl[i]]
  BY <1>2, <1>3
<1>5. s \in Seq(Datos) /\ Len(s) = Len(bl)
  BY <1>3, <1>4, SeqDef
<1> QED BY <1>3, <1>4, <1>5 DEF bl, s

\* What the requests that name another File:Tag leave of m.
LEMMA Ajeno ==
  ASSUME Sano, NEW n, PedidoSobre(n), NEW m \in DOMAIN tags, m # n
  PROVE  /\ m \in DOMAIN tags' /\ tags'[m] = tags[m]
         /\ Leido(tags', contenido', m) = Leido(tags, contenido, m)
<1>1. m \in DOMAIN tags' /\ tags'[m] = tags[m]
  BY DEF PedidoSobre
<1>2. \A i \in DOMAIN tags[m].hl : contenido'[tags[m].hl[i]] = contenido[tags[m].hl[i]]
  BY DEF PedidoSobre, Sano, Exacto
<1>3. tags[m].hl = tags[m].bloques_logicos
  BY DEF Sano, Punteros
<1> QED BY <1>1, <1>2, <1>3 DEF Leido

\* A File:Tag more.
LEMMA VistaNueva ==
  ASSUME Sano, NEW n, n \notin DOMAIN tags, PedidoSobre(n),
         DOMAIN tags' = DOMAIN tags \cup {n}, tags'[n].estado = "WORK_IN_PROGRESS"
  PROVE  archivosVistos' =
           [m \in DOMAIN archivosVistos \cup {n} |->
              IF m = n THEN [estado |-> "WORK_IN_PROGRESS",
                             bloques |-> Leido(tags', contenido', n)]
              ELSE archivosVistos[m]]
<1> DEFINE V == Vista(tags, contenido)
           W == Vista(tags', contenido')
           L == Leido(tags', contenido', n)
<1>1. DOMAIN V = DOMAIN tags
  BY DEF Vista
<1>2. \A m \in DOMAIN tags : m # n /\ W[m] = V[m]
  BY Ajeno DEF Vista
<1>3. W[n] = [estado |-> "WORK_IN_PROGRESS", bloques |-> L]
  BY DEF Vista
<1>4. W = [m \in DOMAIN tags \cup {n} |-> W[m]]
  BY DEF Vista
<1>5. archivosVistos = V /\ archivosVistos' = W
  BY SonVistas
<1> HIDE DEF V, W, L
<1>6. W = [m \in DOMAIN V \cup {n} |->
             IF m = n THEN [estado |-> "WORK_IN_PROGRESS", bloques |-> L] ELSE V[m]]
  BY <1>1, <1>2, <1>3, <1>4
<1>7. archivosVistos' = [m \in DOMAIN archivosVistos \cup {n} |->
             IF m = n THEN [estado |-> "WORK_IN_PROGRESS", bloques |-> L]
             ELSE archivosVistos[m]]
  BY <1>5, <1>6
<1> QED BY <1>7 DEF L

\* A File:Tag that changed.
LEMMA VistaCambiada ==
  ASSUME Sano, NEW n, n \in DOMAIN tags, PedidoSobre(n), DOMAIN tags' = DOMAIN tags
  PROVE  archivosVistos' =
           [archivosVistos EXCEPT ![n] = [estado |-> tags'[n].estado,
                                          bloques |-> Leido(tags', contenido', n)]]
<1> DEFINE V == Vista(tags, contenido)
           W == Vista(tags', contenido')
           L == [estado |-> tags'[n].estado, bloques |-> Leido(tags', contenido', n)]
<1>1. V = [m \in DOMAIN tags |-> V[m]]
  BY DEF Vista
<1>2. \A m \in DOMAIN tags : m # n => W[m] = V[m]
  BY Ajeno DEF Vista
<1>3. W[n] = L
  BY DEF Vista
<1>4. W = [m \in DOMAIN tags |-> W[m]]
  BY DEF Vista
<1>5. archivosVistos = V /\ archivosVistos' = W
  BY SonVistas
<1> HIDE DEF V, W, L
<1>6. W = [V EXCEPT ![n] = L]
  BY <1>1, <1>2, <1>3, <1>4
<1>7. archivosVistos' = [archivosVistos EXCEPT ![n] = L]
  BY <1>5, <1>6
<1> QED BY <1>7 DEF L

\* What the abstract file of n is.
LEMMA VistoComo ==
  ASSUME NEW n \in DOMAIN tags
  PROVE  /\ n \in DOMAIN archivosVistos
         /\ archivosVistos[n] = [estado |-> tags[n].estado, bloques |-> Leido(tags, contenido, n)]
         /\ archivosVistos[n].estado = tags[n].estado
         /\ archivosVistos[n].bloques = Leido(tags, contenido, n)
BY SonVistas DEF Vista

\* A new File:Tag with no blocks is the Crear of TagsIndependientes.
LEMMA VeVacio ==
  ASSUME Sano, NEW n \in Nombres, n \notin DOMAIN tags, PedidoSobre(n),
         agregarTag(n, TagNuevo(0, <<>>)), UNCHANGED <<bitmap, contenido, hash_index>>
  PROVE  Abstracto!Crear(n)
<1>1. DOMAIN tags' = DOMAIN tags \cup {n} /\ tags'[n] = TagNuevo(0, <<>>)
  <2>1. <<>> \in Seq(Fisicos) /\ 0 \in Nat
    OBVIOUS
  <2> QED BY <2>1, AgregarTag DEF Sano
<1>2. tags'[n].estado = "WORK_IN_PROGRESS" /\ tags'[n].bloques_logicos = <<>>
  BY <1>1 DEF TagNuevo
<1>3. Leido(tags', contenido', n) = <<>>
  <2> DEFINE s == Leido(tags', contenido', n)
  <2>1. TagsOK(tags') /\ contenido' \in [Fisicos -> Datos]
    BY DEF PedidoSobre, DiscoBien
  <2>2. s \in Seq(Datos) /\ Len(s) = 0
    BY <1>1, <1>2, <2>1, LeidoSeq
  <2> HIDE DEF s
  <2> QED BY <2>2 DEF s
<1>4. archivosVistos' =
           [m \in DOMAIN archivosVistos \cup {n} |->
              IF m = n THEN [estado |-> "WORK_IN_PROGRESS", bloques |-> <<>>]
              ELSE archivosVistos[m]]
  <2> DEFINE s == Leido(tags', contenido', n)
  <2>1. archivosVistos' =
           [m \in DOMAIN archivosVistos \cup {n} |->
              IF m = n THEN [estado |-> "WORK_IN_PROGRESS", bloques |-> s]
              ELSE archivosVistos[m]]
    BY <1>1, <1>2, VistaNueva
  <2> HIDE DEF s
  <2> QED BY <1>3, <2>1 DEF s
<1>5. n \notin DOMAIN archivosVistos
  BY DEF archivosVistos
<1> QED BY <1>4, <1>5 DEF Abstracto!Crear, Abstracto!Nuevo, archivosVistos

\* CREATE is Crear.
LEMMA VeCREATE ==
  ASSUME Sano, NEW n \in Nombres, realizarCREATE(n)
  PROVE  Abstracto!Crear(n)
<1>1. n \notin DOMAIN tags /\ PedidoSobre(n)
  BY PasoCREATE DEF realizarCREATE, Sano, Base
<1> QED BY <1>1, VeVacio DEF realizarCREATE

\* TAG is Copiar, or Crear when the file did not exist.
LEMMA VeTAG ==
  ASSUME Sano, NEW n \in Nombres, NEW o \in Nombres, realizarTAG(o, n)
  PROVE  Abstracto!Crear(n) \/ Abstracto!Copiar(o, n)
<1>1. /\ n \notin DOMAIN tags /\ o \in DOMAIN tags /\ PedidoSobre(n)
      /\ UNCHANGED <<bitmap, contenido, hash_index>>
  BY PasoTAG DEF realizarTAG, existe, Sano
<1>2. CASE agregarTag(n, TagNuevo(0, <<>>))
  BY <1>1, <1>2, VeVacio
<1>3. CASE pide(n, "TAG") /\ agregarTag(n, TagNuevo(tags[o].tamanio, tags[o].BLOCKS))
  <2> DEFINE s == tags[o].BLOCKS
  <2>1. "TAG" \in usos /\ "TRUNCATE_MENOS" \notin usos
    BY <1>3, PideSano DEF Sano, CargaSana
  <2>2. s \in Seq(Fisicos) /\ tags[o].tamanio \in Nat
    BY <1>1 DEF Sano, Base, DiscoBien, TagsOK, Tag
  <2>3. s = tags[o].bloques_logicos
    BY <1>1, <2>1 DEF Sano, MismosBLOCKS
  <2>4. /\ DOMAIN tags' = DOMAIN tags \cup {n}
        /\ tags'[n] = TagNuevo(tags[o].tamanio, s)
    <3> HIDE DEF s
    <3> QED BY <1>1, <1>3, <2>2, AgregarTag DEF Sano, s
  <2>5. tags'[n].bloques_logicos = s /\ tags'[n].estado = "WORK_IN_PROGRESS"
    BY <2>4 DEF TagNuevo
  <2>6. Leido(tags', contenido', n) = Leido(tags, contenido, o)
    <3> HIDE DEF s
    <3> QED BY <1>1, <2>3, <2>5 DEF Leido
  <2>7. o \in DOMAIN archivosVistos /\ archivosVistos[o].bloques = Leido(tags, contenido, o)
    BY <1>1, VistoComo
  <2>8. n \notin DOMAIN archivosVistos
    BY <1>1 DEF archivosVistos
  <2>9. archivosVistos' =
           [m \in DOMAIN archivosVistos \cup {n} |->
              IF m = n THEN [estado |-> "WORK_IN_PROGRESS", bloques |-> archivosVistos[o].bloques]
              ELSE archivosVistos[m]]
    <3>1. archivosVistos' =
           [m \in DOMAIN archivosVistos \cup {n} |->
              IF m = n THEN [estado |-> "WORK_IN_PROGRESS",
                             bloques |-> Leido(tags', contenido', n)]
              ELSE archivosVistos[m]]
      BY <1>1, <2>4, <2>5, VistaNueva
    <3>2. Leido(tags', contenido', n) = archivosVistos[o].bloques
      BY <2>6, <2>7
    <3> QED BY <3>1, <3>2
  <2> HIDE DEF s
  <2>10. Abstracto!Copiar(o, n)
    BY <2>7, <2>8, <2>9 DEF Abstracto!Copiar, Abstracto!Nuevo, archivosVistos
  <2> QED BY <2>10
<1> QED BY <1>2, <1>3 DEF realizarTAG

\* A step that leaves what everyone reads is no step of the abstract one.
LEMMA NadieLoNota ==
  ASSUME DOMAIN tags' = DOMAIN tags,
         \A m \in DOMAIN tags : /\ tags'[m].estado = tags[m].estado
                                /\ Leido(tags', contenido', m) = Leido(tags, contenido, m)
  PROVE  archivosVistos' = archivosVistos
<1> DEFINE V == Vista(tags, contenido)
           W == Vista(tags', contenido')
<1>1. V = [m \in DOMAIN tags |-> V[m]] /\ W = [m \in DOMAIN tags |-> W[m]]
  BY DEF Vista
<1>2. \A m \in DOMAIN tags : V[m] = W[m]
  BY DEF Vista
<1>3. archivosVistos = V /\ archivosVistos' = W
  BY SonVistas
<1> HIDE DEF V, W
<1> QED BY <1>1, <1>2, <1>3

\* A function of records, with the field bloques of one of them replaced.
LEMMA OtrosBloques ==
  ASSUME NEW f, NEW n \in DOMAIN f, NEW e, NEW s, NEW r,
         f[n] = [estado |-> e, bloques |-> s]
  PROVE  [f EXCEPT ![n] = [estado |-> e, bloques |-> r]] = [f EXCEPT ![n].bloques = r]
<1>1. [f[n] EXCEPT !.bloques = r] = [estado |-> e, bloques |-> r]
  OBVIOUS
<1>2. [f EXCEPT ![n].bloques = r] = [f EXCEPT ![n] = [f[n] EXCEPT !.bloques = r]]
  OBVIOUS
<1> QED BY <1>1, <1>2

\* A concatenation, told by its elements.
LEMMA ConcatIguales ==
  ASSUME NEW S, NEW r \in Seq(S), NEW s \in Seq(S), NEW c \in Seq(S),
         Len(r) = Len(s) + Len(c),
         \A i \in 1 .. Len(s) : r[i] = s[i],
         \A i \in 1 .. Len(c) : r[Len(s) + i] = c[i]
  PROVE  r = s \o c
<1> DEFINE q == s \o c
<1>1. /\ q \in Seq(S) /\ Len(q) = Len(s) + Len(c)
      /\ \A i \in 1 .. Len(s) + Len(c) : q[i] = IF i <= Len(s) THEN s[i] ELSE c[i - Len(s)]
  BY ConcatProperties
<1> HIDE DEF q
<1>2. Len(s) \in Nat /\ Len(c) \in Nat
  OBVIOUS
<1>3. ASSUME NEW i \in 1 .. Len(s) + Len(c)
      PROVE  r[i] = q[i]
  <2>1. CASE i <= Len(s)
    BY <1>1, <1>2, <2>1
  <2>2. CASE i > Len(s)
    <3>1. i - Len(s) \in 1 .. Len(c) /\ Len(s) + (i - Len(s)) = i
      BY <1>2, <2>2
    <3>2. r[i] = c[i - Len(s)]
      BY <3>1
    <3> QED BY <1>1, <1>2, <2>2, <3>2
  <2> QED BY <1>2, <2>1, <2>2
<1>4. r = q
  BY <1>1, <1>2, <1>3, SeqEqual
<1> QED BY <1>4 DEF q

\* s is what is read of the N blocks of a.
LeeDe(s, co, a, N) ==
  s \in Seq(Datos) /\ Len(s) = N /\ \A i \in 1 .. N : s[i] = co[a[i]]

\* b is the N blocks of a and k links to block0.
CerosTras(b, a, N, k) ==
  /\ N \in Nat /\ k \in Nat
  /\ \A i \in 1 .. N : b[i] = a[i]
  /\ \A i \in N + 1 .. N + k : b[i] = 0

\* Longer by links to block0, it reads longer by zeros.
LEMMA LeeCeros ==
  ASSUME NEW co, co[0] = CERO, NEW k, NEW N, NEW a, NEW b, CerosTras(b, a, N, k),
         NEW s, LeeDe(s, co, a, N), NEW r, LeeDe(r, co, b, N + k)
  PROVE  r = s \o [i \in 1 .. k |-> CERO]
<1> USE DEF LeeDe, CerosTras
<1> DEFINE c == [i \in 1 .. k |-> CERO]
<1>1. c \in Seq(Datos) /\ Len(c) = k /\ \A i \in 1 .. k : c[i] = CERO
  BY HayCero
<1> HIDE DEF c
<1>2. \A i \in 1 .. N : r[i] = s[i]
  <2> TAKE i \in 1 .. N
  <2>1. i \in 1 .. N + k
    OBVIOUS
  <2> QED BY <2>1
<1>3. \A i \in 1 .. k : r[N + i] = c[i]
  <2> TAKE i \in 1 .. k
  <2>1. N + i \in 1 .. N + k /\ N + i \in N + 1 .. N + k
    OBVIOUS
  <2>2. r[N + i] = co[b[N + i]] /\ b[N + i] = 0
    BY <2>1
  <2> QED BY <1>1, <2>2
<1>4. r = s \o c
  BY <1>1, <1>2, <1>3, ConcatIguales
<1> QED BY <1>4 DEF c

\* TRUNCATE to more is Agrandar, or nothing when no block is added.
LEMMA VeAgrandar ==
  ASSUME Sano, NEW n \in Nombres, NEW tam \in Tamanios, agrandarEnTruncate(n, tam)
  PROVE  \/ archivosVistos' = archivosVistos
         \/ /\ n \in DOMAIN archivosVistos'
            /\ \E k \in 1 .. Len(archivosVistos'[n].bloques) : Abstracto!Agrandar(n, k)
<1> DEFINE t == tags[n]
           u == tags'[n]
           s == Leido(tags, contenido, n)
           r == Leido(tags', contenido', n)
<1>1. /\ n \in DOMAIN tags /\ Salvo(tags, tags', n) /\ DOMAIN tags' = DOMAIN tags
      /\ UNCHANGED <<bitmap, contenido, hash_index>>
  BY TrasAgrandar DEF Sano, Salvo
<1>2. PICK k \in Nat :
        /\ u.estado = t.estado
        /\ u.bloques_logicos = t.bloques_logicos \o [i \in 1 .. k |-> 0]
  BY TrasAgrandar DEF Sano
<1>3. t.estado = "WORK_IN_PROGRESS"
  BY <1>1, PideSano, Estados
     DEF agrandarEnTruncate, Sano, CargaSana, commiteado, Base, DiscoBien
<1>4. PedidoSobre(n)
  BY PasoAgrandar DEF Sano
<1>5. /\ TagsOK(tags) /\ TagsOK(tags') /\ contenido \in [Fisicos -> Datos]
      /\ contenido' = contenido /\ contenido[0] = CERO
      /\ t.bloques_logicos \in Seq(Fisicos) /\ n \in DOMAIN tags'
  BY <1>1, <1>4 DEF Sano, Base, DiscoBien, PedidoSobre, ConInicial, TagsOK, Tag
<1>6. r = s \o [i \in 1 .. k |-> CERO]
  <2> DEFINE a == t.bloques_logicos
             b == u.bloques_logicos
  <2>1. /\ s \in Seq(Datos) /\ Len(s) = Len(a) /\ DOMAIN s = DOMAIN a
        /\ \A i \in DOMAIN s : s[i] = contenido[a[i]]
    BY <1>1, <1>5, LeidoSeq
  <2>2. /\ r \in Seq(Datos) /\ Len(r) = Len(b) /\ DOMAIN r = DOMAIN b
        /\ \A i \in DOMAIN r : r[i] = contenido[b[i]]
    <3>1. r = Leido(tags', contenido, n)
      BY <1>5
    <3> QED BY <1>5, <3>1, LeidoSeq
  <2>3. a \in Seq(Fisicos) /\ b \in Seq(Fisicos) /\ b = a \o [i \in 1 .. k |-> 0]
    <3>1. tags'[n] \in Tag
      BY <1>5 DEF TagsOK
    <3> QED BY <1>2, <1>5, <3>1 DEF Tag
  <2>4. contenido[0] = CERO /\ contenido \in [Fisicos -> Datos]
    BY <1>5
  <2> HIDE DEF a, b, s, r, t, u
  <2>5. /\ Len(b) = Len(a) + k
        /\ \A i \in 1 .. Len(a) : b[i] = a[i]
        /\ \A i \in Len(a) + 1 .. Len(a) + k : b[i] = 0
    BY <2>3, ConCeros
  <2>6. /\ Len(a) \in Nat /\ DOMAIN s = 1 .. Len(a) /\ DOMAIN r = 1 .. Len(a) + k
        /\ Len(s) = Len(a) /\ Len(r) = Len(a) + k
    BY <2>1, <2>2, <2>3, <2>5
  <2>7. /\ \A i \in 1 .. Len(a) : s[i] = contenido[a[i]]
        /\ \A i \in 1 .. Len(a) + k : r[i] = contenido[b[i]]
    BY <2>1, <2>2, <2>6
  <2>8. CerosTras(b, a, Len(a), k)
    BY <2>5, <2>6 DEF CerosTras
  <2>9. LeeDe(s, contenido, a, Len(a)) /\ LeeDe(r, contenido, b, Len(a) + k)
    BY <2>1, <2>2, <2>6, <2>7 DEF LeeDe
  <2> QED BY <2>4, <2>8, <2>9, LeeCeros
<1>7. s \in Seq(Datos) /\ Len(s) \in Nat
  BY <1>1, <1>5, LeidoSeq
<1>8. /\ archivosVistos[n] = [estado |-> t.estado, bloques |-> s] /\ n \in DOMAIN archivosVistos
      /\ archivosVistos[n].estado = t.estado /\ archivosVistos[n].bloques = s
  BY <1>1, VistoComo
<1>9. archivosVistos' = [archivosVistos EXCEPT ![n] = [estado |-> u.estado, bloques |-> r]]
  BY <1>1, <1>4, VistaCambiada
<1> HIDE DEF t, u, s, r
<1>12. archivosVistos' = [archivosVistos EXCEPT ![n].bloques = r]
  BY <1>2, <1>8, <1>9, OtrosBloques
<1>13. archivosVistos'[n].bloques = r /\ n \in DOMAIN archivosVistos'
  BY <1>8, <1>9
<1>14. CASE k = 0
  <2>1. r = s
    <3>1. [i \in 1 .. k |-> CERO] = <<>>
      BY <1>14
    <3>2. s \o <<>> = s
      BY <1>7
    <3> QED BY <1>6, <3>1, <3>2
  <2>2. [archivosVistos EXCEPT ![n].bloques = s] = archivosVistos
    BY <1>8 DEF archivosVistos
  <2> QED BY <1>12, <2>1, <2>2
<1>15. CASE k # 0
  <2>1. k \in 1 .. Len(r)
    <3> DEFINE c == [i \in 1 .. k |-> CERO]
    <3>1. c \in Seq(Datos) /\ Len(c) = k
      BY HayCero
    <3> HIDE DEF c
    <3>2. Len(s \o c) = Len(s) + k
      BY <1>7, <3>1, ConcatProperties
    <3>3. Len(r) = Len(s) + k
      BY <1>6, <3>2 DEF c
    <3> QED BY <1>7, <1>15, <3>3
  <2>2. [archivosVistos EXCEPT ![n].bloques = r] =
        [archivosVistos EXCEPT ![n].bloques = @ \o [i \in 1 .. k |-> CERO]]
    BY <1>6, <1>8
  <2>3. Abstracto!Agrandar(n, k)
    BY <1>3, <1>8, <1>12, <2>2 DEF Abstracto!Agrandar, Abstracto!EnProgreso, archivosVistos
  <2> QED BY <1>13, <2>1, <2>3
<1> QED BY <1>14, <1>15

\* TRUNCATE to less is Achicar.
LEMMA VeAchicar ==
  ASSUME Sano, NEW n \in Nombres, NEW tam \in Tamanios, ferConLaMexicana(n, tam)
  PROVE  Abstracto!Achicar(n)
<1> DEFINE t == tags[n]
           u == tags'[n]
           s == Leido(tags, contenido, n)
           r == Leido(tags', contenido', n)
<1>1. PICK k : Achicado(n, k)
  BY TrasFerConLaMexicana DEF Sano
<1>2. PedidoSobre(n)
  BY <1>1, TrasFerConLaMexicana, PasoAchicar DEF Sano
<1>3. /\ n \in DOMAIN tags /\ n \in DOMAIN tags' /\ DOMAIN tags' = DOMAIN tags
      /\ k \in 0 .. Len(t.bloques_logicos)
      /\ TagsOK(tags) /\ TagsOK(tags')
      /\ contenido \in [Fisicos -> Datos] /\ contenido' \in [Fisicos -> Datos]
      /\ Punteros(tags')
      /\ \A b : Enlazado(tags', b) => contenido'[b] = contenido[b]
  BY <1>1 DEF Achicado, Salvo, Sano, Base, DiscoBien
<1>4. /\ u.estado = t.estado
      /\ Len(u.bloques_logicos) = Len(t.bloques_logicos) - k
      /\ \A i \in 1 .. Len(t.bloques_logicos) - k : u.bloques_logicos[i] = t.bloques_logicos[i]
  BY <1>1 DEF Achicado
<1>5. t.estado = "WORK_IN_PROGRESS"
  BY <1>3, PideSano, Estados
     DEF ferConLaMexicana, Sano, CargaSana, commiteado
<1>6. /\ s \in Seq(Datos) /\ Len(s) = Len(t.bloques_logicos)
      /\ DOMAIN s = DOMAIN t.bloques_logicos
      /\ \A i \in DOMAIN s : s[i] = contenido[t.bloques_logicos[i]]
  BY <1>3, LeidoSeq
<1>7. /\ r \in Seq(Datos) /\ Len(r) = Len(u.bloques_logicos)
      /\ DOMAIN r = DOMAIN u.bloques_logicos
      /\ \A i \in DOMAIN r : r[i] = contenido'[u.bloques_logicos[i]]
  BY <1>3, LeidoSeq
<1>8. \A i \in DOMAIN r : contenido'[u.bloques_logicos[i]] = contenido[u.bloques_logicos[i]]
  <2>1. u.hl = u.bloques_logicos
    BY <1>3 DEF Punteros
  <2>2. \A i \in DOMAIN u.bloques_logicos : Enlazado(tags', u.bloques_logicos[i])
    BY <1>3, <2>1 DEF Enlazado
  <2> QED BY <1>3, <1>7, <2>2
<1>9. /\ archivosVistos[n] = [estado |-> t.estado, bloques |-> s] /\ n \in DOMAIN archivosVistos
      /\ archivosVistos[n].estado = t.estado /\ archivosVistos[n].bloques = s
  BY <1>3, VistoComo
<1>10. archivosVistos' = [archivosVistos EXCEPT ![n] = [estado |-> u.estado, bloques |-> r]]
  BY <1>2, <1>3, VistaCambiada
<1> HIDE DEF t, u, s, r
<1>11. archivosVistos' = [archivosVistos EXCEPT ![n].bloques = r]
  BY <1>4, <1>9, <1>10, OtrosBloques
<1>12. r = SubSeq(s, 1, Len(s) - k) /\ Len(s) - k \in 0 .. Len(s)
  <2> DEFINE j == Len(s) - k
             q == SubSeq(s, 1, j)
  <2>1. Len(s) \in Nat /\ DOMAIN s = 1 .. Len(s) /\ j \in 0 .. Len(s)
    BY <1>3, <1>6
  <2>2. Len(r) = j /\ DOMAIN r = 1 .. j
    BY <1>4, <1>6, <1>7
  <2>3. \A i \in 1 .. j : r[i] = s[i]
    <3> TAKE i \in 1 .. j
    <3>1. i \in DOMAIN r /\ i \in DOMAIN s
      BY <2>1, <2>2
    <3>2. u.bloques_logicos[i] = t.bloques_logicos[i]
      BY <1>4, <1>6
    <3> QED BY <1>6, <1>7, <1>8, <3>1, <3>2
  <2> HIDE DEF j
  <2>4. q \in Seq(Datos) /\ Len(q) = j /\ \A i \in 1 .. j : q[i] = s[i]
    BY <1>6, <2>1
  <2> HIDE DEF q
  <2>5. r = q
    BY <1>7, <2>1, <2>2, <2>3, <2>4, SeqEqual
  <2> QED BY <2>1, <2>5 DEF q, j
<1>13. [archivosVistos EXCEPT ![n].bloques = r] =
       [archivosVistos EXCEPT ![n].bloques = SubSeq(@, 1, Len(s) - k)]
  BY <1>9, <1>12
<1> QED BY <1>5, <1>9, <1>11, <1>12, <1>13
        DEF Abstracto!Achicar, Abstracto!EnProgreso, archivosVistos

\* A sequence with one element replaced, told by its elements.
LEMMA UnoCambiado ==
  ASSUME NEW S, NEW s \in Seq(S), NEW r \in Seq(S), Len(r) = Len(s),
         NEW i \in DOMAIN s, NEW c, r[i] = c, \A j \in DOMAIN s : j # i => r[j] = s[j]
  PROVE  r = [s EXCEPT ![i] = c]
<1>1. DOMAIN s = 1 .. Len(s) /\ DOMAIN r = 1 .. Len(s)
  OBVIOUS
<1>2. r = [j \in 1 .. Len(s) |-> r[j]] /\ s = [j \in 1 .. Len(s) |-> s[j]]
  BY <1>1
<1> QED BY <1>1, <1>2

\* WRITE is Escribir, in place or aparte; a death writes nothing.
LEMMA VeWRITE ==
  ASSUME Sano, NEW n \in Nombres, NEW i \in Nat, NEW c \in Contenidos, realizarWRITE(n, i, c)
  PROVE  \/ archivosVistos' = archivosVistos
         \/ Abstracto!EnProgreso(n) /\ i \in DOMAIN archivosVistos[n].bloques
            /\ Abstracto!Escribir(n, i, c)
<1> DEFINE t == tags[n]
           u == tags'[n]
           s == Leido(tags, contenido, n)
           r == Leido(tags', contenido', n)
<1>1. /\ n \in DOMAIN tags /\ i \in DOMAIN t.bloques_logicos /\ t.estado # "COMMITED"
      /\ \/ EscritoEnLugar(n, i, c)
         \/ \E b : EscritoAparte(n, i, c, b)
         \/ UNCHANGED <<tags, bitmap, contenido, hash_index>>
  BY TrasWRITE DEF Sano, commiteado
<1>2. PedidoSobre(n)
  BY PasoWRITE DEF Sano
<1>3. /\ TagsOK(tags) /\ TagsOK(tags')
      /\ contenido \in [Fisicos -> Datos] /\ contenido' \in [Fisicos -> Datos]
      /\ \A m \in DOMAIN tags : tags[m].hl \in Seq(Fisicos)
      /\ t.hl = t.bloques_logicos /\ t.bloques_logicos \in Seq(Fisicos)
  BY <1>1, <1>2 DEF Sano, Base, DiscoBien, PedidoSobre, Punteros, TagsOK, Tag
<1>4. /\ s \in Seq(Datos) /\ Len(s) = Len(t.bloques_logicos)
      /\ DOMAIN s = DOMAIN t.bloques_logicos
      /\ \A j \in DOMAIN s : s[j] = contenido[t.bloques_logicos[j]]
  BY <1>1, <1>3, LeidoSeq
<1>5. /\ archivosVistos[n] = [estado |-> t.estado, bloques |-> s] /\ n \in DOMAIN archivosVistos
      /\ archivosVistos[n].estado = t.estado /\ archivosVistos[n].bloques = s
  BY <1>1, VistoComo
<1>6. t.estado = "WORK_IN_PROGRESS"
  BY <1>1, <1>3, Estados
<1>7. ASSUME DOMAIN tags' = DOMAIN tags, u.estado = t.estado, r = [s EXCEPT ![i] = c]
      PROVE  /\ Abstracto!EnProgreso(n) /\ i \in DOMAIN archivosVistos[n].bloques
             /\ Abstracto!Escribir(n, i, c)
  <2>1. archivosVistos' = [archivosVistos EXCEPT ![n] = [estado |-> u.estado, bloques |-> r]]
    BY <1>1, <1>2, <1>7, VistaCambiada
  <2> HIDE DEF t, u, s, r
  <2>2. archivosVistos' = [archivosVistos EXCEPT ![n].bloques = r]
    BY <1>5, <1>7, <2>1, OtrosBloques
  <2>3. [archivosVistos EXCEPT ![n].bloques = r] = [archivosVistos EXCEPT ![n].bloques[i] = c]
    BY <1>5, <1>7
  <2>4. i \in DOMAIN s
    BY <1>1, <1>4 DEF t
  <2> QED BY <1>5, <1>6, <2>2, <2>3, <2>4
          DEF Abstracto!EnProgreso, Abstracto!Escribir, Abstracto!AdmiteEscritura,
              Abstracto!TieneBloque, archivosVistos
<1>8. CASE EscritoEnLugar(n, i, c)
  <2> DEFINE b == t.hl[i]
  <2>1. /\ ~ (contadorHLinks(tags, b) > 2) /\ contenido' = [contenido EXCEPT ![b] = c]
        /\ tags' = tags
    BY <1>8 DEF EscritoEnLugar
  <2>2. \A j \in DOMAIN t.hl : j # i => t.hl[j] # b
    <3> SUFFICES ASSUME NEW j \in DOMAIN t.hl, j # i PROVE t.hl[j] # b
      OBVIOUS
    <3>1. \A x \in DOMAIN tags : tags[x].hl \in Seq(Int)
      BY <1>3, FisicosEnteros, SecuenciaDe
    <3>2. <<n, j>> # <<n, i>>
      OBVIOUS
    <3> QED BY <1>1, <1>3, <2>1, <3>1, <3>2, EstaCompartido DEF TagsOK
  <2>3. /\ r \in Seq(Datos) /\ Len(r) = Len(t.bloques_logicos)
        /\ DOMAIN r = DOMAIN t.bloques_logicos
        /\ \A j \in DOMAIN r : r[j] = contenido'[t.bloques_logicos[j]]
    <3>1. r = Leido(tags, contenido', n)
      BY <2>1
    <3> QED BY <1>1, <1>3, <3>1, LeidoSeq
  <2>4. /\ b \in Fisicos /\ contenido'[b] = c
        /\ \A x \in Fisicos : x # b => contenido'[x] = contenido[x]
    <3>1. b \in Fisicos
      BY <1>1, <1>3
    <3> HIDE DEF b
    <3> QED BY <1>3, <2>1, <3>1
  <2>5. r[i] = c /\ \A j \in DOMAIN s : j # i => r[j] = s[j]
    <3>1. \A j \in DOMAIN s : t.bloques_logicos[j] \in Fisicos /\ t.bloques_logicos[j] = t.hl[j]
      BY <1>3, <1>4
    <3> QED BY <1>1, <1>3, <1>4, <2>2, <2>3, <2>4, <3>1
  <2>6. r = [s EXCEPT ![i] = c]
    <3>1. i \in DOMAIN s /\ Len(r) = Len(s) /\ s \in Seq(Datos) /\ r \in Seq(Datos)
      BY <1>1, <1>4, <2>3
    <3> HIDE DEF r, s
    <3> QED BY <2>5, <3>1, UnoCambiado
  <2> QED BY <1>7, <2>1, <2>6
<1>9. CASE \E b : EscritoAparte(n, i, c, b)
  <2>1. PICK b : EscritoAparte(n, i, c, b)
    BY <1>9
  <2>2. /\ b \in Fisicos /\ b \notin bitmap
        /\ u.estado = t.estado /\ u.bloques_logicos = [t.bloques_logicos EXCEPT ![i] = b]
        /\ contenido' = [contenido EXCEPT ![b] = c]
        /\ DOMAIN tags' = DOMAIN tags /\ n \in DOMAIN tags'
    BY <1>1, <2>1 DEF EscritoAparte, Salvo
  <2>3. \A j \in DOMAIN t.bloques_logicos : t.bloques_logicos[j] # b
    <3>1. \A j \in DOMAIN t.bloques_logicos : Enlazado(tags, t.bloques_logicos[j])
      BY <1>1, <1>3 DEF Enlazado
    <3> QED BY <2>2, <3>1 DEF Sano, Exacto
  <2>4. /\ r \in Seq(Datos) /\ Len(r) = Len(u.bloques_logicos)
        /\ DOMAIN r = DOMAIN u.bloques_logicos
        /\ \A j \in DOMAIN r : r[j] = contenido'[u.bloques_logicos[j]]
    <3>1. TagsOK(tags') /\ contenido' \in [Fisicos -> Datos] /\ n \in DOMAIN tags'
      BY <1>3, <2>2
    <3> QED BY <3>1, LeidoSeq
  <2>5. /\ DOMAIN u.bloques_logicos = DOMAIN t.bloques_logicos
        /\ Len(u.bloques_logicos) = Len(t.bloques_logicos)
        /\ u.bloques_logicos[i] = b
        /\ \A j \in DOMAIN t.bloques_logicos : j # i =>
             u.bloques_logicos[j] = t.bloques_logicos[j]
    <3> DEFINE x == t.bloques_logicos
    <3>1. x \in Seq(Fisicos) /\ i \in DOMAIN x /\ u.bloques_logicos = [x EXCEPT ![i] = b]
      BY <1>1, <1>3, <2>2
    <3> HIDE DEF x, u
    <3>2. [x EXCEPT ![i] = b] \in Seq(Fisicos) /\ Len([x EXCEPT ![i] = b]) = Len(x)
      BY <2>2, <3>1, ExceptSeq
    <3>3. /\ u.bloques_logicos[i] = b /\ DOMAIN u.bloques_logicos = DOMAIN x
          /\ \A j \in DOMAIN x : j # i => u.bloques_logicos[j] = x[j]
      BY <3>1
    <3>4. Len(u.bloques_logicos) = Len(x)
      BY <3>1, <3>2
    <3> QED BY <3>3, <3>4 DEF x
  <2>6. /\ contenido'[b] = c
        /\ \A x \in Fisicos : x # b => contenido'[x] = contenido[x]
    BY <1>3, <2>2
  <2>7. r[i] = c /\ \A j \in DOMAIN s : j # i => r[j] = s[j]
    <3>1. \A j \in DOMAIN s : t.bloques_logicos[j] \in Fisicos
      BY <1>3, <1>4
    <3> QED BY <1>1, <1>4, <2>3, <2>4, <2>5, <2>6, <3>1
  <2>8. r = [s EXCEPT ![i] = c]
    <3>1. i \in DOMAIN s /\ Len(r) = Len(s) /\ s \in Seq(Datos) /\ r \in Seq(Datos)
      BY <1>1, <1>4, <2>4, <2>5
    <3> HIDE DEF r, s
    <3> QED BY <2>7, <3>1, UnoCambiado
  <2> QED BY <1>7, <2>2, <2>8
<1>10. CASE UNCHANGED <<tags, bitmap, contenido, hash_index>>
  BY <1>10, NadieLoNota
<1> QED BY <1>1, <1>8, <1>9, <1>10

\* COMMIT is Commitear: deduplication does not show.
LEMMA VeCOMMIT ==
  ASSUME Sano, NEW n \in Nombres, UNCHANGED usos, realizarCOMMIT(n)
  PROVE  Abstracto!Commitear(n)
<1> DEFINE t == tags[n]
           u == tags'[n]
           s == Leido(tags, contenido, n)
           r == Leido(tags', contenido', n)
<1>1. /\ n \in DOMAIN tags /\ Salvo(tags, tags', n) /\ contenido' = contenido
      /\ t.estado # "COMMITED" /\ u.estado = "COMMITED"
      /\ DOMAIN u.hl = DOMAIN t.hl
      /\ \A i \in DOMAIN t.hl : contenido[u.hl[i]] = contenido[t.hl[i]]
      /\ Punteros(tags')
  BY SanoCOMMIT DEF Sanado
<1>2. PedidoSobre(n)
  BY PasoCOMMIT DEF Sano
<1>3. DOMAIN tags' = DOMAIN tags /\ t.estado = "WORK_IN_PROGRESS"
  BY <1>1, Estados DEF Salvo, Sano, Base, DiscoBien
<1>4. u.hl = u.bloques_logicos /\ t.hl = t.bloques_logicos
  BY <1>1, <1>3 DEF Sano, Punteros
<1>5. r = s
  <2>1. r = [i \in DOMAIN u.hl |-> contenido[u.hl[i]]] /\ s = [i \in DOMAIN t.hl |-> contenido[t.hl[i]]]
    BY <1>1, <1>4 DEF Leido
  <2> HIDE DEF t, u, r, s
  <2> QED BY <1>1, <2>1
<1>6. /\ archivosVistos[n] = [estado |-> t.estado, bloques |-> s] /\ n \in DOMAIN archivosVistos
      /\ archivosVistos[n].estado = t.estado
  BY <1>1, VistoComo
<1>7. archivosVistos' = [archivosVistos EXCEPT ![n] = [estado |-> u.estado, bloques |-> r]]
  BY <1>1, <1>2, <1>3, VistaCambiada
<1> HIDE DEF t, u, r, s
<1>8. [archivosVistos EXCEPT ![n].estado = "COMMITED"] =
      [archivosVistos EXCEPT ![n] = [estado |-> "COMMITED", bloques |-> s]]
  <2>1. [archivosVistos[n] EXCEPT !.estado = "COMMITED"] = [estado |-> "COMMITED", bloques |-> s]
    BY <1>6
  <2>2. [archivosVistos EXCEPT ![n].estado = "COMMITED"] =
        [archivosVistos EXCEPT ![n] = [archivosVistos[n] EXCEPT !.estado = "COMMITED"]]
    OBVIOUS
  <2> QED BY <2>1, <2>2
<1>9. archivosVistos' = [archivosVistos EXCEPT ![n].estado = "COMMITED"]
  BY <1>1, <1>5, <1>7, <1>8
<1> QED BY <1>3, <1>6, <1>9 DEF Abstracto!Commitear, Abstracto!EnProgreso, archivosVistos

\* DELETE is Eliminar.
LEMMA VeELIMINAR ==
  ASSUME Sano, NEW n \in Nombres, realizarELIMINAR_UN_TAG(n)
  PROVE  Abstracto!Eliminar(n)
<1> DEFINE V == Vista(tags, contenido)
           W == Vista(tags', contenido')
           d == unlinkearTodoParaEliminar(disco, n, Len(tags[n].bloques_logicos))
<1>1. Eliminado(n, d)
  BY TrasELIMINAR DEF Sano
<1> HIDE DEF d
<1>2. n \in DOMAIN tags /\ DOMAIN tags' = DOMAIN tags \ {n}
  BY <1>1 DEF Eliminado
<1>3. PedidoSobre(n)
  BY PasoELIMINAR DEF Sano
<1>4. \A m \in DOMAIN tags' : W[m] = V[m]
  BY <1>2, <1>3, Ajeno DEF Vista
<1>5. DOMAIN V = DOMAIN tags /\ W = [m \in DOMAIN tags \ {n} |-> W[m]]
  BY <1>2 DEF Vista
<1>6. archivosVistos = V /\ archivosVistos' = W
  BY SonVistas
<1> HIDE DEF V, W
<1>7. W = [m \in DOMAIN V \ {n} |-> V[m]]
  BY <1>2, <1>4, <1>5
<1>8. archivosVistos' = [m \in DOMAIN archivosVistos \ {n} |-> archivosVistos[m]]
  BY <1>6, <1>7
<1>9. n \in DOMAIN archivosVistos
  BY <1>2, <1>5, <1>6
<1> QED BY <1>8, <1>9 DEF Abstracto!Eliminar, archivosVistos

\* Every request is a step of the abstract files or changes none.
LEMMA VePedido ==
  ASSUME Sano, UNCHANGED usos, NEW n \in Nombres, pedidoDeLaburante(n)
  PROVE  archivosVistos' = archivosVistos \/ Abstracto!Next
<1>1. \/ realizarCREATE(n)
      \/ \E tam \in Tamanios : agrandarEnTruncate(n, tam)
      \/ \E tam \in Tamanios : ferConLaMexicana(n, tam)
      \/ \E o \in Nombres : realizarTAG(o, n)
      \/ realizarCOMMIT(n)
      \/ \E i \in 1 .. MaxBLOCKS, c \in Contenidos : realizarWRITE(n, i, c)
      \/ realizarELIMINAR_UN_TAG(n)
  BY DEF pedidoDeLaburante
<1>2. CASE realizarCREATE(n)
  BY <1>2, VeCREATE DEF Abstracto!Next
<1>3. CASE \E tam \in Tamanios : agrandarEnTruncate(n, tam)
  BY <1>3, VeAgrandar DEF Abstracto!Next, archivosVistos
<1>4. CASE \E tam \in Tamanios : ferConLaMexicana(n, tam)
  BY <1>4, VeAchicar DEF Abstracto!Next
<1>5. CASE \E o \in Nombres : realizarTAG(o, n)
  BY <1>5, VeTAG DEF Abstracto!Next
<1>6. CASE realizarCOMMIT(n)
  BY <1>6, VeCOMMIT DEF Abstracto!Next
<1>7. CASE \E i \in 1 .. MaxBLOCKS, c \in Contenidos : realizarWRITE(n, i, c)
  <2>1. PICK i \in 1 .. MaxBLOCKS : \E c \in Contenidos : realizarWRITE(n, i, c)
    BY <1>7
  <2>2. PICK c \in Contenidos : realizarWRITE(n, i, c)
    BY <2>1
  <2>3. i \in Nat /\ c \in Contenidos \cup {CERO}
    BY StorageAssumption
  <2>4. archivosVistos' = archivosVistos
        \/ (Abstracto!EnProgreso(n) /\ i \in DOMAIN archivosVistos[n].bloques
            /\ Abstracto!Escribir(n, i, c))
    BY <2>2, <2>3, VeWRITE
  <2> QED BY <2>3, <2>4 DEF Abstracto!Next, archivosVistos
<1>8. CASE realizarELIMINAR_UN_TAG(n)
  BY <1>8, VeELIMINAR DEF Abstracto!Next
<1> QED BY <1>1, <1>2, <1>3, <1>4, <1>5, <1>6, <1>7, <1>8

\* Every step of storage is one of the abstract files or changes none.
LEMMA VePaso == Sano /\ [Next]_vars => [Abstracto!Next]_archivosVistos
<1> SUFFICES ASSUME Sano, [Next]_vars
             PROVE  archivosVistos' = archivosVistos \/ Abstracto!Next
  OBVIOUS
<1>1. UNCHANGED usos
  BY DEF Next, vars
<1>2. CASE UNCHANGED vars
  <2>1. DOMAIN tags' = DOMAIN tags /\ tags' = tags /\ contenido' = contenido
    BY <1>2 DEF vars
  <2> QED BY <2>1, NadieLoNota
<1>3. CASE \E n \in Nombres : pedidoDeLaburante(n)
  BY <1>1, <1>3, VePedido
<1>4. CASE RECONSTRUCCION
  <2>1. /\ contenido' = contenido /\ DOMAIN tags' = DOMAIN tags
        /\ \A m \in DOMAIN tags : tags'[m] = tags[m]
    BY <1>1, <1>4, SanoReinicio
  <2>2. \A m \in DOMAIN tags : Leido(tags', contenido', m) = Leido(tags, contenido, m)
    BY <2>1 DEF Leido
  <2> QED BY <2>1, <2>2, NadieLoNota
<1> QED BY <1>2, <1>3, <1>4, SinCaidas DEF Next, Sano

\* The abstract files start with initial_file:BASE.
LEMMA VeInicio == Init => Abstracto!Init
<1> SUFFICES ASSUME Init
             PROVE  archivosVistos = [n \in {Inicial} |-> [estado |-> "COMMITED", bloques |-> <<CERO>>]]
  BY DEF Abstracto!Init, archivosVistos
<1>1. /\ DOMAIN tags = {Inicial} /\ tags[Inicial].estado = "COMMITED"
      /\ tags[Inicial].bloques_logicos = <<0>> /\ contenido[0] = CERO
  BY HayCero DEF Init
<1>2. Leido(tags, contenido, Inicial) = <<CERO>>
  BY <1>1 DEF Leido
<1>3. archivosVistos = [n \in {Inicial} |-> archivosVistos[n]]
  BY <1>1 DEF archivosVistos
<1> QED BY <1>1, <1>2, <1>3, VistoComo

\* Independientes: on a sane workload storage implements independent
\* File:Tags: how blocks are linked, copied on write, deduplicated at COMMIT
\* and rebuilt by a restart never shows.
THEOREM FileTagsIndependientes == Spec /\ CargaSana(usos) => Independientes
<1>1. CargaSana(usos) /\ [][Next]_vars => []CargaSana(usos)
  <2>1. CargaSana(usos) /\ [Next]_vars => CargaSana(usos)'
    BY DEF Next, vars, CargaSana
  <2> QED BY <2>1, PTL
<1>2. Spec /\ CargaSana(usos) => []Sano
  BY <1>1, SanoSiempre, PTL DEF Spec
<1>3. Sano /\ [Next]_vars => [Abstracto!Next]_Abstracto!vars
  BY VePaso DEF Abstracto!vars, archivosVistos
<1> QED BY <1>2, <1>3, VeInicio, PTL DEF Independientes, Abstracto!Spec, Spec

\* CommitConserva: COMMIT moves logical blocks only to blocks with the same
\* content.
THEOREM CommitNoCambiaNada == Spec /\ CargaSana(usos) => CommitConserva
<1>1. CargaSana(usos) /\ [][Next]_vars => []CargaSana(usos)
  <2>1. CargaSana(usos) /\ [Next]_vars => CargaSana(usos)'
    BY DEF Next, vars, CargaSana
  <2> QED BY <2>1, PTL
<1>2. Spec /\ CargaSana(usos) => []Sano
  BY <1>1, SanoSiempre, PTL DEF Spec
<1>3. ASSUME Sano, [Next]_vars
      PROVE  [\A n \in Nombres : realizarCOMMIT(n) => leidos(n)' = leidos(n)]_vars
  <2> SUFFICES ASSUME NEW n \in Nombres, realizarCOMMIT(n) PROVE leidos(n)' = leidos(n)
    BY <1>3
  <2>1. UNCHANGED usos
    BY <1>3 DEF Next, vars
  <2>2. /\ n \in DOMAIN tags /\ n \in DOMAIN tags' /\ contenido' = contenido
        /\ DOMAIN tags'[n].hl = DOMAIN tags[n].hl
        /\ \A i \in DOMAIN tags[n].hl : contenido[tags'[n].hl[i]] = contenido[tags[n].hl[i]]
        /\ Punteros(tags')
    BY <1>3, <2>1, SanoCOMMIT DEF Sanado, Salvo
  <2>3. tags[n].hl = tags[n].bloques_logicos /\ tags'[n].hl = tags'[n].bloques_logicos
    BY <1>3, <2>2 DEF Sano, Punteros
  <2> QED BY <2>2, <2>3 DEF leidos, realizarREAD
<1> QED BY <1>2, <1>3, PTL DEF CommitConserva, Spec

=============================================================================
