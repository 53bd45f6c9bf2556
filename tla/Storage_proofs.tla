---------------------------- MODULE Storage_proofs ----------------------------
(***************************************************************************)
(* Proofs about Storage for any File:Tags, number of blocks, block size,   *)
(* contents and workloads, deaths between system calls included: types,    *)
(* no block reserved for nobody, the isolation of the File:Tags, and what  *)
(* a death costs.                                                          *)
(* The inductive invariant is Base; every request keeps PedidoSobre(n),    *)
(* what it may change when it names n, and every start keeps Arranque.     *)
(***************************************************************************)
EXTENDS Storage, FiniteSetTheorems, SequenceTheorems, WellFoundedInduction, TLAPS

\* A set of naturals that is not empty has a least member.
LEMMA MenorNatural ==
  ASSUME NEW S \in SUBSET Nat, S # {}
  PROVE  \E n \in S : \A m \in S : n <= m
<1> DEFINE R == {ss \in Nat \X Nat : ss[1] < ss[2]}
<1>1. IsWellFoundedOn(R, Nat)
  BY NatLessThanWellFounded DEF OpToRel
<1>2. PICK n \in S : \A m \in S : <<m, n>> \notin R
  <2> HIDE DEF R
  <2> QED BY <1>1, WFMin
<1>3. \A m \in S : ~ (m < n)
  BY <1>2
<1> QED BY <1>3

\* What holds before the first turn, and after a turn if it did before, holds
\* after every turn of a loop.
LEMMA PorVueltas ==
  ASSUME NEW k \in Nat, NEW S, 0 \in S, \A j \in 1 .. k : j - 1 \in S => j \in S
  PROVE  0 .. k \subseteq S
<1> DEFINE malos == {j \in 0 .. k : j \notin S}
<1>1. CASE malos = {}
  BY <1>1
<1>2. CASE malos # {}
  <2>1. PICK j \in malos : \A i \in malos : j <= i
    <3>1. malos \subseteq Nat
      OBVIOUS
    <3> HIDE DEF malos
    <3> QED BY <1>2, <3>1, MenorNatural
  <2>2. j \in 1 .. k /\ j - 1 \in 0 .. k /\ j - 1 \notin malos
    BY <2>1
  <2> QED BY <2>1, <2>2
<1> QED BY <1>1, <1>2

\* The turns of unlinkearBloquesLogicos, without the LET.
LEMMA VueltasUnlinkear ==
  ASSUME NEW d, NEW n, NEW k \in Nat
  PROVE  \E f : /\ f[0] = d
                /\ \A j \in 1 .. k : f[j] = unlinkearBloqueLogico(f[j - 1], n)
                /\ unlinkearBloquesLogicos(d, n, k) = f[k]
<1> DEFINE Es(f, m) == f = [j \in 0 .. m |->
                 IF j = 0 THEN d ELSE unlinkearBloqueLogico(f[j - 1], n)]
           hechos == {m \in 0 .. k : \E f : Es(f, m)}
<1>1. 0 \in hechos
  <2>1. Es([j \in 0 .. 0 |-> d], 0)
    OBVIOUS
  <2>2. \E f : Es(f, 0)
    <3> HIDE DEF Es
    <3> QED BY <2>1
  <2> QED BY <2>2
<1>2. ASSUME NEW m \in 1 .. k, m - 1 \in hechos PROVE m \in hechos
  <2>1. PICK g : Es(g, m - 1)
    BY <1>2
  <2> DEFINE f == [j \in 0 .. m |-> IF j < m THEN g[j]
                                  ELSE unlinkearBloqueLogico(g[m - 1], n)]
  <2>2. \A j \in 0 .. m - 1 : f[j] = g[j]
    OBVIOUS
  <2>3. \A j \in 0 .. m : f[j] = IF j = 0 THEN d ELSE unlinkearBloqueLogico(f[j - 1], n)
    <3> SUFFICES ASSUME NEW j \in 0 .. m
                 PROVE  f[j] = IF j = 0 THEN d ELSE unlinkearBloqueLogico(f[j - 1], n)
      OBVIOUS
    <3>1. CASE j = 0
      BY <2>1, <2>2, <3>1
    <3>2. CASE j # 0 /\ j < m
      <4>1. g[j] = unlinkearBloqueLogico(g[j - 1], n)
        BY <2>1, <3>2
      <4> QED BY <2>2, <3>2, <4>1
    <3>3. CASE j = m
      BY <2>2, <3>3
    <3> QED BY <3>1, <3>2, <3>3
  <2>4. Es(f, m)
    BY <2>3
  <2>5. \E g2 : Es(g2, m)
    <3> HIDE DEF f, Es
    <3> QED BY <2>4
  <2> QED BY <2>5
<1>3. k \in hechos
  <2> HIDE DEF hechos
  <2> QED BY <1>1, <1>2, PorVueltas
<1> DEFINE F == CHOOSE f : Es(f, k)
<1>4. Es(F, k)
  BY <1>3
<1>5. unlinkearBloquesLogicos(d, n, k) = F[k]
  BY DEF unlinkearBloquesLogicos
<1> HIDE DEF F
<1>6. /\ F[0] = d
      /\ \A j \in 1 .. k : F[j] = unlinkearBloqueLogico(F[j - 1], n)
  BY <1>4
<1> QED BY <1>5, <1>6
\* The turns of unlinkearBloquesLogicosParaELIMINAR_UN_TAG, without the LET.
LEMMA VueltasParaEliminar ==
  ASSUME NEW d, NEW n, NEW k \in Nat
  PROVE  \E f : /\ f[0] = d
                /\ \A j \in 1 .. k : f[j] = unlinkearParaEliminar(f[j - 1], n)
                /\ unlinkearTodoParaEliminar(d, n, k) = f[k]
<1> DEFINE Es(f, m) == f = [j \in 0 .. m |->
                 IF j = 0 THEN d ELSE unlinkearParaEliminar(f[j - 1], n)]
           hechos == {m \in 0 .. k : \E f : Es(f, m)}
<1>1. 0 \in hechos
  <2>1. Es([j \in 0 .. 0 |-> d], 0)
    OBVIOUS
  <2>2. \E f : Es(f, 0)
    <3> HIDE DEF Es
    <3> QED BY <2>1
  <2> QED BY <2>2
<1>2. ASSUME NEW m \in 1 .. k, m - 1 \in hechos PROVE m \in hechos
  <2>1. PICK g : Es(g, m - 1)
    BY <1>2
  <2> DEFINE f == [j \in 0 .. m |-> IF j < m THEN g[j]
                                  ELSE unlinkearParaEliminar(g[m - 1], n)]
  <2>2. \A j \in 0 .. m - 1 : f[j] = g[j]
    OBVIOUS
  <2>3. \A j \in 0 .. m : f[j] = IF j = 0 THEN d ELSE unlinkearParaEliminar(f[j - 1], n)
    <3> SUFFICES ASSUME NEW j \in 0 .. m
                 PROVE  f[j] = IF j = 0 THEN d ELSE unlinkearParaEliminar(f[j - 1], n)
      OBVIOUS
    <3>1. CASE j = 0
      BY <2>1, <2>2, <3>1
    <3>2. CASE j # 0 /\ j < m
      <4>1. g[j] = unlinkearParaEliminar(g[j - 1], n)
        BY <2>1, <3>2
      <4> QED BY <2>2, <3>2, <4>1
    <3>3. CASE j = m
      BY <2>2, <3>3
    <3> QED BY <3>1, <3>2, <3>3
  <2>4. Es(f, m)
    BY <2>3
  <2>5. \E g2 : Es(g2, m)
    <3> HIDE DEF f, Es
    <3> QED BY <2>4
  <2> QED BY <2>5
<1>3. k \in hechos
  <2> HIDE DEF hechos
  <2> QED BY <1>1, <1>2, PorVueltas
<1> DEFINE F == CHOOSE f : Es(f, k)
<1>4. Es(F, k)
  BY <1>3
<1>5. unlinkearTodoParaEliminar(d, n, k) = F[k]
  BY DEF unlinkearTodoParaEliminar
<1> HIDE DEF F
<1>6. /\ F[0] = d
      /\ \A j \in 1 .. k : F[j] = unlinkearParaEliminar(F[j - 1], n)
  BY <1>4
<1> QED BY <1>5, <1>6

\* f[j] is the disk after j turns of the loop of realizarCOMMIT over n.
VueltasDeIndexar(f, d, n, k) ==
  /\ f[0] = d
  /\ \A j \in 1 .. k : f[j] = escribirEnHashIndex(f[j - 1], n, j)
  /\ indexarBloques(d, n, k) = f[k]

\* The turns of the loop of realizarCOMMIT, without the LET.
LEMMA VueltasIndexar ==
  ASSUME NEW d, NEW n, NEW k \in Nat
  PROVE  \E f : VueltasDeIndexar(f, d, n, k)
<1> DEFINE Es(f, m) == f = [j \in 0 .. m |->
                 IF j = 0 THEN d ELSE escribirEnHashIndex(f[j - 1], n, j)]
           hechos == {m \in 0 .. k : \E f : Es(f, m)}
<1>1. 0 \in hechos
  <2>1. Es([j \in 0 .. 0 |-> d], 0)
    OBVIOUS
  <2>2. \E f : Es(f, 0)
    <3> HIDE DEF Es
    <3> QED BY <2>1
  <2> QED BY <2>2
<1>2. ASSUME NEW m \in 1 .. k, m - 1 \in hechos PROVE m \in hechos
  <2>1. PICK g : Es(g, m - 1)
    BY <1>2
  <2> DEFINE f == [j \in 0 .. m |-> IF j < m THEN g[j]
                                  ELSE escribirEnHashIndex(g[m - 1], n, m)]
  <2>2. \A j \in 0 .. m - 1 : f[j] = g[j]
    OBVIOUS
  <2>3. \A j \in 0 .. m : f[j] = IF j = 0 THEN d ELSE escribirEnHashIndex(f[j - 1], n, j)
    <3> SUFFICES ASSUME NEW j \in 0 .. m
                 PROVE  f[j] = IF j = 0 THEN d ELSE escribirEnHashIndex(f[j - 1], n, j)
      OBVIOUS
    <3>1. CASE j = 0
      BY <2>1, <2>2, <3>1
    <3>2. CASE j # 0 /\ j < m
      <4>1. g[j] = escribirEnHashIndex(g[j - 1], n, j)
        BY <2>1, <3>2
      <4> QED BY <2>2, <3>2, <4>1
    <3>3. CASE j = m
      BY <2>2, <3>3
    <3> QED BY <3>1, <3>2, <3>3
  <2>4. Es(f, m)
    BY <2>3
  <2>5. \E g2 : Es(g2, m)
    <3> HIDE DEF f, Es
    <3> QED BY <2>4
  <2> QED BY <2>5
<1>3. k \in hechos
  <2> HIDE DEF hechos
  <2> QED BY <1>1, <1>2, PorVueltas
<1> DEFINE F == CHOOSE f : Es(f, k)
<1>4. Es(F, k)
  BY <1>3
<1>5. indexarBloques(d, n, k) = F[k]
  BY DEF indexarBloques
<1> HIDE DEF F
<1>6. /\ F[0] = d
      /\ \A j \in 1 .. k : F[j] = escribirEnHashIndex(F[j - 1], n, j)
  BY <1>4
<1> QED BY <1>5, <1>6 DEF VueltasDeIndexar
-----------------------------------------------------------------------------
(* Counting links: finite sets seen as "is there a link".                  *)

\* Some logical block is a link to b.
Enlazado(ts, b) == \E m \in DOMAIN ts : \E i \in DOMAIN ts[m].hl : ts[m].hl[i] = b

\* st_nlink is a number: the links to a block are finitely many.
LEMMA EnlacesFinitos ==
  ASSUME NEW ts, NEW b, IsFiniteSet(DOMAIN ts),
         \A m \in DOMAIN ts : ts[m].hl \in Seq(Int)
  PROVE  IsFiniteSet(enlaces(ts, b))
<1> DEFINE de(m) == {<<m, i>> : i \in {i \in DOMAIN ts[m].hl : ts[m].hl[i] = b}}
           S == {de(m) : m \in DOMAIN ts}
           f == [m \in DOMAIN ts |-> de(m)]
<1>1. ASSUME NEW m \in DOMAIN ts PROVE IsFiniteSet(de(m))
  <2> DEFINE T == {m} \X (1 .. Len(ts[m].hl))
  <2>1. IsFiniteSet(T)
    <3>1. IsFiniteSet({m})
      BY FS_Singleton
    <3>2. IsFiniteSet(1 .. Len(ts[m].hl))
      BY FS_Interval
    <3> QED BY <3>1, <3>2, FS_Product
  <2>2. de(m) \in SUBSET T
    OBVIOUS
  <2> HIDE DEF T, de
  <2> QED BY <2>1, <2>2, FS_Subset
<1>2. IsFiniteSet(S)
  <2>1. f \in Surjection(DOMAIN ts, S)
    <3> HIDE DEF de
    <3> QED BY DEF Surjection
  <2> HIDE DEF f, S
  <2> QED BY <2>1, FS_Surjection
<1>3. \A T \in S : IsFiniteSet(T)
  <2> HIDE DEF de
  <2> QED BY <1>1
<1>4. IsFiniteSet(UNION S)
  <2> HIDE DEF S
  <2> QED BY <1>2, <1>3, FS_UNION
<1> QED BY <1>4 DEF enlaces

\* Every link is a File:Tag and a position.
LEMMA EnlacesPares ==
  ASSUME NEW ts, NEW b, NEW l \in enlaces(ts, b)
  PROVE  \E m \in DOMAIN ts : \E i \in DOMAIN ts[m].hl : l = <<m, i>>
BY DEF enlaces

\* What it is to be a link to b.
LEMMA EsEnlace ==
  ASSUME NEW ts, NEW b, NEW m, NEW i
  PROVE  <<m, i>> \in enlaces(ts, b) <=>
           m \in DOMAIN ts /\ i \in DOMAIN ts[m].hl /\ ts[m].hl[i] = b
BY DEF enlaces

\* A physical block has links if some logical block is one.
LEMMA TieneEnlaces ==
  ASSUME NEW ts, NEW b, IsFiniteSet(DOMAIN ts),
         \A m \in DOMAIN ts : ts[m].hl \in Seq(Int)
  PROVE  tieneHLinks(ts, b) <=> Enlazado(ts, b)
<1>1. IsFiniteSet(enlaces(ts, b))
  BY EnlacesFinitos
<1>2. tieneHLinks(ts, b) <=> enlaces(ts, b) # {}
  <2>1. Cardinality(enlaces(ts, b)) \in Nat
    BY <1>1, FS_CardinalityType
  <2>2. Cardinality(enlaces(ts, b)) = 0 <=> enlaces(ts, b) = {}
    BY <1>1, FS_EmptySet
  <2> QED BY <2>1, <2>2 DEF tieneHLinks, contadorHLinks
<1>3. enlaces(ts, b) # {} <=> Enlazado(ts, b)
  <2>1. ASSUME NEW l \in enlaces(ts, b) PROVE Enlazado(ts, b)
    <3>1. PICK m \in DOMAIN ts : \E i \in DOMAIN ts[m].hl : l = <<m, i>>
      BY EnlacesPares
    <3> QED BY <3>1, EsEnlace DEF Enlazado
  <2>2. ASSUME Enlazado(ts, b) PROVE enlaces(ts, b) # {}
    BY <2>2, EsEnlace DEF Enlazado
  <2> QED BY <2>1, <2>2
<1> QED BY <1>2, <1>3

\* It is shared if some other logical block is one.
LEMMA EstaCompartido ==
  ASSUME NEW ts, NEW m \in DOMAIN ts, NEW i \in DOMAIN ts[m].hl,
         IsFiniteSet(DOMAIN ts), \A x \in DOMAIN ts : ts[x].hl \in Seq(Int)
  PROVE  contadorHLinks(ts, ts[m].hl[i]) > 2 <=>
           \E x \in DOMAIN ts : \E j \in DOMAIN ts[x].hl :
             <<x, j>> # <<m, i>> /\ ts[x].hl[j] = ts[m].hl[i]
<1> DEFINE b == ts[m].hl[i]
           E == enlaces(ts, b)
<1>1. IsFiniteSet(E)
  BY EnlacesFinitos
<1>2. <<m, i>> \in E
  BY EsEnlace
<1>3. contadorHLinks(ts, b) > 2 <=> E \ {<<m, i>>} # {}
  <2>1. /\ IsFiniteSet(E \ {<<m, i>>})
        /\ Cardinality(E \ {<<m, i>>}) = Cardinality(E) - 1
    <3> HIDE DEF E
    <3> QED BY <1>1, <1>2, FS_RemoveElement
  <2>2. Cardinality(E) \in Nat /\ Cardinality(E \ {<<m, i>>}) \in Nat
    BY <1>1, <2>1, FS_CardinalityType
  <2>3. Cardinality(E \ {<<m, i>>}) = 0 <=> E \ {<<m, i>>} = {}
    BY <2>1, FS_EmptySet
  <2>4. contadorHLinks(ts, b) = 1 + Cardinality(E)
    BY DEF contadorHLinks
  <2> HIDE DEF E, b
  <2> QED BY <2>1, <2>2, <2>3, <2>4
<1>4. E \ {<<m, i>>} # {} <=>
        \E x \in DOMAIN ts : \E j \in DOMAIN ts[x].hl :
          <<x, j>> # <<m, i>> /\ ts[x].hl[j] = b
  <2>1. ASSUME NEW l \in E, l # <<m, i>>
        PROVE  \E x \in DOMAIN ts : \E j \in DOMAIN ts[x].hl :
                 <<x, j>> # <<m, i>> /\ ts[x].hl[j] = b
    <3>1. PICK x \in DOMAIN ts : \E j \in DOMAIN ts[x].hl : l = <<x, j>>
      BY EnlacesPares
    <3> QED BY <2>1, <3>1, EsEnlace
  <2>2. ASSUME NEW x \in DOMAIN ts, NEW j \in DOMAIN ts[x].hl,
               <<x, j>> # <<m, i>>, ts[x].hl[j] = b
        PROVE  E \ {<<m, i>>} # {}
    BY <2>2, EsEnlace
  <2> QED BY <2>1, <2>2
<1> QED BY <1>3, <1>4

-----------------------------------------------------------------------------
(* The disk and what one turn of each loop does to it.                     *)

\* Well formed tags: as many links as logical blocks, in BLOCKS too.
TagsOK(ts) ==
  /\ DOMAIN ts \subseteq Nombres /\ IsFiniteSet(DOMAIN ts)
  /\ \A m \in DOMAIN ts :
       /\ ts[m] \in Tag
       /\ Len(ts[m].hl) = Len(ts[m].bloques_logicos)
       /\ Len(ts[m].bloques_logicos) <= Len(ts[m].BLOCKS)

\* The index names physical blocks.
IndiceOK(hi) == DOMAIN hi \subseteq Datos /\ \A h \in DOMAIN hi : hi[h] \in Fisicos

\* A well formed disk: disco, or what a request is making of it.
DiscoOK(d) ==
  /\ DOMAIN d = {"tags", "bitmap", "contenido", "hash_index"}
  /\ TagsOK(d.tags)
  /\ d.bitmap \subseteq Fisicos
  /\ d.contenido \in [Fisicos -> Datos]
  /\ IndiceOK(d.hash_index)

\* ts and us differ in n at most.
Salvo(ts, us, n) == DOMAIN us = DOMAIN ts /\ \A m \in DOMAIN ts : m # n => us[m] = ts[m]

\* Physical blocks are numbers.
LEMMA FisicosEnteros == Fisicos \subseteq Int /\ Fisicos \subseteq Nat
BY StorageAssumption DEF Fisicos

\* There is a block0, and what a block may hold.
LEMMA HayCero == 0 \in Fisicos /\ CERO \in Datos /\ VACIO \in Datos
BY StorageAssumption DEF Fisicos, Datos

\* A list over S is a list over what includes S.
LEMMA SecuenciaDe ==
  ASSUME NEW S, NEW T, S \subseteq T, NEW s \in Seq(S)
  PROVE  s \in Seq(T)
OBVIOUS

\* Only physical blocks are linked, on a disk.
LEMMA EnlazadoOK ==
  ASSUME NEW ts, NEW b, TagsOK(ts)
  PROVE  tieneHLinks(ts, b) <=> Enlazado(ts, b)
<1>1. \A m \in DOMAIN ts : ts[m].hl \in Seq(Int)
  BY FisicosEnteros, SecuenciaDe DEF TagsOK, Tag
<1> QED BY <1>1, TieneEnlaces DEF TagsOK

\* Only physical blocks are linked, in the tags.
LEMMA EnlazadoFisico ==
  ASSUME NEW ts, TagsOK(ts), NEW b, Enlazado(ts, b)
  PROVE  b \in Fisicos
<1>1. PICK m \in DOMAIN ts : \E i \in DOMAIN ts[m].hl : ts[m].hl[i] = b
  BY DEF Enlazado
<1>2. ts[m].hl \in Seq(Fisicos)
  BY DEF TagsOK, Tag
<1> QED BY <1>1, <1>2

\* Tags of which only n changed, to a well formed one.
LEMMA TagsOKSalvo ==
  ASSUME NEW ts, TagsOK(ts), NEW n \in DOMAIN ts, NEW us, Salvo(ts, us, n),
         us[n] \in Tag, Len(us[n].hl) = Len(us[n].bloques_logicos),
         Len(us[n].bloques_logicos) <= Len(us[n].BLOCKS)
  PROVE  TagsOK(us)
<1>1. DOMAIN us = DOMAIN ts /\ \A m \in DOMAIN us : m = n \/ us[m] = ts[m]
  BY DEF Salvo
<1> QED BY <1>1 DEF TagsOK

\* list_remove of the last: what it takes and what it leaves.
LEMMA UltimoYFrente ==
  ASSUME NEW S, NEW s \in Seq(S), s # <<>>
  PROVE  /\ Last(s) = s[Len(s)] /\ Len(s) \in 1 .. Len(s) /\ Last(s) \in S
         /\ Front(s) \in Seq(S) /\ Len(Front(s)) = Len(s) - 1
         /\ \A i \in 1 .. Len(s) - 1 : Front(s)[i] = s[i]
<1>1. Len(s) \in Nat /\ Len(s) > 0
  OBVIOUS
<1>2. Front(s) = SubSeq(s, 1, Len(s) - 1) /\ Last(s) = s[Len(s)]
  BY DEF Last, Front
<1>3. /\ SubSeq(s, 1, Len(s) - 1) \in Seq(S)
      /\ Len(SubSeq(s, 1, Len(s) - 1)) = Len(s) - 1
      /\ \A i \in 1 .. Len(s) - 1 : SubSeq(s, 1, Len(s) - 1)[i] = s[i]
  <2> DEFINE L == Len(s) - 1
  <2>1. L \in Nat /\ \A i \in 1 .. L : s[i] \in S
    BY <1>1
  <2> HIDE DEF L
  <2>2. /\ SubSeq(s, 1, L) \in Seq(S)
        /\ Len(SubSeq(s, 1, L)) = IF 1 <= L THEN L - 1 + 1 ELSE 0
        /\ \A i \in 1 .. L - 1 + 1 : SubSeq(s, 1, L)[i] = s[1 + i - 1]
    BY <2>1, SubSeqProperties
  <2>3. L - 1 + 1 = L /\ Len(SubSeq(s, 1, L)) = L
        /\ \A i \in 1 .. L : 1 + i - 1 = i
    BY <2>1, <2>2
  <2>4. \A i \in 1 .. L : SubSeq(s, 1, L)[i] = s[i]
    BY <2>2, <2>3
  <2> QED BY <2>2, <2>3, <2>4 DEF L
<1> QED BY <1>1, <1>2, <1>3

\* quitarUltimo keeps the disk well formed and touches n only.
LEMMA Quitar ==
  ASSUME NEW d, DiscoOK(d), NEW n \in DOMAIN d.tags, d.tags[n].bloques_logicos # <<>>
  PROVE  LET q == quitarUltimo(d, n)
             t == d.tags[n]
             u == q.tags[n]
         IN  /\ DOMAIN q = {"tags", "bitmap", "contenido", "hash_index"}
             /\ q.bitmap = d.bitmap /\ q.contenido = d.contenido
             /\ q.hash_index = d.hash_index
             /\ Salvo(d.tags, q.tags, n)
             /\ u.estado = t.estado /\ u.tamanio = t.tamanio /\ u.BLOCKS = t.BLOCKS
             /\ u.bloques_logicos = Front(t.bloques_logicos)
             /\ u.hl = Front(t.hl)
             /\ u \in Tag
             /\ TagsOK(q.tags)
<1> DEFINE q == quitarUltimo(d, n)
           t == d.tags[n]
           u == q.tags[n]
<1>1. /\ DOMAIN q = {"tags", "bitmap", "contenido", "hash_index"}
      /\ q.bitmap = d.bitmap /\ q.contenido = d.contenido
      /\ q.hash_index = d.hash_index
      /\ Salvo(d.tags, q.tags, n)
  BY DEF quitarUltimo, DiscoOK, Salvo
<1>2. t \in Tag /\ Len(t.hl) = Len(t.bloques_logicos)
      /\ Len(t.bloques_logicos) <= Len(t.BLOCKS)
  BY DEF DiscoOK, TagsOK
<1>3. u = [t EXCEPT !.bloques_logicos = Front(@), !.hl = Front(@)]
  BY DEF quitarUltimo, DiscoOK
<1>4. /\ Front(t.bloques_logicos) \in Seq(Fisicos) /\ Front(t.hl) \in Seq(Fisicos)
      /\ Len(Front(t.hl)) = Len(t.hl) - 1
      /\ Len(Front(t.bloques_logicos)) = Len(t.bloques_logicos) - 1
  <2>1. t.hl # <<>> /\ t.hl \in Seq(Fisicos) /\ t.bloques_logicos \in Seq(Fisicos)
    BY <1>2 DEF Tag
  <2> QED BY <2>1, UltimoYFrente
<1>5. /\ u.estado = t.estado /\ u.tamanio = t.tamanio /\ u.BLOCKS = t.BLOCKS
      /\ u.bloques_logicos = Front(t.bloques_logicos)
      /\ u.hl = Front(t.hl)
      /\ u \in Tag
  <2> HIDE DEF u, t
  <2> QED BY <1>2, <1>3, <1>4 DEF Tag
<1>6. TagsOK(q.tags)
  <2>1. Len(u.hl) = Len(u.bloques_logicos) /\ Len(u.bloques_logicos) <= Len(u.BLOCKS)
    <3>1. Len(t.hl) \in Nat /\ Len(t.bloques_logicos) \in Nat /\ Len(t.BLOCKS) \in Nat
      BY <1>2 DEF Tag
    <3> HIDE DEF u, t
    <3> QED BY <1>2, <1>4, <1>5, <3>1
  <2>2. \A m \in DOMAIN q.tags : m # n => q.tags[m] = d.tags[m]
    BY <1>1 DEF Salvo
  <2> HIDE DEF q, t
  <2> QED BY <1>1, <1>5, <2>1, <2>2 DEF TagsOK, Salvo, DiscoOK
<1> HIDE DEF q
<1> QED BY <1>1, <1>5, <1>6 DEF q

\* The last logical block is a physical one.
LEMMA UltimoBloque ==
  ASSUME NEW d, DiscoOK(d), NEW n \in DOMAIN d.tags, d.tags[n].bloques_logicos # <<>>
  PROVE  Last(d.tags[n].bloques_logicos) \in Fisicos
BY UltimoYFrente DEF DiscoOK, TagsOK, Tag

\* One turn of unlinkearBloquesLogicos, whatever the pointers say.
LEMMA Unlinkear ==
  ASSUME NEW d, DiscoOK(d), NEW n \in DOMAIN d.tags, d.tags[n].bloques_logicos # <<>>
  PROVE  LET r == unlinkearBloqueLogico(d, n)
             ts == quitarUltimo(d, n).tags
             b == Last(d.tags[n].bloques_logicos)
         IN  /\ DiscoOK(r) /\ r.tags = ts /\ r.hash_index = d.hash_index
             /\ Enlazado(ts, b) => r.bitmap = d.bitmap /\ r.contenido = d.contenido
             /\ ~ Enlazado(ts, b) => /\ r.bitmap = d.bitmap \ {b}
                                     /\ r.contenido = [d.contenido EXCEPT ![b] = CERO]
<1> DEFINE q == quitarUltimo(d, n)
           b == Last(d.tags[n].bloques_logicos)
           r == unlinkearBloqueLogico(d, n)
<1>1. /\ DOMAIN q = {"tags", "bitmap", "contenido", "hash_index"}
      /\ q.bitmap = d.bitmap /\ q.contenido = d.contenido
      /\ q.hash_index = d.hash_index /\ TagsOK(q.tags)
  BY Quitar
<1>2. tieneHLinks(q.tags, b) <=> Enlazado(q.tags, b)
  BY <1>1, EnlazadoOK
<1>3. b \in Fisicos
  BY UltimoBloque
<1>4. r = IF tieneHLinks(q.tags, b) THEN q
          ELSE [q EXCEPT !.bitmap = @ \ {b}, !.contenido[b] = CERO]
  BY DEF unlinkearBloqueLogico
<1> HIDE DEF q, b, r
<1>5. CASE Enlazado(q.tags, b)
  <2>1. r = q
    BY <1>2, <1>4, <1>5
  <2> QED BY <1>1, <1>5, <2>1 DEF DiscoOK, q, b, r
<1>6. CASE ~ Enlazado(q.tags, b)
  <2>1. r = [q EXCEPT !.bitmap = @ \ {b}, !.contenido[b] = CERO]
    BY <1>2, <1>4, <1>6
  <2>2. /\ DOMAIN r = {"tags", "bitmap", "contenido", "hash_index"}
        /\ r.tags = q.tags /\ r.hash_index = d.hash_index
        /\ r.bitmap = d.bitmap \ {b}
        /\ r.contenido = [d.contenido EXCEPT ![b] = CERO]
    BY <1>1, <2>1
  <2>3. DiscoOK(r)
    BY <1>1, <1>3, <2>2, HayCero DEF DiscoOK
  <2> QED BY <1>6, <2>2, <2>3 DEF q, b, r
<1> QED BY <1>5, <1>6

\* One turn of unlinkearBloquesLogicosParaELIMINAR_UN_TAG.
LEMMA ParaEliminar ==
  ASSUME NEW d, DiscoOK(d), NEW n \in DOMAIN d.tags, d.tags[n].bloques_logicos # <<>>
  PROVE  LET r == unlinkearParaEliminar(d, n)
             ts == quitarUltimo(d, n).tags
             b == Last(d.tags[n].bloques_logicos)
         IN  /\ DiscoOK(r) /\ r.tags = ts /\ r.contenido = d.contenido
             /\ Enlazado(ts, b) => r.bitmap = d.bitmap /\ r.hash_index = d.hash_index
             /\ ~ Enlazado(ts, b) =>
                  /\ r.bitmap = d.bitmap \ {b}
                  /\ DOMAIN r.hash_index =
                       IF d.tags[n].estado = "COMMITED"
                       THEN DOMAIN d.hash_index \ {d.contenido[b]}
                       ELSE DOMAIN d.hash_index
                  /\ \A h \in DOMAIN r.hash_index : r.hash_index[h] = d.hash_index[h]
<1> DEFINE q == quitarUltimo(d, n)
           b == Last(d.tags[n].bloques_logicos)
           r == unlinkearParaEliminar(d, n)
           claves == IF d.tags[n].estado = "COMMITED"
                     THEN DOMAIN d.hash_index \ {d.contenido[b]} ELSE DOMAIN d.hash_index
<1>1. /\ DOMAIN q = {"tags", "bitmap", "contenido", "hash_index"}
      /\ q.bitmap = d.bitmap /\ q.contenido = d.contenido
      /\ q.hash_index = d.hash_index /\ TagsOK(q.tags)
  BY Quitar
<1>2. tieneHLinks(q.tags, b) <=> Enlazado(q.tags, b)
  BY <1>1, EnlazadoOK
<1>3. b \in Fisicos
  BY UltimoBloque
<1>4. r = IF tieneHLinks(q.tags, b) THEN q
          ELSE [q EXCEPT !.bitmap = @ \ {b},
                         !.hash_index = [h \in claves |-> d.hash_index[h]]]
  BY DEF unlinkearParaEliminar
<1>0. claves \subseteq DOMAIN d.hash_index
  OBVIOUS
<1> HIDE DEF q, b, r, claves
<1>5. CASE Enlazado(q.tags, b)
  <2>1. r = q
    BY <1>2, <1>4, <1>5
  <2> QED BY <1>1, <1>5, <2>1 DEF DiscoOK, q, b, r
<1>6. CASE ~ Enlazado(q.tags, b)
  <2>1. r = [q EXCEPT !.bitmap = @ \ {b},
                      !.hash_index = [h \in claves |-> d.hash_index[h]]]
    BY <1>2, <1>4, <1>6
  <2>2. /\ DOMAIN r = {"tags", "bitmap", "contenido", "hash_index"}
        /\ r.tags = q.tags /\ r.hash_index = [h \in claves |-> d.hash_index[h]]
        /\ r.bitmap = d.bitmap \ {b}
        /\ r.contenido = d.contenido
    BY <1>1, <2>1
  <2>3. DOMAIN r.hash_index = claves
        /\ \A h \in DOMAIN r.hash_index : r.hash_index[h] = d.hash_index[h]
    BY <2>2
  <2>4. DiscoOK(r)
    BY <1>0, <1>1, <1>3, <2>2, <2>3, HayCero DEF DiscoOK, IndiceOK
  <2> QED BY <1>6, <2>2, <2>3, <2>4 DEF q, b, r, claves
<1> QED BY <1>5, <1>6

\* r is d with logical block i of n moved to b.
Reapuntado(d, r, n, i, b) ==
  LET t == d.tags[n]
      u == r.tags[n]
      viejo == t.bloques_logicos[i]
  IN  /\ DiscoOK(r) /\ r.contenido = d.contenido /\ r.hash_index = d.hash_index
      /\ Salvo(d.tags, r.tags, n)
      /\ u.estado = t.estado /\ u.tamanio = t.tamanio
      /\ u.BLOCKS = [t.BLOCKS EXCEPT ![i] = b]
      /\ u.bloques_logicos = [t.bloques_logicos EXCEPT ![i] = b]
      /\ u.hl = [t.hl EXCEPT ![i] = b]
      /\ Enlazado(r.tags, viejo) => r.bitmap = d.bitmap
      /\ ~ Enlazado(r.tags, viejo) => r.bitmap = d.bitmap \ {viejo}

\* reapuntarBloque leaves what Reapuntado says.
LEMMA Reapuntar ==
  ASSUME NEW d, DiscoOK(d), NEW n \in DOMAIN d.tags,
         NEW i \in DOMAIN d.tags[n].bloques_logicos, NEW b \in Fisicos
  PROVE  Reapuntado(d, reapuntarBloque(d, n, i, b), n, i, b)
<1> DEFINE t == d.tags[n]
           viejo == t.bloques_logicos[i]
           q == [d EXCEPT !.tags[n].hl[i] = b, !.tags[n].BLOCKS[i] = b,
                          !.tags[n].bloques_logicos[i] = b]
           u == q.tags[n]
           r == reapuntarBloque(d, n, i, b)
<1>1. t \in Tag /\ Len(t.hl) = Len(t.bloques_logicos)
      /\ Len(t.bloques_logicos) <= Len(t.BLOCKS)
  BY DEF DiscoOK, TagsOK
<1>2. /\ DOMAIN q = {"tags", "bitmap", "contenido", "hash_index"}
      /\ q.bitmap = d.bitmap /\ q.contenido = d.contenido
      /\ q.hash_index = d.hash_index
      /\ Salvo(d.tags, q.tags, n)
  BY DEF DiscoOK, Salvo
<1>3. u = [t EXCEPT !.hl[i] = b, !.BLOCKS[i] = b, !.bloques_logicos[i] = b]
  BY DEF DiscoOK
<1>4. /\ u.estado = t.estado /\ u.tamanio = t.tamanio
      /\ u.BLOCKS = [t.BLOCKS EXCEPT ![i] = b]
      /\ u.bloques_logicos = [t.bloques_logicos EXCEPT ![i] = b]
      /\ u.hl = [t.hl EXCEPT ![i] = b]
      /\ u \in Tag
      /\ Len(u.hl) = Len(u.bloques_logicos) /\ Len(u.bloques_logicos) <= Len(u.BLOCKS)
  <2> HIDE DEF u, t
  <2>1. /\ t.BLOCKS \in Seq(Fisicos) /\ t.bloques_logicos \in Seq(Fisicos)
        /\ t.hl \in Seq(Fisicos)
        /\ t = [estado |-> t.estado, tamanio |-> t.tamanio, BLOCKS |-> t.BLOCKS,
                bloques_logicos |-> t.bloques_logicos, hl |-> t.hl]
    BY <1>1 DEF Tag
  <2>2. i \in 1 .. Len(t.bloques_logicos)
    BY <2>1 DEF t
  <2>3. i \in 1 .. Len(t.hl) /\ i \in 1 .. Len(t.BLOCKS)
    BY <1>1, <2>1, <2>2
  <2>4. /\ u.estado = t.estado /\ u.tamanio = t.tamanio
        /\ u.BLOCKS = [t.BLOCKS EXCEPT ![i] = b]
        /\ u.bloques_logicos = [t.bloques_logicos EXCEPT ![i] = b]
        /\ u.hl = [t.hl EXCEPT ![i] = b]
        /\ u = [estado |-> t.estado, tamanio |-> t.tamanio,
                BLOCKS |-> [t.BLOCKS EXCEPT ![i] = b],
                bloques_logicos |-> [t.bloques_logicos EXCEPT ![i] = b],
                hl |-> [t.hl EXCEPT ![i] = b]]
    BY <1>3, <2>1
  <2>5. /\ u.BLOCKS \in Seq(Fisicos) /\ u.bloques_logicos \in Seq(Fisicos)
        /\ u.hl \in Seq(Fisicos)
        /\ Len(u.BLOCKS) = Len(t.BLOCKS) /\ Len(u.hl) = Len(t.hl)
        /\ Len(u.bloques_logicos) = Len(t.bloques_logicos)
    BY <2>1, <2>2, <2>3, <2>4, ExceptSeq
  <2>6. t.estado \in {"WORK_IN_PROGRESS", "COMMITED"} /\ t.tamanio \in Nat
    BY <1>1 DEF Tag
  <2>7. u \in Tag
    BY <2>4, <2>5, <2>6 DEF Tag
  <2> QED BY <1>1, <2>4, <2>5, <2>7
<1>5. TagsOK(q.tags)
  <2> HIDE DEF q, t
  <2> QED BY <1>2, <1>4 DEF TagsOK, Salvo, DiscoOK
<1>6. viejo \in Fisicos
  BY <1>1 DEF Tag
<1>7. tieneHLinks(q.tags, viejo) <=> Enlazado(q.tags, viejo)
  <2> HIDE DEF q
  <2> QED BY <1>5, EnlazadoOK
<1>8. r = IF tieneHLinks(q.tags, viejo) THEN q ELSE [q EXCEPT !.bitmap = @ \ {viejo}]
  BY DEF reapuntarBloque
<1> HIDE DEF q, t, r, viejo
<1>9. /\ DOMAIN r = {"tags", "bitmap", "contenido", "hash_index"}
      /\ r.tags = q.tags /\ r.contenido = d.contenido /\ r.hash_index = d.hash_index
      /\ Enlazado(r.tags, viejo) => r.bitmap = d.bitmap
      /\ ~ Enlazado(r.tags, viejo) => r.bitmap = d.bitmap \ {viejo}
  BY <1>2, <1>7, <1>8
<1>10. DiscoOK(r)
  BY <1>5, <1>6, <1>9 DEF DiscoOK
<1>11. /\ r.tags = q.tags
       /\ Salvo(d.tags, r.tags, n)
       /\ r.tags[n].estado = t.estado /\ r.tags[n].tamanio = t.tamanio
       /\ r.tags[n].BLOCKS = [t.BLOCKS EXCEPT ![i] = b]
       /\ r.tags[n].bloques_logicos = [t.bloques_logicos EXCEPT ![i] = b]
       /\ r.tags[n].hl = [t.hl EXCEPT ![i] = b]
  BY <1>2, <1>4, <1>9
<1> QED BY <1>9, <1>10, <1>11 DEF t, r, viejo, Reapuntado

-----------------------------------------------------------------------------
(* What the loops do, turn by turn.                                        *)

\* READ and WRITE find the same blocks: PunterosFieles, of ts.
Punteros(ts) == \A m \in DOMAIN ts : ts[m].hl = ts[m].bloques_logicos

\* u is t without its last k logical blocks; BLOCKS still lists them.
SinUltimos(t, u, k) ==
  /\ u.estado = t.estado /\ u.tamanio = t.tamanio /\ u.BLOCKS = t.BLOCKS
  /\ Len(u.bloques_logicos) = Len(t.bloques_logicos) - k
  /\ \A i \in 1 .. Len(t.bloques_logicos) - k :
       u.bloques_logicos[i] = t.bloques_logicos[i] /\ u.hl[i] = t.hl[i]

\* What was reserved and lost its last link is not reserved any more.
Liberados(d, r) ==
  Punteros(d.tags) =>
    /\ Punteros(r.tags)
    /\ r.bitmap = d.bitmap \ {b \in Fisicos : Enlazado(d.tags, b) /\ ~ Enlazado(r.tags, b)}

\* One turn of either loop, from e to r, as the rest of the proof sees it.
LEMMA QuitarUno ==
  ASSUME NEW d, DiscoOK(d), NEW n \in DOMAIN d.tags, NEW e, DiscoOK(e),
         NEW r, DiscoOK(r),
         NEW j \in 1 .. Len(d.tags[n].bloques_logicos),
         Salvo(d.tags, e.tags, n), SinUltimos(d.tags[n], e.tags[n], j - 1),
         Liberados(d, e), r.tags = quitarUltimo(e, n).tags,
         LET b == Last(e.tags[n].bloques_logicos)
         IN r.bitmap = IF Enlazado(r.tags, b) THEN e.bitmap ELSE e.bitmap \ {b}
  PROVE  /\ Salvo(d.tags, r.tags, n) /\ SinUltimos(d.tags[n], r.tags[n], j)
         /\ Liberados(d, r)
         /\ \A b : Enlazado(r.tags, b) => Enlazado(e.tags, b)
<1> DEFINE t == d.tags[n]
           u == e.tags[n]
           v == r.tags[n]
           b == Last(u.bloques_logicos)
           N == Len(t.bloques_logicos)
<1>0. n \in DOMAIN e.tags
  BY DEF Salvo
<1>1. /\ t.hl \in Seq(Fisicos) /\ t.bloques_logicos \in Seq(Fisicos) /\ Len(t.hl) = N
      /\ u.hl \in Seq(Fisicos) /\ u.bloques_logicos \in Seq(Fisicos)
      /\ Len(u.hl) = Len(u.bloques_logicos)
      /\ N \in Nat
  BY <1>0 DEF DiscoOK, TagsOK, Tag
<1>2. /\ u.estado = t.estado /\ u.tamanio = t.tamanio /\ u.BLOCKS = t.BLOCKS
      /\ Len(u.bloques_logicos) = N - (j - 1)
      /\ \A i \in 1 .. N - (j - 1) :
           u.bloques_logicos[i] = t.bloques_logicos[i] /\ u.hl[i] = t.hl[i]
  BY DEF SinUltimos
<1>3. /\ N - (j - 1) \in Nat \ {0} /\ N - j \in Nat
      /\ u.bloques_logicos # <<>> /\ u.hl # <<>>
  <2>1. N - (j - 1) \in Nat \ {0} /\ N - j \in Nat
    <3>1. j \in 1 .. N
      OBVIOUS
    <3> HIDE DEF N
    <3> QED BY <1>1, <3>1
  <2> HIDE DEF t, u, N
  <2> QED BY <1>1, <1>2, <2>1
<1>4. /\ Salvo(e.tags, r.tags, n)
      /\ v.estado = u.estado /\ v.tamanio = u.tamanio /\ v.BLOCKS = u.BLOCKS
      /\ v.bloques_logicos = Front(u.bloques_logicos) /\ v.hl = Front(u.hl)
  BY <1>0, <1>3, Quitar
<1>5. /\ Len(v.bloques_logicos) = N - j /\ Len(v.hl) = N - j
      /\ v.bloques_logicos \in Seq(Fisicos) /\ v.hl \in Seq(Fisicos)
      /\ b = u.bloques_logicos[N - (j - 1)] /\ b \in Fisicos
      /\ \A i \in 1 .. N - j : v.bloques_logicos[i] = u.bloques_logicos[i]
                               /\ v.hl[i] = u.hl[i]
  <2> DEFINE ub == u.bloques_logicos
             uh == u.hl
  <2>1. /\ Len(Front(ub)) = Len(ub) - 1 /\ Last(ub) = ub[Len(ub)] /\ Last(ub) \in Fisicos
        /\ Front(ub) \in Seq(Fisicos)
        /\ \A i \in 1 .. Len(ub) - 1 : Front(ub)[i] = ub[i]
    <3>1. ub \in Seq(Fisicos) /\ ub # <<>>
      BY <1>1, <1>3
    <3> HIDE DEF ub
    <3> QED BY <3>1, UltimoYFrente
  <2>2. /\ Len(Front(uh)) = Len(uh) - 1 /\ Front(uh) \in Seq(Fisicos)
        /\ \A i \in 1 .. Len(uh) - 1 : Front(uh)[i] = uh[i]
    <3>1. uh \in Seq(Fisicos) /\ uh # <<>>
      BY <1>1, <1>3
    <3> HIDE DEF uh
    <3> QED BY <3>1, UltimoYFrente
  <2>3. Len(ub) - 1 = N - j /\ Len(uh) - 1 = N - j
    BY <1>1, <1>2
  <2> HIDE DEF t, N
  <2> QED BY <1>2, <1>4, <2>1, <2>2, <2>3
<1>6. /\ DOMAIN t.hl = 1 .. N /\ DOMAIN u.hl = 1 .. N - (j - 1) /\ DOMAIN v.hl = 1 .. N - j
      /\ \A i \in 1 .. N - j : i \in 1 .. N - (j - 1)
      /\ \A i \in 1 .. N - (j - 1) : i \in 1 .. N /\ (i \in 1 .. N - j \/ i = N - (j - 1))
      /\ N - (j - 1) \in 1 .. N - (j - 1)
  <2> HIDE DEF t, u, v
  <2>1. DOMAIN t.hl = 1 .. N /\ DOMAIN u.hl = 1 .. Len(u.hl) /\ DOMAIN v.hl = 1 .. Len(v.hl)
    BY <1>1, <1>5
  <2> HIDE DEF N
  <2> QED BY <1>1, <1>2, <1>3, <1>5, <2>1
<1>7. /\ n \in DOMAIN r.tags /\ n \in DOMAIN d.tags
      /\ DOMAIN e.tags = DOMAIN d.tags /\ DOMAIN r.tags = DOMAIN d.tags
      /\ \A m \in DOMAIN d.tags : m # n => e.tags[m] = d.tags[m] /\ r.tags[m] = d.tags[m]
  BY <1>4 DEF Salvo
<1>8. Salvo(d.tags, r.tags, n)
  BY <1>7 DEF Salvo
<1>9. SinUltimos(t, v, j)
  <2> HIDE DEF t, u, v
  <2> QED BY <1>2, <1>4, <1>5, <1>6 DEF SinUltimos
<1>10. r.bitmap = IF Enlazado(r.tags, b) THEN e.bitmap ELSE e.bitmap \ {b}
  OBVIOUS
<1>11. \A c : Enlazado(r.tags, c) => Enlazado(e.tags, c)
  <2> SUFFICES ASSUME NEW c, NEW m \in DOMAIN r.tags,
                      NEW i \in DOMAIN r.tags[m].hl, r.tags[m].hl[i] = c
               PROVE  \E l \in DOMAIN e.tags[m].hl : e.tags[m].hl[l] = c
    BY <1>7 DEF Enlazado
  <2>1. CASE m # n
    BY <1>7, <2>1
  <2>2. CASE m = n
    <3>1. i \in DOMAIN v.hl /\ v.hl[i] = c
      BY <2>2
    <3>2. i \in DOMAIN u.hl /\ u.hl[i] = c
      <4> HIDE DEF u, v, N
      <4> QED BY <1>5, <1>6, <3>1
    <3> QED BY <2>2, <3>2
  <2> QED BY <2>1, <2>2
<1>12. \A c : Enlazado(e.tags, c) => Enlazado(d.tags, c)
  <2> SUFFICES ASSUME NEW c, NEW m \in DOMAIN e.tags,
                      NEW i \in DOMAIN e.tags[m].hl, e.tags[m].hl[i] = c
               PROVE  \E l \in DOMAIN d.tags[m].hl : d.tags[m].hl[l] = c
    BY <1>7 DEF Enlazado
  <2>1. CASE m # n
    BY <1>7, <2>1
  <2>2. CASE m = n
    <3>1. i \in DOMAIN u.hl /\ u.hl[i] = c
      BY <2>2
    <3>2. i \in DOMAIN t.hl /\ t.hl[i] = c
      <4> HIDE DEF t, u, N
      <4> QED BY <1>2, <1>6, <3>1
    <3> QED BY <2>2, <3>2
  <2> QED BY <2>1, <2>2
<1>13. ASSUME Punteros(e.tags)
       PROVE  /\ Punteros(r.tags) /\ Enlazado(e.tags, b)
              /\ \A c : Enlazado(e.tags, c) /\ ~ Enlazado(r.tags, c) => c = b
  <2>1. u.hl = u.bloques_logicos
    BY <1>0, <1>13 DEF Punteros
  <2>2. Punteros(r.tags)
    BY <1>4, <1>7, <1>13, <2>1 DEF Punteros
  <2>3. Enlazado(e.tags, b)
    <3>1. \E l \in DOMAIN u.hl : u.hl[l] = b
      <4> HIDE DEF u, b, N
      <4> QED BY <1>5, <1>6, <2>1
    <3> QED BY <1>0, <3>1 DEF Enlazado
  <2>4. ASSUME NEW c, Enlazado(e.tags, c), ~ Enlazado(r.tags, c)
        PROVE  c = b
    <3>1. PICK m \in DOMAIN e.tags : \E i \in DOMAIN e.tags[m].hl : e.tags[m].hl[i] = c
      BY <2>4 DEF Enlazado
    <3>2. PICK i \in DOMAIN e.tags[m].hl : e.tags[m].hl[i] = c
      BY <3>1
    <3>3. m = n
      BY <1>7, <2>4, <3>2 DEF Enlazado
    <3>4. i \in DOMAIN u.hl /\ u.hl[i] = c
      BY <3>2, <3>3
    <3>5. ~ (i \in 1 .. N - j)
      <4> SUFFICES ASSUME i \in 1 .. N - j PROVE FALSE
        OBVIOUS
      <4>1. i \in DOMAIN v.hl /\ v.hl[i] = c
        <5> HIDE DEF u, v, N
        <5> QED BY <1>5, <1>6, <3>4
      <4> QED BY <1>7, <2>4, <4>1 DEF Enlazado
    <3> HIDE DEF u, b, N
    <3> QED BY <1>5, <1>6, <2>1, <3>4, <3>5
  <2> QED BY <2>2, <2>3, <2>4
<1>14. Liberados(d, r)
  <2> SUFFICES ASSUME Punteros(d.tags)
               PROVE  /\ Punteros(r.tags)
                      /\ r.bitmap = d.bitmap \ {c \in Fisicos : Enlazado(d.tags, c)
                                                               /\ ~ Enlazado(r.tags, c)}
    BY DEF Liberados
  <2>1. /\ Punteros(e.tags)
        /\ e.bitmap = d.bitmap \ {c \in Fisicos : Enlazado(d.tags, c) /\ ~ Enlazado(e.tags, c)}
    BY DEF Liberados
  <2>2. b \in Fisicos
    BY <1>5
  <2> HIDE DEF b
  <2> QED BY <1>10, <1>11, <1>12, <1>13, <2>1, <2>2
<1> QED BY <1>8, <1>9, <1>11, <1>14

\* After k turns of unlinkearBloquesLogicos: what is still linked keeps its
\* content.
LEMMA TrasUnlinkear ==
  ASSUME NEW d, DiscoOK(d), NEW n \in DOMAIN d.tags,
         NEW k \in 0 .. Len(d.tags[n].bloques_logicos)
  PROVE  LET r == unlinkearBloquesLogicos(d, n, k)
         IN  /\ DiscoOK(r) /\ Salvo(d.tags, r.tags, n)
             /\ SinUltimos(d.tags[n], r.tags[n], k)
             /\ Liberados(d, r) /\ r.hash_index = d.hash_index
             /\ \A b : Enlazado(r.tags, b) =>
                         Enlazado(d.tags, b) /\ r.contenido[b] = d.contenido[b]
<1> DEFINE Hecho(r, j) ==
             /\ DiscoOK(r) /\ Salvo(d.tags, r.tags, n)
             /\ SinUltimos(d.tags[n], r.tags[n], j)
             /\ Liberados(d, r) /\ r.hash_index = d.hash_index
             /\ \A b : Enlazado(r.tags, b) =>
                         Enlazado(d.tags, b) /\ r.contenido[b] = d.contenido[b]
           N == Len(d.tags[n].bloques_logicos)
<1>0. N \in Nat
  BY DEF DiscoOK, TagsOK, Tag
<1>1. PICK f : /\ f[0] = d
               /\ \A j \in 1 .. k : f[j] = unlinkearBloqueLogico(f[j - 1], n)
               /\ unlinkearBloquesLogicos(d, n, k) = f[k]
  <2>1. k \in Nat
    BY <1>0
  <2> QED BY <2>1, VueltasUnlinkear
<1>2. Hecho(d, 0)
  BY <1>0 DEF Salvo, SinUltimos, Liberados
<1>3. ASSUME NEW j \in 1 .. k, Hecho(f[j - 1], j - 1)
      PROVE  Hecho(f[j], j)
  <2> DEFINE e == f[j - 1]
             r == f[j]
             b == Last(e.tags[n].bloques_logicos)
  <2>1. r = unlinkearBloqueLogico(e, n) /\ j \in 1 .. N
    BY <1>0, <1>1
  <2>2. n \in DOMAIN e.tags /\ e.tags[n].bloques_logicos # <<>>
    <3>1. Len(e.tags[n].bloques_logicos) = N - (j - 1)
      BY <1>3 DEF SinUltimos
    <3>2. Len(e.tags[n].bloques_logicos) # 0
      BY <1>0, <2>1, <3>1
    <3> QED BY <1>3, <3>2 DEF Salvo
  <2>3. DiscoOK(e)
    BY <1>3
  <2>4. /\ DiscoOK(r) /\ r.tags = quitarUltimo(e, n).tags /\ r.hash_index = e.hash_index
        /\ Enlazado(r.tags, b) => r.bitmap = e.bitmap /\ r.contenido = e.contenido
        /\ ~ Enlazado(r.tags, b) => /\ r.bitmap = e.bitmap \ {b}
                                    /\ r.contenido = [e.contenido EXCEPT ![b] = CERO]
    <3> HIDE DEF e, Hecho
    <3> QED BY <2>1, <2>2, <2>3, Unlinkear
  <2>5. /\ Salvo(d.tags, r.tags, n) /\ SinUltimos(d.tags[n], r.tags[n], j)
        /\ Liberados(d, r)
        /\ \A c : Enlazado(r.tags, c) => Enlazado(e.tags, c)
    <3>1. /\ Salvo(d.tags, e.tags, n) /\ SinUltimos(d.tags[n], e.tags[n], j - 1)
          /\ Liberados(d, e)
      BY <1>3
    <3>2. LET x == Last(e.tags[n].bloques_logicos)
          IN r.bitmap = IF Enlazado(r.tags, x) THEN e.bitmap ELSE e.bitmap \ {x}
      BY <2>4
    <3> HIDE DEF e, r, b, Hecho, N
    <3> QED BY <2>1, <2>3, <2>4, <3>1, <3>2, QuitarUno DEF N
  <2>6. ASSUME NEW c, Enlazado(r.tags, c)
        PROVE  Enlazado(d.tags, c) /\ r.contenido[c] = d.contenido[c]
    <3>1. Enlazado(e.tags, c)
      BY <2>5, <2>6
    <3>2. Enlazado(d.tags, c) /\ e.contenido[c] = d.contenido[c]
      BY <1>3, <3>1
    <3>3. c \in Fisicos /\ e.contenido \in [Fisicos -> Datos]
      <4>1. TagsOK(r.tags)
        BY <2>4 DEF DiscoOK
      <4> QED BY <2>3, <2>6, <4>1, EnlazadoFisico DEF DiscoOK
    <3>4. r.contenido[c] = e.contenido[c]
      <4> HIDE DEF e, r, b
      <4>1. CASE Enlazado(r.tags, b)
        BY <2>4, <4>1
      <4>2. CASE ~ Enlazado(r.tags, b)
        <5>1. c # b
          BY <2>6, <4>2
        <5> QED BY <2>4, <3>3, <4>2, <5>1
      <4> QED BY <4>1, <4>2
    <3> QED BY <3>2, <3>4
  <2>7. r.hash_index = d.hash_index
    BY <1>3, <2>4
  <2> HIDE DEF e, r
  <2> QED BY <2>4, <2>5, <2>6, <2>7 DEF r
<1>4. \A j \in 0 .. k : Hecho(f[j], j)
  <2> DEFINE S == {j \in 0 .. k : Hecho(f[j], j)}
  <2> HIDE DEF Hecho
  <2>1. k \in Nat /\ 0 \in S
    BY <1>0, <1>1, <1>2
  <2>2. \A j \in 1 .. k : j - 1 \in S => j \in S
    BY <1>3
  <2>3. 0 .. k \subseteq S
    <3> HIDE DEF S
    <3> QED BY <2>1, <2>2, PorVueltas
  <2> QED BY <2>3
<1>5. Hecho(f[k], k)
  <2> HIDE DEF Hecho
  <2> QED BY <1>0, <1>4
<1> QED BY <1>1, <1>5

\* unlinkearBloquesLogicosParaELIMINAR_UN_TAG, turn by turn: no content
\* changes, and the index only loses entries.
\* The disk f[j] after j turns of unlinkearBloquesLogicosParaELIMINAR_UN_TAG.
TrazaDeEliminar(f, d, n, k) ==
  /\ f[0] = d /\ unlinkearTodoParaEliminar(d, n, k) = f[k]
  /\ \A j \in 1 .. k : /\ f[j] = unlinkearParaEliminar(f[j - 1], n)
                       /\ f[j - 1].tags[n].bloques_logicos # <<>>
  /\ \A j \in 0 .. k :
       /\ DiscoOK(f[j]) /\ Salvo(d.tags, f[j].tags, n)
       /\ SinUltimos(d.tags[n], f[j].tags[n], j)
       /\ Liberados(d, f[j]) /\ f[j].contenido = d.contenido

\* All the turns of a DELETE keep TrazaDeEliminar.
LEMMA TrasParaEliminar ==
  ASSUME NEW d, DiscoOK(d), NEW n \in DOMAIN d.tags,
         NEW k \in 0 .. Len(d.tags[n].bloques_logicos)
  PROVE  \E f : TrazaDeEliminar(f, d, n, k)
<1> DEFINE Hecho(r, j) ==
             /\ DiscoOK(r) /\ Salvo(d.tags, r.tags, n)
             /\ SinUltimos(d.tags[n], r.tags[n], j)
             /\ Liberados(d, r) /\ r.contenido = d.contenido
           N == Len(d.tags[n].bloques_logicos)
<1>0. N \in Nat
  BY DEF DiscoOK, TagsOK, Tag
<1>1. PICK f : /\ f[0] = d
               /\ \A j \in 1 .. k : f[j] = unlinkearParaEliminar(f[j - 1], n)
               /\ unlinkearTodoParaEliminar(d, n, k) = f[k]
  <2>1. k \in Nat
    BY <1>0
  <2> QED BY <2>1, VueltasParaEliminar
<1>2. Hecho(d, 0)
  BY <1>0 DEF Salvo, SinUltimos, Liberados
<1>3. ASSUME NEW j \in 1 .. k, Hecho(f[j - 1], j - 1)
      PROVE  Hecho(f[j], j) /\ f[j - 1].tags[n].bloques_logicos # <<>>
  <2> DEFINE e == f[j - 1]
             r == f[j]
             b == Last(e.tags[n].bloques_logicos)
  <2>1. r = unlinkearParaEliminar(e, n) /\ j \in 1 .. N
    BY <1>0, <1>1
  <2>2. n \in DOMAIN e.tags /\ e.tags[n].bloques_logicos # <<>>
    <3>1. Len(e.tags[n].bloques_logicos) = N - (j - 1)
      BY <1>3 DEF SinUltimos
    <3>2. Len(e.tags[n].bloques_logicos) # 0
      BY <1>0, <2>1, <3>1
    <3> QED BY <1>3, <3>2 DEF Salvo
  <2>3. DiscoOK(e)
    BY <1>3
  <2>4. /\ DiscoOK(r) /\ r.tags = quitarUltimo(e, n).tags /\ r.contenido = e.contenido
        /\ Enlazado(r.tags, b) => r.bitmap = e.bitmap
        /\ ~ Enlazado(r.tags, b) => r.bitmap = e.bitmap \ {b}
    <3>1. LET rr == unlinkearParaEliminar(e, n)
              ts == quitarUltimo(e, n).tags
              bb == Last(e.tags[n].bloques_logicos)
          IN  /\ DiscoOK(rr) /\ rr.tags = ts /\ rr.contenido = e.contenido
              /\ Enlazado(ts, bb) => rr.bitmap = e.bitmap
              /\ ~ Enlazado(ts, bb) => rr.bitmap = e.bitmap \ {bb}
      <4> HIDE DEF e, Hecho
      <4> QED BY <2>2, <2>3, ParaEliminar
    <3> HIDE DEF e, r, Hecho
    <3> QED BY <2>1, <3>1
  <2>5. /\ Salvo(d.tags, r.tags, n) /\ SinUltimos(d.tags[n], r.tags[n], j)
        /\ Liberados(d, r)
    <3>1. /\ Salvo(d.tags, e.tags, n) /\ SinUltimos(d.tags[n], e.tags[n], j - 1)
          /\ Liberados(d, e)
      BY <1>3
    <3>2. LET x == Last(e.tags[n].bloques_logicos)
          IN r.bitmap = IF Enlazado(r.tags, x) THEN e.bitmap ELSE e.bitmap \ {x}
      BY <2>4
    <3> HIDE DEF e, r, b, Hecho, N
    <3> QED BY <2>1, <2>3, <2>4, <3>1, <3>2, QuitarUno DEF N
  <2>6. r.contenido = d.contenido
    BY <1>3, <2>4
  <2> HIDE DEF e, r
  <2> QED BY <2>2, <2>4, <2>5, <2>6 DEF r, e
<1>4. \A j \in 0 .. k : Hecho(f[j], j)
  <2> DEFINE S == {j \in 0 .. k : Hecho(f[j], j)}
  <2> HIDE DEF Hecho
  <2>1. k \in Nat /\ 0 \in S
    BY <1>0, <1>1, <1>2
  <2>2. \A j \in 1 .. k : j - 1 \in S => j \in S
    BY <1>3
  <2>3. 0 .. k \subseteq S
    <3> HIDE DEF S
    <3> QED BY <2>1, <2>2, PorVueltas
  <2> QED BY <2>3
<1>5. \A j \in 1 .. k : f[j - 1].tags[n].bloques_logicos # <<>>
  <2>1. \A j \in 1 .. k : j - 1 \in 0 .. k
    BY <1>0
  <2> HIDE DEF Hecho
  <2> QED BY <1>3, <1>4, <2>1
<1> QED BY <1>1, <1>4, <1>5 DEF TrazaDeEliminar

\* Where the links are after logical block i of n moves to b.
EnlaceMovido(ts, us, n, i, b) ==
  /\ i \in DOMAIN ts[n].hl
  /\ Enlazado(us, b)
  /\ \A c : Enlazado(us, c) => c = b \/ Enlazado(ts, c)
  /\ \A c : Enlazado(ts, c) => c = ts[n].hl[i] \/ Enlazado(us, c)

\* Which blocks are linked after a link was moved to b.
LEMMA EnlacesReapuntados ==
  ASSUME NEW ts, TagsOK(ts), NEW n \in DOMAIN ts, NEW i \in DOMAIN ts[n].bloques_logicos,
         NEW b, NEW us, Salvo(ts, us, n), us[n].hl = [ts[n].hl EXCEPT ![i] = b]
  PROVE  EnlaceMovido(ts, us, n, i, b)
<1> DEFINE h == ts[n].hl
           g == us[n].hl
<1>1. i \in DOMAIN h
  BY DEF TagsOK, Tag
<1>2. n \in DOMAIN us /\ DOMAIN us = DOMAIN ts
      /\ \A m \in DOMAIN ts : m # n => us[m] = ts[m]
  BY DEF Salvo
<1>3. DOMAIN g = DOMAIN h /\ g[i] = b /\ \A l \in DOMAIN h : l # i => g[l] = h[l]
  <2> HIDE DEF h
  <2> QED BY <1>1 DEF h
<1>4. Enlazado(us, b)
  <2>1. \E l \in DOMAIN us[n].hl : us[n].hl[l] = b
    BY <1>1, <1>3
  <2> QED BY <1>2, <2>1 DEF Enlazado
<1>5. ASSUME NEW c, Enlazado(us, c), c # b PROVE Enlazado(ts, c)
  <2>1. PICK m \in DOMAIN us : \E l \in DOMAIN us[m].hl : us[m].hl[l] = c
    BY <1>5 DEF Enlazado
  <2>2. PICK l \in DOMAIN us[m].hl : us[m].hl[l] = c
    BY <2>1
  <2>3. CASE m # n
    BY <1>2, <2>2, <2>3 DEF Enlazado
  <2>4. CASE m = n
    <3>1. l \in DOMAIN h /\ h[l] = c
      BY <1>3, <1>5, <2>2, <2>4
    <3> QED BY <3>1 DEF Enlazado
  <2> QED BY <2>3, <2>4
<1>6. ASSUME NEW c, Enlazado(ts, c), c # ts[n].hl[i] PROVE Enlazado(us, c)
  <2>1. PICK m \in DOMAIN ts : \E l \in DOMAIN ts[m].hl : ts[m].hl[l] = c
    BY <1>6 DEF Enlazado
  <2>2. PICK l \in DOMAIN ts[m].hl : ts[m].hl[l] = c
    BY <2>1
  <2>3. CASE m # n
    BY <1>2, <2>2, <2>3 DEF Enlazado
  <2>4. CASE m = n
    <3>1. l \in DOMAIN g /\ g[l] = c
      BY <1>3, <1>6, <2>2, <2>4
    <3> QED BY <1>2, <3>1 DEF Enlazado
  <2> QED BY <2>3, <2>4
<1> QED BY <1>1, <1>4, <1>5, <1>6 DEF EnlaceMovido

\* r is d after a turn of escribirEnHashIndex over block i of n.
Indexado(d, r, n, i) ==
  LET b == d.tags[n].bloques_logicos[i]
      h == d.contenido[b]
  IN  /\ DiscoOK(r) /\ r.contenido = d.contenido /\ b \in Fisicos
      /\ h \in DOMAIN d.hash_index /\ b # 0 =>
           d.hash_index[h] \in Fisicos /\ r = reapuntarBloque(d, n, i, d.hash_index[h])
      /\ ~ (h \in DOMAIN d.hash_index /\ b # 0) =>
           /\ r.tags = d.tags /\ r.bitmap = d.bitmap
           /\ DOMAIN r.hash_index = DOMAIN d.hash_index \cup {h}
           /\ r.hash_index[h] = b
           /\ \A g \in DOMAIN d.hash_index : g # h => r.hash_index[g] = d.hash_index[g]

\* One turn of escribirEnHashIndex leaves what Indexado says.
LEMMA Indexar ==
  ASSUME NEW d, DiscoOK(d), NEW n \in DOMAIN d.tags,
         NEW i \in DOMAIN d.tags[n].bloques_logicos
  PROVE  Indexado(d, escribirEnHashIndex(d, n, i), n, i)
<1> DEFINE b == d.tags[n].bloques_logicos[i]
           h == d.contenido[b]
           r == escribirEnHashIndex(d, n, i)
           Bien == /\ DiscoOK(r) /\ r.contenido = d.contenido /\ b \in Fisicos
                   /\ h \in DOMAIN d.hash_index /\ b # 0 =>
                        /\ d.hash_index[h] \in Fisicos
                        /\ r = reapuntarBloque(d, n, i, d.hash_index[h])
                   /\ ~ (h \in DOMAIN d.hash_index /\ b # 0) =>
                        /\ r.tags = d.tags /\ r.bitmap = d.bitmap
                        /\ DOMAIN r.hash_index = DOMAIN d.hash_index \cup {h}
                        /\ r.hash_index[h] = b
                        /\ \A g \in DOMAIN d.hash_index :
                             g # h => r.hash_index[g] = d.hash_index[g]
<1>1. b \in Fisicos /\ h \in Datos /\ IndiceOK(d.hash_index)
  <2>1. d.tags[n].bloques_logicos \in Seq(Fisicos) /\ d.contenido \in [Fisicos -> Datos]
    BY DEF DiscoOK, TagsOK, Tag
  <2> QED BY <2>1 DEF DiscoOK
<1>2. r = IF h \in DOMAIN d.hash_index /\ b # 0
          THEN reapuntarBloque(d, n, i, d.hash_index[h])
          ELSE [d EXCEPT !.hash_index = conEntrada(@, h, b)]
  BY DEF escribirEnHashIndex
<1>3. ASSUME h \in DOMAIN d.hash_index /\ b # 0 PROVE Bien
  <2>1. r = reapuntarBloque(d, n, i, d.hash_index[h]) /\ d.hash_index[h] \in Fisicos
    BY <1>1, <1>2, <1>3 DEF IndiceOK
  <2>2. DiscoOK(r) /\ r.contenido = d.contenido
    <3>1. Reapuntado(d, r, n, i, d.hash_index[h])
      <4> HIDE DEF r, h
      <4> QED BY <2>1, Reapuntar
    <3> HIDE DEF r, h
    <3> QED BY <3>1 DEF Reapuntado
  <2>3. Bien
    <3> HIDE DEF r, h, b
    <3> QED BY <1>1, <1>3, <2>1, <2>2
  <2> HIDE DEF Bien
  <2> QED BY <2>3
<1>4. ASSUME ~ (h \in DOMAIN d.hash_index /\ b # 0) PROVE Bien
  <2> DEFINE hi == conEntrada(d.hash_index, h, b)
  <2>1. r = [d EXCEPT !.hash_index = hi]
    BY <1>2, <1>4
  <2>2. /\ DOMAIN hi = DOMAIN d.hash_index \cup {h} /\ hi[h] = b
        /\ \A g \in DOMAIN d.hash_index : g # h => hi[g] = d.hash_index[g]
    <3> HIDE DEF h, b
    <3> QED BY DEF conEntrada
  <2> HIDE DEF r, h, b, hi
  <2>3. /\ DOMAIN r = {"tags", "bitmap", "contenido", "hash_index"}
        /\ r.tags = d.tags /\ r.bitmap = d.bitmap /\ r.contenido = d.contenido
        /\ r.hash_index = hi
    BY <2>1 DEF DiscoOK
  <2>4. IndiceOK(hi)
    BY <1>1, <2>2 DEF IndiceOK
  <2>5. DiscoOK(r)
    BY <2>3, <2>4 DEF DiscoOK
  <2>6. Bien
    BY <1>1, <1>4, <2>2, <2>3, <2>5
  <2> HIDE DEF Bien
  <2> QED BY <2>6
<1>5. Bien
  <2> HIDE DEF Bien, r, h, b
  <2> QED BY <1>3, <1>4
<1> QED BY <1>5 DEF Indexado

\* What is reserved is linked.
SinFugas(d) == \A b \in d.bitmap : Enlazado(d.tags, b)

\* After j turns of escribirEnHashIndex no content has changed, and what was
\* reserved and linked stays so.
TrazaDeIndexar(f, d, n, k) ==
  /\ f[0] = d /\ indexarBloques(d, n, k) = f[k]
  /\ \A j \in 1 .. k : f[j] = escribirEnHashIndex(f[j - 1], n, j)
  /\ \A j \in 0 .. k :
       /\ DiscoOK(f[j]) /\ Salvo(d.tags, f[j].tags, n)
       /\ f[j].tags[n].estado = d.tags[n].estado
       /\ f[j].tags[n].tamanio = d.tags[n].tamanio
       /\ Len(f[j].tags[n].bloques_logicos) = Len(d.tags[n].bloques_logicos)
       /\ f[j].contenido = d.contenido
       /\ Punteros(d.tags) => Punteros(f[j].tags)
       /\ Punteros(d.tags) /\ SinFugas(d) => SinFugas(f[j])

\* All the turns of a COMMIT keep TrazaDeIndexar.
LEMMA TrasIndexar ==
  ASSUME NEW d, DiscoOK(d), NEW n \in DOMAIN d.tags,
         NEW k \in 0 .. Len(d.tags[n].bloques_logicos)
  PROVE  \E f : TrazaDeIndexar(f, d, n, k)
<1> DEFINE t == d.tags[n]
           N == Len(t.bloques_logicos)
           Hecho(r) ==
             /\ DiscoOK(r) /\ Salvo(d.tags, r.tags, n)
             /\ r.tags[n].estado = t.estado /\ r.tags[n].tamanio = t.tamanio
             /\ Len(r.tags[n].bloques_logicos) = N
             /\ r.contenido = d.contenido
             /\ Punteros(d.tags) => Punteros(r.tags)
             /\ Punteros(d.tags) /\ SinFugas(d) => SinFugas(r)
<1>0. N \in Nat
  BY DEF DiscoOK, TagsOK, Tag
<1>1. PICK f : VueltasDeIndexar(f, d, n, k)
  <2>1. k \in Nat
    BY <1>0
  <2> HIDE DEF t, N, Hecho
  <2> QED BY <2>1, VueltasIndexar
<1>11. /\ f[0] = d
       /\ \A j \in 1 .. k : f[j] = escribirEnHashIndex(f[j - 1], n, j)
       /\ indexarBloques(d, n, k) = f[k]
  BY <1>1 DEF VueltasDeIndexar
<1>2. Hecho(d)
  BY DEF Salvo
<1>3. ASSUME NEW j \in 1 .. k, Hecho(f[j - 1])
      PROVE  Hecho(f[j])
  <2> DEFINE e == f[j - 1]
             r == f[j]
             u == e.tags[n]
             b == u.bloques_logicos[j]
             h == e.contenido[b]
  <2>1. r = escribirEnHashIndex(e, n, j) /\ j \in 1 .. N
    BY <1>0, <1>11
  <2>2. DiscoOK(e) /\ n \in DOMAIN e.tags
    BY <1>3 DEF Salvo
  <2>3. Len(u.bloques_logicos) = N /\ u.bloques_logicos \in Seq(Fisicos)
    BY <1>3, <2>2 DEF DiscoOK, TagsOK, Tag
  <2>4. j \in DOMAIN u.bloques_logicos
    <3> HIDE DEF u, N
    <3> QED BY <2>1, <2>3
  <2>5. /\ DiscoOK(r) /\ r.contenido = e.contenido /\ b \in Fisicos
        /\ h \in DOMAIN e.hash_index /\ b # 0 =>
             e.hash_index[h] \in Fisicos /\ r = reapuntarBloque(e, n, j, e.hash_index[h])
        /\ ~ (h \in DOMAIN e.hash_index /\ b # 0) => r.tags = e.tags /\ r.bitmap = e.bitmap
    <3>1. LET rr == escribirEnHashIndex(e, n, j)
          IN  /\ DiscoOK(rr) /\ rr.contenido = e.contenido /\ b \in Fisicos
              /\ h \in DOMAIN e.hash_index /\ b # 0 =>
                  e.hash_index[h] \in Fisicos /\ rr = reapuntarBloque(e, n, j, e.hash_index[h])
              /\ ~ (h \in DOMAIN e.hash_index /\ b # 0) => rr.tags = e.tags /\ rr.bitmap = e.bitmap
      <4> HIDE DEF e, Hecho
      <4> QED BY <2>2, <2>4, Indexar DEF Indexado
    <3> HIDE DEF e, r, h, b, Hecho
    <3> QED BY <2>1, <3>1
  <2>6. CASE ~ (h \in DOMAIN e.hash_index /\ b # 0)
    <3>1. r.tags = e.tags /\ r.bitmap = e.bitmap /\ r.contenido = e.contenido /\ DiscoOK(r)
      BY <2>5, <2>6
    <3> QED BY <1>3, <3>1 DEF SinFugas
  <2>7. CASE h \in DOMAIN e.hash_index /\ b # 0
    <3> DEFINE c == e.hash_index[h]
               v == r.tags[n]
    <3>1. r = reapuntarBloque(e, n, j, c) /\ c \in Fisicos
      BY <2>5, <2>7
    <3>2. /\ Salvo(e.tags, r.tags, n)
          /\ v.estado = u.estado /\ v.tamanio = u.tamanio
          /\ v.bloques_logicos = [u.bloques_logicos EXCEPT ![j] = c]
          /\ v.hl = [u.hl EXCEPT ![j] = c]
          /\ Enlazado(r.tags, b) => r.bitmap = e.bitmap
          /\ ~ Enlazado(r.tags, b) => r.bitmap = e.bitmap \ {b}
      <4>1. Reapuntado(e, r, n, j, c)
        <5> HIDE DEF e, r, c, Hecho
        <5> QED BY <2>2, <2>4, <3>1, Reapuntar
      <4> HIDE DEF e, r, c, Hecho
      <4> QED BY <4>1 DEF Reapuntado
    <3>3. Salvo(d.tags, r.tags, n)
      BY <1>3, <3>2 DEF Salvo
    <3>4. Len(v.bloques_logicos) = N
      <4> HIDE DEF u, v, c
      <4> QED BY <2>3, <2>4, <3>1, <3>2, ExceptSeq
    <3>5. ASSUME Punteros(d.tags) PROVE Punteros(r.tags)
      <4>1. Punteros(e.tags) /\ u.hl = u.bloques_logicos
        BY <1>3, <2>2, <3>5 DEF Punteros
      <4>2. v.hl = v.bloques_logicos
        <5> HIDE DEF u, v, c
        <5> QED BY <3>2, <4>1
      <4>3. \A m \in DOMAIN r.tags : m # n => m \in DOMAIN e.tags /\ r.tags[m] = e.tags[m]
        <5> HIDE DEF e, r
        <5> QED BY <3>2 DEF Salvo
      <4> QED BY <4>1, <4>2, <4>3 DEF Punteros
    <3>6. ASSUME Punteros(d.tags), SinFugas(d) PROVE SinFugas(r)
      <4>1. SinFugas(e) /\ u.hl = u.bloques_logicos /\ TagsOK(e.tags)
        BY <1>3, <2>2, <3>6 DEF Punteros, DiscoOK
      <4>2. \A x : Enlazado(e.tags, x) => x = u.hl[j] \/ Enlazado(r.tags, x)
        <5> HIDE DEF e, r, c, Hecho
        <5>1. EnlaceMovido(e.tags, r.tags, n, j, c)
          BY <2>2, <2>4, <3>2, <4>1, EnlacesReapuntados
        <5> QED BY <5>1 DEF EnlaceMovido
      <4>3. u.hl[j] = b
        BY <4>1
      <4> SUFFICES ASSUME NEW x \in r.bitmap PROVE Enlazado(r.tags, x)
        BY DEF SinFugas
      <4> HIDE DEF e, r, b, u, v, Hecho
      <4> QED BY <3>2, <4>1, <4>2, <4>3 DEF SinFugas
    <3>7. /\ v.estado = t.estado /\ v.tamanio = t.tamanio
          /\ r.contenido = d.contenido /\ DiscoOK(r)
      BY <1>3, <2>5, <3>2
    <3> HIDE DEF e, r, u, t, N
    <3> QED BY <3>3, <3>4, <3>5, <3>6, <3>7 DEF r
  <2> QED BY <2>6, <2>7
<1>4. \A j \in 0 .. k : Hecho(f[j])
  <2> DEFINE S == {j \in 0 .. k : Hecho(f[j])}
  <2> HIDE DEF Hecho
  <2>1. k \in Nat /\ 0 \in S
    BY <1>0, <1>11, <1>2
  <2>2. \A j \in 1 .. k : j - 1 \in S => j \in S
    BY <1>3
  <2>3. 0 .. k \subseteq S
    <3> HIDE DEF S
    <3> QED BY <2>1, <2>2, PorVueltas
  <2> QED BY <2>3
<1> QED BY <1>11, <1>4 DEF TrazaDeIndexar

-----------------------------------------------------------------------------
(* The state, and what each request does to it.                            *)

\* DiscoOK, of the variables.
DiscoBien ==
  /\ TagsOK(tags) /\ bitmap \subseteq Fisicos
  /\ contenido \in [Fisicos -> Datos] /\ IndiceOK(hash_index)

\* disco is the four variables it is made of.
LEMMA DelDisco ==
  /\ DOMAIN disco = {"tags", "bitmap", "contenido", "hash_index"}
  /\ disco.tags = tags /\ disco.bitmap = bitmap
  /\ disco.contenido = contenido /\ disco.hash_index = hash_index
  /\ DiscoBien => DiscoOK(disco)
BY DEF disco, DiscoBien, DiscoOK

\* guardar of a well formed disk leaves well formed variables.
LEMMA Guardado ==
  ASSUME NEW d, DiscoOK(d), guardar(d)
  PROVE  DiscoBien'
BY DEF guardar, DiscoBien, DiscoOK

\* A number of blocks is a natural.
LEMMA CocienteNatural ==
  ASSUME NEW a \in Nat, NEW b \in Nat \ {0}
  PROVE  a \div b \in Nat
OBVIOUS

\* f with one entry more.
LEMMA ConEntrada ==
  ASSUME NEW f, NEW k, NEW v
  PROVE  /\ DOMAIN conEntrada(f, k, v) = DOMAIN f \cup {k}
         /\ conEntrada(f, k, v)[k] = v
         /\ \A x \in DOMAIN f : x # k => conEntrada(f, k, v)[x] = f[x]
BY DEF conEntrada

\* A request that names n: the other File:Tags stay, no block is reserved with
\* no link, and the blocks of the others keep what they hold.
PedidoSobre(n) ==
  /\ DiscoBien'
  /\ n \in Nombres /\ n[1] \in lista_files' /\ lista_files \subseteq lista_files'
  /\ lista_files' \subseteq lista_files \cup {n[1]}
  /\ caido' \in BOOLEAN
  /\ DOMAIN tags' \subseteq DOMAIN tags \cup {n}
  /\ \A m \in DOMAIN tags : m # n => m \in DOMAIN tags' /\ tags'[m] = tags[m]
  /\ Punteros(tags) /\ SinFugas(disco) => \A b \in bitmap' : Enlazado(tags', b)
  /\ Punteros(tags) /\ (\A b \in Fisicos : b \in bitmap <=> Enlazado(tags, b)) =>
       \A m \in DOMAIN tags : m # n =>
         \A i \in DOMAIN tags[m].hl : contenido'[tags[m].hl[i]] = contenido[tags[m].hl[i]]

\* The inductive invariant, on every workload and with every death.
Base ==
  /\ DiscoBien
  /\ lista_files \subseteq {n[1] : n \in Nombres}
  /\ \A n \in DOMAIN tags : n[1] \in lista_files
  /\ caido \in BOOLEAN /\ usos \in Cargas

\* crearTag makes a well formed tag.
LEMMA TagVacio ==
  ASSUME NEW tamanio \in Nat, NEW s \in Seq(Fisicos)
  PROVE  TagNuevo(tamanio, s) \in Tag
BY DEF TagNuevo, Tag

\* CREATE and TAG only add a tag.
LEMMA AgregarTag ==
  ASSUME Base, NEW n \in Nombres, n \notin DOMAIN tags, NEW tamanio \in Nat,
         NEW s \in Seq(Fisicos), agregarTag(n, TagNuevo(tamanio, s)),
         UNCHANGED <<bitmap, contenido, hash_index>>
  PROVE  /\ DiscoBien' /\ DOMAIN tags' = DOMAIN tags \cup {n}
         /\ tags'[n] = TagNuevo(tamanio, s)
         /\ \A m \in DOMAIN tags : m # n /\ tags'[m] = tags[m]
<1>1. /\ DOMAIN tags' = DOMAIN tags \cup {n} /\ tags'[n] = TagNuevo(tamanio, s)
      /\ \A m \in DOMAIN tags : m # n /\ tags'[m] = tags[m]
  <2> DEFINE t == TagNuevo(tamanio, s)
  <2>1. tags' = conEntrada(tags, n, t)
    BY DEF agregarTag
  <2> HIDE DEF t
  <2>2. /\ DOMAIN tags' = DOMAIN tags \cup {n} /\ tags'[n] = t
        /\ \A m \in DOMAIN tags : m # n => tags'[m] = tags[m]
    BY <2>1 DEF conEntrada
  <2> QED BY <2>2 DEF t
<1>2. /\ TagNuevo(tamanio, s) \in Tag
      /\ TagNuevo(tamanio, s).hl = s /\ TagNuevo(tamanio, s).bloques_logicos = s
      /\ TagNuevo(tamanio, s).BLOCKS = s
  BY TagVacio DEF TagNuevo
<1>3. IsFiniteSet(DOMAIN tags')
  BY <1>1, FS_AddElement DEF Base, DiscoBien, TagsOK
<1>4. TagsOK(tags')
  <2>1. Len(s) \in Nat
    OBVIOUS
  <2> QED BY <1>1, <1>2, <1>3, <2>1 DEF Base, DiscoBien, TagsOK
<1> QED BY <1>1, <1>4 DEF Base, DiscoBien

\* Links are only added when no position changes what it names.
LEMMA MasEnlaces ==
  ASSUME NEW ts, NEW us,
         \A m \in DOMAIN ts : /\ m \in DOMAIN us
                              /\ \A i \in DOMAIN ts[m].hl : i \in DOMAIN us[m].hl
                                                            /\ us[m].hl[i] = ts[m].hl[i]
  PROVE  \A b : Enlazado(ts, b) => Enlazado(us, b)
BY DEF Enlazado

\* CREATE changes the File:Tag it names only.
LEMMA PasoCREATE ==
  ASSUME Base, NEW n \in Nombres, realizarCREATE(n)
  PROVE  PedidoSobre(n)
<1>1. n \notin DOMAIN tags /\ lista_files' = lista_files \cup {n[1]}
      /\ agregarTag(n, TagNuevo(0, <<>>))
      /\ UNCHANGED <<bitmap, contenido, hash_index, caido>>
  BY DEF realizarCREATE, Base
<1>2. /\ DiscoBien' /\ DOMAIN tags' = DOMAIN tags \cup {n}
      /\ \A m \in DOMAIN tags : m # n /\ tags'[m] = tags[m]
  <2>1. <<>> \in Seq(Fisicos) /\ 0 \in Nat
    OBVIOUS
  <2> QED BY <1>1, <2>1, AgregarTag
<1>3. \A b : Enlazado(tags, b) => Enlazado(tags', b)
  BY <1>2, MasEnlaces
<1> QED BY <1>1, <1>2, <1>3, DelDisco DEF PedidoSobre, SinFugas, Base

\* TAG changes the File:Tag it creates only.
LEMMA PasoTAG ==
  ASSUME Base, NEW n \in Nombres, NEW o \in Nombres, realizarTAG(o, n)
  PROVE  PedidoSobre(n)
<1>1. /\ n \notin DOMAIN tags /\ o \in DOMAIN tags
      /\ UNCHANGED <<bitmap, contenido, hash_index, caido>>
  BY DEF realizarTAG, existe
<1>2. /\ DiscoBien' /\ DOMAIN tags' = DOMAIN tags \cup {n}
      /\ \A m \in DOMAIN tags : m # n /\ tags'[m] = tags[m]
  <2>1. CASE agregarTag(n, TagNuevo(0, <<>>))
    <3>1. <<>> \in Seq(Fisicos) /\ 0 \in Nat
      OBVIOUS
    <3> QED BY <1>1, <2>1, <3>1, AgregarTag
  <2>2. CASE agregarTag(n, TagNuevo(tags[o].tamanio, tags[o].BLOCKS))
    <3>1. tags[o].BLOCKS \in Seq(Fisicos) /\ tags[o].tamanio \in Nat
      BY <1>1 DEF Base, DiscoBien, TagsOK, Tag
    <3> QED BY <1>1, <2>2, <3>1, AgregarTag
  <2> QED BY <2>1, <2>2 DEF realizarTAG
<1>3. \A b : Enlazado(tags, b) => Enlazado(tags', b)
  BY <1>2, MasEnlaces
<1>4. /\ n[1] \in lista_files' /\ lista_files \subseteq lista_files'
      /\ lista_files' \subseteq lista_files \cup {n[1]}
  BY DEF realizarTAG
<1> QED BY <1>1, <1>2, <1>3, <1>4, DelDisco DEF PedidoSobre, SinFugas, Base

\* k links to block0 more.
LEMMA Ceros ==
  ASSUME NEW k \in Nat
  PROVE  /\ [i \in 1 .. k |-> 0] \in Seq(Fisicos) /\ Len([i \in 1 .. k |-> 0]) = k
BY HayCero

\* A list of blocks with k links to block0 at its end.
LEMMA ConCeros ==
  ASSUME NEW k \in Nat, NEW s \in Seq(Fisicos)
  PROVE  LET r == s \o [i \in 1 .. k |-> 0]
         IN  /\ r \in Seq(Fisicos) /\ Len(r) = Len(s) + k
             /\ \A i \in 1 .. Len(s) : r[i] = s[i]
             /\ \A i \in Len(s) + 1 .. Len(s) + k : r[i] = 0
<1> DEFINE c == [i \in 1 .. k |-> 0]
<1>1. c \in Seq(Fisicos) /\ Len(c) = k /\ \A i \in 1 .. k : c[i] = 0
  BY Ceros
<1> HIDE DEF c
<1>2. /\ s \o c \in Seq(Fisicos) /\ Len(s \o c) = Len(s) + k
      /\ \A i \in 1 .. Len(s) + k : (s \o c)[i] = IF i <= Len(s) THEN s[i] ELSE c[i - Len(s)]
  BY <1>1, ConcatProperties
<1>3. \A i \in Len(s) + 1 .. Len(s) + k : (s \o c)[i] = 0
  BY <1>1, <1>2
<1>4. \A i \in 1 .. Len(s) : (s \o c)[i] = s[i]
  BY <1>2
<1> QED BY <1>2, <1>3, <1>4 DEF c

\* agrandarEnTruncate, as a change of n's tag.
LEMMA TrasAgrandar ==
  ASSUME Base, NEW n \in Nombres, NEW tam \in Tamanios, agrandarEnTruncate(n, tam)
  PROVE  /\ n \in DOMAIN tags /\ Salvo(tags, tags', n)
         /\ UNCHANGED <<lista_files, bitmap, contenido, hash_index, caido>>
         /\ \E k \in Nat :
              LET t == tags[n]
                  u == tags'[n]
                  ceros == [i \in 1 .. k |-> 0]
              IN  /\ u.estado = t.estado /\ u.tamanio = tam
                  /\ u.BLOCKS = t.BLOCKS \o ceros
                  /\ u.bloques_logicos = t.bloques_logicos \o ceros
                  /\ u.hl = t.hl \o ceros /\ u \in Tag
<1> DEFINE k == (tam - tags[n].tamanio) \div TamanioBloque
           t == tags[n]
           u == tags'[n]
           ceros == [i \in 1 .. k |-> 0]
<1>1. n \in DOMAIN tags /\ t.tamanio < tam
      /\ tags' = [tags EXCEPT ![n].tamanio = tam, ![n].BLOCKS = @ \o ceros,
                              ![n].bloques_logicos = @ \o ceros, ![n].hl = @ \o ceros]
  BY DEF agrandarEnTruncate, existe
<1>2. t \in Tag /\ tam \in Nat
  BY <1>1, StorageAssumption DEF Base, DiscoBien, TagsOK
<1>3. k \in Nat
  <2>1. tam - t.tamanio \in Nat /\ TamanioBloque \in Nat \ {0}
    BY <1>1, <1>2, StorageAssumption DEF Tag
  <2> QED BY <2>1, CocienteNatural
<1>4. Salvo(tags, tags', n)
  BY <1>1 DEF Salvo
<1>5. u = [t EXCEPT !.tamanio = tam, !.BLOCKS = @ \o ceros,
                    !.bloques_logicos = @ \o ceros, !.hl = @ \o ceros]
  BY <1>1
<1>6. UNCHANGED <<lista_files, bitmap, contenido, hash_index, caido>>
  BY DEF agrandarEnTruncate
<1> HIDE DEF k, t, u
<1>7. /\ u.estado = t.estado /\ u.tamanio = tam
      /\ u.BLOCKS = t.BLOCKS \o ceros
      /\ u.bloques_logicos = t.bloques_logicos \o ceros
      /\ u.hl = t.hl \o ceros
      /\ u = [estado |-> t.estado, tamanio |-> tam, BLOCKS |-> t.BLOCKS \o ceros,
              bloques_logicos |-> t.bloques_logicos \o ceros, hl |-> t.hl \o ceros]
  BY <1>2, <1>5 DEF Tag
<1>8. u \in Tag
  <2>1. /\ t.BLOCKS \in Seq(Fisicos) /\ t.bloques_logicos \in Seq(Fisicos)
        /\ t.hl \in Seq(Fisicos) /\ t.estado \in {"WORK_IN_PROGRESS", "COMMITED"}
    BY <1>2 DEF Tag
  <2>2. /\ t.BLOCKS \o ceros \in Seq(Fisicos) /\ t.bloques_logicos \o ceros \in Seq(Fisicos)
        /\ t.hl \o ceros \in Seq(Fisicos)
    BY <1>3, <2>1, ConCeros
  <2> HIDE DEF ceros
  <2> QED BY <1>2, <1>7, <2>1, <2>2 DEF Tag
<1> QED BY <1>1, <1>3, <1>4, <1>6, <1>7, <1>8 DEF t, u

\* TRUNCATE to more changes the File:Tag it names only.
LEMMA PasoAgrandar ==
  ASSUME Base, NEW n \in Nombres, NEW tam \in Tamanios, agrandarEnTruncate(n, tam)
  PROVE  PedidoSobre(n)
<1> DEFINE t == tags[n]
           u == tags'[n]
<1>1. /\ n \in DOMAIN tags /\ Salvo(tags, tags', n)
      /\ UNCHANGED <<lista_files, bitmap, contenido, hash_index, caido>>
  BY TrasAgrandar
<1>2. PICK k \in Nat :
        LET ceros == [i \in 1 .. k |-> 0]
        IN  /\ u.BLOCKS = t.BLOCKS \o ceros
            /\ u.bloques_logicos = t.bloques_logicos \o ceros
            /\ u.hl = t.hl \o ceros /\ u \in Tag
  BY TrasAgrandar
<1>3. /\ t.BLOCKS \in Seq(Fisicos) /\ t.bloques_logicos \in Seq(Fisicos) /\ t.hl \in Seq(Fisicos)
      /\ Len(t.hl) = Len(t.bloques_logicos)
      /\ Len(t.bloques_logicos) <= Len(t.BLOCKS)
      /\ Len(t.BLOCKS) \in Nat /\ Len(t.hl) \in Nat
  BY <1>1 DEF Base, DiscoBien, TagsOK, Tag
<1> HIDE DEF t, u
<1>4. /\ Len(u.BLOCKS) = Len(t.BLOCKS) + k
      /\ Len(u.bloques_logicos) = Len(t.bloques_logicos) + k
      /\ Len(u.hl) = Len(t.hl) + k
      /\ u.hl \in Seq(Fisicos)
      /\ \A i \in 1 .. Len(t.hl) : u.hl[i] = t.hl[i]
  <2> DEFINE ceros == [i \in 1 .. k |-> 0]
  <2>1. \A s \in Seq(Fisicos) : /\ s \o ceros \in Seq(Fisicos)
                                /\ Len(s \o ceros) = Len(s) + k
                                /\ \A i \in 1 .. Len(s) : (s \o ceros)[i] = s[i]
    BY ConCeros
  <2>2. /\ u.BLOCKS = t.BLOCKS \o ceros
        /\ u.bloques_logicos = t.bloques_logicos \o ceros
        /\ u.hl = t.hl \o ceros
    BY <1>2
  <2> HIDE DEF ceros
  <2> QED BY <1>3, <2>1, <2>2
<1>5. TagsOK(tags')
  <2>1. Len(u.hl) = Len(u.bloques_logicos) /\ Len(u.bloques_logicos) <= Len(u.BLOCKS)
    BY <1>3, <1>4
  <2> QED BY <1>1, <1>2, <2>1 DEF Base, DiscoBien, TagsOK, Salvo, u
<1>6. \A b : Enlazado(tags, b) => Enlazado(tags', b)
  <2>1. \A i \in DOMAIN t.hl : i \in DOMAIN u.hl /\ u.hl[i] = t.hl[i]
    <3>1. DOMAIN t.hl = 1 .. Len(t.hl) /\ DOMAIN u.hl = 1 .. Len(t.hl) + k
      BY <1>3, <1>4
    <3> QED BY <1>3, <1>4, <3>1
  <2>2. \A m \in DOMAIN tags : /\ m \in DOMAIN tags'
                               /\ \A i \in DOMAIN tags[m].hl : i \in DOMAIN tags'[m].hl
                                                               /\ tags'[m].hl[i] = tags[m].hl[i]
    BY <1>1, <2>1 DEF Salvo, t, u
  <2> QED BY <2>2, MasEnlaces
<1>7. DiscoBien'
  BY <1>1, <1>5 DEF Base, DiscoBien
<1> QED BY <1>1, <1>6, <1>7, DelDisco DEF PedidoSobre, SinFugas, Base, Salvo

\* One field of n's tag is set.
LEMMA EstablecerTamanio ==
  ASSUME NEW d, DiscoOK(d), NEW n \in DOMAIN d.tags, NEW v \in Nat
  PROVE  LET r == [d EXCEPT !.tags[n].tamanio = v]
         IN  /\ DiscoOK(r) /\ r.bitmap = d.bitmap /\ r.contenido = d.contenido
             /\ r.hash_index = d.hash_index /\ Salvo(d.tags, r.tags, n)
             /\ r.tags[n] = [d.tags[n] EXCEPT !.tamanio = v]
             /\ r.tags[n].hl = d.tags[n].hl /\ r.tags[n].BLOCKS = d.tags[n].BLOCKS
             /\ r.tags[n].bloques_logicos = d.tags[n].bloques_logicos
             /\ r.tags[n].estado = d.tags[n].estado
<1> DEFINE r == [d EXCEPT !.tags[n].tamanio = v]
           u == r.tags[n]
           t == d.tags[n]
<1>1. /\ DOMAIN r = {"tags", "bitmap", "contenido", "hash_index"}
      /\ r.bitmap = d.bitmap /\ r.contenido = d.contenido
      /\ r.hash_index = d.hash_index /\ Salvo(d.tags, r.tags, n)
      /\ u = [t EXCEPT !.tamanio = v]
  BY DEF DiscoOK, Salvo
<1>2. t \in Tag
  BY DEF DiscoOK, TagsOK
<1>3. /\ u \in Tag /\ u.hl = t.hl /\ u.bloques_logicos = t.bloques_logicos
      /\ u.BLOCKS = t.BLOCKS /\ u.estado = t.estado
  <2> HIDE DEF u, t
  <2> QED BY <1>1, <1>2 DEF Tag
<1>4. DiscoOK(r)
  <2>1. Len(t.hl) = Len(t.bloques_logicos) /\ Len(t.bloques_logicos) <= Len(t.BLOCKS)
    BY DEF DiscoOK, TagsOK
  <2>2. TagsOK(r.tags)
    <3>1. Len(u.hl) = Len(u.bloques_logicos) /\ Len(u.bloques_logicos) <= Len(u.BLOCKS)
      BY <1>3, <2>1
    <3>2. TagsOK(d.tags)
      BY DEF DiscoOK
    <3> HIDE DEF r
    <3> QED BY <1>1, <1>3, <3>1, <3>2, TagsOKSalvo
  <2> HIDE DEF r
  <2> QED BY <1>1, <2>2 DEF DiscoOK
<1> HIDE DEF r
<1> QED BY <1>1, <1>3, <1>4 DEF r

\* r is d with n COMMITED.
Commiteado(d, r, n) ==
  /\ DiscoOK(r) /\ r.bitmap = d.bitmap /\ r.contenido = d.contenido
  /\ r.hash_index = d.hash_index /\ Salvo(d.tags, r.tags, n)
  /\ r.tags[n].estado = "COMMITED"
  /\ r.tags[n].hl = d.tags[n].hl /\ r.tags[n].BLOCKS = d.tags[n].BLOCKS
  /\ r.tags[n].bloques_logicos = d.tags[n].bloques_logicos

\* Setting ESTADO leaves what Commiteado says.
LEMMA EstablecerEstado ==
  ASSUME NEW d, DiscoOK(d), NEW n \in DOMAIN d.tags
  PROVE  Commiteado(d, [d EXCEPT !.tags[n].estado = "COMMITED"], n)
<1> DEFINE r == [d EXCEPT !.tags[n].estado = "COMMITED"]
           u == r.tags[n]
           t == d.tags[n]
<1>1. /\ DOMAIN r = {"tags", "bitmap", "contenido", "hash_index"}
      /\ r.bitmap = d.bitmap /\ r.contenido = d.contenido
      /\ r.hash_index = d.hash_index /\ Salvo(d.tags, r.tags, n)
      /\ u = [t EXCEPT !.estado = "COMMITED"]
  BY DEF DiscoOK, Salvo
<1>2. t \in Tag
  BY DEF DiscoOK, TagsOK
<1>3. /\ u \in Tag /\ u.hl = t.hl /\ u.bloques_logicos = t.bloques_logicos
      /\ u.BLOCKS = t.BLOCKS /\ u.estado = "COMMITED"
  <2> HIDE DEF u, t
  <2> QED BY <1>1, <1>2 DEF Tag
<1>4. DiscoOK(r)
  <2>1. Len(t.hl) = Len(t.bloques_logicos) /\ Len(t.bloques_logicos) <= Len(t.BLOCKS)
    BY DEF DiscoOK, TagsOK
  <2>2. TagsOK(r.tags)
    <3>1. Len(u.hl) = Len(u.bloques_logicos) /\ Len(u.bloques_logicos) <= Len(u.BLOCKS)
      BY <1>3, <2>1
    <3>2. TagsOK(d.tags)
      BY DEF DiscoOK
    <3> HIDE DEF r
    <3> QED BY <1>1, <1>3, <3>1, <3>2, TagsOKSalvo
  <2> HIDE DEF r
  <2> QED BY <1>1, <2>2 DEF DiscoOK
<1> HIDE DEF r
<1> QED BY <1>1, <1>3, <1>4 DEF r, Commiteado

\* The same links after a change of another field of n.
LEMMA MismosEnlaces ==
  ASSUME NEW ts, NEW us, NEW n, Salvo(ts, us, n), n \in DOMAIN ts => us[n].hl = ts[n].hl
  PROVE  \A b : Enlazado(us, b) <=> Enlazado(ts, b)
BY DEF Enlazado, Salvo

\* The disk ferConLaMexicana leaves: k logical blocks of n fewer.
Achicado(n, k) ==
  /\ n \in DOMAIN tags /\ k \in 0 .. Len(tags[n].bloques_logicos)
  /\ DiscoBien' /\ Salvo(tags, tags', n)
  /\ LET t == tags[n]
         u == tags'[n]
     IN  /\ u.estado = t.estado /\ u.BLOCKS = t.BLOCKS
         /\ Len(u.bloques_logicos) = Len(t.bloques_logicos) - k
         /\ \A i \in 1 .. Len(t.bloques_logicos) - k :
              u.bloques_logicos[i] = t.bloques_logicos[i] /\ u.hl[i] = t.hl[i]
  /\ Punteros(tags) =>
       /\ Punteros(tags')
       /\ bitmap' = bitmap \ {b \in Fisicos : Enlazado(tags, b) /\ ~ Enlazado(tags', b)}
  /\ UNCHANGED <<lista_files, hash_index>>
  /\ \A b : Enlazado(tags', b) => Enlazado(tags, b) /\ contenido'[b] = contenido[b]

\* ferConLaMexicana leaves what Achicado says, also when it dies.
LEMMA TrasFerConLaMexicana ==
  ASSUME Base, NEW n \in Nombres, NEW tam \in Tamanios, ferConLaMexicana(n, tam)
  PROVE  (\E k : Achicado(n, k)) /\ caido' \in BOOLEAN
<1> DEFINE k == (tags[n].tamanio - tam) \div TamanioBloque
           hay == Len(tags[n].bloques_logicos)
<1>1. /\ n \in DOMAIN tags /\ tags[n].tamanio > tam /\ UNCHANGED lista_files
      /\ DiscoOK(disco) /\ n \in DOMAIN disco.tags
  BY DelDisco DEF ferConLaMexicana, existe, Base
<1>2. tags[n] \in Tag /\ tam \in Nat /\ hay \in Nat
  BY <1>1, StorageAssumption DEF Base, DiscoBien, TagsOK, Tag
<1>3. k \in Nat
  <2>1. tags[n].tamanio - tam \in Nat /\ TamanioBloque \in Nat \ {0}
    BY <1>1, <1>2, StorageAssumption DEF Tag
  <2> QED BY <2>1, CocienteNatural
<1> HIDE DEF k
<1>4. ASSUME NEW j \in 0 .. hay
      PROVE  LET r == unlinkearBloquesLogicos(disco, n, j)
             IN  /\ DiscoOK(r) /\ Salvo(tags, r.tags, n)
                 /\ SinUltimos(tags[n], r.tags[n], j)
                 /\ Liberados(disco, r) /\ r.hash_index = hash_index
                 /\ \A b : Enlazado(r.tags, b) =>
                             Enlazado(tags, b) /\ r.contenido[b] = contenido[b]
  BY <1>1, DelDisco, TrasUnlinkear
<1>5. CASE k > hay
  <2> DEFINE r == unlinkearBloquesLogicos(disco, n, hay)
  <2>1. guardar(r) /\ caido' = TRUE
    BY <1>2, <1>3, <1>5 DEF ferConLaMexicana, k
  <2>2. hay \in 0 .. hay
    BY <1>2
  <2>3. /\ DiscoOK(r) /\ Salvo(tags, r.tags, n)
        /\ SinUltimos(tags[n], r.tags[n], hay)
        /\ Liberados(disco, r) /\ r.hash_index = hash_index
        /\ \A b : Enlazado(r.tags, b) => Enlazado(tags, b) /\ r.contenido[b] = contenido[b]
    BY <1>4, <2>2
  <2> HIDE DEF r
  <2>4. tags' = r.tags /\ bitmap' = r.bitmap /\ contenido' = r.contenido
        /\ hash_index' = r.hash_index
    BY <2>1 DEF guardar
  <2>5. Achicado(n, hay)
    BY <1>1, <2>1, <2>2, <2>3, <2>4, Guardado, DelDisco DEF Achicado, SinUltimos, Liberados
  <2> QED BY <2>1, <2>5
<1>6. CASE k <= hay
  <2> DEFINE d == unlinkearBloquesLogicos(disco, n, k)
             r == [d EXCEPT !.tags[n].tamanio = tam]
  <2>1. guardar(r) /\ caido' = caido
    BY <1>2, <1>3, <1>6 DEF ferConLaMexicana, k
  <2>2. k \in 0 .. hay
    BY <1>2, <1>3, <1>6
  <2>3. /\ DiscoOK(d) /\ Salvo(tags, d.tags, n)
        /\ SinUltimos(tags[n], d.tags[n], k)
        /\ Liberados(disco, d) /\ d.hash_index = hash_index
        /\ \A b : Enlazado(d.tags, b) => Enlazado(tags, b) /\ d.contenido[b] = contenido[b]
    BY <1>4, <2>2
  <2> HIDE DEF d
  <2>4. n \in DOMAIN d.tags
    BY <1>1, <2>3 DEF Salvo
  <2>5. /\ DiscoOK(r) /\ r.bitmap = d.bitmap /\ r.contenido = d.contenido
        /\ r.hash_index = d.hash_index /\ Salvo(d.tags, r.tags, n)
        /\ r.tags[n].hl = d.tags[n].hl /\ r.tags[n].BLOCKS = d.tags[n].BLOCKS
        /\ r.tags[n].bloques_logicos = d.tags[n].bloques_logicos
        /\ r.tags[n].estado = d.tags[n].estado
    BY <1>2, <2>3, <2>4, EstablecerTamanio
  <2> HIDE DEF r
  <2>6. tags' = r.tags /\ bitmap' = r.bitmap /\ contenido' = r.contenido
        /\ hash_index' = r.hash_index
    BY <2>1 DEF guardar
  <2>7. \A b : Enlazado(tags', b) <=> Enlazado(d.tags, b)
    BY <2>5, <2>6, MismosEnlaces
  <2>8. Salvo(tags, tags', n)
    BY <2>3, <2>5, <2>6 DEF Salvo
  <2>9. Punteros(d.tags) => Punteros(tags')
    BY <2>5, <2>6 DEF Punteros, Salvo
  <2>10. DiscoBien' /\ hash_index' = hash_index
    BY <2>1, <2>3, <2>5, <2>6, Guardado
  <2>11. LET t == tags[n]
             u == tags'[n]
         IN  /\ u.estado = t.estado /\ u.BLOCKS = t.BLOCKS
             /\ Len(u.bloques_logicos) = Len(t.bloques_logicos) - k
             /\ \A i \in 1 .. Len(t.bloques_logicos) - k :
                  u.bloques_logicos[i] = t.bloques_logicos[i] /\ u.hl[i] = t.hl[i]
    <3> HIDE DEF k, hay
    <3> QED BY <2>3, <2>5, <2>6 DEF SinUltimos
  <2>12. Punteros(tags) =>
           /\ Punteros(tags')
           /\ bitmap' = bitmap \ {b \in Fisicos : Enlazado(tags, b) /\ ~ Enlazado(tags', b)}
    BY <2>3, <2>5, <2>6, <2>7, <2>9, DelDisco DEF Liberados
  <2>13. \A b : Enlazado(tags', b) => Enlazado(tags, b) /\ contenido'[b] = contenido[b]
    BY <2>3, <2>5, <2>6, <2>7
  <2>14. Achicado(n, k)
    BY <1>1, <2>2, <2>8, <2>10, <2>11, <2>12, <2>13 DEF Achicado
  <2> QED BY <1>1, <2>1, <2>14 DEF Base
<1> QED BY <1>2, <1>3, <1>5, <1>6

\* TRUNCATE to less changes the File:Tag it names only.
LEMMA PasoAchicar ==
  ASSUME Base, NEW n \in Nombres, NEW k, Achicado(n, k), caido' \in BOOLEAN
  PROVE  PedidoSobre(n)
<1>1. /\ n[1] \in lista_files' /\ lista_files \subseteq lista_files'
      /\ lista_files' \subseteq lista_files \cup {n[1]}
      /\ DOMAIN tags' = DOMAIN tags
      /\ \A m \in DOMAIN tags : m # n => tags'[m] = tags[m]
  BY DEF Achicado, Base, Salvo
<1>2. ASSUME Punteros(tags), SinFugas(disco), NEW b \in bitmap'
      PROVE  Enlazado(tags', b)
  <2>1. b \in bitmap /\ b \in Fisicos /\ ~ (Enlazado(tags, b) /\ ~ Enlazado(tags', b))
    BY <1>2 DEF Achicado, Base, DiscoBien
  <2> QED BY <1>2, <2>1, DelDisco DEF SinFugas
<1>3. ASSUME NEW m \in DOMAIN tags, m # n, NEW i \in DOMAIN tags[m].hl
      PROVE  contenido'[tags[m].hl[i]] = contenido[tags[m].hl[i]]
  <2>1. Enlazado(tags', tags[m].hl[i])
    BY <1>1, <1>3 DEF Enlazado
  <2> QED BY <2>1 DEF Achicado
<1> QED BY <1>1, <1>2, <1>3 DEF PedidoSobre, Achicado

\* COMMIT changes the File:Tag it names only.
LEMMA PasoCOMMIT ==
  ASSUME Base, NEW n \in Nombres, realizarCOMMIT(n)
  PROVE  PedidoSobre(n)
<1> DEFINE N == Len(tags[n].bloques_logicos)
           d == indexarBloques(disco, n, N)
           r == [d EXCEPT !.tags[n].estado = "COMMITED"]
<1>1. /\ n \in DOMAIN tags /\ guardar(r) /\ UNCHANGED <<lista_files, caido>>
      /\ DiscoOK(disco) /\ n \in DOMAIN disco.tags
  BY DelDisco DEF realizarCOMMIT, existe, Base
<1>2. N \in Nat /\ disco.tags = tags /\ disco.contenido = contenido
  BY <1>1, DelDisco DEF Base, DiscoBien, TagsOK, Tag
<1>3. /\ DiscoOK(d) /\ Salvo(tags, d.tags, n) /\ d.contenido = contenido
      /\ Punteros(tags) /\ SinFugas(disco) => SinFugas(d)
  <2>1. N \in 0 .. Len(disco.tags[n].bloques_logicos)
    BY <1>2
  <2>2. PICK f : TrazaDeIndexar(f, disco, n, N)
    <3> HIDE DEF N
    <3> QED BY <1>1, <2>1, TrasIndexar
  <2>3. N \in 0 .. N /\ d = f[N]
    BY <1>2, <2>2 DEF TrazaDeIndexar
  <2> HIDE DEF d, N
  <2> QED BY <1>2, <2>2, <2>3 DEF TrazaDeIndexar
<1> HIDE DEF d
<1>4. n \in DOMAIN d.tags
  BY <1>1, <1>3 DEF Salvo
<1>5. /\ DiscoOK(r) /\ r.bitmap = d.bitmap /\ r.contenido = d.contenido
      /\ Salvo(d.tags, r.tags, n) /\ r.tags[n].hl = d.tags[n].hl
  <2>1. Commiteado(d, r, n)
    BY <1>3, <1>4, EstablecerEstado
  <2> HIDE DEF r
  <2> QED BY <2>1 DEF Commiteado
<1> HIDE DEF r
<1>6. tags' = r.tags /\ bitmap' = r.bitmap /\ contenido' = contenido
  BY <1>1, <1>3, <1>5 DEF guardar
<1>7. DiscoBien'
  BY <1>1, <1>5, Guardado
<1>8. \A b : Enlazado(tags', b) <=> Enlazado(d.tags, b)
  BY <1>5, <1>6, MismosEnlaces
<1>9. DOMAIN tags' = DOMAIN tags /\ \A m \in DOMAIN tags : m # n => tags'[m] = tags[m]
  BY <1>3, <1>5, <1>6 DEF Salvo
<1>10. Punteros(tags) /\ SinFugas(disco) => \A b \in bitmap' : Enlazado(tags', b)
  BY <1>3, <1>5, <1>6, <1>8 DEF SinFugas
<1> QED BY <1>1, <1>6, <1>7, <1>9, <1>10 DEF PedidoSobre, Base

\* realizarWRITE: in place, in a block reserved for it, or nowhere.
EscritoEnLugar(n, i, c) ==
  /\ ~ (contadorHLinks(tags, tags[n].hl[i]) > 2)
  /\ contenido' = [contenido EXCEPT ![tags[n].hl[i]] = c]
  /\ UNCHANGED <<tags, bitmap, hash_index>>

\* A shared block is written in b, which was free.
EscritoAparte(n, i, c, b) ==
  LET t == tags[n]
      u == tags'[n]
      viejo == t.bloques_logicos[i]
  IN  /\ contadorHLinks(tags, t.hl[i]) > 2
      /\ b \in Fisicos /\ b \notin bitmap
      /\ Salvo(tags, tags', n)
      /\ u.estado = t.estado /\ u.tamanio = t.tamanio
      /\ u.BLOCKS = [t.BLOCKS EXCEPT ![i] = b]
      /\ u.bloques_logicos = [t.bloques_logicos EXCEPT ![i] = b]
      /\ u.hl = [t.hl EXCEPT ![i] = b]
      /\ Enlazado(tags', viejo) => bitmap' = bitmap \cup {b}
      /\ ~ Enlazado(tags', viejo) => bitmap' = (bitmap \cup {b}) \ {viejo}
      /\ contenido' = [contenido EXCEPT ![b] = c]
      /\ UNCHANGED hash_index

\* realizarWRITE writes in place, aparte, or dies having written nothing.
LEMMA TrasWRITE ==
  ASSUME Base, NEW n \in Nombres, NEW i \in Nat, NEW c \in Contenidos, realizarWRITE(n, i, c)
  PROVE  /\ n \in DOMAIN tags /\ i \in DOMAIN tags[n].bloques_logicos
         /\ ~ commiteado(n) /\ DiscoBien' /\ UNCHANGED lista_files /\ caido' \in BOOLEAN
         /\ \/ EscritoEnLugar(n, i, c)
            \/ \E b : EscritoAparte(n, i, c, b)
            \/ UNCHANGED <<tags, bitmap, contenido, hash_index>>
<1> DEFINE t == tags[n]
           compartido == contadorHLinks(tags, t.hl[i]) > 2
           escribir(d) == [d EXCEPT !.contenido[d.tags[n].hl[i]] = c]
<1>1. /\ n \in DOMAIN tags /\ i \in DOMAIN t.bloques_logicos
      /\ ~ commiteado(n) /\ UNCHANGED lista_files
  BY DEF realizarWRITE, existe
<1>2. DiscoOK(disco) /\ n \in DOMAIN disco.tags /\ i \in DOMAIN disco.tags[n].bloques_logicos
  BY <1>1, DelDisco DEF Base
<1>3. /\ i \in DOMAIN t.hl /\ t.hl[i] \in Fisicos /\ c \in Datos
      /\ contenido \in [Fisicos -> Datos]
  BY <1>1 DEF Base, DiscoBien, TagsOK, Tag, Datos
<1>4. CASE ~ compartido /\ guardar(escribir(disco)) /\ UNCHANGED caido
  <2>1. contenido' = [contenido EXCEPT ![t.hl[i]] = c] /\ UNCHANGED <<tags, bitmap, hash_index>>
    BY <1>4, DelDisco DEF guardar
  <2>2. DiscoBien'
    <3> HIDE DEF t
    <3> QED BY <1>3, <2>1 DEF Base, DiscoBien
  <2> QED BY <1>1, <1>4, <2>1, <2>2 DEF EscritoEnLugar, Base
<1>5. CASE /\ compartido /\ UNCHANGED caido
           /\ \E b \in BloqueFisicoLibre :
                guardar(escribir(reapuntarBloque([disco EXCEPT !.bitmap = @ \cup {b}], n, i, b)))
  <2>1. PICK b \in BloqueFisicoLibre :
          guardar(escribir(reapuntarBloque([disco EXCEPT !.bitmap = @ \cup {b}], n, i, b)))
    BY <1>5
  <2> DEFINE d == [disco EXCEPT !.bitmap = @ \cup {b}]
             r == reapuntarBloque(d, n, i, b)
  <2>2. b \in Fisicos /\ b \notin bitmap
    BY DEF BloqueFisicoLibre
  <2>3. /\ DOMAIN d = {"tags", "bitmap", "contenido", "hash_index"}
        /\ d.tags = tags /\ d.contenido = contenido /\ d.hash_index = hash_index
        /\ d.bitmap = bitmap \cup {b}
    BY DelDisco
  <2>4. guardar(escribir(r))
    BY <2>1
  <2> HIDE DEF d
  <2>5. DiscoOK(d)
    BY <2>2, <2>3 DEF DiscoOK, Base, DiscoBien
  <2>6. Reapuntado(d, r, n, i, b)
    <3>1. n \in DOMAIN d.tags /\ i \in DOMAIN d.tags[n].bloques_logicos
      BY <1>1, <2>3
    <3> QED BY <2>2, <2>5, <3>1, Reapuntar
  <2> HIDE DEF r
  <2>7. /\ DiscoOK(r) /\ r.contenido = contenido /\ r.hash_index = hash_index
        /\ Salvo(tags, r.tags, n)
        /\ r.tags[n].estado = t.estado /\ r.tags[n].tamanio = t.tamanio
        /\ r.tags[n].BLOCKS = [t.BLOCKS EXCEPT ![i] = b]
        /\ r.tags[n].bloques_logicos = [t.bloques_logicos EXCEPT ![i] = b]
        /\ r.tags[n].hl = [t.hl EXCEPT ![i] = b]
        /\ Enlazado(r.tags, t.bloques_logicos[i]) => r.bitmap = bitmap \cup {b}
        /\ ~ Enlazado(r.tags, t.bloques_logicos[i]) =>
             r.bitmap = (bitmap \cup {b}) \ {t.bloques_logicos[i]}
    BY <2>3, <2>6 DEF Reapuntado
  <2>8. r.tags[n].hl[i] = b
    <3> DEFINE h == t.hl
    <3> HIDE DEF h, t
    <3> QED BY <1>3, <2>7 DEF h
  <2>9. /\ tags' = r.tags /\ bitmap' = r.bitmap /\ hash_index' = hash_index
        /\ contenido' = [contenido EXCEPT ![b] = c]
    BY <2>4, <2>7, <2>8 DEF guardar, DiscoOK
  <2>10. DiscoBien'
    BY <1>3, <2>2, <2>7, <2>9 DEF DiscoBien, DiscoOK
  <2>11. EscritoAparte(n, i, c, b)
    <3> HIDE DEF t
    <3> QED BY <1>5, <2>2, <2>7, <2>9 DEF EscritoAparte, t
  <2> QED BY <1>1, <1>5, <2>10, <2>11 DEF Base
<1>6. CASE caido' = TRUE /\ UNCHANGED <<tags, bitmap, contenido, hash_index>>
  BY <1>1, <1>6 DEF Base, DiscoBien
<1> QED BY <1>4, <1>5, <1>6 DEF realizarWRITE

\* WRITE changes the File:Tag it names only: copy on write.
LEMMA PasoWRITE ==
  ASSUME Base, NEW n \in Nombres, NEW i \in Nat, NEW c \in Contenidos, realizarWRITE(n, i, c)
  PROVE  PedidoSobre(n)
<1> DEFINE t == tags[n]
<1>1. /\ n \in DOMAIN tags /\ i \in DOMAIN t.bloques_logicos
      /\ DiscoBien' /\ UNCHANGED lista_files /\ caido' \in BOOLEAN
  BY TrasWRITE
<1>2. /\ i \in DOMAIN t.hl /\ TagsOK(tags) /\ contenido \in [Fisicos -> Datos]
      /\ \A m \in DOMAIN tags : tags[m].hl \in Seq(Fisicos)
  BY <1>1 DEF Base, DiscoBien, TagsOK, Tag
<1>3. CASE EscritoEnLugar(n, i, c)
  <2>1. ASSUME NEW m \in DOMAIN tags, m # n, NEW l \in DOMAIN tags[m].hl
        PROVE  contenido'[tags[m].hl[l]] = contenido[tags[m].hl[l]]
    <3>1. tags[m].hl[l] # t.hl[i]
      <4>1. \A x \in DOMAIN tags : tags[x].hl \in Seq(Int)
        BY <1>2, FisicosEnteros, SecuenciaDe
      <4>2. ~ (contadorHLinks(tags, t.hl[i]) > 2)
        BY <1>3 DEF EscritoEnLugar
      <4>3. <<m, l>> # <<n, i>>
        BY <2>1
      <4> QED BY <1>1, <1>2, <4>1, <4>2, <4>3, EstaCompartido DEF TagsOK
    <3>2. contenido' = [contenido EXCEPT ![t.hl[i]] = c]
      BY <1>3 DEF EscritoEnLugar
    <3>3. tags[m].hl[l] \in Fisicos
      BY <1>2
    <3> HIDE DEF t
    <3> QED BY <1>2, <3>1, <3>2, <3>3
  <2>2. tags' = tags /\ bitmap' = bitmap
    BY <1>3 DEF EscritoEnLugar
  <2> QED BY <1>1, <2>1, <2>2, DelDisco DEF PedidoSobre, SinFugas, Base
<1>4. CASE \E b : EscritoAparte(n, i, c, b)
  <2>1. PICK b : EscritoAparte(n, i, c, b)
    BY <1>4
  <2>2. EnlaceMovido(tags, tags', n, i, b)
    BY <1>1, <1>2, <2>1, EnlacesReapuntados DEF EscritoAparte
  <2>3. ASSUME Punteros(tags), SinFugas(disco), NEW x \in bitmap'
        PROVE  Enlazado(tags', x)
    <3>1. t.hl[i] = t.bloques_logicos[i]
      BY <1>1, <2>3 DEF Punteros
    <3>2. x \in bitmap \cup {b} /\ (x = t.bloques_logicos[i] => Enlazado(tags', x))
      BY <2>1, <2>3 DEF EscritoAparte
    <3>3. x \in bitmap => Enlazado(tags, x)
      BY <2>3, DelDisco DEF SinFugas
    <3> QED BY <2>2, <3>1, <3>2, <3>3 DEF EnlaceMovido
  <2>4. ASSUME \A x \in Fisicos : x \in bitmap <=> Enlazado(tags, x),
               NEW m \in DOMAIN tags, m # n, NEW l \in DOMAIN tags[m].hl
        PROVE  contenido'[tags[m].hl[l]] = contenido[tags[m].hl[l]]
    <3>1. tags[m].hl[l] \in Fisicos /\ Enlazado(tags, tags[m].hl[l])
      BY <1>2 DEF Enlazado
    <3>2. b \in Fisicos /\ b \notin bitmap /\ contenido' = [contenido EXCEPT ![b] = c]
      BY <2>1 DEF EscritoAparte
    <3> QED BY <1>2, <2>4, <3>1, <3>2
  <2>5. DOMAIN tags' = DOMAIN tags /\ \A m \in DOMAIN tags : m # n => tags'[m] = tags[m]
    BY <2>1 DEF EscritoAparte, Salvo
  <2> QED BY <1>1, <2>3, <2>4, <2>5 DEF PedidoSobre, Base
<1>5. CASE UNCHANGED <<tags, bitmap, contenido, hash_index>>
  BY <1>1, <1>5, DelDisco DEF PedidoSobre, SinFugas, Base
<1> QED BY <1>3, <1>4, <1>5, TrasWRITE

\* realizarELIMINAR_UN_TAG: n goes, with the links of its own.
Eliminado(n, d) ==
  /\ n \in DOMAIN tags /\ DiscoBien' /\ UNCHANGED <<lista_files, contenido, caido>>
  /\ DOMAIN tags' = DOMAIN tags \ {n}
  /\ \A m \in DOMAIN tags' : tags'[m] = tags[m]
  /\ \A b : Enlazado(tags', b) <=> Enlazado(d.tags, b)
  /\ bitmap' = d.bitmap /\ hash_index' = d.hash_index
  /\ Liberados(disco, d)

\* realizarELIMINAR_UN_TAG leaves what Eliminado says.
LEMMA TrasELIMINAR ==
  ASSUME Base, NEW n \in Nombres, realizarELIMINAR_UN_TAG(n)
  PROVE  LET d == unlinkearTodoParaEliminar(disco, n, Len(tags[n].bloques_logicos))
         IN  Eliminado(n, d)
<1> DEFINE N == Len(tags[n].bloques_logicos)
           d == unlinkearTodoParaEliminar(disco, n, N)
           r == [d EXCEPT !.tags = [m \in DOMAIN tags \ {n} |-> d.tags[m]]]
<1>1. /\ n \in DOMAIN tags /\ guardar(r) /\ UNCHANGED <<lista_files, caido>>
      /\ DiscoOK(disco) /\ n \in DOMAIN disco.tags
  BY DelDisco DEF realizarELIMINAR_UN_TAG, existe, Base
<1>2. N \in Nat /\ disco.tags = tags /\ disco.contenido = contenido
  BY <1>1, DelDisco DEF Base, DiscoBien, TagsOK, Tag
<1>3. /\ DiscoOK(d) /\ Salvo(tags, d.tags, n) /\ d.contenido = contenido
      /\ SinUltimos(tags[n], d.tags[n], N) /\ Liberados(disco, d)
  <2>1. N \in 0 .. Len(disco.tags[n].bloques_logicos)
    BY <1>2
  <2>2. PICK f : TrazaDeEliminar(f, disco, n, N)
    <3> HIDE DEF N
    <3> QED BY <1>1, <2>1, TrasParaEliminar
  <2>3. N \in 0 .. N /\ d = f[N]
    BY <1>2, <2>2 DEF TrazaDeEliminar
  <2> HIDE DEF d, N
  <2> QED BY <1>2, <2>2, <2>3 DEF TrazaDeEliminar
<1>4. n \in DOMAIN d.tags /\ d.tags[n].hl = <<>>
  <2> HIDE DEF d
  <2>1. n \in DOMAIN d.tags
    BY <1>1, <1>3 DEF Salvo
  <2>2. Len(d.tags[n].bloques_logicos) = 0
    BY <1>2, <1>3 DEF SinUltimos
  <2>3. d.tags[n].hl \in Seq(Fisicos) /\ Len(d.tags[n].hl) = Len(d.tags[n].bloques_logicos)
    BY <1>3, <2>1 DEF DiscoOK, TagsOK, Tag
  <2> QED BY <2>1, <2>2, <2>3
<1> HIDE DEF d
<1>5. /\ tags' = [m \in DOMAIN tags \ {n} |-> d.tags[m]] /\ bitmap' = d.bitmap
      /\ contenido' = contenido /\ hash_index' = d.hash_index
  BY <1>1, <1>3 DEF guardar, DiscoOK
<1>6. DOMAIN tags' = DOMAIN tags \ {n} /\ \A m \in DOMAIN tags' : tags'[m] = tags[m]
  BY <1>3, <1>5 DEF Salvo
<1>7. DiscoBien'
  <2>1. IsFiniteSet(DOMAIN tags')
    BY <1>6, FS_RemoveElement DEF Base, DiscoBien, TagsOK
  <2>2. TagsOK(tags')
    BY <1>6, <2>1 DEF Base, DiscoBien, TagsOK
  <2> QED BY <1>3, <1>5, <2>2 DEF DiscoBien, DiscoOK
<1>8. \A b : Enlazado(tags', b) <=> Enlazado(d.tags, b)
  <2>1. \A m \in DOMAIN d.tags : m # n => m \in DOMAIN tags' /\ tags'[m] = d.tags[m]
    BY <1>3, <1>5 DEF Salvo
  <2>2. \A m \in DOMAIN tags' : m # n /\ m \in DOMAIN d.tags /\ tags'[m] = d.tags[m]
    BY <1>3, <1>5 DEF Salvo
  <2>3. DOMAIN d.tags[n].hl = {}
    BY <1>4
  <2> QED BY <2>1, <2>2, <2>3 DEF Enlazado
<1> QED BY <1>1, <1>3, <1>5, <1>6, <1>7, <1>8 DEF Eliminado, d

\* DELETE changes the File:Tag it names only.
LEMMA PasoELIMINAR ==
  ASSUME Base, NEW n \in Nombres, realizarELIMINAR_UN_TAG(n)
  PROVE  PedidoSobre(n)
<1> DEFINE d == unlinkearTodoParaEliminar(disco, n, Len(tags[n].bloques_logicos))
<1>1. Eliminado(n, d)
  BY TrasELIMINAR
<1> HIDE DEF d
<1>2. ASSUME Punteros(tags), SinFugas(disco), NEW b \in bitmap'
      PROVE  Enlazado(tags', b)
  <2>1. d.bitmap = bitmap \ {x \in Fisicos : Enlazado(tags, x) /\ ~ Enlazado(d.tags, x)}
    BY <1>1, <1>2, DelDisco DEF Eliminado, Liberados
  <2>2. b \in bitmap /\ b \in Fisicos /\ ~ (Enlazado(tags, b) /\ ~ Enlazado(tags', b))
    BY <1>1, <1>2, <2>1 DEF Eliminado, Base, DiscoBien
  <2> QED BY <1>2, <2>2, DelDisco DEF SinFugas
<1>3. /\ DiscoBien' /\ n[1] \in lista_files' /\ UNCHANGED <<lista_files, contenido, caido>>
      /\ DOMAIN tags' \subseteq DOMAIN tags \cup {n}
      /\ \A m \in DOMAIN tags : m # n => m \in DOMAIN tags' /\ tags'[m] = tags[m]
  BY <1>1 DEF Eliminado, Base
<1> QED BY <1>2, <1>3 DEF PedidoSobre, Base

-----------------------------------------------------------------------------
(* The next start, from the disk a restart or a death leaves.              *)

\* A tag as a death may leave it: a link may be missing.
TagEnDisco == [estado : {"WORK_IN_PROGRESS", "COMMITED"}, tamanio : Nat,
               BLOCKS : Seq(Fisicos), bloques_logicos : Seq(Fisicos),
               hl : Seq(Fisicos \cup {SIN_ENLACE})]

\* A disk the next start can read.
DiscoLegible(d) ==
  /\ DOMAIN d = {"tags", "bitmap", "contenido", "hash_index"}
  /\ DOMAIN d.tags \subseteq Nombres /\ IsFiniteSet(DOMAIN d.tags)
  /\ \A m \in DOMAIN d.tags : d.tags[m] \in TagEnDisco
  /\ d.contenido \in [Fisicos -> Datos] /\ IndiceOK(d.hash_index)

\* A disk nobody died on can be read by the next start.
LEMMA TodoLegible ==
  ASSUME NEW d, DiscoOK(d)
  PROVE  DiscoLegible(d)
<1>1. ASSUME NEW m \in DOMAIN d.tags PROVE d.tags[m] \in TagEnDisco
  <2>1. d.tags[m] \in Tag
    BY DEF DiscoOK, TagsOK
  <2>2. d.tags[m].hl \in Seq(Fisicos \cup {SIN_ENLACE})
    BY <2>1, SecuenciaDe DEF Tag
  <2> QED BY <2>1, <2>2 DEF Tag, TagEnDisco
<1> QED BY <1>1 DEF DiscoOK, DiscoLegible, TagsOK

\* r is what the next start makes of d.
Recuperado(d, r) ==
  /\ DiscoOK(r) /\ r.contenido = d.contenido /\ r.hash_index = d.hash_index
  /\ DOMAIN r.tags = DOMAIN d.tags
  /\ \A m \in DOMAIN d.tags :
       /\ r.tags[m].estado = d.tags[m].estado /\ r.tags[m].tamanio = d.tags[m].tamanio
       /\ r.tags[m].BLOCKS = d.tags[m].BLOCKS
       /\ r.tags[m].bloques_logicos = d.tags[m].BLOCKS
       /\ d.tags[m].hl = d.tags[m].BLOCKS => r.tags[m].hl = d.tags[m].BLOCKS
  /\ \A b \in Fisicos : b \in r.bitmap <=> Enlazado(r.tags, b)

\* reconstruir of a disk that can be read leaves what Recuperado says.
LEMMA Reconstruir ==
  ASSUME NEW d, DiscoLegible(d)
  PROVE  Recuperado(d, reconstruir(d))
<1> DEFINE enlazar(t) == [i \in DOMAIN t.BLOCKS |->
                           IF i \in DOMAIN t.hl /\ t.hl[i] # SIN_ENLACE
                           THEN t.hl[i] ELSE t.BLOCKS[i]]
           ts == [n \in DOMAIN d.tags |->
                    [d.tags[n] EXCEPT !.bloques_logicos = d.tags[n].BLOCKS,
                                      !.hl = enlazar(d.tags[n])]]
           r == reconstruir(d)
<1>1. r = [d EXCEPT !.tags = ts, !.bitmap = reconstruirBitmapDesdeHardlinks(ts)]
  BY DEF reconstruir
<1>2. ASSUME NEW m \in DOMAIN d.tags
      PROVE  LET t == d.tags[m]
                 u == ts[m]
             IN  /\ u \in Tag /\ Len(u.hl) = Len(u.BLOCKS) /\ u.bloques_logicos = u.BLOCKS
                 /\ u.estado = t.estado /\ u.tamanio = t.tamanio /\ u.BLOCKS = t.BLOCKS
                 /\ t.hl = t.BLOCKS => u.hl = t.BLOCKS
  <2> DEFINE t == d.tags[m]
             h == enlazar(t)
             u == [t EXCEPT !.bloques_logicos = t.BLOCKS, !.hl = h]
  <2>1. ts[m] = u /\ t \in TagEnDisco
    BY DEF DiscoLegible
  <2> HIDE DEF t
  <2>2. t.BLOCKS \in Seq(Fisicos) /\ t.hl \in Seq(Fisicos \cup {SIN_ENLACE})
    BY <2>1 DEF TagEnDisco
  <2>3. \A i \in DOMAIN t.BLOCKS : h[i] \in Fisicos
    BY <2>2
  <2>4. h \in Seq(Fisicos) /\ Len(h) = Len(t.BLOCKS)
    <3>1. DOMAIN h = 1 .. Len(t.BLOCKS) /\ Len(t.BLOCKS) \in Nat
      BY <2>2
    <3>2. h \in [1 .. Len(t.BLOCKS) -> Fisicos]
      BY <2>3, <3>1
    <3> HIDE DEF h
    <3> QED BY <3>1, <3>2, SeqDef
  <2>5. t.hl = t.BLOCKS => h = t.BLOCKS
    <3> SUFFICES ASSUME t.hl = t.BLOCKS PROVE h = t.BLOCKS
      OBVIOUS
    <3>1. \A i \in DOMAIN t.BLOCKS : h[i] = t.BLOCKS[i]
      OBVIOUS
    <3>2. \A i \in 1 .. Len(h) : h[i] = t.BLOCKS[i]
      BY <2>2, <3>1
    <3> HIDE DEF h
    <3> QED BY <2>2, <2>4, <3>2, SeqEqual
  <2> HIDE DEF h
  <2>6. /\ u.hl = h /\ u.bloques_logicos = t.BLOCKS /\ u.BLOCKS = t.BLOCKS
        /\ u.estado = t.estado /\ u.tamanio = t.tamanio /\ u \in Tag
    BY <2>1, <2>2, <2>4 DEF TagEnDisco, Tag
  <2> HIDE DEF u, ts
  <2> QED BY <2>1, <2>4, <2>5, <2>6 DEF t
<1>3. DOMAIN ts = DOMAIN d.tags
  OBVIOUS
<1> HIDE DEF ts, r
<1>4. TagsOK(ts)
  <2>1. ASSUME NEW m \in DOMAIN ts
        PROVE  /\ ts[m] \in Tag /\ Len(ts[m].hl) = Len(ts[m].bloques_logicos)
               /\ Len(ts[m].bloques_logicos) <= Len(ts[m].BLOCKS)
    <3>1. /\ ts[m] \in Tag /\ Len(ts[m].hl) = Len(ts[m].BLOCKS)
          /\ ts[m].bloques_logicos = ts[m].BLOCKS
      BY <1>2, <1>3
    <3>2. Len(ts[m].BLOCKS) \in Nat
      BY <3>1 DEF Tag
    <3> QED BY <3>1, <3>2
  <2> QED BY <1>3, <2>1 DEF TagsOK, DiscoLegible
<1>5. /\ DOMAIN r = {"tags", "bitmap", "contenido", "hash_index"}
      /\ r.tags = ts /\ r.contenido = d.contenido /\ r.hash_index = d.hash_index
      /\ r.bitmap = {b \in Fisicos : tieneHLinks(ts, b)}
  BY <1>1 DEF DiscoLegible, reconstruirBitmapDesdeHardlinks
<1>6. \A b \in Fisicos : b \in r.bitmap <=> Enlazado(ts, b)
  BY <1>4, <1>5, EnlazadoOK
<1>7. DiscoOK(r)
  BY <1>4, <1>5 DEF DiscoOK, DiscoLegible
<1> QED BY <1>2, <1>3, <1>5, <1>6, <1>7 DEF Recuperado, r

\* A start: nothing is reserved that is not linked.
Arranque ==
  /\ DiscoBien' /\ lista_files \subseteq lista_files'
  /\ lista_files' \subseteq {n[1] : n \in Nombres}
  /\ \A n \in DOMAIN tags' : n[1] \in lista_files'
  /\ caido' \in BOOLEAN
  /\ \A b \in bitmap' : Enlazado(tags', b)

\* What a start makes of a disk keeps Base and SinFuga.
LEMMA Arrancar ==
  ASSUME NEW d, DiscoLegible(d), guardar(reconstruir(d))
  PROVE  /\ DiscoBien' /\ DOMAIN tags' = DOMAIN d.tags
         /\ \A b \in bitmap' : Enlazado(tags', b)
<1> DEFINE r == reconstruir(d)
<1>1. Recuperado(d, r)
  BY Reconstruir
<1>2. tags' = r.tags /\ bitmap' = r.bitmap
  BY DEF guardar
<1> HIDE DEF r
<1>3. DiscoBien'
  BY <1>1, Guardado DEF Recuperado, r
<1> QED BY <1>1, <1>2, <1>3 DEF Recuperado, DiscoOK

\* A restart between two requests.
LEMMA PasoRECONSTRUCCION ==
  ASSUME Base, RECONSTRUCCION
  PROVE  Arranque
<1>1. DiscoOK(disco) /\ guardar(reconstruir(disco)) /\ disco.tags = tags
      /\ UNCHANGED lista_files /\ caido' = FALSE
  BY DelDisco DEF Base, RECONSTRUCCION
<1>2. DiscoLegible(disco)
  BY <1>1, TodoLegible
<1> QED BY <1>1, <1>2, Arrancar DEF Arranque, Base

-----------------------------------------------------------------------------
(* The disks a death inside a request can leave.                           *)

\* A disk that can be read, less what changed of n.
LEMMA LegibleSalvo ==
  ASSUME NEW d, DiscoLegible(d), NEW n \in DOMAIN d.tags, NEW e,
         DOMAIN e = DOMAIN d, Salvo(d.tags, e.tags, n), e.tags[n] \in TagEnDisco,
         e.contenido = d.contenido, e.hash_index = d.hash_index
  PROVE  DiscoLegible(e)
<1>1. /\ DOMAIN e.tags = DOMAIN d.tags
      /\ \A m \in DOMAIN d.tags : m = n \/ e.tags[m] = d.tags[m]
  BY DEF Salvo
<1>2. \A m \in DOMAIN e.tags : e.tags[m] \in TagEnDisco
  BY <1>1 DEF DiscoLegible
<1> QED BY <1>1, <1>2 DEF DiscoLegible

\* A link made by hand keeps the disk readable.
LEMMA ConEnlace ==
  ASSUME NEW t \in TagEnDisco, NEW i \in DOMAIN t.hl, NEW b \in Fisicos \cup {SIN_ENLACE}
  PROVE  [t EXCEPT !.hl[i] = b] \in TagEnDisco
<1> DEFINE h == [t.hl EXCEPT ![i] = b]
<1>1. t.hl \in Seq(Fisicos \cup {SIN_ENLACE})
  BY DEF TagEnDisco
<1>2. h \in Seq(Fisicos \cup {SIN_ENLACE})
  BY <1>1, ExceptSeq
<1>3. [t EXCEPT !.hl[i] = b] = [t EXCEPT !.hl = h]
  BY DEF TagEnDisco
<1> HIDE DEF h
<1> QED BY <1>2, <1>3 DEF TagEnDisco

\* Any of the disks reapuntarBloque goes through can be read.
LEMMA ReapunteAMedias ==
  ASSUME NEW d, DiscoOK(d), NEW n \in DOMAIN d.tags,
         NEW i \in DOMAIN d.tags[n].bloques_logicos, NEW b \in Fisicos,
         NEW e \in reapunteParcial(d, n, i, b)
  PROVE  DiscoLegible(e) /\ DOMAIN e.tags = DOMAIN d.tags
<1> DEFINE t == d.tags[n]
           roto == [d EXCEPT !.tags[n].hl[i] = SIN_ENLACE]
           enlazado == [d EXCEPT !.tags[n].hl[i] = b]
           anotado == [enlazado EXCEPT !.tags[n].BLOCKS[i] = b]
           u == [t EXCEPT !.hl[i] = b]
           v == [u EXCEPT !.BLOCKS[i] = b]
<1>1. DiscoLegible(d) /\ t \in TagEnDisco
  BY TodoLegible DEF DiscoLegible
<1>2. t \in Tag /\ Len(t.hl) = Len(t.bloques_logicos)
      /\ Len(t.bloques_logicos) <= Len(t.BLOCKS)
  BY DEF DiscoOK, TagsOK
<1>3. i \in DOMAIN t.hl /\ i \in DOMAIN t.BLOCKS
  <2>1. i \in DOMAIN t.bloques_logicos
    OBVIOUS
  <2> HIDE DEF t
  <2>2. /\ t.hl \in Seq(Fisicos) /\ t.BLOCKS \in Seq(Fisicos)
        /\ t.bloques_logicos \in Seq(Fisicos)
    BY <1>2 DEF Tag
  <2>3. /\ DOMAIN t.hl = 1 .. Len(t.hl) /\ DOMAIN t.BLOCKS = 1 .. Len(t.BLOCKS)
        /\ DOMAIN t.bloques_logicos = 1 .. Len(t.bloques_logicos)
        /\ Len(t.BLOCKS) \in Nat /\ Len(t.bloques_logicos) \in Nat
    BY <2>2
  <2> QED BY <1>2, <2>1, <2>3
<1>4. e \in {roto, enlazado, anotado}
  BY DEF reapunteParcial
<1>5. CASE e = roto
  <2> DEFINE w == [t EXCEPT !.hl[i] = SIN_ENLACE]
  <2>1. /\ DOMAIN roto = DOMAIN d /\ Salvo(d.tags, roto.tags, n)
        /\ roto.tags[n] = w
        /\ roto.contenido = d.contenido /\ roto.hash_index = d.hash_index
    BY DEF DiscoOK, Salvo
  <2>2. w \in TagEnDisco
    <3> HIDE DEF t
    <3> QED BY <1>1, <1>3, ConEnlace
  <2> HIDE DEF roto, w
  <2> QED BY <1>1, <1>5, <2>1, <2>2, LegibleSalvo DEF Salvo
<1>6. u \in TagEnDisco
  <2> HIDE DEF t
  <2> QED BY <1>1, <1>3, ConEnlace
<1>7. /\ DOMAIN enlazado = DOMAIN d /\ Salvo(d.tags, enlazado.tags, n)
      /\ enlazado.tags[n] = u
      /\ enlazado.contenido = d.contenido /\ enlazado.hash_index = d.hash_index
  BY DEF DiscoOK, Salvo
<1>8. u.BLOCKS = t.BLOCKS
  BY <1>2 DEF Tag
<1> HIDE DEF enlazado, u
<1>9. CASE e = enlazado
  BY <1>1, <1>6, <1>7, <1>9, LegibleSalvo DEF Salvo
<1>10. CASE e = anotado
  <2>1. /\ DOMAIN anotado = DOMAIN d /\ Salvo(d.tags, anotado.tags, n)
        /\ anotado.tags[n] = v
        /\ anotado.contenido = d.contenido /\ anotado.hash_index = d.hash_index
    BY <1>7 DEF DiscoOK, Salvo
  <2>2. v \in TagEnDisco
    <3> DEFINE B == [u.BLOCKS EXCEPT ![i] = b]
    <3>1. u.BLOCKS \in Seq(Fisicos) /\ i \in DOMAIN u.BLOCKS
      BY <1>3, <1>6, <1>8 DEF TagEnDisco
    <3>2. B \in Seq(Fisicos)
      BY <3>1, ExceptSeq
    <3>3. v = [u EXCEPT !.BLOCKS = B]
      BY <1>6 DEF TagEnDisco
    <3> HIDE DEF B
    <3> QED BY <1>6, <3>2, <3>3 DEF TagEnDisco
  <2> HIDE DEF anotado, v
  <2> QED BY <1>1, <1>10, <2>1, <2>2, LegibleSalvo DEF Salvo
<1> QED BY <1>4, <1>5, <1>9, <1>10

\* Dying leaves one of these disks, and what is found in it is a start.
LEMMA Caer ==
  ASSUME Base, NEW n, NEW uso, NEW discos, caer(n, uso, discos),
         \A d \in discos : DiscoLegible(d) /\ DOMAIN d.tags \subseteq DOMAIN tags \cup {n},
         lista_files \subseteq lista_files',
         lista_files' \subseteq {m[1] : m \in Nombres},
         n \in DOMAIN tags \/ n[1] \in lista_files'
  PROVE  Arranque
<1>1. PICK d \in discos : guardar(reconstruir(d))
  BY DEF caer
<1>2. /\ DiscoBien' /\ DOMAIN tags' = DOMAIN d.tags
      /\ \A b \in bitmap' : Enlazado(tags', b)
  BY <1>1, Arrancar
<1>3. \A m \in DOMAIN tags' : m[1] \in lista_files'
  BY <1>1, <1>2 DEF Base
<1> QED BY <1>2, <1>3 DEF Arranque, caer, Base

\* A death inside a WRITE.
LEMMA PasoCaidaEnWRITE ==
  ASSUME Base, NEW n \in Nombres, NEW i, caidaEnWRITE(n, i)
  PROVE  Arranque
<1>1. /\ n \in DOMAIN tags /\ i \in DOMAIN tags[n].bloques_logicos
      /\ UNCHANGED lista_files /\ DiscoOK(disco) /\ disco.tags = tags
  BY DelDisco DEF caidaEnWRITE, existe, Base
<1>2. PICK b \in BloqueFisicoLibre : caer(n, "WRITE", reapunteParcial(disco, n, i, b))
  BY DEF caidaEnWRITE
<1>3. b \in Fisicos
  BY DEF BloqueFisicoLibre
<1>4. \A e \in reapunteParcial(disco, n, i, b) :
        DiscoLegible(e) /\ DOMAIN e.tags \subseteq DOMAIN tags \cup {n}
  BY <1>1, <1>3, ReapunteAMedias
<1> DEFINE discos == reapunteParcial(disco, n, i, b)
<1> HIDE DEF discos
<1>5. caer(n, "WRITE", discos)
      /\ \A e \in discos : DiscoLegible(e) /\ DOMAIN e.tags \subseteq DOMAIN tags \cup {n}
  BY <1>2, <1>4 DEF discos
<1> QED BY <1>1, <1>5, Caer DEF Base

\* The disk after some turns of a COMMIT.
LEMMA Indexados ==
  ASSUME NEW d, DiscoOK(d), NEW n \in DOMAIN d.tags,
         NEW k \in 0 .. Len(d.tags[n].bloques_logicos)
  PROVE  LET r == indexarBloques(d, n, k)
         IN  /\ DiscoOK(r) /\ Salvo(d.tags, r.tags, n) /\ r.contenido = d.contenido
             /\ Len(r.tags[n].bloques_logicos) = Len(d.tags[n].bloques_logicos)
<1>1. PICK f : TrazaDeIndexar(f, d, n, k)
  BY TrasIndexar
<1>2. k \in 0 .. k
  BY DEF DiscoOK, TagsOK, Tag
<1> QED BY <1>1, <1>2 DEF TrazaDeIndexar

\* A death inside a COMMIT.
LEMMA PasoCaidaEnCOMMIT ==
  ASSUME Base, NEW n \in Nombres, caidaEnCOMMIT(n)
  PROVE  Arranque
<1> DEFINE indexados(j) == indexarBloques(disco, n, j)
           aMedias(d, i) ==
             LET h == d.contenido[d.tags[n].bloques_logicos[i]]
             IN IF h \in DOMAIN d.hash_index /\ d.tags[n].bloques_logicos[i] # 0
                THEN reapunteParcial(d, n, i, d.hash_index[h]) ELSE {}
           bloques == DOMAIN tags[n].bloques_logicos
           N == Len(tags[n].bloques_logicos)
           discos == {indexados(j) : j \in bloques} \cup
                     UNION {aMedias(indexados(i - 1), i) : i \in bloques}
<1>1. /\ n \in DOMAIN tags /\ UNCHANGED lista_files /\ DiscoOK(disco) /\ disco.tags = tags
  BY DelDisco DEF caidaEnCOMMIT, existe, Base
<1>2. caer(n, "COMMIT", discos)
  BY DEF caidaEnCOMMIT
<1>3. bloques = 1 .. N /\ N \in Nat
  BY <1>1 DEF Base, DiscoBien, TagsOK, Tag
<1>4. ASSUME NEW j \in 0 .. N
      PROVE  /\ DiscoOK(indexados(j)) /\ DOMAIN indexados(j).tags = DOMAIN tags
             /\ Len(indexados(j).tags[n].bloques_logicos) = N
  <2>1. j \in 0 .. Len(disco.tags[n].bloques_logicos)
    BY <1>1
  <2> QED BY <1>1, <2>1, Indexados DEF Salvo
<1>5. ASSUME NEW j \in bloques
      PROVE  /\ DiscoLegible(indexados(j))
             /\ DOMAIN indexados(j).tags \subseteq DOMAIN tags \cup {n}
  <2>1. j \in 0 .. N
    BY <1>3
  <2> HIDE DEF indexados
  <2> QED BY <1>4, <2>1, TodoLegible
<1>6. ASSUME NEW i \in bloques, NEW e \in aMedias(indexados(i - 1), i)
      PROVE  DiscoLegible(e) /\ DOMAIN e.tags \subseteq DOMAIN tags \cup {n}
  <2> DEFINE d == indexados(i - 1)
             b == d.hash_index[d.contenido[d.tags[n].bloques_logicos[i]]]
  <2>1. i - 1 \in 0 .. N /\ i \in 1 .. N
    BY <1>3
  <2>2. DiscoOK(d) /\ DOMAIN d.tags = DOMAIN tags /\ Len(d.tags[n].bloques_logicos) = N
    BY <1>4, <2>1
  <2>3. /\ d.contenido[d.tags[n].bloques_logicos[i]] \in DOMAIN d.hash_index
        /\ e \in reapunteParcial(d, n, i, b)
    OBVIOUS
  <2> HIDE DEF d
  <2>4. i \in DOMAIN d.tags[n].bloques_logicos
    <3>1. d.tags[n].bloques_logicos \in Seq(Fisicos)
      BY <1>1, <2>2 DEF DiscoOK, TagsOK, Tag
    <3> QED BY <2>1, <2>2, <3>1
  <2>5. b \in Fisicos
    BY <2>2, <2>3 DEF DiscoOK, IndiceOK
  <2> HIDE DEF b
  <2> QED BY <1>1, <2>2, <2>3, <2>4, <2>5, ReapunteAMedias
<1>7. \A e \in discos : DiscoLegible(e) /\ DOMAIN e.tags \subseteq DOMAIN tags \cup {n}
  <2> HIDE DEF indexados, aMedias, bloques
  <2> QED BY <1>5, <1>6
<1> HIDE DEF discos
<1> QED BY <1>1, <1>2, <1>7, Caer DEF Base

\* A death inside a TRUNCATE to more.
LEMMA PasoCaidaEnAgrandar ==
  ASSUME Base, NEW n \in Nombres, NEW tam \in Tamanios, caidaEnAgrandar(n, tam)
  PROVE  Arranque
<1> DEFINE k == (tam - tags[n].tamanio) \div TamanioBloque
           ceros == [i \in 1 .. k |-> 0]
           d == [disco EXCEPT !.tags[n].BLOCKS = @ \o ceros, !.tags[n].hl = @ \o ceros]
           t == tags[n]
           B == t.BLOCKS \o ceros
           h == t.hl \o ceros
           u == [t EXCEPT !.BLOCKS = B, !.hl = h]
<1>1. /\ n \in DOMAIN tags /\ UNCHANGED lista_files /\ DiscoOK(disco) /\ disco.tags = tags
      /\ tags[n].tamanio < tam
  BY DelDisco DEF caidaEnAgrandar, existe, Base
<1>2. caer(n, "TRUNCATE_MAS", {d})
  BY DEF caidaEnAgrandar
<1>3. DiscoLegible(disco) /\ t \in TagEnDisco /\ t \in Tag
  BY <1>1, TodoLegible DEF DiscoLegible, DiscoOK, TagsOK
<1>4. k \in Nat
  <2>1. tam - tags[n].tamanio \in Nat /\ TamanioBloque \in Nat \ {0}
    BY <1>1, <1>3, StorageAssumption DEF Tag
  <2> QED BY <2>1, CocienteNatural
<1> HIDE DEF k
<1>5. B \in Seq(Fisicos) /\ h \in Seq(Fisicos)
  BY <1>3, <1>4, ConCeros DEF Tag
<1>6. /\ DOMAIN d = DOMAIN disco /\ Salvo(disco.tags, d.tags, n)
      /\ d.tags[n] = u
      /\ d.contenido = disco.contenido /\ d.hash_index = disco.hash_index
  <2>1. d.tags = [tags EXCEPT ![n] = u]
    BY <1>1, <1>3 DEF disco, TagEnDisco
  <2>2. DOMAIN d = DOMAIN disco /\ d.contenido = disco.contenido
        /\ d.hash_index = disco.hash_index
    BY DEF disco
  <2> HIDE DEF d, u
  <2> QED BY <1>1, <2>1, <2>2 DEF Salvo
<1>7. u \in TagEnDisco
  <2>1. h \in Seq(Fisicos \cup {SIN_ENLACE})
    <3> HIDE DEF h
    <3> QED BY <1>5, SecuenciaDe
  <2> HIDE DEF B, h
  <2> QED BY <1>3, <1>5, <2>1 DEF TagEnDisco
<1> HIDE DEF d, u
<1>8. DiscoLegible(d) /\ DOMAIN d.tags = DOMAIN tags
  BY <1>1, <1>3, <1>6, <1>7, LegibleSalvo DEF Salvo
<1> QED BY <1>1, <1>2, <1>8, Caer DEF Base

\* A death inside a TRUNCATE to less.
LEMMA PasoCaidaEnAchicar ==
  ASSUME Base, NEW n \in Nombres, NEW tam \in Tamanios, caidaEnAchicar(n, tam)
  PROVE  Arranque
<1> DEFINE k == (tags[n].tamanio - tam) \div TamanioBloque
           hay == Len(tags[n].bloques_logicos)
           turnos == {j \in 1 .. k : j <= hay}
           discos == {unlinkearBloquesLogicos(disco, n, j) : j \in turnos}
<1>1. /\ n \in DOMAIN tags /\ UNCHANGED lista_files /\ DiscoOK(disco) /\ disco.tags = tags
  BY DelDisco DEF caidaEnAchicar, existe, Base
<1>2. caer(n, "TRUNCATE_MENOS", discos)
  BY DEF caidaEnAchicar
<1>3. hay \in Nat
  BY <1>1 DEF Base, DiscoBien, TagsOK, Tag
<1>4. ASSUME NEW j \in turnos
      PROVE  LET e == unlinkearBloquesLogicos(disco, n, j)
             IN DiscoLegible(e) /\ DOMAIN e.tags \subseteq DOMAIN tags \cup {n}
  <2>1. j \in 0 .. Len(disco.tags[n].bloques_logicos)
    BY <1>1, <1>3
  <2> QED BY <1>1, <2>1, TrasUnlinkear, TodoLegible DEF Salvo
<1>5. \A e \in discos : DiscoLegible(e) /\ DOMAIN e.tags \subseteq DOMAIN tags \cup {n}
  <2> HIDE DEF turnos
  <2> QED BY <1>4
<1> HIDE DEF discos
<1> QED BY <1>1, <1>2, <1>5, Caer DEF Base

\* A death inside a CREATE or a TAG.
LEMMA PasoCaidaEnAlta ==
  ASSUME Base, NEW o \in Nombres, NEW n \in Nombres, caidaEnAlta(o, n)
  PROVE  Arranque
<1>1. DiscoOK(disco) /\ disco.tags = tags /\ DiscoLegible(disco)
  BY DelDisco, TodoLegible DEF Base
<1>2. CASE caer(n, "CREATE", {disco}) /\ lista_files' = lista_files \cup {n[1]}
  BY <1>1, <1>2, Caer DEF Base
<1>3. CASE /\ caer(n, "TAG", {[disco EXCEPT !.tags = conEntrada(@, n, TagNuevo(0, <<>>))]})
           /\ n[1] \in lista_files /\ UNCHANGED lista_files
  <2> DEFINE t == TagNuevo(0, <<>>)
             ts == conEntrada(tags, n, t)
             d == [disco EXCEPT !.tags = conEntrada(@, n, t)]
  <2>1. t \in TagEnDisco
    <3>1. <<>> \in Seq(Fisicos) /\ <<>> \in Seq(Fisicos \cup {SIN_ENLACE}) /\ 0 \in Nat
      OBVIOUS
    <3> QED BY <3>1 DEF TagNuevo, TagEnDisco
  <2>2. /\ DOMAIN d = DOMAIN disco /\ d.tags = ts
        /\ d.contenido = disco.contenido /\ d.hash_index = disco.hash_index
    BY <1>1 DEF disco
  <2> HIDE DEF t
  <2>3. /\ DOMAIN ts = DOMAIN tags \cup {n} /\ ts[n] = t
        /\ \A m \in DOMAIN tags : m # n => ts[m] = tags[m]
    BY DEF conEntrada
  <2> HIDE DEF ts, d
  <2>4. DOMAIN ts \subseteq Nombres /\ IsFiniteSet(DOMAIN ts)
    BY <2>3, FS_AddElement DEF Base, DiscoBien, TagsOK
  <2>5. \A m \in DOMAIN ts : ts[m] \in TagEnDisco
    BY <1>1, <2>1, <2>3 DEF DiscoLegible
  <2>6. DiscoLegible(d)
    BY <1>1, <2>2, <2>4, <2>5 DEF DiscoLegible
  <2>7. caer(n, "TAG", {d})
    BY <1>3 DEF d, t
  <2> QED BY <1>3, <2>2, <2>3, <2>6, <2>7, Caer DEF Base
<1> QED BY <1>2, <1>3 DEF caidaEnAlta

\* A death inside a DELETE.
LEMMA PasoCaidaEnELIMINAR ==
  ASSUME Base, NEW n \in Nombres, caidaEnELIMINAR(n)
  PROVE  Arranque
<1> DEFINE hay == Len(tags[n].bloques_logicos)
           unlinkeados(j) == unlinkearTodoParaEliminar(disco, n, j)
           vacio == [unlinkeados(hay) EXCEPT !.tags[n] = TagNuevo(0, <<>>)]
           discos == {unlinkeados(j) : j \in 1 .. hay} \cup {vacio}
<1>1. /\ n \in DOMAIN tags /\ UNCHANGED lista_files /\ DiscoOK(disco) /\ disco.tags = tags
  BY DelDisco DEF caidaEnELIMINAR, existe, Base
<1>2. caer(n, "DELETE", discos)
  BY DEF caidaEnELIMINAR
<1>3. hay \in Nat
  BY <1>1 DEF Base, DiscoBien, TagsOK, Tag
<1>4. ASSUME NEW k \in 0 .. hay
      PROVE  DiscoOK(unlinkeados(k)) /\ DOMAIN unlinkeados(k).tags = DOMAIN tags
  <2>1. k \in 0 .. Len(disco.tags[n].bloques_logicos) /\ k \in 0 .. k
    BY <1>1, <1>3
  <2>2. PICK f : TrazaDeEliminar(f, disco, n, k)
    BY <1>1, <2>1, TrasParaEliminar
  <2> QED BY <1>1, <2>1, <2>2 DEF TrazaDeEliminar, Salvo
<1>5. DiscoLegible(vacio) /\ DOMAIN vacio.tags = DOMAIN tags
  <2> DEFINE d == unlinkeados(hay)
             t == TagNuevo(0, <<>>)
  <2>1. DiscoOK(d) /\ DOMAIN d.tags = DOMAIN tags
    BY <1>3, <1>4
  <2>2. t \in TagEnDisco
    <3>1. <<>> \in Seq(Fisicos) /\ <<>> \in Seq(Fisicos \cup {SIN_ENLACE}) /\ 0 \in Nat
      OBVIOUS
    <3> QED BY <3>1 DEF TagNuevo, TagEnDisco
  <2>3. DiscoLegible(d)
    <3> HIDE DEF d
    <3> QED BY <2>1, TodoLegible
  <2> HIDE DEF d, t
  <2>4. vacio = [d EXCEPT !.tags[n] = t]
    BY DEF d, t
  <2> HIDE DEF vacio
  <2>5. /\ DOMAIN vacio = DOMAIN d /\ Salvo(d.tags, vacio.tags, n) /\ vacio.tags[n] = t
        /\ vacio.contenido = d.contenido /\ vacio.hash_index = d.hash_index
    BY <1>1, <2>1, <2>3, <2>4 DEF Salvo, DiscoLegible
  <2> QED BY <1>1, <2>1, <2>2, <2>3, <2>5, LegibleSalvo DEF Salvo
<1>6. \A e \in discos : DiscoLegible(e) /\ DOMAIN e.tags \subseteq DOMAIN tags \cup {n}
  <2>1. ASSUME NEW j \in 1 .. hay
        PROVE  DiscoLegible(unlinkeados(j)) /\ DOMAIN unlinkeados(j).tags = DOMAIN tags
    <3>1. j \in 0 .. hay
      BY <1>3
    <3> HIDE DEF unlinkeados
    <3> QED BY <1>4, <3>1, TodoLegible
  <2> HIDE DEF unlinkeados, vacio
  <2> QED BY <1>5, <2>1
<1> HIDE DEF discos
<1> QED BY <1>1, <1>2, <1>6, Caer DEF Base

\* A death inside a request.
LEMMA PasoCAIDA ==
  ASSUME Base, CAIDA
  PROVE  Arranque
BY PasoCaidaEnWRITE, PasoCaidaEnCOMMIT, PasoCaidaEnAgrandar, PasoCaidaEnAchicar,
   PasoCaidaEnAlta, PasoCaidaEnELIMINAR DEF CAIDA

-----------------------------------------------------------------------------
(* The theorems.                                                           *)

\* Storage starts in Base.
LEMMA InicioBase == Init => Base
<1> SUFFICES ASSUME Init PROVE Base
  OBVIOUS
<1> DEFINE t == [estado |-> "COMMITED", tamanio |-> 0, BLOCKS |-> <<0>>,
                 bloques_logicos |-> <<0>>, hl |-> <<0>>]
<1>1. <<0>> \in Seq(Fisicos) /\ Len(<<0>>) = 1
  BY HayCero
<1>2. /\ t \in Tag /\ Len(t.hl) = Len(t.bloques_logicos)
      /\ Len(t.bloques_logicos) <= Len(t.BLOCKS)
  BY <1>1 DEF Tag
<1>3. tags = [n \in {Inicial} |-> t]
  BY DEF Init
<1> HIDE DEF t
<1>4. TagsOK(tags)
  BY <1>2, <1>3, StorageAssumption, FS_Singleton DEF TagsOK
<1>5. contenido \in [Fisicos -> Datos] /\ bitmap \subseteq Fisicos /\ IndiceOK(hash_index)
  BY HayCero DEF Init, IndiceOK
<1> QED BY <1>3, <1>4, <1>5, StorageAssumption DEF Init, Base, DiscoBien

\* Every request changes the File:Tag it names only.
LEMMA PasoPedido ==
  ASSUME Base, NEW n \in Nombres, pedidoDeLaburante(n)
  PROVE  PedidoSobre(n)
<1>1. \/ realizarCREATE(n)
      \/ \E tam \in Tamanios : agrandarEnTruncate(n, tam)
      \/ \E tam \in Tamanios : ferConLaMexicana(n, tam)
      \/ \E o \in Nombres : realizarTAG(o, n)
      \/ realizarCOMMIT(n)
      \/ \E i \in 1 .. MaxBLOCKS, c \in Contenidos : realizarWRITE(n, i, c)
      \/ realizarELIMINAR_UN_TAG(n)
  BY DEF pedidoDeLaburante
<1>2. CASE realizarCREATE(n)
  BY <1>2, PasoCREATE
<1>3. CASE \E tam \in Tamanios : agrandarEnTruncate(n, tam)
  BY <1>3, PasoAgrandar
<1>4. CASE \E tam \in Tamanios : ferConLaMexicana(n, tam)
  BY <1>4, TrasFerConLaMexicana, PasoAchicar
<1>5. CASE \E o \in Nombres : realizarTAG(o, n)
  BY <1>5, PasoTAG
<1>6. CASE realizarCOMMIT(n)
  BY <1>6, PasoCOMMIT
<1>7. CASE \E i \in 1 .. MaxBLOCKS, c \in Contenidos : realizarWRITE(n, i, c)
  <2>1. PICK i \in 1 .. MaxBLOCKS : \E c \in Contenidos : realizarWRITE(n, i, c)
    BY <1>7
  <2>2. i \in Nat
    BY StorageAssumption
  <2> QED BY <2>1, <2>2, PasoWRITE
<1>8. CASE realizarELIMINAR_UN_TAG(n)
  BY <1>8, PasoELIMINAR
<1> QED BY <1>1, <1>2, <1>3, <1>4, <1>5, <1>6, <1>7, <1>8

\* Base is inductive, deaths included.
LEMMA PasoBase == Base /\ [Next]_vars => Base'
<1> SUFFICES ASSUME Base, [Next]_vars PROVE Base'
  OBVIOUS
<1>1. CASE UNCHANGED vars
  BY <1>1 DEF vars, Base, DiscoBien, TagsOK, IndiceOK
<1>2. CASE (\E n \in Nombres : pedidoDeLaburante(n)) /\ UNCHANGED usos
  <2>1. PICK n \in Nombres : PedidoSobre(n)
    BY <1>2, PasoPedido
  <2> QED BY <1>2, <2>1 DEF PedidoSobre, Base
<1>3. CASE RECONSTRUCCION /\ UNCHANGED usos
  BY <1>3, PasoRECONSTRUCCION DEF Arranque, Base
<1>4. CASE CAIDA /\ UNCHANGED usos
  BY <1>4, PasoCAIDA DEF Arranque, Base
<1> QED BY <1>1, <1>2, <1>3, <1>4 DEF Next

\* Base always holds.
LEMMA BaseSiempre == Spec => []Base
BY InicioBase, PasoBase, PTL DEF Spec

\* Whatever is asked, in any workload and through any death: every File:Tag is
\* of a file storage lists, its hard links and structures match one to one,
\* BLOCKS names at least as many, and every block named anywhere exists.
THEOREM TipoStorage == Spec => []StorageTypeOK
<1>1. Base => StorageTypeOK
  BY DEF Base, DiscoBien, TagsOK, IndiceOK, StorageTypeOK
<1> QED BY <1>1, BaseSiempre, PTL

\* enUso, block by block.
LEMMA EnUso ==
  ASSUME NEW ts, NEW b
  PROVE  b \in UNION {ToSet(ts[n].hl) : n \in DOMAIN ts} <=> Enlazado(ts, b)
BY DEF ToSet, Enlazado

\* SinFuga: no request, restart or death leaves a block reserved with no link.
THEOREM NadaReservadoDeMas == Spec => SinFuga
<1>1. Base /\ [Next]_vars =>
        [PunterosFieles /\ bitmap \subseteq enUso => bitmap' \subseteq enUso']_vars
  <2> SUFFICES ASSUME Base, Next, PunterosFieles, bitmap \subseteq enUso
               PROVE  bitmap' \subseteq enUso'
    OBVIOUS
  <2>1. Punteros(tags) /\ SinFugas(disco)
    BY DelDisco, EnUso DEF PunterosFieles, Punteros, SinFugas, enUso
  <2>2. \A b \in bitmap' : Enlazado(tags', b)
    BY <2>1, PasoPedido, PasoRECONSTRUCCION, PasoCAIDA DEF Next, PedidoSobre, Arranque
  <2> QED BY <2>2, EnUso DEF enUso
<1> QED BY <1>1, BaseSiempre, PTL DEF Spec, SinFuga

\* Aislamiento: while the bitmap is exact and the structures point to what is
\* linked, a request about n leaves every other File:Tag as it was: it makes
\* none, deletes none, and changes neither the metadata of any nor what it reads.
THEOREM TagsAislados == Spec => Aislamiento
<1>1. Base /\ [Next]_vars =>
        [BitmapExacto /\ PunterosFieles =>
           \A n \in Nombres : pedidoDeLaburante(n) =>
             /\ DOMAIN tags' \subseteq DOMAIN tags \cup {n}
             /\ \A m \in DOMAIN tags \ {n} : ~ leeDistinto(m) /\ tags'[m] = tags[m]]_vars
  <2> SUFFICES ASSUME Base, BitmapExacto, PunterosFieles,
                      NEW n \in Nombres, pedidoDeLaburante(n)
               PROVE  /\ DOMAIN tags' \subseteq DOMAIN tags \cup {n}
                      /\ \A m \in DOMAIN tags \ {n} :
                           ~ leeDistinto(m) /\ tags'[m] = tags[m]
    OBVIOUS
  <2>1. PedidoSobre(n)
    BY PasoPedido
  <2>2. Punteros(tags) /\ \A b \in Fisicos : b \in bitmap <=> Enlazado(tags, b)
    BY EnUso DEF PunterosFieles, Punteros, BitmapExacto, enUso
  <2>3. ASSUME NEW m \in DOMAIN tags \ {n}
        PROVE  ~ leeDistinto(m) /\ tags'[m] = tags[m]
    <3>1. m \in DOMAIN tags' /\ tags'[m] = tags[m]
      BY <2>1, <2>3 DEF PedidoSobre
    <3>2. \A i \in DOMAIN tags[m].hl : contenido'[tags[m].hl[i]] = contenido[tags[m].hl[i]]
      BY <2>1, <2>2, <2>3 DEF PedidoSobre
    <3>3. tags[m].hl = tags[m].bloques_logicos
      BY <2>2 DEF Punteros
    <3>4. leidos(m)' = leidos(m)
      BY <3>1, <3>2, <3>3 DEF leidos, realizarREAD
    <3> QED BY <3>1, <3>4 DEF leeDistinto
  <2> QED BY <2>1, <2>3 DEF PedidoSobre
<1> QED BY <1>1, BaseSiempre, PTL DEF Spec, Aislamiento

-----------------------------------------------------------------------------
(* What a death costs.                                                     *)

\* The index says what the blocks hold.
Fieles(co, hi) == \A h \in DOMAIN hi : co[hi[h]] = h

\* What the next start will read of m on the disk d: it trusts BLOCKS.
Leera(d, m) == [i \in DOMAIN d.tags[m].BLOCKS |-> d.contenido[d.tags[m].BLOCKS[i]]]

\* The next start will read of every File:Tag what is read now.
NadaPerdido(d) == DOMAIN d.tags = DOMAIN tags /\ \A m \in DOMAIN tags : Leera(d, m) = leidos(m)

\* A start reads what Leera said.
LEMMA LeidoTrasArrancar ==
  ASSUME NEW d, DiscoLegible(d), guardar(reconstruir(d)), NEW m \in DOMAIN d.tags
  PROVE  m \in DOMAIN tags' /\ leidos(m)' = Leera(d, m)
<1> DEFINE r == reconstruir(d)
<1>1. Recuperado(d, r)
  BY Reconstruir
<1>2. tags' = r.tags /\ contenido' = r.contenido
  BY DEF guardar
<1> HIDE DEF r
<1>3. /\ m \in DOMAIN tags' /\ tags'[m].bloques_logicos = d.tags[m].BLOCKS
      /\ contenido' = d.contenido
  BY <1>1, <1>2 DEF Recuperado
<1> QED BY <1>3 DEF leidos, realizarREAD, Leera

\* A start on a disk that lost nothing.
LEMMA NadieLeeDistinto ==
  ASSUME NEW d, DiscoLegible(d), guardar(reconstruir(d)), NadaPerdido(d),
         NEW m \in DOMAIN tags
  PROVE  ~ leeDistinto(m)
BY LeidoTrasArrancar DEF NadaPerdido, leeDistinto

\* Between two requests, while BLOCKS and the pointers agree, nothing is lost.
LEMMA DiscoEntero ==
  ASSUME BLOCKSFieles
  PROVE  NadaPerdido(disco)
<1>1. disco.tags = tags /\ disco.contenido = contenido
  BY DelDisco
<1> QED BY <1>1 DEF NadaPerdido, Leera, leidos, realizarREAD, BLOCKSFieles

\* The disks of reapuntarBloque: the block is read where it was, or in b.
LEMMA LeeraAMedias ==
  ASSUME NEW d, DiscoOK(d), NEW n \in DOMAIN d.tags,
         NEW i \in DOMAIN d.tags[n].bloques_logicos, NEW b \in Fisicos,
         NEW e \in reapunteParcial(d, n, i, b)
  PROVE  /\ DOMAIN e.tags = DOMAIN d.tags
         /\ \A m \in DOMAIN d.tags : m # n => Leera(e, m) = Leera(d, m)
         /\ \/ Leera(e, n) = Leera(d, n)
            \/ Leera(e, n) = [Leera(d, n) EXCEPT ![i] = d.contenido[b]]
<1> DEFINE t == d.tags[n]
           roto == [d EXCEPT !.tags[n].hl[i] = SIN_ENLACE]
           enlazado == [d EXCEPT !.tags[n].hl[i] = b]
           anotado == [enlazado EXCEPT !.tags[n].BLOCKS[i] = b]
<1>1. t \in Tag /\ t.BLOCKS \in Seq(Fisicos)
  BY DEF DiscoOK, TagsOK, Tag
<1>2. /\ DOMAIN roto.tags = DOMAIN d.tags /\ roto.contenido = d.contenido
      /\ \A m \in DOMAIN d.tags : m # n => roto.tags[m] = d.tags[m]
      /\ roto.tags[n].BLOCKS = t.BLOCKS
  BY <1>1 DEF DiscoOK, Tag
<1>3. /\ DOMAIN enlazado.tags = DOMAIN d.tags /\ enlazado.contenido = d.contenido
      /\ \A m \in DOMAIN d.tags : m # n => enlazado.tags[m] = d.tags[m]
      /\ enlazado.tags[n].BLOCKS = t.BLOCKS
      /\ DOMAIN enlazado = DOMAIN d
      /\ enlazado.tags[n] = [t EXCEPT !.hl[i] = b]
  BY <1>1 DEF DiscoOK, Tag
<1>4. /\ DOMAIN anotado.tags = DOMAIN d.tags /\ anotado.contenido = d.contenido
      /\ \A m \in DOMAIN d.tags : m # n => anotado.tags[m] = d.tags[m]
      /\ anotado.tags[n].BLOCKS = [t.BLOCKS EXCEPT ![i] = b]
  <2> HIDE DEF enlazado
  <2>1. "BLOCKS" \in DOMAIN enlazado.tags[n]
    BY <1>1, <1>3 DEF Tag
  <2> QED BY <1>1, <1>3, <2>1 DEF DiscoOK
<1>5. e \in {roto, enlazado, anotado}
  BY DEF reapunteParcial
<1> HIDE DEF roto, enlazado, anotado
<1>6. CASE e \in {roto, enlazado}
  <2>1. /\ DOMAIN e.tags = DOMAIN d.tags /\ e.contenido = d.contenido
        /\ \A m \in DOMAIN d.tags : e.tags[m].BLOCKS = d.tags[m].BLOCKS
    BY <1>2, <1>3, <1>6
  <2> QED BY <2>1 DEF Leera
<1>7. CASE e = anotado
  <2>1. /\ DOMAIN e.tags = DOMAIN d.tags /\ e.contenido = d.contenido
        /\ \A m \in DOMAIN d.tags : m # n => e.tags[m].BLOCKS = d.tags[m].BLOCKS
        /\ e.tags[n].BLOCKS = [t.BLOCKS EXCEPT ![i] = b]
    BY <1>4, <1>7
  <2>2. Leera(e, n) = [Leera(d, n) EXCEPT ![i] = d.contenido[b]]
    BY <2>1 DEF Leera
  <2> QED BY <2>1, <2>2 DEF Leera
<1> QED BY <1>5, <1>6, <1>7

\* A death inside a WRITE costs the block being written.
LEMMA CostoWRITE ==
  ASSUME Base, BLOCKSFieles, NEW n \in DOMAIN tags, NEW i, caidaEnWRITE(n, i),
         NEW m \in DOMAIN tags, leeDistinto(m)
  PROVE  m = n /\ \E c \in Datos : leidos(n)' = [leidos(n) EXCEPT ![i] = c]
<1>1. /\ i \in DOMAIN tags[n].bloques_logicos
      /\ DiscoOK(disco) /\ disco.tags = tags /\ disco.contenido = contenido
  BY DelDisco DEF caidaEnWRITE, existe, Base
<1>2. PICK b \in BloqueFisicoLibre : caer(n, "WRITE", reapunteParcial(disco, n, i, b))
  BY DEF caidaEnWRITE
<1>3. PICK e \in reapunteParcial(disco, n, i, b) : guardar(reconstruir(e))
  BY <1>2 DEF caer
<1>4. b \in Fisicos /\ contenido[b] \in Datos
  BY <1>1 DEF BloqueFisicoLibre, DiscoOK
<1>5. DiscoLegible(e)
  BY <1>1, <1>4, ReapunteAMedias
<1>6. /\ DOMAIN e.tags = DOMAIN tags
      /\ \A x \in DOMAIN tags : x # n => Leera(e, x) = Leera(disco, x)
      /\ \/ Leera(e, n) = Leera(disco, n)
         \/ Leera(e, n) = [Leera(disco, n) EXCEPT ![i] = contenido[b]]
  BY <1>1, <1>4, LeeraAMedias
<1>7. \A x \in DOMAIN tags : Leera(disco, x) = leidos(x)
  BY DiscoEntero DEF NadaPerdido
<1>8. \A x \in DOMAIN tags : x \in DOMAIN tags' /\ leidos(x)' = Leera(e, x)
  BY <1>3, <1>5, <1>6, LeidoTrasArrancar
<1>9. leidos(m)' # leidos(m)
  BY <1>8 DEF leeDistinto
<1> HIDE DEF leidos
<1>10. m = n /\ Leera(e, n) # Leera(disco, n)
  BY <1>6, <1>7, <1>8, <1>9
<1>11. leidos(n)' = [leidos(n) EXCEPT ![i] = contenido[b]]
  BY <1>6, <1>7, <1>8, <1>10
<1> QED BY <1>4, <1>10, <1>11

\* A death inside a DELETE costs nothing, or the File:Tag being deleted.
LEMMA CostoELIMINAR ==
  ASSUME Base, BLOCKSFieles, NEW n \in DOMAIN tags, caidaEnELIMINAR(n),
         NEW m \in DOMAIN tags, leeDistinto(m)
  PROVE  m = n /\ leidos(n)' = <<>>
<1> DEFINE hay == Len(tags[n].bloques_logicos)
           unlinkeados(j) == unlinkearTodoParaEliminar(disco, n, j)
           t == TagNuevo(0, <<>>)
           vacio == [unlinkeados(hay) EXCEPT !.tags[n] = t]
           discos == {unlinkeados(j) : j \in 1 .. hay} \cup {vacio}
<1>1. DiscoOK(disco) /\ disco.tags = tags /\ disco.contenido = contenido
  BY DelDisco DEF Base
<1>2. caer(n, "DELETE", discos)
  BY DEF caidaEnELIMINAR
<1>3. hay \in Nat
  BY <1>1 DEF Base, DiscoBien, TagsOK, Tag
<1>4. ASSUME NEW k \in 0 .. hay
      PROVE  /\ DiscoOK(unlinkeados(k)) /\ NadaPerdido(unlinkeados(k))
  <2>1. k \in 0 .. Len(disco.tags[n].bloques_logicos) /\ k \in 0 .. k
    BY <1>1, <1>3
  <2>2. PICK f : TrazaDeEliminar(f, disco, n, k)
    BY <1>1, <2>1, TrasParaEliminar
  <2>3. /\ DiscoOK(f[k]) /\ DOMAIN f[k].tags = DOMAIN tags /\ f[k].contenido = contenido
        /\ \A x \in DOMAIN tags : f[k].tags[x].BLOCKS = tags[x].BLOCKS
        /\ unlinkeados(k) = f[k]
    BY <1>1, <2>1, <2>2 DEF TrazaDeEliminar, Salvo, SinUltimos
  <2>4. \A x \in DOMAIN tags : Leera(f[k], x) = Leera(disco, x)
    BY <1>1, <2>3 DEF Leera
  <2> QED BY <2>3, <2>4, DiscoEntero DEF NadaPerdido
<1>5. PICK e \in discos : guardar(reconstruir(e))
  BY <1>2 DEF caer
<1>6. e = vacio
  <2> SUFFICES ASSUME NEW j \in 1 .. hay, e = unlinkeados(j) PROVE FALSE
    BY <1>5
  <2>1. j \in 0 .. hay
    BY <1>3
  <2>2. DiscoOK(e) /\ NadaPerdido(e)
    BY <1>4, <2>1
  <2> QED BY <1>5, <2>2, TodoLegible, NadieLeeDistinto
<1> DEFINE d == unlinkeados(hay)
<1>7. DiscoOK(d) /\ NadaPerdido(d)
  <2>1. hay \in 0 .. hay
    BY <1>3
  <2> HIDE DEF unlinkeados, hay
  <2> QED BY <1>4, <2>1
<1> HIDE DEF discos, d, t
<1>8. e = [d EXCEPT !.tags[n] = t]
  BY <1>6 DEF d
<1>9. /\ DOMAIN e = DOMAIN d /\ Salvo(d.tags, e.tags, n) /\ e.tags[n] = t
      /\ e.contenido = d.contenido /\ e.hash_index = d.hash_index
      /\ DOMAIN d.tags = DOMAIN tags /\ DOMAIN e.tags = DOMAIN tags
      /\ \A x \in DOMAIN tags : x # n => e.tags[x] = d.tags[x]
  BY <1>7, <1>8 DEF Salvo, DiscoOK, NadaPerdido
<1>10. DiscoLegible(e) /\ t.BLOCKS = <<>>
  <2>1. t \in TagEnDisco /\ t.BLOCKS = <<>>
    <3>1. <<>> \in Seq(Fisicos) /\ <<>> \in Seq(Fisicos \cup {SIN_ENLACE}) /\ 0 \in Nat
      OBVIOUS
    <3> QED BY <3>1 DEF TagNuevo, TagEnDisco, t
  <2> QED BY <1>7, <1>9, <2>1, TodoLegible, LegibleSalvo
<1>11. \A x \in DOMAIN tags : x \in DOMAIN tags' /\ leidos(x)' = Leera(e, x)
  BY <1>5, <1>9, <1>10, LeidoTrasArrancar
<1>12. \A x \in DOMAIN tags : x # n => Leera(e, x) = leidos(x)
  BY <1>7, <1>9 DEF Leera, NadaPerdido
<1>13. m = n
  <2> HIDE DEF leidos
  <2> QED BY <1>11, <1>12 DEF leeDistinto
<1>14. Leera(e, n) = <<>>
  BY <1>9, <1>10 DEF Leera
<1> QED BY <1>11, <1>13, <1>14

\* The disk after some turns of COMMIT reads what it read, and its index
\* tells the truth.
IndexandoSinCosto(n, e) ==
  /\ DiscoOK(e) /\ NadaPerdido(e) /\ e.contenido = contenido
  /\ Fieles(contenido, e.hash_index)
  /\ e.tags[n].BLOCKS = e.tags[n].bloques_logicos
  /\ Len(e.tags[n].bloques_logicos) = Len(tags[n].bloques_logicos)

\* What a logical block of n holds is what n reads there.
LEMMA LeidoAhi ==
  ASSUME NEW n \in DOMAIN tags, NEW e, IndexandoSinCosto(n, e),
         NEW i \in DOMAIN e.tags[n].bloques_logicos
  PROVE  /\ n \in DOMAIN e.tags /\ Leera(e, n)[i] = contenido[e.tags[n].bloques_logicos[i]]
         /\ DOMAIN Leera(e, n) = DOMAIN e.tags[n].bloques_logicos
BY DEF IndexandoSinCosto, NadaPerdido, Leera

\* A turn of COMMIT moves the block to an equal one, or names it in the index.
LEMMA VueltaSinCosto ==
  ASSUME NEW n \in DOMAIN tags, NEW e, IndexandoSinCosto(n, e),
         NEW j \in DOMAIN e.tags[n].bloques_logicos
  PROVE  IndexandoSinCosto(n, escribirEnHashIndex(e, n, j))
<1> DEFINE r == escribirEnHashIndex(e, n, j)
           b == e.tags[n].bloques_logicos[j]
           h == e.contenido[b]
           c == e.hash_index[h]
<1>1. /\ DiscoOK(e) /\ n \in DOMAIN e.tags /\ DOMAIN e.tags = DOMAIN tags
      /\ e.contenido = contenido /\ h = contenido[b]
  BY DEF IndexandoSinCosto, NadaPerdido
<1>2. Indexado(e, r, n, j)
  <2> HIDE DEF r
  <2> QED BY <1>1, Indexar DEF r
<1>3. /\ DiscoOK(r) /\ r.contenido = contenido
      /\ h \in DOMAIN e.hash_index /\ b # 0 =>
           c \in Fisicos /\ r = reapuntarBloque(e, n, j, c)
      /\ ~ (h \in DOMAIN e.hash_index /\ b # 0) =>
           /\ r.tags = e.tags /\ DOMAIN r.hash_index = DOMAIN e.hash_index \cup {h}
           /\ r.hash_index[h] = b
           /\ \A g \in DOMAIN e.hash_index : g # h => r.hash_index[g] = e.hash_index[g]
  <2> HIDE DEF r
  <2> QED BY <1>1, <1>2 DEF Indexado
<1> HIDE DEF r
<1>4. CASE h \in DOMAIN e.hash_index /\ b # 0
  <2>1. Reapuntado(e, r, n, j, c)
    <3> HIDE DEF h, b, c
    <3> QED BY <1>1, <1>3, <1>4, Reapuntar
  <2>2. contenido[c] = h
    BY <1>4 DEF IndexandoSinCosto, Fieles
  <2>3. /\ r.hash_index = e.hash_index /\ DOMAIN r.tags = DOMAIN tags
        /\ \A m \in DOMAIN tags : m # n => r.tags[m] = e.tags[m]
        /\ r.tags[n].BLOCKS = [e.tags[n].BLOCKS EXCEPT ![j] = c]
        /\ r.tags[n].bloques_logicos = [e.tags[n].bloques_logicos EXCEPT ![j] = c]
    BY <1>1, <2>1 DEF Reapuntado, Salvo
  <2>4. e.tags[n].BLOCKS = e.tags[n].bloques_logicos
        /\ Len(e.tags[n].bloques_logicos) = Len(tags[n].bloques_logicos)
    BY DEF IndexandoSinCosto
  <2>5. Len(r.tags[n].bloques_logicos) = Len(tags[n].bloques_logicos)
    <3>1. e.tags[n].bloques_logicos \in Seq(Fisicos) /\ c \in Fisicos
      BY <1>1, <1>3, <1>4 DEF DiscoOK, TagsOK, Tag
    <3> HIDE DEF c
    <3> QED BY <2>3, <2>4, <3>1, ExceptSeq
  <2>6. \A m \in DOMAIN tags : Leera(r, m) = Leera(e, m)
    <3>1. \A m \in DOMAIN tags : m # n => Leera(r, m) = Leera(e, m)
      BY <1>1, <1>3, <2>3 DEF Leera
    <3>2. Leera(r, n) = Leera(e, n)
      <4> HIDE DEF c, h
      <4>1. \A i \in DOMAIN e.tags[n].BLOCKS :
              contenido[r.tags[n].BLOCKS[i]] = contenido[e.tags[n].BLOCKS[i]]
        BY <1>1, <2>2, <2>3, <2>4 DEF b
      <4>2. DOMAIN r.tags[n].BLOCKS = DOMAIN e.tags[n].BLOCKS
        BY <2>3
      <4> QED BY <1>1, <1>3, <4>1, <4>2 DEF Leera
    <3> QED BY <3>1, <3>2
  <2> QED BY <1>3, <2>3, <2>4, <2>5, <2>6 DEF IndexandoSinCosto, NadaPerdido, r
<1>5. CASE ~ (h \in DOMAIN e.hash_index /\ b # 0)
  <2> HIDE DEF b, h, c
  <2>1. /\ r.tags = e.tags /\ DOMAIN r.hash_index = DOMAIN e.hash_index \cup {h}
        /\ r.hash_index[h] = b /\ contenido[b] = h
        /\ \A g \in DOMAIN e.hash_index : g # h => r.hash_index[g] = e.hash_index[g]
    BY <1>1, <1>3, <1>5
  <2>2. Fieles(contenido, r.hash_index)
    BY <2>1 DEF IndexandoSinCosto, Fieles
  <2>3. NadaPerdido(r)
    BY <1>1, <1>3, <2>1 DEF IndexandoSinCosto, NadaPerdido, Leera
  <2> QED BY <1>3, <2>1, <2>2, <2>3 DEF IndexandoSinCosto, r
<1> QED BY <1>4, <1>5

\* All the turns of COMMIT.
LEMMA VueltasSinCosto ==
  ASSUME Base, BLOCKSFieles, IndiceFiel, NEW n \in DOMAIN tags,
         NEW k \in 0 .. Len(tags[n].bloques_logicos)
  PROVE  IndexandoSinCosto(n, indexarBloques(disco, n, k))
<1>1. /\ DiscoOK(disco) /\ disco.tags = tags /\ disco.contenido = contenido
      /\ disco.hash_index = hash_index /\ k \in Nat
  BY DelDisco DEF Base, DiscoBien, TagsOK, Tag
<1>2. PICK f : VueltasDeIndexar(f, disco, n, k)
  BY <1>1, VueltasIndexar
<1> DEFINE S == {j \in 0 .. k : IndexandoSinCosto(n, f[j])}
<1>3. 0 \in S
  BY <1>1, <1>2, DiscoEntero DEF VueltasDeIndexar, IndexandoSinCosto, BLOCKSFieles, IndiceFiel, Fieles
<1>4. ASSUME NEW j \in 1 .. k, j - 1 \in S PROVE j \in S
  <2>1. IndexandoSinCosto(n, f[j - 1]) /\ f[j] = escribirEnHashIndex(f[j - 1], n, j)
    BY <1>2, <1>4 DEF VueltasDeIndexar
  <2>2. j \in DOMAIN f[j - 1].tags[n].bloques_logicos
    <3>1. /\ f[j - 1].tags[n].bloques_logicos \in Seq(Fisicos)
          /\ Len(f[j - 1].tags[n].bloques_logicos) = Len(tags[n].bloques_logicos)
      BY <2>1 DEF IndexandoSinCosto, NadaPerdido, DiscoOK, TagsOK, Tag
    <3> QED BY <1>1, <3>1
  <2> QED BY <2>1, <2>2, VueltaSinCosto
<1>5. 0 .. k \subseteq S
  <2> HIDE DEF S
  <2> QED BY <1>1, <1>3, <1>4, PorVueltas
<1> QED BY <1>1, <1>2, <1>5 DEF VueltasDeIndexar

\* A turn of COMMIT cut short costs nothing either.
LEMMA VueltaCortada ==
  ASSUME NEW n \in DOMAIN tags, NEW d, IndexandoSinCosto(n, d),
         NEW i \in DOMAIN d.tags[n].bloques_logicos, NEW b \in Fisicos,
         contenido[b] = contenido[d.tags[n].bloques_logicos[i]],
         NEW e \in reapunteParcial(d, n, i, b)
  PROVE  DiscoLegible(e) /\ NadaPerdido(e)
<1>1. /\ DiscoOK(d) /\ NadaPerdido(d) /\ n \in DOMAIN d.tags /\ d.contenido = contenido
  BY DEF IndexandoSinCosto, NadaPerdido
<1>2. Leera(d, n)[i] = contenido[b]
  BY LeidoAhi
<1>3. DiscoLegible(e)
  BY <1>1, ReapunteAMedias
<1>4. /\ DOMAIN e.tags = DOMAIN d.tags
      /\ \A y \in DOMAIN d.tags : y # n => Leera(e, y) = Leera(d, y)
      /\ \/ Leera(e, n) = Leera(d, n)
         \/ Leera(e, n) = [Leera(d, n) EXCEPT ![i] = contenido[b]]
  <2>1. /\ DOMAIN e.tags = DOMAIN d.tags
        /\ \A y \in DOMAIN d.tags : y # n => Leera(e, y) = Leera(d, y)
        /\ \/ Leera(e, n) = Leera(d, n)
           \/ Leera(e, n) = [Leera(d, n) EXCEPT ![i] = d.contenido[b]]
    BY <1>1, LeeraAMedias
  <2>2. d.contenido[b] = contenido[b]
    BY <1>1
  <2> QED BY <2>1, <2>2
<1>5. [Leera(d, n) EXCEPT ![i] = contenido[b]] = Leera(d, n)
  <2>1. Leera(d, n) = [y \in DOMAIN Leera(d, n) |-> Leera(d, n)[y]]
    BY DEF Leera
  <2> QED BY <1>2, <2>1
<1> QED BY <1>1, <1>3, <1>4, <1>5 DEF NadaPerdido

\* A death inside a COMMIT costs nothing.
LEMMA CostoCOMMIT ==
  ASSUME Base, BLOCKSFieles, IndiceFiel, NEW n \in DOMAIN tags, caidaEnCOMMIT(n),
         NEW m \in DOMAIN tags
  PROVE  ~ leeDistinto(m)
<1> DEFINE indexados(j) == indexarBloques(disco, n, j)
           aMedias(d, i) ==
             LET h == d.contenido[d.tags[n].bloques_logicos[i]]
             IN IF h \in DOMAIN d.hash_index /\ d.tags[n].bloques_logicos[i] # 0
                THEN reapunteParcial(d, n, i, d.hash_index[h]) ELSE {}
           bloques == DOMAIN tags[n].bloques_logicos
           N == Len(tags[n].bloques_logicos)
           discos == {indexados(j) : j \in bloques} \cup
                     UNION {aMedias(indexados(i - 1), i) : i \in bloques}
<1>1. caer(n, "COMMIT", discos)
  BY DEF caidaEnCOMMIT
<1>2. bloques = 1 .. N /\ N \in Nat
  BY DEF Base, DiscoBien, TagsOK, Tag
<1>3. \A j \in 0 .. N : IndexandoSinCosto(n, indexados(j))
  BY VueltasSinCosto
<1> HIDE DEF indexados
<1>4. ASSUME NEW j \in bloques PROVE DiscoLegible(indexados(j)) /\ NadaPerdido(indexados(j))
  <2>1. j \in 0 .. N
    BY <1>2
  <2> QED BY <1>3, <2>1, TodoLegible DEF IndexandoSinCosto
<1>5. ASSUME NEW i \in bloques, NEW d, d = indexados(i - 1), NEW e \in aMedias(d, i)
      PROVE  DiscoLegible(e) /\ NadaPerdido(e)
  <2> DEFINE h == d.contenido[d.tags[n].bloques_logicos[i]]
  <2>1. h \in DOMAIN d.hash_index /\ e \in reapunteParcial(d, n, i, d.hash_index[h])
    BY <1>5
  <2>2. IndexandoSinCosto(n, d) /\ i \in 1 .. N
    BY <1>2, <1>3, <1>5
  <2>3. i \in DOMAIN d.tags[n].bloques_logicos
    <3>1. d.tags[n].bloques_logicos \in Seq(Fisicos) /\ Len(d.tags[n].bloques_logicos) = N
      BY <2>2 DEF IndexandoSinCosto, NadaPerdido, DiscoOK, TagsOK, Tag
    <3> HIDE DEF N
    <3> QED BY <2>2, <3>1
  <2>4. d.contenido = contenido /\ contenido[d.hash_index[h]] = h /\ d.hash_index[h] \in Fisicos
    BY <2>1, <2>2 DEF IndexandoSinCosto, Fieles, DiscoOK, IndiceOK
  <2> QED BY <2>1, <2>2, <2>3, <2>4, VueltaCortada
<1>6. \A e \in discos : DiscoLegible(e) /\ NadaPerdido(e)
  <2> HIDE DEF aMedias, bloques
  <2> QED BY <1>4, <1>5
<1> HIDE DEF discos
<1> QED BY <1>1, <1>6, NadieLeeDistinto DEF caer

\* CaidaLocal: after a death and a start every File:Tag reads what it read,
\* but the block a WRITE was writing and the File:Tag a DELETE was deleting.
THEOREM CaidasLocales == Spec => CaidaLocal
<1>1. Base /\ [Next]_vars =>
        [BitmapExacto /\ IndiceFiel /\ PunterosFieles /\ BLOCKSFieles =>
           \A m \in {m \in DOMAIN tags : leeDistinto(m)} :
             /\ ~ RECONSTRUCCION
             /\ \A n \in DOMAIN tags :
                  /\ ~ caidaEnCOMMIT(n)
                  /\ caidaEnELIMINAR(n) => m = n /\ leidos(n)' = <<>>
                  /\ \A i \in 1 .. MaxBLOCKS : caidaEnWRITE(n, i) =>
                       m = n /\ \E c \in Datos : leidos(n)' = [leidos(n) EXCEPT ![i] = c]]_vars
  <2> SUFFICES ASSUME Base, IndiceFiel, BLOCKSFieles, NEW m \in DOMAIN tags, leeDistinto(m)
               PROVE  /\ ~ RECONSTRUCCION
                      /\ \A n \in DOMAIN tags :
                           /\ ~ caidaEnCOMMIT(n)
                           /\ caidaEnELIMINAR(n) => m = n /\ leidos(n)' = <<>>
                           /\ \A i \in 1 .. MaxBLOCKS : caidaEnWRITE(n, i) =>
                                m = n /\ \E c \in Datos : leidos(n)' = [leidos(n) EXCEPT ![i] = c]
    OBVIOUS
  <2>1. ~ RECONSTRUCCION
    <3> SUFFICES ASSUME RECONSTRUCCION PROVE FALSE
      OBVIOUS
    <3>1. DiscoLegible(disco) /\ guardar(reconstruir(disco))
      BY DelDisco, TodoLegible DEF Base, RECONSTRUCCION
    <3> QED BY <3>1, DiscoEntero, NadieLeeDistinto
  <2>2. ASSUME NEW n \in DOMAIN tags PROVE ~ caidaEnCOMMIT(n)
    BY CostoCOMMIT
  <2>3. ASSUME NEW n \in DOMAIN tags, caidaEnELIMINAR(n) PROVE m = n /\ leidos(n)' = <<>>
    BY <2>3, CostoELIMINAR
  <2>4. ASSUME NEW n \in DOMAIN tags, NEW i \in 1 .. MaxBLOCKS, caidaEnWRITE(n, i)
        PROVE  m = n /\ \E c \in Datos : leidos(n)' = [leidos(n) EXCEPT ![i] = c]
    BY <2>4, CostoWRITE
  <2> QED BY <2>1, <2>2, <2>3, <2>4
<1> QED BY <1>1, BaseSiempre, PTL DEF Spec, CaidaLocal

=============================================================================
