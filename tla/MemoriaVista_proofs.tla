-------------------------- MODULE MemoriaVista_proofs --------------------------
(***************************************************************************)
(* Proofs about what the queries of a worker see through its cache: the    *)
(* bytes they wrote, whatever is replaced, flushed or preempted meanwhile. *)
(* They need that no file of this worker gets shorter: TRUNCATE leaves the *)
(* pages it cuts in the cache.                                             *)
(***************************************************************************)
EXTENDS MemoriaInterna_proofs

SoloCrecen == "TRUNCATE_MENOS" \notin Usos

\* What is seen of block i of n with storage arch, frames mem, entries ent.
Mira(arch, mem, ent, n, i) ==
  IF <<n, i - 1>> \in Pares /\ ent[<<n, i - 1>>].bit_presencia
  THEN aBloque(mem[ent[<<n, i - 1>>].nro_frame])
  ELSE arch[n].bloques[i]

\* Every resident page has its block, and a clean one its bytes.
Respaldo(arch, mem, ent) ==
  \A x \in Pares : ent[x].bit_presencia /\ x[1] \notin Compartidos =>
    /\ x[1] \in DOMAIN arch /\ x[2] + 1 \in DOMAIN arch[x[1]].bloques
    /\ ~ ent[x].bit_modificado =>
         arch[x[1]].bloques[x[2] + 1] = aBloque(mem[ent[x].nro_frame])

\* They show of the files of this worker what is seen now.
MismaVista(arch, mem, ent) ==
  /\ DOMAIN arch \ Compartidos = propios
  /\ \A n \in propios :
       /\ arch[n].estado = archivos[n].estado
       /\ DOMAIN arch[n].bloques = DOMAIN archivos[n].bloques
       /\ arch[n].estado = "COMMITED" => arch[n].bloques = archivos[n].bloques
       /\ \A i \in DOMAIN archivos[n].bloques : Mira(arch, mem, ent, n, i) = vista(n, i)

LEMMA VistaActual ==
  /\ \A n, i : vista(n, i) = Mira(archivos, memoria, entrada, n, i)
  /\ \A n, i : vista(n, i)' = Mira(archivos', memoria', entrada', n, i)
  BY DEF vista, paginaDe, Mira

-----------------------------------------------------------------------------
(* One turn of WRITE or READ.                                              *)

LEMMA TramoVista ==
  ASSUME EnAcceso, NEW f \in Frames, NEW mem \in [Frames -> Pagina],
         NEW ent \in [Pares -> Entrada], NEW bm, NEW arch, copiarTramo(f, mem, ent),
         ent[pag].bit_presencia, ent[pag].nro_frame = f, MarcosDe(ent, bm),
         Respaldo(arch, mem, ent)
  PROVE  /\ Respaldo(arch, memoria', entrada')
         /\ \A n, i : <<n, i - 1>> # pag \/ instruccion.op # "WRITE" =>
              Mira(arch, memoria', entrada', n, i) = Mira(arch, mem, ent, n, i)
         /\ \A n, i : <<n, i - 1>> = pag /\ instruccion.op = "WRITE" =>
              Mira(arch, memoria', entrada', n, i) = aBloque(escrita(mem[f]))
<1>1. pag \in Pares
  BY Tramo
<1>2. \A x \in Pares : /\ entrada'[x].nro_frame = ent[x].nro_frame
                       /\ (entrada'[x].bit_presencia <=> ent[x].bit_presencia)
                       /\ ent[x].bit_modificado => entrada'[x].bit_modificado
  BY CopiarTramoEntradas
<1>3. memoria' = IF instruccion.op = "WRITE" THEN [mem EXCEPT ![f] = escrita(mem[f])] ELSE mem
  BY DEF copiarTramo
<1>4. \A x \in Pares : x # pag /\ ent[x].bit_presencia => memoria'[ent[x].nro_frame] = mem[ent[x].nro_frame]
  BY <1>1, <1>3 DEF MarcosDe
<1>5. instruccion.op # "WRITE" => memoria' = mem
  BY <1>3
<1>6. instruccion.op = "WRITE" => entrada'[pag].bit_modificado /\ memoria'[f] = escrita(mem[f])
  <2>1. ent[pag] \in Entrada
    BY <1>1
  <2>2. entrada'[pag].bit_modificado = (ent[pag].bit_modificado \/ instruccion.op = "WRITE")
    BY <1>1, <2>1 DEF copiarTramo, Entrada
  <2> QED BY <1>3, <2>2
<1>7. Respaldo(arch, memoria', entrada')
  <2> SUFFICES ASSUME NEW x \in Pares, entrada'[x].bit_presencia, x[1] \notin Compartidos
               PROVE  /\ x[1] \in DOMAIN arch /\ x[2] + 1 \in DOMAIN arch[x[1]].bloques
                      /\ ~ entrada'[x].bit_modificado =>
                           arch[x[1]].bloques[x[2] + 1] = aBloque(memoria'[entrada'[x].nro_frame])
    BY DEF Respaldo
  <2>1. ent[x].bit_presencia
    BY <1>2
  <2>2. CASE x # pag \/ instruccion.op # "WRITE"
    BY <1>2, <1>4, <1>5, <2>1, <2>2 DEF Respaldo
  <2>3. CASE x = pag /\ instruccion.op = "WRITE"
    BY <1>6, <2>1, <2>3 DEF Respaldo
  <2> QED BY <2>2, <2>3
<1>8. ASSUME NEW n, NEW i, <<n, i - 1>> # pag \/ instruccion.op # "WRITE"
      PROVE  Mira(arch, memoria', entrada', n, i) = Mira(arch, mem, ent, n, i)
  BY <1>2, <1>4, <1>5, <1>8 DEF Mira
<1>9. ASSUME NEW n, NEW i, <<n, i - 1>> = pag, instruccion.op = "WRITE"
      PROVE  Mira(arch, memoria', entrada', n, i) = aBloque(escrita(mem[f]))
  BY <1>1, <1>2, <1>6, <1>9 DEF Mira
<1> QED BY <1>7, <1>8, <1>9

-----------------------------------------------------------------------------
(* Storage under the cache.                                                *)

IRespaldo == Respaldo(archivos, memoria, entrada)

\* The block a fault asked for is the one the page had, which is absent.
Traida ==
  paso = "page_fault" =>
    /\ ~ entrada[pag].bit_presencia
    /\ pag[1] \notin Compartidos =>
         /\ pag[1] \in DOMAIN archivos /\ pag[2] + 1 \in DOMAIN archivos[pag[1]].bloques
         /\ archivos[pag[1]].bloques[pag[2] + 1] = aBloque(contenido_pagina)

LEMMA EscribirSolo ==
  ASSUME AlmacenTypeOK, NEW n \in Nombres, NEW i, NEW b \in Bloque, FS!Escribir(n, i, b)
  PROVE  /\ DOMAIN archivos' = DOMAIN archivos
         /\ n \in DOMAIN archivos /\ i \in DOMAIN archivos[n].bloques
         /\ archivos[n].estado = "WORK_IN_PROGRESS"
         /\ \A m \in DOMAIN archivos :
              /\ archivos'[m].estado = archivos[m].estado
              /\ DOMAIN archivos'[m].bloques = DOMAIN archivos[m].bloques
              /\ m # n => archivos'[m] = archivos[m]
              /\ \A j \in DOMAIN archivos[m].bloques :
                   m # n \/ j # i => archivos'[m].bloques[j] = archivos[m].bloques[j]
         /\ archivos'[n].bloques[i] = b
<1>1. /\ n \in DOMAIN archivos /\ i \in DOMAIN archivos[n].bloques
      /\ archivos[n].estado = "WORK_IN_PROGRESS"
      /\ archivos' = [archivos EXCEPT ![n].bloques[i] = b]
  BY DEF FS!Escribir, FS!AdmiteEscritura, FS!TieneBloque, FS!EnProgreso
<1>2. archivos[n] \in [estado : FS!Estado, bloques : Seq(Bloque)]
  BY <1>1 DEF AlmacenTypeOK
<1>3. archivos'[n] = [archivos[n] EXCEPT !.bloques = [archivos[n].bloques EXCEPT ![i] = b]]
  BY <1>1
<1>4. /\ archivos'[n].estado = archivos[n].estado
      /\ archivos'[n].bloques = [archivos[n].bloques EXCEPT ![i] = b]
  BY <1>2, <1>3
<1>5. DOMAIN archivos' = DOMAIN archivos /\ \A m \in DOMAIN archivos : m # n => archivos'[m] = archivos[m]
  BY <1>1
<1> QED BY <1>1, <1>4, <1>5

LEMMA EstadoDeArchivo ==
  ASSUME AlmacenTypeOK, NEW n \in DOMAIN archivos
  PROVE  /\ n \in Nombres /\ archivos[n].estado \in {"WORK_IN_PROGRESS", "COMMITED"}
         /\ archivos[n].bloques \in Seq(Bloque)
  BY DEF AlmacenTypeOK, FS!Estado

LEMMA MismaVistaSinCambio == MismaVista(archivos, memoria, entrada)
  BY VistaActual DEF MismaVista, propios

\* The write-back of a resident page changes nothing that is seen.
LEMMA VolcarVista ==
  ASSUME IInv, IRespaldo, NEW x \in presentes(entrada), escribirEnStorage(x)
  PROVE  /\ Respaldo(archivos', memoria, entrada)
         /\ MismaVista(archivos', memoria, entrada)
         /\ archivos'[x[1]].bloques[x[2] + 1] = aBloque(memoria[entrada[x].nro_frame])
<1> DEFINE b == aBloque(memoria[entrada[x].nro_frame])
<1>1. x \in Pares /\ x[1] \in Nombres /\ entrada[x].bit_presencia /\ b \in Bloque
  BY PaginaABloque DEF IInv, MemoriaTypeOK, presentes, Pares
<1>2. FS!Escribir(x[1], x[2] + 1, b)
  BY DEF escribirEnStorage
<1> HIDE DEF b
<1>3. /\ DOMAIN archivos' = DOMAIN archivos
      /\ x[1] \in DOMAIN archivos /\ x[2] + 1 \in DOMAIN archivos[x[1]].bloques
      /\ archivos[x[1]].estado = "WORK_IN_PROGRESS"
      /\ \A m \in DOMAIN archivos :
           /\ archivos'[m].estado = archivos[m].estado
           /\ DOMAIN archivos'[m].bloques = DOMAIN archivos[m].bloques
           /\ m # x[1] => archivos'[m] = archivos[m]
           /\ \A j \in DOMAIN archivos[m].bloques :
                m # x[1] \/ j # x[2] + 1 => archivos'[m].bloques[j] = archivos[m].bloques[j]
      /\ archivos'[x[1]].bloques[x[2] + 1] = b
  BY <1>1, <1>2, EscribirSolo DEF IInv, MemoriaTypeOK
<1>4. \A y \in Pares : y = <<y[1], y[2]>> /\ y[2] \in Int
  BY MemoriaAssumption DEF Pares, Paginas
<1>5. Respaldo(archivos', memoria, entrada)
  <2> SUFFICES ASSUME NEW y \in Pares, entrada[y].bit_presencia, y[1] \notin Compartidos
               PROVE  /\ y[1] \in DOMAIN archivos' /\ y[2] + 1 \in DOMAIN archivos'[y[1]].bloques
                      /\ ~ entrada[y].bit_modificado =>
                           archivos'[y[1]].bloques[y[2] + 1] = aBloque(memoria[entrada[y].nro_frame])
    BY DEF Respaldo
  <2>1. /\ y[1] \in DOMAIN archivos /\ y[2] + 1 \in DOMAIN archivos[y[1]].bloques
        /\ ~ entrada[y].bit_modificado =>
             archivos[y[1]].bloques[y[2] + 1] = aBloque(memoria[entrada[y].nro_frame])
    BY DEF IRespaldo, Respaldo
  <2>2. CASE y = x
    BY <1>3, <2>1, <2>2 DEF b
  <2>3. CASE y # x
    <3>1. y[1] # x[1] \/ y[2] + 1 # x[2] + 1
      BY <1>1, <1>4, <2>3
    <3> QED BY <1>3, <2>1, <3>1
  <2> QED BY <2>2, <2>3
<1>6. MismaVista(archivos', memoria, entrada)
  <2>1. ASSUME NEW n \in propios, NEW i \in DOMAIN archivos[n].bloques
        PROVE  Mira(archivos', memoria, entrada, n, i) = vista(n, i)
    <3>1. n \in DOMAIN archivos
      BY DEF propios
    <3>2. CASE <<n, i - 1>> \in Pares /\ entrada[<<n, i - 1>>].bit_presencia
      BY <3>2, VistaActual DEF Mira
    <3>3. CASE ~ (<<n, i - 1>> \in Pares /\ entrada[<<n, i - 1>>].bit_presencia)
      <4>1. i \in Int
        BY <3>1, EstadoDeArchivo DEF IInv, MemoriaTypeOK
      <4>2. n # x[1] \/ i # x[2] + 1
        <5> SUFFICES ASSUME n = x[1], i = x[2] + 1 PROVE FALSE
          OBVIOUS
        <5>1. i - 1 = x[2]
          BY <1>1, <1>4
        <5> QED BY <1>1, <1>4, <3>3, <5>1
      <4>3. archivos'[n].bloques[i] = archivos[n].bloques[i]
        BY <1>3, <3>1, <4>2
      <4> QED BY <3>3, <4>3, VistaActual DEF Mira
    <3> QED BY <3>2, <3>3
  <2>2. ASSUME NEW n \in propios
        PROVE  /\ archivos'[n].estado = archivos[n].estado
               /\ DOMAIN archivos'[n].bloques = DOMAIN archivos[n].bloques
               /\ archivos'[n].estado = "COMMITED" => archivos'[n].bloques = archivos[n].bloques
    BY <1>3 DEF propios
  <2>3. DOMAIN archivos' \ Compartidos = propios
    BY <1>3 DEF propios
  <2> QED BY <2>1, <2>2, <2>3 DEF MismaVista
<1> QED BY <1>3, <1>5, <1>6 DEF b

-----------------------------------------------------------------------------
(* A turn of WRITE or READ copies from or to a page that is already in its  *)
(* frame, or that the step brings: what is seen does not change until then. *)

\* But for the page at hand, they show pages that are in memory now.
MismasPaginas(mem, ent) ==
  \A x \in Pares : x # pag /\ ent[x].bit_presencia =>
    entrada[x].bit_presencia /\ mem[ent[x].nro_frame] = memoria[entrada[x].nro_frame]

Copia(f, mem, ent) ==
  /\ EnAcceso /\ copiarTramo(f, mem, ent) /\ UNCHANGED instruccion
  /\ MismasPaginas(mem, ent)
  /\ ent[pag].bit_presencia /\ ent[pag].nro_frame = f /\ MarcosDe(ent, bitMap')
  /\ Respaldo(archivos', mem, ent) /\ MismaVista(archivos', mem, ent)

HayCopia ==
  \E f \in Frames : \E mem \in [Frames -> Pagina] : \E ent \in [Pares -> Entrada] :
    Copia(f, mem, ent)

LEMMA accederCopia ==
  ASSUME IInv, IRespaldo, acceder
  PROVE  HayCopia
<1>1. EnAcceso
  BY DEF acceder, IInv, Curso, EnAcceso
<1> DEFINE f == entrada[pag].nro_frame
<1>2. pag \in Pares /\ entrada[pag].bit_presencia
  BY <1>1, Tramo DEF acceder
<1>3. f \in Frames /\ memoria \in [Frames -> Pagina] /\ entrada \in [Pares -> Entrada]
  BY <1>2 DEF IInv, MarcosBien, ocupada, MemoriaTypeOK, MarcosTypeOK, TablasTypeOK
<1>4. copiarTramo(f, memoria, entrada) /\ UNCHANGED <<instruccion, bitMap, archivos>>
  BY DEF acceder, almacen
<1>5. MarcosDe(entrada, bitMap')
  BY <1>4, MarcosDefinicion DEF IInv
<1>6. Respaldo(archivos', memoria, entrada) /\ MismaVista(archivos', memoria, entrada)
  BY <1>4, MismaVistaSinCambio DEF IRespaldo
<1>7. Copia(f, memoria, entrada)
  BY <1>1, <1>2, <1>4, <1>5, <1>6 DEF Copia, MismasPaginas
<1> QED BY <1>3, <1>7 DEF HayCopia

\* The page a fault brought takes frame f.
LEMMA asignarCopia ==
  ASSUME IInv, Traida, paso = "page_fault", NEW f \in Frames, NEW ent \in [Pares -> Entrada],
         asignarMarco(f, ent), MarcosDe(ent, bitMap),
         \A x \in Pares : ent[x].bit_presencia => /\ entrada[x].bit_presencia
                                                  /\ ent[x].nro_frame = entrada[x].nro_frame
                                                  /\ ent[x].nro_frame # f,
         bitMap' = bitMap \cup {f},
         Respaldo(archivos', memoria, ent), MismaVista(archivos', memoria, ent)
  PROVE  HayCopia
<1> DEFINE mem == [memoria EXCEPT ![f] = contenido_pagina]
           nueva == [ent EXCEPT ![pag] = conMarco(ent[pag], f)]
<1>1. EnAcceso /\ pag \in Pares
  <2>1. EnAcceso
    BY DEF IInv, Curso, EnAcceso
  <2> QED BY <2>1, Tramo
<1>2. mem \in [Frames -> Pagina]
  BY DEF IInv, MemoriaTypeOK, MarcosTypeOK, EjecucionTypeOK
<1>3. mem[f] = contenido_pagina /\ \A g \in Frames : g # f => mem[g] = memoria[g]
  BY DEF IInv, MemoriaTypeOK, MarcosTypeOK
<1>4. /\ nueva[pag].nro_frame = f /\ nueva[pag].bit_presencia
      /\ nueva[pag].bit_modificado <=> ent[pag].bit_modificado
      /\ nueva \in [Pares -> Entrada]
      /\ \A x \in Pares : x # pag => nueva[x] = ent[x]
  <2>1. ent[pag] \in Entrada /\ nueva[pag] = conMarco(ent[pag], f)
    BY <1>1
  <2>2. /\ nueva[pag] \in Entrada /\ nueva[pag].nro_frame = f /\ nueva[pag].bit_presencia
        /\ nueva[pag].bit_modificado <=> ent[pag].bit_modificado
    BY <2>1, ConMarco
  <2>3. nueva \in [Pares -> Entrada]
    BY <1>1, <2>1, <2>2
  <2> QED BY <2>2, <2>3
<1>5. copiarTramo(f, mem, nueva) /\ UNCHANGED instruccion
  BY DEF asignarMarco
<1> HIDE DEF mem, nueva
<1>6. MarcosDe(nueva, bitMap')
  BY <1>4 DEF MarcosDe
<1>7. ~ ent[pag].bit_presencia /\ ~ entrada[pag].bit_presencia
  BY <1>1 DEF Traida
<1>8. pag = <<pag[1], pag[2] + 1 - 1>> /\ pag[2] \in Int
  BY <1>1, MemoriaAssumption DEF Pares, Paginas, pag
<1>9. ASSUME pag[1] \notin Compartidos
      PROVE  /\ pag[1] \in DOMAIN archivos' /\ pag[2] + 1 \in DOMAIN archivos'[pag[1]].bloques
             /\ archivos'[pag[1]].bloques[pag[2] + 1] = aBloque(contenido_pagina)
  <2>1. pag[1] \in propios /\ pag[2] + 1 \in DOMAIN archivos[pag[1]].bloques
        /\ archivos[pag[1]].bloques[pag[2] + 1] = aBloque(contenido_pagina)
    BY <1>9 DEF Traida, propios
  <2>2. vista(pag[1], pag[2] + 1) = archivos[pag[1]].bloques[pag[2] + 1]
    BY <1>7, <1>8, VistaActual DEF Mira
  <2>3. Mira(archivos', memoria, ent, pag[1], pag[2] + 1) = archivos'[pag[1]].bloques[pag[2] + 1]
    BY <1>7, <1>8 DEF Mira
  <2> QED BY <2>1, <2>2, <2>3 DEF MismaVista
<1>10. Respaldo(archivos', mem, nueva)
  <2> SUFFICES ASSUME NEW x \in Pares, nueva[x].bit_presencia, x[1] \notin Compartidos
               PROVE  /\ x[1] \in DOMAIN archivos' /\ x[2] + 1 \in DOMAIN archivos'[x[1]].bloques
                      /\ ~ nueva[x].bit_modificado =>
                           archivos'[x[1]].bloques[x[2] + 1] = aBloque(mem[nueva[x].nro_frame])
    BY DEF Respaldo
  <2>1. CASE x = pag
    BY <1>3, <1>4, <1>9, <2>1
  <2>2. CASE x # pag
    <3>1. nueva[x] = ent[x] /\ ent[x].bit_presencia /\ ent[x].nro_frame # f
      BY <1>4, <2>2
    <3>2. ent[x].nro_frame \in Frames
      BY <3>1 DEF MarcosDe, IInv, MemoriaTypeOK, MarcosTypeOK
    <3> QED BY <1>3, <3>1, <3>2 DEF Respaldo
  <2> QED BY <2>1, <2>2
<1>11. MismaVista(archivos', mem, nueva)
  <2>1. ASSUME NEW n \in propios, NEW i \in DOMAIN archivos[n].bloques
        PROVE  Mira(archivos', mem, nueva, n, i) = Mira(archivos', memoria, ent, n, i)
    <3>1. CASE <<n, i - 1>> = pag
      <4>1. n = pag[1] /\ i - 1 = pag[2] /\ i \in Int
        BY <3>1, EstadoDeArchivo DEF pag, propios, IInv, MemoriaTypeOK
      <4>2. i = pag[2] + 1
        BY <1>8, <4>1
      <4>3. Mira(archivos', mem, nueva, n, i) = aBloque(contenido_pagina)
        BY <1>1, <1>3, <1>4, <3>1 DEF Mira
      <4>4. Mira(archivos', memoria, ent, n, i) = archivos'[n].bloques[i]
        BY <1>7, <3>1 DEF Mira
      <4> QED BY <1>9, <4>1, <4>2, <4>3, <4>4 DEF propios
    <3>2. CASE <<n, i - 1>> \in Pares /\ <<n, i - 1>> # pag /\ ent[<<n, i - 1>>].bit_presencia
      <4>1. /\ nueva[<<n, i - 1>>] = ent[<<n, i - 1>>]
            /\ ent[<<n, i - 1>>].nro_frame # f
        BY <1>4, <3>2
      <4>2. ent[<<n, i - 1>>].nro_frame \in Frames
        BY <3>2 DEF MarcosDe, IInv, MemoriaTypeOK, MarcosTypeOK
      <4> QED BY <1>3, <3>2, <4>1, <4>2 DEF Mira
    <3>3. CASE /\ <<n, i - 1>> # pag
               /\ ~ (<<n, i - 1>> \in Pares /\ ent[<<n, i - 1>>].bit_presencia)
      BY <1>4, <3>3 DEF Mira
    <3> QED BY <3>1, <3>2, <3>3
  <2> QED BY <2>1 DEF MismaVista
<1>12. MismasPaginas(mem, nueva)
  <2> SUFFICES ASSUME NEW x \in Pares, x # pag, nueva[x].bit_presencia
               PROVE  /\ entrada[x].bit_presencia
                      /\ mem[nueva[x].nro_frame] = memoria[entrada[x].nro_frame]
    BY DEF MismasPaginas
  <2>1. /\ nueva[x] = ent[x] /\ ent[x].bit_presencia /\ entrada[x].bit_presencia
        /\ ent[x].nro_frame = entrada[x].nro_frame /\ ent[x].nro_frame # f
    BY <1>4
  <2>2. ent[x].nro_frame \in Frames
    BY <2>1 DEF MarcosDe, IInv, MemoriaTypeOK, MarcosTypeOK
  <2> QED BY <1>3, <2>1, <2>2
<1>13. Copia(f, mem, nueva)
  BY <1>1, <1>4, <1>5, <1>6, <1>10, <1>11, <1>12 DEF Copia
<1> QED BY <1>2, <1>4, <1>13 DEF HayCopia

LEMMA devolverCopia ==
  ASSUME IInv, IRespaldo, Traida, devolverFrameLibre
  PROVE  HayCopia
<1>1. PICK f \in frameLibre : bitMap' = bitMap \cup {f} /\ asignarMarco(f, entrada)
  BY DEF devolverFrameLibre
<1>2. f \in Frames /\ f \notin bitMap
  BY DEF frameLibre
<1>3. MarcosDe(entrada, bitMap)
  BY MarcosDefinicion DEF IInv
<1>4. \A x \in Pares : entrada[x].bit_presencia => entrada[x].nro_frame # f
  BY <1>2, <1>3 DEF MarcosDe
<1>5. paso = "page_fault" /\ entrada \in [Pares -> Entrada] /\ archivos' = archivos
  BY DEF devolverFrameLibre, almacen, IInv, MemoriaTypeOK, TablasTypeOK
<1>6. Respaldo(archivos', memoria, entrada) /\ MismaVista(archivos', memoria, entrada)
  BY <1>5, MismaVistaSinCambio DEF IRespaldo
<1> QED BY <1>1, <1>2, <1>3, <1>4, <1>5, <1>6, asignarCopia

\* What is seen and backed does not depend on bits of use.
LEMMA BitsDeUsoVista ==
  ASSUME NEW arch, NEW mem, NEW e1, NEW e2,
         \A x \in Pares : /\ e2[x].nro_frame = e1[x].nro_frame
                          /\ (e2[x].bit_presencia <=> e1[x].bit_presencia)
                          /\ (e1[x].bit_modificado => e2[x].bit_modificado),
         Respaldo(arch, mem, e1), MismaVista(arch, mem, e1)
  PROVE  Respaldo(arch, mem, e2) /\ MismaVista(arch, mem, e2)
<1>1. Respaldo(arch, mem, e2)
  BY DEF Respaldo
<1>2. \A n, i : Mira(arch, mem, e2, n, i) = Mira(arch, mem, e1, n, i)
  BY DEF Mira
<1> QED BY <1>1, <1>2 DEF MismaVista

\* A page that storage holds can go.
LEMMA SoltarVista ==
  ASSUME IInv, NEW arch, NEW e1, NEW e2, NEW v \in Pares,
         Respaldo(arch, memoria, e1), MismaVista(arch, memoria, e1),
         e1[v].bit_presencia, ~ e2[v].bit_presencia,
         v[1] \notin Compartidos => arch[v[1]].bloques[v[2] + 1] = aBloque(memoria[e1[v].nro_frame]),
         \A x \in Pares : x # v => e2[x] = e1[x]
  PROVE  Respaldo(arch, memoria, e2) /\ MismaVista(arch, memoria, e2)
<1>1. Respaldo(arch, memoria, e2)
  BY DEF Respaldo
<1>2. ASSUME NEW n \in propios, NEW i \in DOMAIN archivos[n].bloques
      PROVE  Mira(arch, memoria, e2, n, i) = Mira(arch, memoria, e1, n, i)
  <2>1. CASE <<n, i - 1>> = v
    <3>1. n = v[1] /\ i - 1 = v[2] /\ i \in Int
      BY <2>1, EstadoDeArchivo DEF propios, IInv, MemoriaTypeOK
    <3>2. i = v[2] + 1 /\ v[1] \notin Compartidos
      BY <3>1 DEF propios
    <3>3. Mira(arch, memoria, e1, n, i) = aBloque(memoria[e1[v].nro_frame])
      BY <2>1 DEF Mira
    <3>4. Mira(arch, memoria, e2, n, i) = arch[v[1]].bloques[v[2] + 1]
      BY <2>1, <3>1, <3>2 DEF Mira
    <3> QED BY <3>2, <3>3, <3>4
  <2>2. CASE <<n, i - 1>> # v
    BY <2>2 DEF Mira
  <2> QED BY <2>1, <2>2
<1> QED BY <1>1, <1>2 DEF MismaVista

Quieto ==
  Respaldo(archivos', memoria', entrada') /\ MismaVista(archivos', memoria', entrada')

LEMMA desalojarCopia ==
  ASSUME IInv, IRespaldo, Traida, gestionarBitModificado
  PROVE  HayCopia \/ (Quieto /\ terminarConError)
<1> DEFINE r == aplicarPoliticaReemplazo
<1>1. PICK v \in r.victima :
        \/ /\ IF entrada[v].bit_modificado THEN escribirEnStorage(v)
                                           ELSE UNCHANGED almacen
           /\ asignarMarco(entrada[v].nro_frame,
                           [r.entrada EXCEPT ![v] = desalojada(r.entrada[v])])
        \/ entrada' = r.entrada /\ UNCHANGED <<almacen, memoria>> /\ terminarConError
  BY DEF gestionarBitModificado
<1>2. r.victima \subseteq presentes(entrada) /\ SoloBitsDeUso(r.entrada)
  BY VictimaPresente DEF IInv, MemoriaTypeOK, Busqueda
<1>3. paso = "page_fault" /\ bitMap' = bitMap
  BY DEF gestionarBitModificado
<1> HIDE DEF r
<1>4. v \in presentes(entrada) /\ v \in Pares /\ entrada[v].bit_presencia
  BY <1>1, <1>2 DEF presentes
<1>5. entrada[v].nro_frame \in bitMap /\ entrada[v].nro_frame \in Frames
  BY <1>4, PaginaABloque DEF IInv, MemoriaTypeOK
<1>6. MarcosDe(entrada, bitMap) /\ MarcosDe(r.entrada, bitMap)
  <2>1. MarcosDe(entrada, bitMap)
    BY MarcosDefinicion DEF IInv
  <2> QED BY <1>2, <2>1 DEF MarcosDe, SoloBitsDeUso
<1>7. \A x \in Pares : /\ r.entrada[x].nro_frame = entrada[x].nro_frame
                       /\ (r.entrada[x].bit_presencia <=> entrada[x].bit_presencia)
                       /\ (entrada[x].bit_modificado => r.entrada[x].bit_modificado)
  BY <1>2 DEF SoloBitsDeUso
<1>8. CASE entrada' = r.entrada /\ UNCHANGED <<almacen, memoria>> /\ terminarConError
  <2>1. archivos' = archivos /\ memoria' = memoria
    BY <1>8 DEF almacen
  <2>2. Respaldo(archivos, memoria, r.entrada) /\ MismaVista(archivos, memoria, r.entrada)
    BY <1>7, BitsDeUsoVista, MismaVistaSinCambio DEF IRespaldo
  <2> QED BY <1>8, <2>1, <2>2 DEF Quieto
<1>9. CASE /\ IF entrada[v].bit_modificado THEN escribirEnStorage(v)
                                           ELSE UNCHANGED almacen
           /\ asignarMarco(entrada[v].nro_frame,
                           [r.entrada EXCEPT ![v] = desalojada(r.entrada[v])])
  <2> DEFINE ent == [r.entrada EXCEPT ![v] = desalojada(r.entrada[v])]
             f == entrada[v].nro_frame
  <2>1. /\ Respaldo(archivos', memoria, entrada) /\ MismaVista(archivos', memoria, entrada)
        /\ v[1] \notin Compartidos => archivos'[v[1]].bloques[v[2] + 1] = aBloque(memoria[f])
    <3>1. CASE entrada[v].bit_modificado
      BY <1>4, <1>9, <3>1, VolcarVista
    <3>2. CASE ~ entrada[v].bit_modificado
      <4>1. archivos' = archivos
        BY <1>9, <3>2 DEF almacen
      <4> QED BY <1>4, <3>2, <4>1, MismaVistaSinCambio DEF IRespaldo, Respaldo
    <3> QED BY <3>1, <3>2
  <2>2. Respaldo(archivos', memoria, r.entrada) /\ MismaVista(archivos', memoria, r.entrada)
    BY <1>7, <2>1, BitsDeUsoVista
  <2>3. /\ ent \in [Pares -> Entrada]
        /\ ent[v].bit_presencia = FALSE /\ ent[v].bit_modificado = FALSE
        /\ \A x \in Pares : x # v => ent[x] = r.entrada[x]
    <3>1. r.entrada \in [Pares -> Entrada] /\ r.entrada[v] \in Entrada
      BY <1>2, <1>4 DEF SoloBitsDeUso
    <3> QED BY <1>4, <3>1, DesalojadaTipo
  <2>4. asignarMarco(f, ent)
    BY <1>9
  <2> HIDE DEF ent
  <2>5. Respaldo(archivos', memoria, ent) /\ MismaVista(archivos', memoria, ent)
    <3>1. v[1] \notin Compartidos =>
            archivos'[v[1]].bloques[v[2] + 1] = aBloque(memoria[r.entrada[v].nro_frame])
      BY <1>4, <1>7, <2>1
    <3>2. r.entrada[v].bit_presencia
      BY <1>4, <1>7
    <3> HIDE DEF f
    <3> QED BY <1>4, <2>2, <2>3, <3>1, <3>2, SoltarVista
  <2>6. MarcosDe(ent, bitMap)
    BY <1>6, <2>3 DEF MarcosDe
  <2>7. ASSUME NEW x \in Pares, ent[x].bit_presencia
        PROVE  /\ entrada[x].bit_presencia /\ ent[x].nro_frame = entrada[x].nro_frame
               /\ ent[x].nro_frame # f
    <3>1. x # v /\ ent[x] = r.entrada[x]
      BY <2>3, <2>7
    <3> QED BY <1>4, <1>6, <1>7, <2>7, <3>1 DEF MarcosDe
  <2>8. bitMap' = bitMap \cup {f} /\ f \in Frames
    BY <1>3, <1>5
  <2> HIDE DEF f
  <2> QED BY <1>3, <2>3, <2>4, <2>5, <2>6, <2>7, <2>8, asignarCopia
<1> QED BY <1>1, <1>8, <1>9

LEMMA flushearQuieto ==
  ASSUME IInv, IRespaldo, flushearEntrada
  PROVE  Quieto
<1>1. PICK x \in primeraAFlushear :
        \/ /\ escribirEnStorage(x)
           /\ entrada' = [entrada EXCEPT ![x].bit_modificado = FALSE]
        \/ UNCHANGED <<almacen, entrada>>
  BY DEF flushearEntrada
<1>2. memoria' = memoria
  BY DEF flushearEntrada, marcos
<1>3. CASE UNCHANGED <<almacen, entrada>>
  BY <1>2, <1>3, MismaVistaSinCambio DEF almacen, Quieto, IRespaldo
<1>4. CASE /\ escribirEnStorage(x)
           /\ entrada' = [entrada EXCEPT ![x].bit_modificado = FALSE]
  <2>1. x \in Pares /\ x \in presentes(entrada)
    BY AFlushear DEF primeraAFlushear
  <2>2. /\ Respaldo(archivos', memoria, entrada)
        /\ MismaVista(archivos', memoria, entrada)
        /\ archivos'[x[1]].bloques[x[2] + 1] = aBloque(memoria[entrada[x].nro_frame])
    BY <1>4, <2>1, VolcarVista
  <2>3. entrada \in [Pares -> Entrada]
    BY DEF IInv, MemoriaTypeOK, TablasTypeOK
  <2>4. \A y \in Pares : /\ entrada'[y].nro_frame = entrada[y].nro_frame
                         /\ (entrada'[y].bit_presencia <=> entrada[y].bit_presencia)
                         /\ y # x => entrada'[y] = entrada[y]
    <3>1. entrada[x] \in Entrada /\ entrada'[x] = [entrada[x] EXCEPT !.bit_modificado = FALSE]
      BY <1>4, <2>1, <2>3
    <3>2. /\ entrada'[x].nro_frame = entrada[x].nro_frame
          /\ entrada'[x].bit_presencia = entrada[x].bit_presencia
      BY <3>1 DEF Entrada
    <3>3. \A y \in Pares : y # x => entrada'[y] = entrada[y]
      BY <1>4, <2>3
    <3> QED BY <3>2, <3>3
  <2>5. Respaldo(archivos', memoria, entrada')
    BY <2>2, <2>4 DEF Respaldo
  <2>6. \A n, i : Mira(archivos', memoria, entrada', n, i) = Mira(archivos', memoria, entrada, n, i)
    BY <2>4 DEF Mira
  <2>7. MismaVista(archivos', memoria, entrada')
    BY <2>2, <2>6 DEF MismaVista
  <2> QED BY <1>2, <2>5, <2>7 DEF Quieto
<1> QED BY <1>1, <1>3, <1>4

-----------------------------------------------------------------------------
(* Requests to storage: files grow, appear and go.                         *)

\* Every file of this worker keeps the blocks it had.
Conserva ==
  \A n \in propios : /\ n \in DOMAIN archivos'
                     /\ \A i \in DOMAIN archivos[n].bloques :
                          /\ i \in DOMAIN archivos'[n].bloques
                          /\ archivos'[n].bloques[i] = archivos[n].bloques[i]

\* File n goes, and its pages with it.
Borra(n) ==
  /\ n \in DOMAIN archivos /\ archivos' = [m \in DOMAIN archivos \ {n} |-> archivos[m]]
  /\ memoria' = memoria
  /\ \A x \in Pares : IF x[1] = n THEN ~ entrada'[x].bit_presencia
                                  ELSE entrada'[x] = entrada[x]

Pedido == Conserva /\ UNCHANGED <<memoria, entrada>>

LEMMA EliminarConserva ==
  ASSUME NEW n, FS!Eliminar(n)
  PROVE  \A m \in DOMAIN archivos : m # n => m \in DOMAIN archivos' /\ archivos'[m] = archivos[m]
  BY DEF FS!Eliminar

LEMMA NuevoConserva ==
  ASSUME NEW n, NEW bs, n \notin DOMAIN archivos, FS!Nuevo(n, bs)
  PROVE  Conserva
  BY DEF FS!Nuevo, Conserva, propios

LEMMA AgrandarConserva ==
  ASSUME AlmacenTypeOK, NEW n, NEW k \in Nat, FS!Agrandar(n, k)
  PROVE  Conserva
<1> DEFINE bs == archivos[n].bloques
           ceros == [i \in 1 .. k |-> CERO]
<1>1. n \in DOMAIN archivos /\ archivos' = [archivos EXCEPT ![n].bloques = bs \o ceros]
  BY DEF FS!Agrandar, FS!EnProgreso
<1>2. archivos[n] \in [estado : FS!Estado, bloques : Seq(Bloque)]
  BY <1>1 DEF AlmacenTypeOK
<1>3. archivos'[n].bloques = bs \o ceros
  BY <1>1, <1>2
<1>4. \A i \in DOMAIN bs : i \in DOMAIN (bs \o ceros) /\ (bs \o ceros)[i] = bs[i]
  <2>1. bs \in Seq(Bloque) /\ ceros \in Seq({CERO})
    BY <1>2
  <2>2. bs \in Seq(Bloque \cup {CERO}) /\ ceros \in Seq(Bloque \cup {CERO})
    BY <2>1
  <2> HIDE DEF bs, ceros
  <2> QED BY <2>2
<1>5. \A m \in DOMAIN archivos : m # n => m \in DOMAIN archivos' /\ archivos'[m] = archivos[m]
  BY <1>1
<1>6. n \in DOMAIN archivos'
  BY <1>1
<1> QED BY <1>3, <1>4, <1>5, <1>6 DEF Conserva, propios

LEMMA CommitearConserva ==
  ASSUME AlmacenTypeOK, NEW n, FS!Commitear(n)
  PROVE  Conserva
<1>1. n \in DOMAIN archivos /\ archivos' = [archivos EXCEPT ![n].estado = "COMMITED"]
  BY DEF FS!Commitear, FS!EnProgreso
<1>2. archivos[n] \in [estado : FS!Estado, bloques : Seq(Bloque)]
  BY <1>1 DEF AlmacenTypeOK
<1>3. archivos'[n].bloques = archivos[n].bloques
  BY <1>1, <1>2
<1>4. \A m \in DOMAIN archivos : m # n => m \in DOMAIN archivos' /\ archivos'[m] = archivos[m]
  BY <1>1
<1> QED BY <1>1, <1>3, <1>4 DEF Conserva, propios

LEMMA SinCambioConserva ==
  ASSUME UNCHANGED almacen
  PROVE  Conserva
  BY DEF almacen, Conserva, propios

LEMMA otroWorkerConserva ==
  ASSUME IInv, NEW n \in Nombres, otroWorker(n)
  PROVE  Pedido
<1>1. n \in Compartidos /\ UNCHANGED <<memoria, entrada>>
  BY DEF otroWorker, marcos, tablas
<1>2. ASSUME FS!EnProgreso(n), NEW i \in DOMAIN archivos[n].bloques, NEW c \in Bloque,
             FS!Escribir(n, i, c)
      PROVE  Conserva
  <2>1. /\ DOMAIN archivos' = DOMAIN archivos
        /\ \A m \in DOMAIN archivos : m # n => archivos'[m] = archivos[m]
    BY <1>2, EscribirSolo DEF IInv, MemoriaTypeOK
  <2> QED BY <1>1, <2>1 DEF Conserva, propios
<1>3. CASE FS!Commitear(n)
  BY <1>1, <1>3, CommitearConserva DEF IInv, MemoriaTypeOK, Pedido
<1>4. CASE FS!Eliminar(n)
  BY <1>1, <1>4, EliminarConserva DEF Conserva, propios, Pedido
<1> QED BY <1>1, <1>2, <1>3, <1>4 DEF otroWorker, Pedido

LEMMA ejecutarConserva ==
  ASSUME IInv, SoloCrecen, NEW n \in Nombres,
         ejecutarCreate(n) \/ ejecutarTruncate(n) \/ ejecutarTag(n) \/ ejecutarWrite(n)
         \/ ejecutarRead(n) \/ ejecutarFlush(n)
  PROVE  Pedido
<1>1. UNCHANGED <<memoria, entrada>>
  BY DEF ejecutarCreate, ejecutarTruncate, ejecutarTag, ejecutarWrite, ejecutarRead,
         ejecutarFlush, pedirAStorage, Ejecutar, marcos
<1>2. CASE ejecutarCreate(n)
  <2>1. FS!Crear(n) \/ UNCHANGED almacen
    BY <1>2 DEF ejecutarCreate, pedirAStorage
  <2> QED BY <1>1, <2>1, SinCambioConserva, NuevoConserva DEF FS!Crear, Pedido
<1>3. CASE ejecutarTruncate(n)
  <2>1. \/ \E k \in 1 .. MaxBloques - Len(archivos[n].bloques) :
             FS!Agrandar(n, k) /\ archivos[n].bloques \in Seq(Bloque)
        \/ UNCHANGED almacen
    <3>1. \/ /\ FS!EnProgreso(n)
             /\ \E k \in 1 .. MaxBloques - Len(archivos[n].bloques) : FS!Agrandar(n, k)
          \/ UNCHANGED almacen
      BY <1>3 DEF ejecutarTruncate, pedirAStorage, SoloCrecen
    <3> QED BY <3>1 DEF FS!EnProgreso, IInv, MemoriaTypeOK, AlmacenTypeOK
  <2>2. ASSUME NEW k \in 1 .. MaxBloques - Len(archivos[n].bloques),
               FS!Agrandar(n, k), archivos[n].bloques \in Seq(Bloque)
        PROVE  Conserva
    <3>1. k \in Nat
      BY <2>2, MemoriaAssumption
    <3> QED BY <2>2, <3>1, AgrandarConserva DEF IInv, MemoriaTypeOK
  <2> QED BY <1>1, <2>1, <2>2, SinCambioConserva DEF Pedido
<1>4. CASE ejecutarTag(n)
  <2>1. (\E d \in Nombres : FS!Copiar(n, d)) \/ UNCHANGED almacen
    BY <1>4 DEF ejecutarTag, pedirAStorage
  <2> QED BY <1>1, <2>1, SinCambioConserva, NuevoConserva DEF FS!Copiar, Pedido
<1>5. CASE ejecutarWrite(n) \/ ejecutarRead(n) \/ ejecutarFlush(n)
  BY <1>1, <1>5, SinCambioConserva DEF ejecutarWrite, ejecutarRead, ejecutarFlush, Pedido
<1> QED BY <1>2, <1>3, <1>4, <1>5

LEMMA ejecutarDeleteVista ==
  ASSUME IInv, NEW n \in Nombres, ejecutarDelete(n)
  PROVE  UNCHANGED <<almacen, memoria, entrada>> \/ Borra(n)
<1>1. memoria' = memoria
  BY DEF ejecutarDelete, marcos
<1>2. CASE /\ FS!Eliminar(n)
           /\ entrada' = [x \in Pares |-> IF x[1] = n THEN crearEntradaPagina ELSE entrada[x]]
  BY <1>1, <1>2 DEF FS!Eliminar, Borra, crearEntradaPagina
<1>3. CASE FS!Eliminar(n) /\ n \notin ToSet(tabla_general) /\ entrada' = entrada
  BY <1>1, <1>3 DEF FS!Eliminar, Borra, IInv, TablasBien, presentes
<1>4. CASE UNCHANGED <<almacen, entrada>>
  BY <1>1, <1>4
<1> QED BY <1>2, <1>3, <1>4 DEF ejecutarDelete

\* What a step can do to what is seen.
LEMMA Pasos ==
  ASSUME IInv, IRespaldo, Traida, SoloCrecen, [Next]_vars
  PROVE  HayCopia \/ Quieto \/ Pedido \/ \E n \in Nombres : Borra(n)
<1>1. CASE acceder \/ devolverFrameLibre \/ gestionarBitModificado \/ flushearEntrada
  BY <1>1, accederCopia, devolverCopia, desalojarCopia, flushearQuieto
<1>2. CASE \/ gestionarPAGE_FAULT \/ sinVictima \/ finDelFlush \/ siguiente
           \/ gestionarCheckInterrupt \/ UNCHANGED vars
  <2>1. UNCHANGED <<memoria, entrada>> /\ UNCHANGED almacen
    BY <1>2 DEF gestionarPAGE_FAULT, sinVictima, finDelFlush, siguiente,
                gestionarCheckInterrupt, limpiar, vars, tablas, marcos
  <2> QED BY <2>1, SinCambioConserva DEF Pedido
<1>3. CASE ejecutarCommit
  <2>1. UNCHANGED <<memoria, entrada>>
        /\ (FS!Commitear(instruccion.nombre) \/ UNCHANGED almacen)
    BY <1>3 DEF ejecutarCommit, tablas, marcos
  <2> QED BY <2>1, CommitearConserva, SinCambioConserva DEF Pedido, IInv, MemoriaTypeOK
<1>4. ASSUME NEW n \in Nombres, Execute(n) \/ otroWorker(n)
      PROVE  Pedido \/ Borra(n)
  BY <1>4, otroWorkerConserva, ejecutarConserva, ejecutarDeleteVista, SinCambioConserva
     DEF Execute, Pedido
<1> QED BY <1>1, <1>2, <1>3, <1>4 DEF Next, accesoDelWorker

-----------------------------------------------------------------------------
(* What each of them does.                                                 *)

LEMMA CopiaVista ==
  ASSUME NEW f \in Frames, NEW mem \in [Frames -> Pagina], NEW ent \in [Pares -> Entrada],
         Copia(f, mem, ent)
  PROVE  /\ IRespaldo' /\ DOMAIN archivos' \ Compartidos = propios
         /\ \A n \in propios :
              /\ archivos'[n].estado = archivos[n].estado
              /\ DOMAIN archivos'[n].bloques = DOMAIN archivos[n].bloques
              /\ archivos'[n].estado = "COMMITED" => archivos'[n].bloques = archivos[n].bloques
              /\ \A i \in DOMAIN archivos[n].bloques :
                   IF <<n, i - 1>> = pag
                   THEN /\ vista(n, i) = aBloque(mem[f])
                        /\ vista(n, i)' = IF instruccion.op = "WRITE"
                                          THEN aBloque(escrita(mem[f])) ELSE vista(n, i)
                   ELSE vista(n, i)' = vista(n, i)
<1>1. /\ Respaldo(archivos', memoria', entrada')
      /\ \A n, i : <<n, i - 1>> # pag \/ instruccion.op # "WRITE" =>
           Mira(archivos', memoria', entrada', n, i) = Mira(archivos', mem, ent, n, i)
      /\ \A n, i : <<n, i - 1>> = pag /\ instruccion.op = "WRITE" =>
           Mira(archivos', memoria', entrada', n, i) = aBloque(escrita(mem[f]))
  BY TramoVista DEF Copia
<1>2. pag \in Pares
  BY Tramo DEF Copia
<1>3. \A n, i : <<n, i - 1>> = pag => Mira(archivos', mem, ent, n, i) = aBloque(mem[f])
  BY <1>2 DEF Copia, Mira
<1>4. MismaVista(archivos', mem, ent)
  BY DEF Copia
<1> QED BY <1>1, <1>3, <1>4, VistaActual DEF MismaVista, IRespaldo

LEMMA QuietoVista ==
  ASSUME Quieto
  PROVE  /\ IRespaldo' /\ DOMAIN archivos' \ Compartidos = propios
         /\ \A n \in propios :
              /\ archivos'[n].estado = archivos[n].estado
              /\ DOMAIN archivos'[n].bloques = DOMAIN archivos[n].bloques
              /\ archivos'[n].estado = "COMMITED" => archivos'[n].bloques = archivos[n].bloques
              /\ \A i \in DOMAIN archivos[n].bloques : vista(n, i)' = vista(n, i)
  BY VistaActual DEF Quieto, MismaVista, IRespaldo

LEMMA PedidoVista ==
  ASSUME IRespaldo, Pedido
  PROVE  /\ IRespaldo'
         /\ \A n \in propios :
              /\ n \in DOMAIN archivos'
              /\ \A i \in DOMAIN archivos[n].bloques :
                   i \in DOMAIN archivos'[n].bloques /\ vista(n, i)' = vista(n, i)
<1>1. Respaldo(archivos', memoria', entrada')
  BY DEF Pedido, Conserva, IRespaldo, Respaldo, propios
<1>2. ASSUME NEW n \in propios, NEW i \in DOMAIN archivos[n].bloques
      PROVE  vista(n, i)' = vista(n, i)
  BY <1>2, VistaActual DEF Pedido, Conserva, Mira
<1> QED BY <1>1, <1>2 DEF Pedido, Conserva, IRespaldo

LEMMA BorraVista ==
  ASSUME IRespaldo, NEW d, Borra(d)
  PROVE  /\ IRespaldo'
         /\ \A n \in DOMAIN archivos : n # d =>
              /\ n \in DOMAIN archivos' /\ archivos'[n] = archivos[n]
              /\ \A i : vista(n, i)' = vista(n, i)
<1>1. Respaldo(archivos', memoria', entrada')
  BY DEF Borra, IRespaldo, Respaldo
<1>2. ASSUME NEW n \in DOMAIN archivos, n # d, NEW i
      PROVE  vista(n, i)' = vista(n, i)
  <2>1. archivos'[n] = archivos[n]
    BY <1>2 DEF Borra
  <2>2. <<n, i - 1>> \in Pares => entrada'[<<n, i - 1>>] = entrada[<<n, i - 1>>]
    BY <1>2 DEF Borra
  <2> QED BY <2>1, <2>2, VistaActual DEF Borra, Mira
<1> QED BY <1>1, <1>2 DEF Borra, IRespaldo

\* A turn copies at least one byte.
LEMMA TramoAvanza ==
  ASSUME EnAcceso, NEW f, NEW mem, NEW ent, copiarTramo(f, mem, ent)
  PROVE  hecho' = hecho + por_copiar /\ por_copiar \in Nat \ {0} /\ hecho \in Nat
         /\ hecho' > hecho
<1>1. /\ instruccion.total \in Nat /\ hecho \in Nat /\ hecho < instruccion.total
      /\ TamPag \in Nat /\ desp_actual \in 0 .. TamPag - 1
  BY Tramo, MemoriaAssumption DEF EnAcceso, MemoriaTypeOK, EjecucionTypeOK, AccediendoBien
<1>2. por_copiar \in Nat \ {0}
  BY <1>1 DEF por_copiar
<1>3. hecho' = hecho + por_copiar
  BY DEF copiarTramo
<1> QED BY <1>1, <1>2, <1>3

\* The files of this worker keep their blocks, and what is seen of them
\* changes only where a WRITE is, by what it writes.
Cambia(n, i) ==
  /\ instruccion.op = "WRITE" /\ pag = <<n, i - 1>> /\ hecho' > hecho

LEMMA CambioDeVista ==
  ASSUME IInv, IRespaldo, Traida, SoloCrecen, [Next]_vars
  PROVE  /\ IRespaldo'
         /\ \A n \in propios : n \in DOMAIN archivos' =>
              \A i \in DOMAIN archivos[n].bloques :
                /\ i \in DOMAIN archivos'[n].bloques
                /\ vista(n, i)' = vista(n, i) \/ Cambia(n, i)
<1>1. CASE HayCopia
  <2>1. \E f \in Frames : \E mem \in [Frames -> Pagina] : \E ent \in [Pares -> Entrada] :
          Copia(f, mem, ent)
    BY <1>1 DEF HayCopia
  <2>2. ASSUME NEW f \in Frames, NEW mem \in [Frames -> Pagina], NEW ent \in [Pares -> Entrada],
               Copia(f, mem, ent)
        PROVE  hecho' > hecho
    BY <2>2, TramoAvanza DEF Copia
  <2> QED BY <2>1, <2>2, CopiaVista DEF Cambia
<1>2. CASE Quieto
  BY <1>2, QuietoVista
<1>3. CASE Pedido
  BY <1>3, PedidoVista
<1>4. ASSUME NEW d \in Nombres, Borra(d)
      PROVE  /\ IRespaldo'
             /\ \A n \in propios : n \in DOMAIN archivos' =>
                  \A i \in DOMAIN archivos[n].bloques :
                    i \in DOMAIN archivos'[n].bloques /\ vista(n, i)' = vista(n, i)
  <2>1. d \notin DOMAIN archivos'
    BY <1>4 DEF Borra
  <2> QED BY <1>4, <2>1, BorraVista DEF propios
<1> QED BY <1>1, <1>2, <1>3, <1>4, Pasos

-----------------------------------------------------------------------------
(* The block a fault asked for.                                            *)

LEMMA gestionarPAGE_FAULTTraida ==
  ASSUME IInv, gestionarPAGE_FAULT
  PROVE  Traida'
<1>1. pag' = pag \/ paso' = "hecho"
  BY DEF gestionarPAGE_FAULT, pag, pag_actual, terminarConError, terminar
<1>2. CASE paso' # "page_fault"
  BY <1>2 DEF Traida
<1>3. CASE paso' = "page_fault"
  <2>1. /\ FS!TieneBloque(instruccion.nombre, pag_actual + 1)
        /\ contenido_pagina' \in
             recibidos(archivos[instruccion.nombre].bloques[pag_actual + 1])
        /\ archivos' = archivos /\ entrada' = entrada /\ ~ entrada[pag].bit_presencia
        /\ pag' = pag
    BY <1>1, <1>3 DEF gestionarPAGE_FAULT, terminarConError, terminar, almacen
  <2>2. archivos[instruccion.nombre].bloques[pag_actual + 1] = aBloque(contenido_pagina')
    BY <2>1 DEF recibidos
  <2>3. pag[1] = instruccion.nombre /\ pag[2] = pag_actual
    BY DEF pag
  <2>4. aBloque(contenido_pagina)' = aBloque(contenido_pagina')
    BY DEF aBloque
  <2> QED BY <2>1, <2>2, <2>3, <2>4 DEF Traida, FS!TieneBloque
<1> QED BY <1>2, <1>3

LEMMA EsperaBloque ==
  ASSUME IInv, [Next]_vars, paso' = "page_fault"
  PROVE  gestionarPAGE_FAULT \/ (\E n \in Nombres : otroWorker(n)) \/ UNCHANGED vars
<1>1. ~ acceder
  BY DEF acceder, copiarTramo, terminar
<1>2. ~ devolverFrameLibre /\ ~ gestionarBitModificado
  BY DEF devolverFrameLibre, gestionarBitModificado, asignarMarco, copiarTramo, terminar,
         terminarConError
<1>3. ~ sinVictima /\ ~ finDelFlush /\ ~ siguiente /\ ~ ejecutarCommit /\ ~ flushearEntrada
      /\ ~ gestionarCheckInterrupt
  BY DEF sinVictima, terminarConError, terminar, finDelFlush, trasElFlush, siguiente,
         ejecutarCommit, flushearEntrada, gestionarCheckInterrupt
<1>4. \A n \in Nombres : ~ Execute(n)
  BY DEF Execute, ejecutarCreate, ejecutarTruncate, ejecutarTag, pedirAStorage, ejecutarWrite,
         ejecutarRead, ejecutarFlush, ejecutarDelete, Ejecutar, terminar
<1> QED BY <1>1, <1>2, <1>3, <1>4 DEF Next, accesoDelWorker

LEMMA TraidaPaso ==
  ASSUME IInv, Traida, [Next]_vars
  PROVE  Traida'
<1>1. CASE paso' # "page_fault"
  BY <1>1 DEF Traida
<1>2. CASE gestionarPAGE_FAULT
  BY <1>2, gestionarPAGE_FAULTTraida
<1>3. ASSUME Pedido, UNCHANGED <<ejecucion, entrada>> PROVE Traida'
  <2>1. UNCHANGED <<pag, contenido_pagina, paso, entrada>>
    BY <1>3 DEF ejecucion, pag, pag_actual
  <2>2. aBloque(contenido_pagina)' = aBloque(contenido_pagina)
    BY <2>1 DEF aBloque
  <2> QED BY <1>3, <2>1, <2>2 DEF Traida, Pedido, Conserva, propios
<1>4. ASSUME NEW n \in Nombres, otroWorker(n) PROVE Traida'
  BY <1>3, <1>4, otroWorkerConserva DEF otroWorker, tablas
<1>5. CASE UNCHANGED vars
  <2>1. UNCHANGED <<almacen, tablas, marcos, ejecucion>>
    BY <1>5 DEF vars
  <2> QED BY <1>3, <2>1, SinCambioConserva DEF Pedido, tablas, marcos
<1> QED BY <1>1, <1>2, <1>4, <1>5, EsperaBloque

LEMMA IniciarVista == Init => IRespaldo /\ Traida
  BY DEF Init, IRespaldo, Respaldo, Traida, crearEntradaPagina

LEMMA VistaInvariante ==
  ASSUME SoloCrecen
  PROVE  Spec => [](IInv /\ IRespaldo /\ Traida)
<1> DEFINE VInv == IInv /\ IRespaldo /\ Traida
<1>1. VInv /\ [Next]_vars => VInv'
  BY PasoInv, CambioDeVista, TraidaPaso
<1>2. Init => VInv
  BY IniciarMemoria, IniciarVista
<1> QED BY <1>1, <1>2, PTL DEF Spec

\* Transparente, for any number of names, pages and frames, any size of page
\* and either policy: as long as no TRUNCATE makes a file shorter, nothing but
\* a WRITE changes what a query reads of its files, and only in its page.
THEOREM TransparenteSiempre ==
  ASSUME SoloCrecen
  PROVE  Spec => Transparente
<1>1. IInv /\ IRespaldo /\ Traida /\ [Next]_vars =>
        [\A n \in propios : n \in DOMAIN archivos' =>
           \A i \in DOMAIN archivos[n].bloques \cap DOMAIN archivos'[n].bloques :
             vista(n, i)' # vista(n, i) =>
               instruccion.op = "WRITE" /\ pag = <<n, i - 1>> /\ hecho' > hecho]_vars
  BY CambioDeVista DEF Cambia
<1> QED BY <1>1, VistaInvariante, PTL DEF Spec, Transparente

-----------------------------------------------------------------------------
(* What a flush leaves in storage.                                         *)

PideFlush == instruccion.op \in {"FLUSH", "COMMIT", "DESALOJO"}

\* A flush that refused nothing left nothing dirty, and of a file of this
\* worker that can be written storage refuses nothing.
Flusheada ==
  paso \in {"commiteando", "hecho"} /\ PideFlush =>
    /\ enviados = <<>> => obtenerEntradasAFlushear = {}
    /\ paso = "commiteando" /\ FS!EnProgreso(instruccion.nombre)
         /\ instruccion.nombre \notin Compartidos => obtenerEntradasAFlushear = {}

LEMMA EjecutarOp ==
  ASSUME NEW op, NEW n, NEW dir, NEW datos, NEW total, NEW p,
         Ejecutar(op, n, dir, datos, total, p)
  PROVE  instruccion'.op = op /\ paso' = p
  BY DEF Ejecutar

LEMMA FinDeFlush ==
  ASSUME IInv, [Next]_vars, paso' \in {"commiteando", "hecho"}, PideFlush'
  PROVE  \/ flushearEntrada \/ finDelFlush \/ ejecutarCommit
         \/ (\E n \in Nombres : otroWorker(n)) \/ UNCHANGED vars
<1>1. paso \in {"accediendo", "page_fault"} => instruccion.op \in {"WRITE", "READ"}
  BY DEF IInv, Curso, AccediendoBien
<1>2. ~ acceder /\ ~ gestionarPAGE_FAULT
  BY <1>1 DEF acceder, gestionarPAGE_FAULT, PideFlush, terminarConError
<1>3. ~ devolverFrameLibre /\ ~ gestionarBitModificado
  BY <1>1 DEF devolverFrameLibre, gestionarBitModificado, asignarMarco, PideFlush, terminarConError
<1>4. ~ sinVictima /\ ~ siguiente /\ ~ gestionarCheckInterrupt
  BY <1>1 DEF sinVictima, terminarConError, siguiente, gestionarCheckInterrupt, PideFlush
<1>5. ASSUME NEW n \in Nombres PROVE ~ Execute(n)
  <2>1. ~ ejecutarDelete(n)
    <3>1. ejecutarDelete(n) => instruccion'.op = "DELETE"
      BY DEF ejecutarDelete, Ninguna
    <3> QED BY <3>1 DEF PideFlush
  <2>2. ASSUME ejecutarCreate(n) \/ ejecutarTruncate(n) \/ ejecutarTag(n)
        PROVE  FALSE
    <3>1. \E op \in {"CREATE", "TRUNCATE", "TAG"} : Ejecutar(op, n, 0, <<>>, 0, "hecho")
      BY <2>2 DEF ejecutarCreate, ejecutarTruncate, ejecutarTag, pedirAStorage
    <3> QED BY <3>1, EjecutarOp DEF PideFlush
  <2>3. ASSUME ejecutarWrite(n) \/ ejecutarRead(n) \/ ejecutarFlush(n)
        PROVE  FALSE
    <3>1. \/ \E op \in {"WRITE", "READ"} : \E dir, datos, total, p :
               Ejecutar(op, n, dir, datos, total, p)
          \/ \E op : Ejecutar(op, n, 0, <<>>, 0, "flusheando")
      BY <2>3, Zenon DEF ejecutarWrite, ejecutarRead, ejecutarFlush
    <3> QED BY <3>1, EjecutarOp DEF PideFlush
  <2> QED BY <2>1, <2>2, <2>3 DEF Execute
<1> QED BY <1>2, <1>3, <1>4, <1>5 DEF Next, accesoDelWorker

LEMMA SinCambioAFlushear ==
  ASSUME UNCHANGED <<tabla_general, entrada, instruccion>>
  PROVE  obtenerEntradasAFlushear' = obtenerEntradasAFlushear /\ (PideFlush' <=> PideFlush)
  BY DEF obtenerEntradasAFlushear, alcance, PideFlush

LEMMA FlusheadaPaso ==
  ASSUME IInv, IRespaldo, Flusheada, [Next]_vars
  PROVE  Flusheada'
<1> SUFFICES ASSUME paso' \in {"commiteando", "hecho"}, PideFlush'
             PROVE  /\ enviados' = <<>> => obtenerEntradasAFlushear' = {}
                    /\ paso' = "commiteando" /\ FS!EnProgreso(instruccion.nombre)'
                         /\ instruccion.nombre' \notin Compartidos => obtenerEntradasAFlushear' = {}
  BY DEF Flusheada
<1>1. CASE finDelFlush
  BY <1>1, SinCambioAFlushear DEF finDelFlush, tablas
<1>2. CASE ejecutarCommit
  <2>1. UNCHANGED <<tabla_general, entrada, instruccion>> /\ paso = "commiteando" /\ paso' = "hecho"
    BY <1>2 DEF ejecutarCommit, tablas, terminar
  <2>2. enviados' = <<>> => enviados = <<>>
    <3>1. enviados \in {<<>>, <<mensaje("ERROR", <<>>)>>}
      BY <2>1 DEF IInv, Curso
    <3>2. enviados' = enviados \o <<>> \/ enviados' = enviados \o <<mensaje("ERROR", <<>>)>>
      BY <1>2 DEF ejecutarCommit, terminar
    <3>3. \A m : <<m>> \o <<>> # <<>> /\ <<m>> \o <<m>> # <<>> /\ <<>> \o <<m>> # <<>>
      OBVIOUS
    <3> QED BY <3>1, <3>2, <3>3
  <2> QED BY <2>1, <2>2, SinCambioAFlushear DEF Flusheada
<1>3. CASE flushearEntrada
  <2>1. PICK x \in primeraAFlushear :
          /\ ~ FS!AdmiteEscritura(x[1], x[2] + 1)
          /\ trasElFlush(<<mensaje("ERROR", <<>>)>>, TRUE)
          /\ UNCHANGED <<almacen, entrada>>
    BY <1>3 DEF flushearEntrada
  <2>2. UNCHANGED <<archivos, tabla_general, entrada, instruccion>> /\ enviados = <<>>
    BY <1>3, <2>1 DEF flushearEntrada, almacen, IInv, Curso
  <2>3. enviados' # <<>>
    <3>1. \A m : <<>> \o <<m>> # <<>>
      OBVIOUS
    <3> QED BY <2>1, <2>2, <3>1 DEF trasElFlush, terminar
  <2>4. ASSUME paso' = "commiteando", FS!EnProgreso(instruccion.nombre)',
               instruccion.nombre \notin Compartidos
        PROVE  FALSE
    <3>1. instruccion.op = "COMMIT"
      BY <2>1, <2>4 DEF trasElFlush, terminar
    <3>2. x \in obtenerEntradasAFlushear
      BY <2>1 DEF primeraAFlushear
    <3>3. x \in Pares /\ entrada[x].bit_presencia /\ x[1] = instruccion.nombre
      BY <3>1, <3>2, AFlushear DEF obtenerEntradasAFlushear, alcance, presentes
    <3>4. x[1] \in DOMAIN archivos /\ x[2] + 1 \in DOMAIN archivos[x[1]].bloques
      BY <2>4, <3>3 DEF IRespaldo, Respaldo
    <3>5. FS!EnProgreso(instruccion.nombre)
      BY <2>2, <2>4 DEF FS!EnProgreso
    <3> QED BY <2>1, <3>3, <3>4, <3>5 DEF FS!AdmiteEscritura, FS!TieneBloque
  <2> QED BY <2>2, <2>3, <2>4
<1>4. ASSUME NEW n \in Nombres, otroWorker(n)
      PROVE  /\ enviados' = <<>> => obtenerEntradasAFlushear' = {}
             /\ paso' = "commiteando" /\ FS!EnProgreso(instruccion.nombre)'
                  /\ instruccion.nombre' \notin Compartidos => obtenerEntradasAFlushear' = {}
  <2>1. /\ UNCHANGED <<tabla_general, entrada, instruccion, paso, enviados>>
        /\ n \in Compartidos
    BY <1>4 DEF otroWorker, tablas, ejecucion
  <2>2. ASSUME FS!EnProgreso(instruccion.nombre)', instruccion.nombre \notin Compartidos
        PROVE  FS!EnProgreso(instruccion.nombre)
    <3>1. instruccion.nombre \in DOMAIN archivos' /\ archivos'[instruccion.nombre].estado = "WORK_IN_PROGRESS"
      BY <2>1, <2>2 DEF FS!EnProgreso
    <3>2. CASE FS!Commitear(n)
      BY <2>1, <2>2, <3>1, <3>2 DEF FS!Commitear, FS!EnProgreso
    <3>3. CASE FS!Eliminar(n)
      BY <2>1, <2>2, <3>1, <3>3 DEF FS!Eliminar, FS!EnProgreso
    <3>4. ASSUME NEW i \in DOMAIN archivos[n].bloques, NEW c \in Bloque, FS!Escribir(n, i, c)
          PROVE  FS!EnProgreso(instruccion.nombre)
      BY <2>1, <2>2, <3>1, <3>4, EscribirSolo DEF FS!EnProgreso, IInv, MemoriaTypeOK
    <3> QED BY <1>4, <3>2, <3>3, <3>4 DEF otroWorker
  <2> QED BY <2>1, <2>2, SinCambioAFlushear DEF Flusheada
<1>5. CASE UNCHANGED vars
  <2>1. UNCHANGED <<archivos, tabla_general, entrada, instruccion, paso, enviados>>
    BY <1>5 DEF vars, almacen, tablas, ejecucion
  <2> QED BY <2>1, SinCambioAFlushear DEF Flusheada, FS!EnProgreso
<1> QED BY <1>1, <1>2, <1>3, <1>4, <1>5, FinDeFlush

LEMMA PersistidoEnEstado ==
  ASSUME IRespaldo, Flusheada, IInv
  PROVE  Persistido
<1> SUFFICES ASSUME paso = "hecho", PideFlush, enviados = <<>>
             PROVE  /\ obtenerEntradasAFlushear = {}
                    /\ \A n \in propios \cap alcance : \A i \in DOMAIN archivos[n].bloques :
                         archivos[n].bloques[i] = vista(n, i)
  BY DEF Persistido, PideFlush
<1>1. obtenerEntradasAFlushear = {}
  BY DEF Flusheada
<1>2. ASSUME NEW n \in propios \cap alcance, NEW i \in DOMAIN archivos[n].bloques,
             <<n, i - 1>> \in Pares, entrada[<<n, i - 1>>].bit_presencia
      PROVE  archivos[n].bloques[i] = aBloque(memoria[entrada[<<n, i - 1>>].nro_frame])
  <2>1. ~ entrada[<<n, i - 1>>].bit_modificado
    BY <1>1, <1>2 DEF obtenerEntradasAFlushear
  <2>2. i \in Int
    BY EstadoDeArchivo DEF propios, IInv, MemoriaTypeOK
  <2>3. i - 1 + 1 = i
    BY <2>2
  <2>4. archivos[n].bloques[i - 1 + 1] = aBloque(memoria[entrada[<<n, i - 1>>].nro_frame])
    BY <1>2, <2>1 DEF IRespaldo, Respaldo, propios
  <2> QED BY <2>3, <2>4
<1> QED BY <1>1, <1>2, VistaActual DEF Mira

\* Persistido, for any instance where no TRUNCATE makes a file shorter: what a
\* FLUSH, a COMMIT or a preemption that sent no ERROR leaves in storage is
\* what the queries of this worker saw, so that another worker can go on.
THEOREM PersistidoSiempre ==
  ASSUME SoloCrecen
  PROVE  Spec => []Persistido
<1>1. Init => Flusheada
  BY DEF Init, Flusheada
<1>2. IInv /\ IRespaldo /\ Flusheada /\ [Next]_vars => Flusheada'
  BY FlusheadaPaso
<1>3. IInv /\ IRespaldo /\ Flusheada => Persistido
  BY PersistidoEnEstado
<1> QED BY <1>1, <1>2, <1>3, VistaInvariante, PTL DEF Spec

-----------------------------------------------------------------------------
(* The worker and its cache are the storage TagsIndependientes promises.    *)

Solo == SoloCrecen /\ Compartidos = {} /\ "TAG" \notin Usos

bloquesVistos(n) ==
  IF archivos[n].estado = "COMMITED" THEN archivos[n].bloques
  ELSE [i \in DOMAIN archivos[n].bloques |-> vista(n, i)]

LEMMA Visto ==
  /\ visto = [n \in DOMAIN archivos |->
                [estado |-> archivos[n].estado, bloques |-> bloquesVistos(n)]]
  /\ visto' = [n \in DOMAIN archivos' |->
                 [estado |-> archivos'[n].estado, bloques |-> bloquesVistos(n)']]
  BY DEF visto, bloquesVistos

LEMMA BloquesVistosIgual ==
  ASSUME NEW n, archivos'[n].estado = archivos[n].estado,
         DOMAIN archivos'[n].bloques = DOMAIN archivos[n].bloques,
         archivos'[n].estado = "COMMITED" => archivos'[n].bloques = archivos[n].bloques,
         \A i \in DOMAIN archivos[n].bloques :
           archivos[n].estado # "COMMITED" => vista(n, i)' = vista(n, i)
  PROVE  bloquesVistos(n)' = bloquesVistos(n)
  BY DEF bloquesVistos

LEMMA VistoIgual ==
  ASSUME DOMAIN archivos' = DOMAIN archivos,
         \A n \in DOMAIN archivos : /\ archivos'[n].estado = archivos[n].estado
                                    /\ bloquesVistos(n)' = bloquesVistos(n)
  PROVE  visto' = visto
  BY Visto

\* Only file n looks different.
LEMMA VistoSalvo ==
  ASSUME NEW n \in DOMAIN archivos, DOMAIN archivos' = DOMAIN archivos,
         \A m \in DOMAIN archivos : m # n => /\ archivos'[m].estado = archivos[m].estado
                                             /\ bloquesVistos(m)' = bloquesVistos(m)
  PROVE  visto' = [visto EXCEPT ![n] = [estado |-> archivos'[n].estado,
                                        bloques |-> bloquesVistos(n)']]
  BY Visto

LEMMA BloquesVistosTipo ==
  ASSUME IInv, NEW n \in DOMAIN archivos
  PROVE  /\ bloquesVistos(n) \in Seq(Bloque)
         /\ DOMAIN bloquesVistos(n) = DOMAIN archivos[n].bloques
         /\ Len(bloquesVistos(n)) = Len(archivos[n].bloques)
<1>1. archivos[n].bloques \in Seq(Bloque)
  BY EstadoDeArchivo DEF IInv, MemoriaTypeOK
<1>2. ASSUME NEW i \in DOMAIN archivos[n].bloques PROVE vista(n, i) \in Bloque
  <2>1. archivos[n].bloques[i] \in Bloque
    BY <1>1
  <2>2. CASE <<n, i - 1>> \in Pares /\ entrada[<<n, i - 1>>].bit_presencia
    <3>1. <<n, i - 1>> \in presentes(entrada)
      BY <2>2 DEF presentes
    <3>2. aBloque(memoria[entrada[<<n, i - 1>>].nro_frame]) \in Bloque
      BY <3>1, PaginaABloque DEF IInv, MemoriaTypeOK
    <3> QED BY <2>2, <3>2, VistaActual DEF Mira
  <2>3. CASE ~ (<<n, i - 1>> \in Pares /\ entrada[<<n, i - 1>>].bit_presencia)
    BY <2>1, <2>3, VistaActual DEF Mira
  <2> QED BY <2>2, <2>3
<1>3. CASE archivos[n].estado = "COMMITED"
  BY <1>1, <1>3 DEF bloquesVistos
<1>4. CASE archivos[n].estado # "COMMITED"
  <2> DEFINE s == archivos[n].bloques
             v == [i \in DOMAIN s |-> vista(n, i)]
  <2>1. bloquesVistos(n) = v
    BY <1>4 DEF bloquesVistos
  <2>2. DOMAIN s = 1 .. Len(s) /\ Len(s) \in Nat
    BY <1>1
  <2>3. v \in [1 .. Len(s) -> Bloque]
    BY <1>2, <2>2
  <2> HIDE DEF v
  <2>4. v \in Seq(Bloque) /\ Len(v) = Len(s) /\ DOMAIN v = DOMAIN s
    BY <2>2, <2>3
  <2> QED BY <2>1, <2>4
<1> QED BY <1>3, <1>4

\* A turn of WRITE is one write of storage, unless the file is COMMITED.
LEMMA CopiaIndependiente ==
  ASSUME IInv, Solo, HayCopia
  PROVE  visto' = visto \/ Vista!Next
<1>1. \E f \in Frames : \E mem \in [Frames -> Pagina] : \E ent \in [Pares -> Entrada] :
        Copia(f, mem, ent)
  BY DEF HayCopia
<1> SUFFICES ASSUME NEW f \in Frames, NEW mem \in [Frames -> Pagina],
                    NEW ent \in [Pares -> Entrada], Copia(f, mem, ent)
             PROVE  visto' = visto \/ Vista!Next
  BY <1>1
<1>2. propios = DOMAIN archivos /\ DOMAIN archivos' = DOMAIN archivos
  BY CopiaVista DEF Solo, propios
<1>3. \A n \in DOMAIN archivos :
        /\ archivos'[n].estado = archivos[n].estado
        /\ DOMAIN archivos'[n].bloques = DOMAIN archivos[n].bloques
        /\ archivos'[n].estado = "COMMITED" => archivos'[n].bloques = archivos[n].bloques
        /\ \A i \in DOMAIN archivos[n].bloques :
             /\ <<n, i - 1>> # pag \/ instruccion.op # "WRITE" => vista(n, i)' = vista(n, i)
             /\ <<n, i - 1>> = pag /\ instruccion.op = "WRITE" =>
                  vista(n, i)' = aBloque(escrita(mem[f]))
  BY <1>2, CopiaVista
<1> DEFINE c == aBloque(escrita(mem[f]))
<1>4. PICK n \in Nombres, p \in Paginas : pag = <<n, p>>
  BY Tramo DEF Copia, Pares
<1> DEFINE i == p + 1
<1>5. pag = <<n, i - 1>> /\ i \in Int
  <2>1. i - 1 = p /\ i \in Int
    BY MemoriaAssumption DEF Paginas
  <2> QED BY <1>4, <2>1
<1>6. ASSUME NEW m \in DOMAIN archivos, NEW j \in DOMAIN archivos[m].bloques,
             <<m, j - 1>> = pag
      PROVE  m = n /\ j = i
  <2>1. m = n /\ j - 1 = i - 1 /\ j \in Int
    BY <1>5, <1>6, EstadoDeArchivo DEF IInv, MemoriaTypeOK
  <2> QED BY <1>5, <2>1
<1> HIDE DEF i, c
<1>7. CASE /\ instruccion.op = "WRITE" /\ n \in DOMAIN archivos /\ i \in DOMAIN archivos[n].bloques
           /\ archivos[n].estado # "COMMITED"
  <2>1. c \in Bloque
    <3>1. mem[f] \in Pagina
      OBVIOUS
    <3>2. escrita(mem[f]) \in Pagina
      BY <1>7, <3>1, EscritaTipo DEF Copia
    <3> QED BY <3>2 DEF c, Bloque
  <2>2. vista(n, i)' = c /\ \A j \in DOMAIN archivos[n].bloques : j # i => vista(n, j)' = vista(n, j)
    BY <1>3, <1>5, <1>6, <1>7 DEF c
  <2>3. bloquesVistos(n)' = [bloquesVistos(n) EXCEPT ![i] = c]
    BY <1>3, <1>7, <2>2 DEF bloquesVistos
  <2>4. \A m \in DOMAIN archivos : m # n => bloquesVistos(m)' = bloquesVistos(m)
    BY <1>3, <1>6, BloquesVistosIgual
  <2>5. visto' = [visto EXCEPT ![n] = [estado |-> archivos'[n].estado,
                                       bloques |-> bloquesVistos(n)']]
    BY <1>2, <1>3, <1>7, <2>4, VistoSalvo
  <2>6. visto[n] = [estado |-> archivos[n].estado, bloques |-> bloquesVistos(n)]
        /\ n \in DOMAIN visto
    BY <1>7, Visto
  <2>7. visto' = [visto EXCEPT ![n].bloques[i] = c]
    <3> DEFINE v == [visto[n] EXCEPT !.bloques = [visto[n].bloques EXCEPT ![i] = c]]
    <3>1. v = [estado |-> archivos'[n].estado, bloques |-> bloquesVistos(n)']
      BY <1>3, <1>7, <2>3, <2>6
    <3>2. visto' = [visto EXCEPT ![n] = v]
      BY <2>5, <3>1
    <3> QED BY <3>2
  <2>8. archivos[n].estado = "WORK_IN_PROGRESS"
    BY <1>7, EstadoDeArchivo DEF IInv, MemoriaTypeOK
  <2>9. Vista!EnProgreso(n) /\ i \in DOMAIN visto[n].bloques
    BY <1>7, <2>6, <2>8, BloquesVistosTipo DEF Vista!EnProgreso
  <2>10. Vista!Escribir(n, i, c)
    BY <2>6, <2>7, <2>9 DEF Vista!Escribir, Vista!AdmiteEscritura, Vista!TieneBloque
  <2> QED BY <1>5, <2>1, <2>9, <2>10 DEF Vista!Next
<1>8. CASE ~ (/\ instruccion.op = "WRITE" /\ n \in DOMAIN archivos
              /\ i \in DOMAIN archivos[n].bloques /\ archivos[n].estado # "COMMITED")
  <2>1. ASSUME NEW m \in DOMAIN archivos, NEW j \in DOMAIN archivos[m].bloques,
               archivos[m].estado # "COMMITED"
        PROVE  vista(m, j)' = vista(m, j)
    BY <1>3, <1>6, <1>8, <2>1
  <2>2. \A m \in DOMAIN archivos : bloquesVistos(m)' = bloquesVistos(m)
    BY <1>3, <2>1, BloquesVistosIgual
  <2> QED BY <1>2, <1>3, <2>2, VistoIgual
<1> QED BY <1>7, <1>8

LEMMA QuietoIndependiente ==
  ASSUME Solo, Quieto
  PROVE  visto' = visto
<1>1. propios = DOMAIN archivos /\ DOMAIN archivos' = DOMAIN archivos
  BY QuietoVista DEF Solo, propios
<1>2. \A n \in DOMAIN archivos : bloquesVistos(n)' = bloquesVistos(n)
  BY <1>1, QuietoVista, BloquesVistosIgual
<1> QED BY <1>1, <1>2, QuietoVista, VistoIgual

\* A request changes what is seen as it changes storage.
LEMMA NuevoIndependiente ==
  ASSUME NEW n \in Nombres, FS!Crear(n), UNCHANGED <<memoria, entrada>>
  PROVE  Vista!Crear(n)
<1>1. /\ n \notin DOMAIN archivos
      /\ archivos' = [m \in DOMAIN archivos \cup {n} |->
                        IF m = n THEN [estado |-> "WORK_IN_PROGRESS", bloques |-> <<>>]
                        ELSE archivos[m]]
  BY DEF FS!Crear, FS!Nuevo
<1>2. \A m \in DOMAIN archivos : bloquesVistos(m)' = bloquesVistos(m)
  <2> SUFFICES ASSUME NEW m \in DOMAIN archivos PROVE bloquesVistos(m)' = bloquesVistos(m)
    OBVIOUS
  <2>1. archivos'[m] = archivos[m]
    BY <1>1
  <2>2. \A i : vista(m, i)' = vista(m, i)
    BY <2>1, VistaActual DEF Mira
  <2> QED BY <2>1, <2>2, BloquesVistosIgual
<1>3. bloquesVistos(n)' = <<>>
  BY <1>1 DEF bloquesVistos
<1>4. DOMAIN visto = DOMAIN archivos /\ \A m \in DOMAIN archivos : visto'[m] = visto[m]
  BY <1>1, <1>2, Visto
<1>5. visto' = [m \in DOMAIN visto \cup {n} |->
                  IF m = n THEN [estado |-> "WORK_IN_PROGRESS", bloques |-> <<>>]
                  ELSE visto[m]]
  BY <1>1, <1>2, <1>3, <1>4, Visto
<1> QED BY <1>1, <1>4, <1>5 DEF Vista!Crear, Vista!Nuevo

LEMMA Concatenar ==
  ASSUME NEW S, NEW s \in Seq(S), NEW t \in Seq(S)
  PROVE  /\ s \o t \in Seq(S) /\ Len(s \o t) = Len(s) + Len(t)
         /\ Len(s) \in Nat /\ Len(t) \in Nat
         /\ \A i \in 1 .. Len(s) : (s \o t)[i] = s[i]
         /\ \A i \in 1 .. Len(s) + Len(t) : i > Len(s) => (s \o t)[i] = t[i - Len(s)]
  OBVIOUS

LEMMA ConBloques ==
  ASSUME NEW e, NEW b, NEW c
  PROVE  [[estado |-> e, bloques |-> b] EXCEPT !.bloques = c] = [estado |-> e, bloques |-> c]
  OBVIOUS

LEMMA AgrandarIndependiente ==
  ASSUME IInv, IRespaldo, Compartidos = {}, NEW n \in Nombres, NEW k \in Nat, FS!Agrandar(n, k),
         UNCHANGED <<memoria, entrada>>
  PROVE  Vista!Agrandar(n, k) /\ n \in DOMAIN visto' /\ k <= Len(visto'[n].bloques)
         /\ Len(visto'[n].bloques) \in Nat
<1> DEFINE bs == archivos[n].bloques
           ceros == [i \in 1 .. k |-> CERO]
           bv == bloquesVistos(n)
<1>1. /\ n \in DOMAIN archivos /\ archivos[n].estado = "WORK_IN_PROGRESS"
      /\ archivos' = [archivos EXCEPT ![n].bloques = bs \o ceros]
  BY DEF FS!Agrandar, FS!EnProgreso
<1>2. /\ archivos[n] \in [estado : FS!Estado, bloques : Seq(Bloque)]
      /\ bs \in Seq(Bloque) /\ bv \in Seq(Bloque) /\ Len(bv) = Len(bs) /\ Len(bs) \in Nat
  BY <1>1, BloquesVistosTipo DEF IInv, MemoriaTypeOK, AlmacenTypeOK
<1>3. /\ DOMAIN archivos' = DOMAIN archivos
      /\ archivos'[n].estado = "WORK_IN_PROGRESS" /\ archivos'[n].bloques = bs \o ceros
      /\ \A m \in DOMAIN archivos : m # n => archivos'[m] = archivos[m]
  BY <1>1, <1>2
<1>4. ceros \in Seq(Bloque) /\ Len(ceros) = k /\ \A i \in 1 .. k : ceros[i] = CERO
  BY CeroEsBloque
<1> HIDE DEF bs, ceros
<1>5. /\ DOMAIN (bs \o ceros) = 1 .. Len(bs) + k
      /\ \A i \in 1 .. Len(bs) : (bs \o ceros)[i] = bs[i]
      /\ \A i \in 1 .. Len(bs) + k : i > Len(bs) => (bs \o ceros)[i] = CERO
  <2>1. /\ Len(bs \o ceros) = Len(bs) + k /\ bs \o ceros \in Seq(Bloque)
        /\ \A i \in 1 .. Len(bs) : (bs \o ceros)[i] = bs[i]
        /\ \A i \in 1 .. Len(bs) + k : i > Len(bs) => (bs \o ceros)[i] = ceros[i - Len(bs)]
    BY <1>2, <1>4, Concatenar
  <2>2. \A i \in 1 .. Len(bs) + k : i > Len(bs) => i - Len(bs) \in 1 .. k
    BY <1>2
  <2> QED BY <1>4, <2>1, <2>2
<1>6. \A i \in 1 .. Len(bs) : vista(n, i)' = vista(n, i) /\ bv[i] = vista(n, i)
  <2>1. \A i \in 1 .. Len(bs) : vista(n, i)' = vista(n, i)
    BY <1>3, <1>5, VistaActual DEF Mira, bs
  <2>2. \A i \in 1 .. Len(bs) : bv[i] = vista(n, i)
    BY <1>1, <1>2 DEF bloquesVistos, bs
  <2> QED BY <2>1, <2>2
<1>7. ASSUME NEW i \in 1 .. Len(bs) + k, i > Len(bs)
      PROVE  vista(n, i)' = CERO
  <2>1. ~ (<<n, i - 1>> \in Pares /\ entrada[<<n, i - 1>>].bit_presencia)
    <3> SUFFICES ASSUME <<n, i - 1>> \in Pares, entrada[<<n, i - 1>>].bit_presencia PROVE FALSE
      OBVIOUS
    <3>1. i - 1 + 1 \in DOMAIN bs
      BY DEF IRespaldo, Respaldo, bs
    <3> QED BY <1>2, <1>7, <3>1
  <2>2. vista(n, i)' = archivos'[n].bloques[i]
    BY <2>1, VistaActual DEF Mira
  <2> QED BY <1>3, <1>5, <1>7, <2>2
<1>8. bloquesVistos(n)' = bv \o ceros
  <2> DEFINE w == [i \in 1 .. Len(bs) + k |-> vista(n, i)']
  <2>1. bloquesVistos(n)' = w
    BY <1>3, <1>5 DEF bloquesVistos
  <2>2. \A i \in 1 .. Len(bs) : w[i] = bv[i]
    BY <1>2, <1>6
  <2>3. \A i \in 1 .. Len(bs) + k : i > Len(bs) => w[i] = CERO
    BY <1>7
  <2>4. w \in Seq(Bloque) /\ Len(w) = Len(bs) + k
    <3>1. ASSUME NEW i \in 1 .. Len(bs) + k PROVE w[i] \in Bloque
      <4>1. CASE i > Len(bs)
        BY <2>3, <3>1, <4>1, CeroEsBloque
      <4>2. CASE ~ i > Len(bs)
        <5>1. i \in 1 .. Len(bs) /\ i \in 1 .. Len(bv)
          BY <1>2, <3>1, <4>2
        <5>2. bv[i] \in Bloque
          BY <1>2, <5>1
        <5> HIDE DEF w, bv
        <5> QED BY <2>2, <5>1, <5>2
      <4> QED BY <4>1, <4>2
    <3>2. w \in [1 .. Len(bs) + k -> Bloque] /\ Len(bs) + k \in Nat
      BY <1>2, <3>1
    <3> HIDE DEF w
    <3> QED BY <3>2
  <2> HIDE DEF w, bv
  <2>5. /\ bv \o ceros \in Seq(Bloque) /\ Len(bv \o ceros) = Len(bs) + k
        /\ \A i \in 1 .. Len(bs) : (bv \o ceros)[i] = bv[i]
        /\ \A i \in 1 .. Len(bs) + k : i > Len(bs) => (bv \o ceros)[i] = ceros[i - Len(bs)]
    <3>1. Len(bv) = Len(bs) /\ Len(ceros) = k /\ bv \in Seq(Bloque) /\ ceros \in Seq(Bloque)
      BY <1>2, <1>4
    <3>2. /\ bv \o ceros \in Seq(Bloque) /\ Len(bv \o ceros) = Len(bv) + Len(ceros)
          /\ \A i \in 1 .. Len(bv) : (bv \o ceros)[i] = bv[i]
          /\ \A i \in 1 .. Len(bv) + Len(ceros) :
               i > Len(bv) => (bv \o ceros)[i] = ceros[i - Len(bv)]
      BY <3>1, Concatenar
    <3> QED BY <3>1, <3>2
  <2>6. \A i \in 1 .. Len(bs) + k : i > Len(bs) => (bv \o ceros)[i] = CERO
    <3>1. \A i \in 1 .. Len(bs) + k : i > Len(bs) => i - Len(bs) \in 1 .. k
      BY <1>2
    <3> QED BY <1>4, <2>5, <3>1
  <2>7. \A i \in 1 .. Len(bs) + k : w[i] = (bv \o ceros)[i]
    BY <1>2, <2>2, <2>3, <2>5, <2>6
  <2>8. w = bv \o ceros
    BY <2>4, <2>5, <2>7
  <2> QED BY <2>1, <2>8
<1> HIDE DEF bv
<1>9. \A m \in DOMAIN archivos : m # n => bloquesVistos(m)' = bloquesVistos(m)
  <2> SUFFICES ASSUME NEW m \in DOMAIN archivos, m # n
               PROVE  bloquesVistos(m)' = bloquesVistos(m)
    OBVIOUS
  <2>1. archivos'[m] = archivos[m]
    BY <1>3
  <2>2. \A i : vista(m, i)' = vista(m, i)
    BY <2>1, VistaActual DEF Mira
  <2> QED BY <2>1, <2>2, BloquesVistosIgual
<1>10. visto[n] = [estado |-> "WORK_IN_PROGRESS", bloques |-> bv] /\ n \in DOMAIN visto
  BY <1>1, Visto DEF bv
<1>11. visto' = [visto EXCEPT ![n] = [estado |-> "WORK_IN_PROGRESS", bloques |-> bv \o ceros]]
  BY <1>1, <1>3, <1>8, <1>9, VistoSalvo
<1>12. visto' = [visto EXCEPT ![n].bloques = visto[n].bloques \o ceros]
  <2> DEFINE v == [visto[n] EXCEPT !.bloques = visto[n].bloques \o ceros]
  <2>1. visto[n].bloques = bv
    BY <1>10
  <2>2. v = [estado |-> "WORK_IN_PROGRESS", bloques |-> bv \o ceros]
    BY <1>10, <2>1, ConBloques
  <2>3. visto' = [visto EXCEPT ![n] = v]
    BY <1>11, <2>2
  <2> QED BY <2>3
<1>13. Vista!Agrandar(n, k)
  BY <1>10, <1>12 DEF Vista!Agrandar, Vista!EnProgreso, ceros
<1>14. n \in DOMAIN visto' /\ visto'[n].bloques = bv \o ceros
  BY <1>10, <1>11
<1>15. Len(bv \o ceros) = Len(bs) + k
  BY <1>2, <1>4 DEF bv
<1> QED BY <1>2, <1>13, <1>14, <1>15

LEMMA CommitearIndependiente ==
  ASSUME IInv, IRespaldo, Flusheada, Compartidos = {}, ejecutarCommit,
         FS!Commitear(instruccion.nombre)
  PROVE  Vista!Commitear(instruccion.nombre)
<1>1. PICK n \in Nombres : n = instruccion.nombre
  BY DEF IInv, MemoriaTypeOK, EjecucionTypeOK
<1>2. /\ n \in DOMAIN archivos /\ archivos[n].estado = "WORK_IN_PROGRESS"
      /\ archivos' = [archivos EXCEPT ![n].estado = "COMMITED"]
  BY <1>1 DEF FS!Commitear, FS!EnProgreso
<1>3. archivos[n] \in [estado : FS!Estado, bloques : Seq(Bloque)]
  BY <1>2 DEF IInv, MemoriaTypeOK, AlmacenTypeOK
<1>4. /\ DOMAIN archivos' = DOMAIN archivos
      /\ archivos'[n].estado = "COMMITED" /\ archivos'[n].bloques = archivos[n].bloques
      /\ \A m \in DOMAIN archivos : m # n => archivos'[m] = archivos[m]
  BY <1>2, <1>3
<1>5. paso = "commiteando" /\ instruccion.op = "COMMIT" /\ UNCHANGED <<memoria, entrada>>
  BY DEF ejecutarCommit, tablas, marcos, IInv, Curso
<1>6. obtenerEntradasAFlushear = {}
  BY <1>1, <1>2, <1>5 DEF Flusheada, PideFlush, FS!EnProgreso
<1>7. ASSUME NEW i \in DOMAIN archivos[n].bloques
      PROVE  archivos[n].bloques[i] = vista(n, i)
  <2>1. CASE <<n, i - 1>> \in Pares /\ entrada[<<n, i - 1>>].bit_presencia
    <3>1. n \in ToSet(tabla_general)
      BY <2>1 DEF IInv, TablasBien, presentes
    <3>2. <<n, i - 1>> \notin obtenerEntradasAFlushear
      BY <1>6
    <3>3. ~ entrada[<<n, i - 1>>].bit_modificado
      BY <1>1, <1>5, <2>1, <3>1, <3>2 DEF obtenerEntradasAFlushear, alcance
    <3>4. archivos[n].bloques[i - 1 + 1] = aBloque(memoria[entrada[<<n, i - 1>>].nro_frame])
      BY <2>1, <3>3 DEF IRespaldo, Respaldo
    <3>5. i - 1 + 1 = i
      BY <1>3
    <3> QED BY <2>1, <3>4, <3>5, VistaActual DEF Mira
  <2>2. CASE ~ (<<n, i - 1>> \in Pares /\ entrada[<<n, i - 1>>].bit_presencia)
    BY <2>2, VistaActual DEF Mira
  <2> QED BY <2>1, <2>2
<1>8. bloquesVistos(n)' = bloquesVistos(n)
  <2>1. archivos[n].bloques = [i \in DOMAIN archivos[n].bloques |-> archivos[n].bloques[i]]
    BY <1>3
  <2>2. bloquesVistos(n) = archivos[n].bloques
    BY <1>2, <1>7, <2>1 DEF bloquesVistos
  <2> QED BY <1>4, <2>2 DEF bloquesVistos
<1>9. \A m \in DOMAIN archivos : m # n => bloquesVistos(m)' = bloquesVistos(m)
  <2> SUFFICES ASSUME NEW m \in DOMAIN archivos, m # n
               PROVE  bloquesVistos(m)' = bloquesVistos(m)
    OBVIOUS
  <2>1. archivos'[m] = archivos[m]
    BY <1>4
  <2>2. \A i : vista(m, i)' = vista(m, i)
    BY <1>5, <2>1, VistaActual DEF Mira
  <2> QED BY <2>1, <2>2, BloquesVistosIgual
<1>10. visto' = [visto EXCEPT ![n] = [estado |-> "COMMITED", bloques |-> bloquesVistos(n)]]
  BY <1>2, <1>4, <1>8, <1>9, VistoSalvo
<1>11. visto[n] = [estado |-> "WORK_IN_PROGRESS", bloques |-> bloquesVistos(n)] /\ n \in DOMAIN visto
  BY <1>2, Visto
<1>12. visto' = [visto EXCEPT ![n].estado = "COMMITED"]
  <2> DEFINE v == [visto[n] EXCEPT !.estado = "COMMITED"]
  <2>1. v = [estado |-> "COMMITED", bloques |-> bloquesVistos(n)]
    BY <1>11
  <2>2. visto' = [visto EXCEPT ![n] = v]
    BY <1>10, <2>1
  <2> QED BY <2>2
<1> QED BY <1>1, <1>11, <1>12 DEF Vista!Commitear, Vista!EnProgreso

LEMMA BorraIndependiente ==
  ASSUME IRespaldo, NEW d \in Nombres, Borra(d)
  PROVE  Vista!Eliminar(d)
<1>1. d \in DOMAIN archivos /\ DOMAIN archivos' = DOMAIN archivos \ {d}
  BY DEF Borra
<1>2. \A m \in DOMAIN archivos \ {d} : archivos'[m] = archivos[m] /\ bloquesVistos(m)' = bloquesVistos(m)
  BY BorraVista, BloquesVistosIgual
<1> QED BY <1>1, <1>2, Visto DEF Vista!Eliminar

LEMMA TruncateIndependiente ==
  ASSUME IInv, IRespaldo, Solo, NEW n \in Nombres, ejecutarTruncate(n),
         UNCHANGED <<memoria, entrada>>
  PROVE  Vista!Next \/ UNCHANGED almacen
<1>1. \/ /\ FS!EnProgreso(n)
         /\ \E k \in 1 .. MaxBloques - Len(archivos[n].bloques) : FS!Agrandar(n, k)
      \/ UNCHANGED almacen
  BY DEF ejecutarTruncate, pedirAStorage, Solo, SoloCrecen
<1>2. ASSUME FS!EnProgreso(n), NEW k \in 1 .. MaxBloques - Len(archivos[n].bloques),
             FS!Agrandar(n, k)
      PROVE  Vista!Next
  <2>1. archivos[n].bloques \in Seq(Bloque)
    BY <1>2 DEF FS!EnProgreso, IInv, MemoriaTypeOK, AlmacenTypeOK
  <2>2. k \in Nat /\ 1 <= k
    BY <2>1, MemoriaAssumption
  <2>3. Vista!Agrandar(n, k) /\ n \in DOMAIN visto' /\ k <= Len(visto'[n].bloques)
        /\ Len(visto'[n].bloques) \in Nat
    BY <1>2, <2>2, AgrandarIndependiente DEF Solo
  <2>4. k \in 1 .. Len(visto'[n].bloques)
    BY <2>2, <2>3
  <2> QED BY <2>3, <2>4 DEF Vista!Next
<1> QED BY <1>1, <1>2

LEMMA IndependientePaso ==
  ASSUME IInv, IRespaldo, Traida, Flusheada, Solo, [Next]_vars
  PROVE  visto' = visto \/ Vista!Next
<1>1. ASSUME UNCHANGED <<almacen, memoria, entrada>> PROVE visto' = visto
  BY <1>1, QuietoIndependiente, MismaVistaSinCambio DEF almacen, Quieto, IRespaldo
<1>2. CASE acceder \/ devolverFrameLibre \/ gestionarBitModificado \/ flushearEntrada
  BY <1>2, accederCopia, devolverCopia, desalojarCopia, flushearQuieto, CopiaIndependiente,
     QuietoIndependiente
<1>3. CASE \/ gestionarPAGE_FAULT \/ sinVictima \/ finDelFlush \/ siguiente
           \/ gestionarCheckInterrupt \/ UNCHANGED vars
  <2>1. UNCHANGED <<almacen, memoria, entrada>>
    BY <1>3 DEF gestionarPAGE_FAULT, sinVictima, finDelFlush, siguiente,
                gestionarCheckInterrupt, limpiar, vars, tablas, marcos
  <2> QED BY <1>1, <2>1
<1>4. CASE ejecutarCommit
  <2>1. /\ UNCHANGED <<memoria, entrada>> /\ instruccion.nombre \in Nombres
        /\ (FS!Commitear(instruccion.nombre) \/ UNCHANGED almacen)
    BY <1>4 DEF ejecutarCommit, tablas, marcos, IInv, MemoriaTypeOK, EjecucionTypeOK
  <2>2. CASE FS!Commitear(instruccion.nombre)
    <3>1. Vista!Commitear(instruccion.nombre)
      BY <1>4, <2>2, CommitearIndependiente DEF Solo
    <3> QED BY <2>1, <3>1 DEF Vista!Next
  <2> QED BY <1>1, <2>1, <2>2
<1>5. ASSUME NEW n \in Nombres, Execute(n)
      PROVE  visto' = visto \/ Vista!Next
  <2>1. CASE ejecutarDelete(n)
    <3>1. UNCHANGED <<almacen, memoria, entrada>> \/ Vista!Eliminar(n)
      BY <2>1, ejecutarDeleteVista, BorraIndependiente
    <3> QED BY <1>1, <3>1 DEF Vista!Next
  <2>2. ASSUME ~ ejecutarDelete(n) PROVE UNCHANGED <<memoria, entrada>> /\ ~ ejecutarTag(n)
    BY <1>5, <2>2 DEF Execute, ejecutarCreate, ejecutarTruncate, ejecutarTag, ejecutarWrite,
         ejecutarRead, ejecutarFlush, pedirAStorage, Ejecutar, marcos, Solo
  <2>3. CASE ejecutarCreate(n) /\ ~ ejecutarDelete(n)
    <3>1. FS!Crear(n) \/ UNCHANGED almacen
      BY <2>3 DEF ejecutarCreate, pedirAStorage
    <3>2. CASE FS!Crear(n)
      <4>1. Vista!Crear(n)
        BY <2>2, <2>3, <3>2, NuevoIndependiente
      <4> QED BY <4>1 DEF Vista!Next
    <3> QED BY <1>1, <2>2, <2>3, <3>1, <3>2
  <2>4. CASE ejecutarTruncate(n) /\ ~ ejecutarDelete(n)
    BY <1>1, <2>2, <2>4, TruncateIndependiente
  <2>5. CASE /\ ejecutarWrite(n) \/ ejecutarRead(n) \/ ejecutarFlush(n)
             /\ ~ ejecutarDelete(n)
    <3>1. UNCHANGED almacen
      BY <2>5 DEF ejecutarWrite, ejecutarRead, ejecutarFlush
    <3> QED BY <1>1, <2>2, <2>5, <3>1
  <2> QED BY <1>5, <2>1, <2>2, <2>3, <2>4, <2>5 DEF Execute
<1>6. ASSUME NEW n \in Nombres, otroWorker(n) PROVE FALSE
  BY <1>6 DEF otroWorker, Solo
<1> QED BY <1>2, <1>3, <1>4, <1>5, <1>6 DEF Next, accesoDelWorker

\* The cache implements TagsIndependientes, one request or one turn of WRITE a
\* step, for any sizes: what the queries of a worker see through it is storage
\* itself, if they TAG and shrink nothing and share no name with another
\* worker.
THEOREM VistaIndependienteSiempre ==
  ASSUME Solo
  PROVE  Spec => VistaIndependiente
<1>1. Init => Vista!Init
  <2> SUFFICES ASSUME Init PROVE Vista!Init
    OBVIOUS
  <2>1. archivos = [n \in {Inicial} |-> [estado |-> "COMMITED", bloques |-> <<CERO>>]]
    BY DEF Init, FS!Init
  <2>2. bloquesVistos(Inicial) = <<CERO>>
    BY <2>1 DEF bloquesVistos
  <2> QED BY <2>1, <2>2, Visto DEF Vista!Init
<1>2. Init => Flusheada
  BY DEF Init, Flusheada
<1>3. IInv /\ IRespaldo /\ Flusheada /\ [Next]_vars => Flusheada'
  BY FlusheadaPaso
<1>4. IInv /\ IRespaldo /\ Traida /\ Flusheada /\ [Next]_vars => [Vista!Next]_visto
  BY IndependientePaso
<1>5. Spec => [](IInv /\ IRespaldo /\ Traida)
  BY VistaInvariante DEF Solo
<1> QED BY <1>1, <1>2, <1>3, <1>4, <1>5, PTL DEF Spec, VistaIndependiente, Vista!Spec, Vista!vars

-----------------------------------------------------------------------------
(* Addresses and C strings.                                                *)

LEMMA DivisionUnica ==
  ASSUME NEW T \in Nat \ {0}, NEW q \in Int, NEW p \in Int, NEW r \in 0 .. T - 1,
         NEW s \in 0 .. T - 1, T * q + r = T * p + s
  PROVE  q = p /\ r = s
<1>1. ASSUME NEW u \in Int, NEW v \in Int, u < v
      PROVE  T * u + T <= T * v
  <2>1. v - u - 1 \in Nat
    BY <1>1
  <2>2. T * (v - u - 1) >= 0
    BY <2>1
  <2>3. T * (v - u - 1) = T * v - T * u - T
    OBVIOUS
  <2>4. T * v \in Int /\ T * u \in Int
    OBVIOUS
  <2> QED BY <2>2, <2>3, <2>4
<1>2. T * q \in Int /\ T * p \in Int
  OBVIOUS
<1>3. ~ q < p
  BY <1>1, <1>2
<1>4. ~ p < q
  BY <1>1, <1>2
<1>5. q = p
  BY <1>3, <1>4
<1> QED BY <1>2, <1>5

LEMMA Division ==
  ASSUME NEW a \in Nat
  PROVE  /\ a = TamPag * (a \div TamPag) + (a % TamPag)
         /\ a \div TamPag \in Nat /\ a % TamPag \in 0 .. TamPag - 1
<1>1. TamPag \in Nat /\ TamPag > 0
  BY MemoriaAssumption
<1>2. a = TamPag * (a \div TamPag) + (a % TamPag)
  BY <1>1
<1> QED BY <1>2, Desplazamiento

\* The bytes of one page, from an address on.
LEMMA Direccion ==
  ASSUME NEW a \in Nat, NEW m \in Nat, (a % TamPag) + m < TamPag
  PROVE  (a + m) \div TamPag = a \div TamPag /\ (a + m) % TamPag = (a % TamPag) + m
<1> DEFINE q == a \div TamPag
           r == a % TamPag
           p == (a + m) \div TamPag
           s == (a + m) % TamPag
<1>1. TamPag \in Nat \ {0} /\ a + m \in Nat
  BY MemoriaAssumption
<1>2. a = TamPag * q + r /\ q \in Nat /\ r \in 0 .. TamPag - 1
  BY Division
<1>3. a + m = TamPag * p + s /\ p \in Nat /\ s \in 0 .. TamPag - 1
  BY <1>1, Division
<1>4. r + m \in 0 .. TamPag - 1
  BY <1>1, <1>2
<1> HIDE DEF q, r, p, s
<1>5. TamPag * q \in Int /\ TamPag * p \in Int
  BY <1>1, <1>2, <1>3
<1>6. TamPag * q + (r + m) = TamPag * p + s
  BY <1>1, <1>2, <1>3, <1>5
<1>7. q = p /\ r + m = s
  BY <1>1, <1>2, <1>3, <1>4, <1>6, DivisionUnica
<1> QED BY <1>7 DEF q, r, p, s

\* What comes before the first byte of a page is in an earlier one.
LEMMA DireccionMenor ==
  ASSUME NEW a \in Nat, NEW b \in Nat, b < a, a % TamPag = 0
  PROVE  b \div TamPag < a \div TamPag
<1> DEFINE q == a \div TamPag
           p == b \div TamPag
           s == b % TamPag
<1>1. TamPag \in Nat \ {0}
  BY MemoriaAssumption
<1>2. a = TamPag * q + 0 /\ q \in Nat
  BY Division
<1>3. b = TamPag * p + s /\ p \in Nat /\ s \in 0 .. TamPag - 1
  BY Division
<1> HIDE DEF q, p, s
<1>4. ASSUME q <= p PROVE FALSE
  <2>1. p - q \in Nat
    BY <1>2, <1>3, <1>4
  <2>2. TamPag * (p - q) >= 0
    BY <1>1, <2>1
  <2>3. TamPag * (p - q) = TamPag * p - TamPag * q
    BY <1>1, <1>2, <1>3
  <2>4. TamPag * p \in Int /\ TamPag * q \in Int
    BY <1>1, <1>2, <1>3
  <2> QED BY <1>2, <1>3, <2>2, <2>3, <2>4
<1>5. ~ q <= p
  BY <1>4
<1>6. p < q
  BY <1>2, <1>3, <1>5
<1> QED BY <1>6 DEF q, p

\* aBloque keeps the bytes up to the first NUL.
LEMMA HastaElNUL ==
  ASSUME NEW p \in Pagina, NEW i \in 1 .. TamPag
  PROVE  /\ aBloque(p)[i] # NUL <=> \A j \in 1 .. i : p[j] # NUL
         /\ (\A j \in 1 .. i - 1 : p[j] # NUL) => aBloque(p)[i] = p[i]
         /\ (\A j \in 1 .. i - 1 : aBloque(p)[j] # NUL) => aBloque(p)[i] = p[i]
<1>1. \A k \in 1 .. TamPag : aBloque(p)[k] = IF \E j \in 1 .. k : p[j] = NUL THEN NUL ELSE p[k]
  BY DEF aBloque
<1>2. TamPag \in Nat /\ \A k \in 1 .. TamPag : k \in 1 .. k
  BY MemoriaAssumption
<1>3. \A k \in 1 .. TamPag : aBloque(p)[k] # NUL <=> \A j \in 1 .. k : p[j] # NUL
  BY <1>1, <1>2
<1>4. ASSUME \A j \in 1 .. i - 1 : p[j] # NUL PROVE aBloque(p)[i] = p[i]
  <2>1. \A j \in 1 .. i : j \in 1 .. i - 1 \/ j = i
    BY <1>2
  <2> QED BY <1>1, <1>2, <1>4, <2>1
<1>5. ASSUME \A j \in 1 .. i - 1 : aBloque(p)[j] # NUL PROVE aBloque(p)[i] = p[i]
  <2>1. ASSUME NEW j \in 1 .. i - 1 PROVE p[j] # NUL
    <3>1. j \in 1 .. TamPag /\ j \in 1 .. j
      BY <1>2
    <3> QED BY <1>3, <1>5, <3>1
  <2> QED BY <1>4, <2>1
<1> QED BY <1>3, <1>4, <1>5

\* Two strings that agree as far as the first NUL of either are the same one.
LEMMA PrefijoSinNUL ==
  ASSUME NEW s \in Seq(Bytes), NEW V, V = {i \in DOMAIN s : \A j \in 1 .. i : s[j] # NUL}
  PROVE  Cardinality(V) \in 0 .. Len(s) /\ \A i \in 1 .. Cardinality(V) : i \in V
<1>1. IsFiniteSet(1 .. Len(s)) /\ Cardinality(1 .. Len(s)) = Len(s) /\ Len(s) \in Nat
      /\ V \subseteq 1 .. Len(s)
  <2>1. /\ IsFiniteSet(1 .. Len(s))
        /\ Cardinality(1 .. Len(s)) = IF 1 > Len(s) THEN 0 ELSE Len(s) - 1 + 1
    BY FS_Interval
  <2> QED BY <2>1
<1>2. IsFiniteSet(V) /\ Cardinality(V) \in Nat /\ Cardinality(V) <= Len(s)
  BY <1>1, FS_Subset, FS_CardinalityType
<1>3. ASSUME NEW i \in 1 .. Cardinality(V), i \notin V PROVE FALSE
  <2>1. i \in 1 .. Len(s) /\ i \in Nat
    BY <1>1, <1>2
  <2>2. PICK j \in 1 .. i : s[j] = NUL
    BY <1>3, <2>1
  <2>3. V \subseteq 1 .. i - 1
    <3> SUFFICES ASSUME NEW k \in V, ~ k \in 1 .. i - 1 PROVE FALSE
      OBVIOUS
    <3>1. j \in 1 .. k
      BY <1>1, <2>1, <2>2
    <3> QED BY <2>2, <3>1
  <2>4. /\ IsFiniteSet(1 .. i - 1)
        /\ Cardinality(1 .. i - 1) = IF 1 > i - 1 THEN 0 ELSE i - 1 - 1 + 1
    BY <2>1, FS_Interval
  <2>5. Cardinality(1 .. i - 1) = i - 1
    BY <2>1, <2>4
  <2>6. Cardinality(V) <= i - 1
    BY <2>3, <2>4, <2>5, FS_Subset
  <2> QED BY <1>2, <2>1, <2>6
<1> QED BY <1>1, <1>2, <1>3

LEMMA MismaCadena ==
  ASSUME NEW s \in Seq(Bytes), NEW t \in Seq(Bytes), Len(s) = Len(t),
         \A k \in 1 .. Len(s) :
           (\A j \in 1 .. k - 1 : s[j] # NUL) \/ (\A j \in 1 .. k - 1 : t[j] # NUL) => s[k] = t[k]
  PROVE  hastaNUL(s) = hastaNUL(t)
<1> DEFINE V(u) == {i \in DOMAIN u : \A j \in 1 .. i : u[j] # NUL}
<1>1. Len(s) \in Nat /\ DOMAIN s = 1 .. Len(s) /\ DOMAIN t = 1 .. Len(s)
  OBVIOUS
<1>2. ASSUME NEW i \in 1 .. Len(s), \A j \in 1 .. i : s[j] # NUL
      PROVE  \A j \in 1 .. i : s[j] = t[j]
  <2> SUFFICES ASSUME NEW j \in 1 .. i PROVE s[j] = t[j]
    OBVIOUS
  <2>1. j \in 1 .. Len(s) /\ \A k \in 1 .. j - 1 : k \in 1 .. i
    BY <1>1
  <2> QED BY <1>2, <2>1
<1>3. ASSUME NEW i \in 1 .. Len(s), \A j \in 1 .. i : t[j] # NUL
      PROVE  \A j \in 1 .. i : s[j] = t[j]
  <2> SUFFICES ASSUME NEW j \in 1 .. i PROVE s[j] = t[j]
    OBVIOUS
  <2>1. j \in 1 .. Len(s) /\ \A k \in 1 .. j - 1 : k \in 1 .. i
    BY <1>1
  <2> QED BY <1>3, <2>1
<1>4. V(s) = V(t)
  BY <1>1, <1>2, <1>3
<1>5. hastaNUL(s) = SubSeq(s, 1, Cardinality(V(s))) /\ hastaNUL(t) = SubSeq(t, 1, Cardinality(V(t)))
  BY DEF hastaNUL
<1> DEFINE c == Cardinality(V(s))
<1>6. c \in 0 .. Len(s) /\ \A i \in 1 .. c : i \in V(s)
  BY PrefijoSinNUL
<1>7. \A i \in 1 .. c : s[i] = t[i]
  <2> SUFFICES ASSUME NEW i \in 1 .. c PROVE s[i] = t[i]
    OBVIOUS
  <2>1. i \in V(s) /\ i \in 1 .. i
    BY <1>1, <1>6
  <2> QED BY <1>1, <1>2, <2>1
<1> HIDE DEF c, V
<1>8. SubSeq(s, 1, c) = SubSeq(t, 1, c)
  BY <1>1, <1>6, <1>7
<1> QED BY <1>4, <1>5, <1>8 DEF c

\* Past bytes with no NUL before them, a block has those of its page.
LEMMA ByteAlcanzado ==
  ASSUME NEW p \in Pagina, NEW i \in 1 .. TamPag, NEW d \in Nat,
         \A j \in 1 .. d : j < i => aBloque(p)[j] # NUL,
         (\A j \in d + 1 .. i - 1 : p[j] # NUL) \/ (\A j \in d + 1 .. i - 1 : aBloque(p)[j] # NUL)
  PROVE  aBloque(p)[i] = p[i]
<1>1. TamPag \in Nat
  BY MemoriaAssumption
<1>2. ASSUME NEW j \in 1 .. d, j < i PROVE p[j] # NUL
  <2>1. j \in 1 .. TamPag /\ j \in 1 .. j /\ aBloque(p)[j] # NUL
    BY <1>1, <1>2
  <2> QED BY <2>1, HastaElNUL
<1>3. \A j \in 1 .. i - 1 : (j \in 1 .. d /\ j < i) \/ j \in d + 1 .. i - 1
  BY <1>1
<1>4. CASE \A j \in d + 1 .. i - 1 : p[j] # NUL
  <2>1. \A j \in 1 .. i - 1 : p[j] # NUL
    BY <1>2, <1>3, <1>4
  <2> QED BY <2>1, HastaElNUL
<1>5. CASE \A j \in d + 1 .. i - 1 : aBloque(p)[j] # NUL
  <2>1. \A j \in 1 .. i - 1 : aBloque(p)[j] # NUL
    BY <1>3, <1>5
  <2> QED BY <2>1, HastaElNUL
<1> QED BY <1>4, <1>5

\* The addresses of one turn are those of its page.
LEMMA Direcciones ==
  ASSUME EnAcceso
  PROVE  /\ \A k \in hecho + 1 .. hecho + por_copiar :
              /\ (instruccion.dir + k - 1) \div TamPag = pag_actual
              /\ ((instruccion.dir + k - 1) % TamPag) + 1 = desp_actual + (k - hecho)
         /\ hecho + por_copiar < instruccion.total =>
              (instruccion.dir + (hecho + por_copiar)) % TamPag = 0
         /\ hecho > 0 /\ (instruccion.dir + hecho) % TamPag = 0 =>
              /\ desp_actual = 0
              /\ \A k \in 1 .. hecho : (instruccion.dir + k - 1) \div TamPag # pag_actual
         /\ hecho = 0 => /\ desp_actual = instruccion.dir % TamPag
                         /\ pag_actual = instruccion.dir \div TamPag
<1> DEFINE d == instruccion.dir
           a == d + hecho
<1>1. /\ d \in Nat /\ hecho \in Nat /\ instruccion.total \in Nat /\ TamPag \in Nat \ {0}
      /\ desp_actual \in 0 .. TamPag - 1 /\ por_copiar \in Nat /\ desp_actual + por_copiar <= TamPag
      /\ hecho < instruccion.total
  BY Tramo, MemoriaAssumption DEF EnAcceso, MemoriaTypeOK, EjecucionTypeOK, AccediendoBien
<1>2. a \in Nat /\ desp_actual = a % TamPag /\ pag_actual = a \div TamPag
  <2>1. a \in Nat
    BY <1>1
  <2>2. desp_actual = a % TamPag /\ pag_actual = a \div TamPag
    BY Zenon DEF desp_actual, pag_actual
  <2> QED BY <2>1, <2>2
<1>3. ASSUME NEW k \in hecho + 1 .. hecho + por_copiar
      PROVE  /\ (d + k - 1) \div TamPag = pag_actual
             /\ ((d + k - 1) % TamPag) + 1 = desp_actual + (k - hecho)
  <2> DEFINE m == k - hecho - 1
  <2>1. m \in Nat /\ d + k - 1 = a + m /\ (a % TamPag) + m < TamPag
    BY <1>1, <1>2
  <2>2. (a + m) \div TamPag = a \div TamPag /\ (a + m) % TamPag = (a % TamPag) + m
    BY <1>2, <2>1, Direccion
  <2>3. (d + k - 1) \div TamPag = pag_actual /\ (d + k - 1) % TamPag = desp_actual + m
    BY <1>2, <2>1, <2>2
  <2> HIDE DEF d
  <2> QED BY <1>1, <2>3
<1>4. ASSUME hecho + por_copiar < instruccion.total
      PROVE  (d + (hecho + por_copiar)) % TamPag = 0
  <2>1. por_copiar = TamPag - desp_actual
    BY <1>1, <1>4 DEF por_copiar
  <2> DEFINE q == a \div TamPag
             b == d + (hecho + por_copiar)
             p == b \div TamPag
             s == b % TamPag
  <2>2. a = TamPag * q + desp_actual /\ q \in Nat
    BY <1>2, Division
  <2>3. b \in Nat /\ b = a + por_copiar
    BY <1>1
  <2>4. b = TamPag * p + s /\ p \in Nat /\ s \in 0 .. TamPag - 1
    BY <2>3, Division
  <2> HIDE DEF q, b, p, s, a, d
  <2>5. TamPag * q + TamPag = TamPag * (q + 1) /\ TamPag * q \in Nat /\ q + 1 \in Int
        /\ TamPag * (q + 1) \in Int
    BY <1>1, <2>2
  <2>6. TamPag * (q + 1) + 0 = TamPag * p + s
    BY <1>1, <1>2, <2>1, <2>2, <2>3, <2>4, <2>5
  <2>7. 0 \in 0 .. TamPag - 1 /\ p \in Int
    BY <1>1, <2>4
  <2>8. 0 = s
    BY <1>1, <2>4, <2>5, <2>6, <2>7, DivisionUnica
  <2> QED BY <2>8 DEF s, b
<1>5. ASSUME hecho > 0, a % TamPag = 0
      PROVE  desp_actual = 0 /\ \A k \in 1 .. hecho : (d + k - 1) \div TamPag # pag_actual
  <2>1. ASSUME NEW k \in 1 .. hecho PROVE (d + k - 1) \div TamPag < pag_actual
    <3>1. d + k - 1 \in Nat /\ d + k - 1 < a
      BY <1>1
    <3> QED BY <1>2, <1>5, <3>1, DireccionMenor
  <2>2. \A k \in 1 .. hecho : (d + k - 1) \div TamPag \in Nat
    <3>1. \A k \in 1 .. hecho : d + k - 1 \in Nat
      BY <1>1
    <3> HIDE DEF d
    <3> QED BY <3>1, Division
  <2>3. pag_actual \in Nat
    BY <1>2, Division
  <2> HIDE DEF d
  <2> QED BY <1>2, <1>5, <2>1, <2>2, <2>3
<1>6. hecho = 0 => a = d
  BY <1>1
<1> QED BY <1>2, <1>3, <1>4, <1>5, <1>6

-----------------------------------------------------------------------------
(* What a READ has read and a WRITE has written, page after page.          *)

\* byteVisto and alcanzable of any storage, frames and entries.
Byte(arch, mem, ent, n, d) == Mira(arch, mem, ent, n, (d \div TamPag) + 1)[(d % TamPag) + 1]

Alcanza(arch, mem, ent, n, d) ==
  \A i \in 1 .. d % TamPag : Mira(arch, mem, ent, n, (d \div TamPag) + 1)[i] # NUL

EnCurso == paso \in {"accediendo", "page_fault"} \/ (paso = "hecho" /\ ~ es_error_o_end)

\* The bytes done are of blocks the file has, and whole pages after the first.
Recorrido(arch, ins, h) ==
  /\ h < ins.total /\ h > 0 => (ins.dir + h) % TamPag = 0
  /\ \A k \in 1 .. h : /\ ins.nombre \in DOMAIN arch
                       /\ ((ins.dir + k - 1) \div TamPag) + 1 \in DOMAIN arch[ins.nombre].bloques

\* What was read is what is seen, as far as the first NUL of either.
Leido(arch, mem, ent, ins, h, l) ==
  /\ Len(l) = h
  /\ h > 0 /\ Alcanza(arch, mem, ent, ins.nombre, ins.dir) =>
       \A k \in 1 .. h :
         \/ (\A j \in 1 .. k - 1 : l[j] # NUL)
         \/ (\A j \in 1 .. k - 1 : Byte(arch, mem, ent, ins.nombre, ins.dir + j - 1) # NUL)
         => l[k] = Byte(arch, mem, ent, ins.nombre, ins.dir + k - 1)

\* The bytes written are in their pages, those that are in memory.
EnMarcos(mem, ent, ins, h) ==
  \A k \in 1 .. h :
    LET a == ins.dir + k - 1
        x == <<ins.nombre, a \div TamPag>>
    IN  x \in presentes(ent) => mem[ent[x].nro_frame][(a % TamPag) + 1] = ins.datos[k]

\* Those with no NUL before them in their page are seen, wherever it is.
Escrito(arch, mem, ent, ins, h) ==
  \A k \in 1 .. h :
    Alcanza(arch, mem, ent, ins.nombre, ins.dir + k - 1) =>
      Byte(arch, mem, ent, ins.nombre, ins.dir + k - 1) = ins.datos[k]

LeidoVacio == paso = "libre" => leido = <<>>

LeeOEscribe ==
  instruccion.op \in {"WRITE", "READ"} /\ EnCurso /\ instruccion.nombre \notin Compartidos

Avance ==
  /\ Recorrido(archivos, instruccion, hecho)
  /\ instruccion.op = "READ" => Leido(archivos, memoria, entrada, instruccion, hecho, leido)
  /\ instruccion.op = "WRITE" => /\ EnMarcos(memoria, entrada, instruccion, hecho)
                                 /\ Escrito(archivos, memoria, entrada, instruccion, hecho)

Terminado ==
  paso = "hecho" =>
    /\ hecho = instruccion.total
    /\ instruccion.op = "READ" => enviados = <<mensaje("LEER", hastaNUL(leido))>>

AccesoBien == LeidoVacio /\ (LeeOEscribe => Avance /\ Terminado)

\* The blocks of the file of a turn, before and after it.
LEMMA CopiaBloques ==
  ASSUME IInv, NEW f \in Frames, NEW mem \in [Frames -> Pagina], NEW ent \in [Pares -> Entrada],
         Copia(f, mem, ent), NEW n, n = instruccion.nombre, n \notin Compartidos
  PROVE  /\ n \in DOMAIN archivos /\ n \in DOMAIN archivos'
         /\ DOMAIN archivos'[n].bloques = DOMAIN archivos[n].bloques
         /\ pag_actual \in Nat /\ pag_actual + 1 \in DOMAIN archivos[n].bloques
         /\ Mira(archivos, memoria, entrada, n, pag_actual + 1) = aBloque(mem[f])
         /\ Mira(archivos', memoria', entrada', n, pag_actual + 1) =
              IF instruccion.op = "WRITE" THEN aBloque(escrita(mem[f])) ELSE aBloque(mem[f])
         /\ \A i \in DOMAIN archivos[n].bloques : i # pag_actual + 1 =>
              Mira(archivos', memoria', entrada', n, i) = Mira(archivos, memoria, entrada, n, i)
<1>1. pag \in Pares /\ pag = <<n, pag_actual>>
  BY Tramo DEF Copia, pag
<1>2. pag_actual \in Nat /\ pag_actual + 1 - 1 = pag_actual
  BY <1>1, MemoriaAssumption DEF Pares, Paginas
<1>3. n \in DOMAIN archivos' /\ pag_actual + 1 \in DOMAIN archivos'[n].bloques
  BY <1>1 DEF Copia, Respaldo
<1>4. n \in propios /\ DOMAIN archivos'[n].bloques = DOMAIN archivos[n].bloques
  BY <1>3, CopiaVista
<1>5. \A i \in DOMAIN archivos[n].bloques : i \in Int
  BY <1>4, EstadoDeArchivo DEF propios, IInv, MemoriaTypeOK
<1>6. \A i \in DOMAIN archivos[n].bloques : i # pag_actual + 1 => <<n, i - 1>> # pag
  BY <1>1, <1>2, <1>5
<1>7. <<n, (pag_actual + 1) - 1>> = pag
  BY <1>1, <1>2
<1>8. \A i \in DOMAIN archivos[n].bloques :
        IF <<n, i - 1>> = pag
        THEN /\ vista(n, i) = aBloque(mem[f])
             /\ vista(n, i)' = IF instruccion.op = "WRITE"
                               THEN aBloque(escrita(mem[f])) ELSE vista(n, i)
        ELSE vista(n, i)' = vista(n, i)
  BY <1>4, CopiaVista
<1> QED BY <1>2, <1>3, <1>4, <1>6, <1>7, <1>8, VistaActual DEF propios

LEMMA CopiaRecorrido ==
  ASSUME IInv, NEW f \in Frames, NEW mem \in [Frames -> Pagina], NEW ent \in [Pares -> Entrada],
         Copia(f, mem, ent), instruccion.nombre \notin Compartidos,
         Recorrido(archivos, instruccion, hecho)
  PROVE  Recorrido(archivos', instruccion, hecho + por_copiar)
<1> DEFINE n == instruccion.nombre
           h == hecho + por_copiar
<1>1. /\ n \in DOMAIN archivos' /\ DOMAIN archivos'[n].bloques = DOMAIN archivos[n].bloques
      /\ pag_actual + 1 \in DOMAIN archivos[n].bloques
  BY CopiaBloques
<1>2. EnAcceso
  BY DEF Copia
<1>3. hecho \in Nat /\ por_copiar \in Nat
  BY <1>2, Tramo DEF EnAcceso, MemoriaTypeOK, EjecucionTypeOK
<1>4. h < instruccion.total => (instruccion.dir + h) % TamPag = 0
  BY <1>2, Direcciones
<1>5. ASSUME NEW k \in 1 .. h
      PROVE  ((instruccion.dir + k - 1) \div TamPag) + 1 \in DOMAIN archivos'[n].bloques
  <2>1. CASE k \in 1 .. hecho
    BY <1>1, <2>1 DEF Recorrido
  <2>2. CASE k \notin 1 .. hecho
    <3>1. k \in hecho + 1 .. hecho + por_copiar
      BY <1>3, <2>2
    <3>2. (instruccion.dir + k - 1) \div TamPag = pag_actual
      BY <1>2, <3>1, Direcciones
    <3> QED BY <1>1, <3>2
  <2> QED BY <2>1, <2>2
<1> QED BY <1>1, <1>4, <1>5 DEF Recorrido

\* The first byte of a turn is at the start of its page, or it is the first of
\* all and a string from the start of the page reaches it.
LEMMA HastaElTramo ==
  ASSUME EnAcceso, Recorrido(archivos, instruccion, hecho), NEW b,
         hecho = 0 => \A j \in 1 .. instruccion.dir % TamPag : b[j] # NUL
  PROVE  \A j \in 1 .. desp_actual : b[j] # NUL
<1>1. hecho \in Nat /\ hecho < instruccion.total
  BY DEF EnAcceso, MemoriaTypeOK, EjecucionTypeOK, AccediendoBien
<1>2. CASE hecho = 0
  BY <1>2, Direcciones
<1>3. CASE hecho > 0
  <2>1. (instruccion.dir + hecho) % TamPag = 0
    BY <1>1, <1>3 DEF Recorrido
  <2>2. desp_actual = 0
    BY <1>3, <2>1, Direcciones
  <2> QED BY <2>2
<1> QED BY <1>1, <1>2, <1>3

LEMMA LeerTramo ==
  ASSUME NEW l \in Seq(Bytes), NEW p \in Seq(Bytes), NEW a \in Nat, NEW c \in Nat,
         a + c <= Len(p), NEW t, t = l \o SubSeq(p, a + 1, a + c)
  PROVE  /\ Len(t) = Len(l) + c
         /\ \A k \in 1 .. Len(l) : t[k] = l[k]
         /\ \A k \in Len(l) + 1 .. Len(l) + c : t[k] = p[a + (k - Len(l))]
<1> DEFINE q == SubSeq(p, a + 1, a + c)
<1>1. /\ q \in Seq(Bytes) /\ Len(q) = c
      /\ \A j \in 1 .. c : q[j] = p[a + j]
  <2>1. \A i \in a + 1 .. a + c : p[i] \in Bytes
    <3>1. \A i \in a + 1 .. a + c : i \in 1 .. Len(p)
      OBVIOUS
    <3> QED BY <3>1
  <2>2. /\ q \in Seq(Bytes) /\ Len(q) = IF a + 1 <= a + c THEN a + c - (a + 1) + 1 ELSE 0
        /\ \A i \in 1 .. a + c - (a + 1) + 1 : q[i] = p[a + 1 + i - 1]
    BY <2>1, SubSeqProperties
  <2>3. \A j \in 1 .. c : j \in 1 .. a + c - (a + 1) + 1 /\ a + 1 + j - 1 = a + j
    OBVIOUS
  <2> HIDE DEF q
  <2>4. Len(q) = c
    BY <2>2
  <2> QED BY <2>2, <2>3, <2>4
<1> HIDE DEF q
<1>2. /\ Len(l \o q) = Len(l) + c
      /\ \A k \in 1 .. Len(l) : (l \o q)[k] = l[k]
      /\ \A k \in Len(l) + 1 .. Len(l) + c : (l \o q)[k] = q[k - Len(l)]
  BY <1>1
<1>3. \A k \in Len(l) + 1 .. Len(l) + c : k - Len(l) \in 1 .. c
  OBVIOUS
<1>4. t = l \o q
  BY DEF q
<1> QED BY <1>1, <1>2, <1>3, <1>4

LEMMA CopiaLeido ==
  ASSUME IInv, NEW f \in Frames, NEW mem \in [Frames -> Pagina], NEW ent \in [Pares -> Entrada],
         Copia(f, mem, ent), instruccion.nombre \notin Compartidos, instruccion.op = "READ",
         Recorrido(archivos, instruccion, hecho),
         Leido(archivos, memoria, entrada, instruccion, hecho, leido)
  PROVE  Leido(archivos', memoria', entrada', instruccion, hecho + por_copiar, leido')
<1> DEFINE n == instruccion.nombre
           d == instruccion.dir
           h == hecho + por_copiar
           p == mem[f]
           B(k) == Byte(archivos, memoria, entrada, n, d + k - 1)
<1>1. EnAcceso /\ p \in Pagina
  BY DEF Copia
<1>2. /\ hecho \in Nat /\ por_copiar \in Nat /\ desp_actual \in Nat /\ d \in Nat
      /\ desp_actual + por_copiar <= TamPag /\ TamPag \in Nat \ {0} /\ leido \in Seq(Bytes)
      /\ Len(leido) = hecho
  BY <1>1, Tramo, MemoriaAssumption DEF EnAcceso, MemoriaTypeOK, EjecucionTypeOK, Leido
<1>3. /\ leido' = leido \o SubSeq(p, desp_actual + 1, desp_actual + por_copiar)
      /\ p \in Seq(Bytes) /\ Len(p) = TamPag
  <2>1. leido' = leido \o SubSeq(p, desp_actual + 1, desp_actual + por_copiar)
    BY DEF Copia, copiarTramo
  <2>2. p \in Seq(Bytes) /\ Len(p) = TamPag
    BY <1>1, <1>2 DEF Pagina
  <2> QED BY <2>1, <2>2
<1>4. /\ Len(leido') = h
      /\ \A k \in 1 .. hecho : leido'[k] = leido[k]
      /\ \A k \in hecho + 1 .. h : leido'[k] = p[desp_actual + (k - hecho)]
  <2> HIDE DEF p
  <2>1. /\ Len(leido') = Len(leido) + por_copiar
        /\ \A k \in 1 .. Len(leido) : leido'[k] = leido[k]
        /\ \A k \in Len(leido) + 1 .. Len(leido) + por_copiar :
             leido'[k] = p[desp_actual + (k - Len(leido))]
    <3>1. /\ leido \in Seq(Bytes) /\ p \in Seq(Bytes) /\ desp_actual \in Nat
          /\ por_copiar \in Nat /\ desp_actual + por_copiar <= Len(p)
      BY <1>2, <1>3
    <3>2. leido' = leido \o SubSeq(p, desp_actual + 1, desp_actual + por_copiar)
      BY <1>3 DEF p
    <3> DEFINE t == leido'
               a == desp_actual
               c == por_copiar
    <3> HIDE DEF t, a, c
    <3>3. /\ leido \in Seq(Bytes) /\ p \in Seq(Bytes) /\ a \in Nat
          /\ c \in Nat /\ a + c <= Len(p) /\ t = leido \o SubSeq(p, a + 1, a + c)
      BY <3>1, <3>2 DEF t, a, c
    <3>4. /\ Len(t) = Len(leido) + c
          /\ \A k \in 1 .. Len(leido) : t[k] = leido[k]
          /\ \A k \in Len(leido) + 1 .. Len(leido) + c : t[k] = p[a + (k - Len(leido))]
      BY <3>3, LeerTramo
    <3> QED BY <3>4 DEF t, a, c
  <2> QED BY <1>2, <2>1
<1>5. \A k \in 1 .. h : ((d + k - 1) \div TamPag) + 1 \in DOMAIN archivos[n].bloques
  <2>1. Recorrido(archivos', instruccion, h)
    BY CopiaRecorrido
  <2>2. DOMAIN archivos'[n].bloques = DOMAIN archivos[n].bloques
    BY CopiaBloques
  <2> QED BY <2>1, <2>2 DEF Recorrido
<1>6. \A i \in DOMAIN archivos[n].bloques :
        Mira(archivos', memoria', entrada', n, i) = Mira(archivos, memoria, entrada, n, i)
  BY CopiaBloques
<1>7. \A k \in 1 .. h : Byte(archivos', memoria', entrada', n, d + k - 1) = B(k)
  BY <1>5, <1>6 DEF Byte
<1>8. ASSUME h > 0, Alcanza(archivos', memoria', entrada', n, d)
      PROVE  Alcanza(archivos, memoria, entrada, n, d)
  <2>1. 1 \in 1 .. h /\ d + 1 - 1 = d
    BY <1>2, <1>8
  <2>2. (d \div TamPag) + 1 \in DOMAIN archivos[n].bloques
    BY <1>5, <2>1
  <2> QED BY <1>6, <1>8, <2>2 DEF Alcanza
<1>9. ASSUME NEW k \in hecho + 1 .. h PROVE B(k) = aBloque(p)[desp_actual + (k - hecho)]
  <2>1. /\ (d + k - 1) \div TamPag = pag_actual
        /\ ((d + k - 1) % TamPag) + 1 = desp_actual + (k - hecho)
    BY <1>1, Direcciones
  <2>2. Mira(archivos, memoria, entrada, n, pag_actual + 1) = aBloque(p)
    BY CopiaBloques
  <2> QED BY <2>1, <2>2 DEF Byte
<1> HIDE DEF h, p, B
<1>10. ASSUME h > 0, Alcanza(archivos, memoria, entrada, n, d), NEW k \in 1 .. h,
              (\A j \in 1 .. k - 1 : leido'[j] # NUL) \/ (\A j \in 1 .. k - 1 : B(j) # NUL)
       PROVE  leido'[k] = B(k)
  <2>1. CASE k \in 1 .. hecho
    <3>1. hecho > 0 /\ \A j \in 1 .. k - 1 : j \in 1 .. hecho
      BY <1>2, <2>1
    <3>2. (\A j \in 1 .. k - 1 : leido[j] # NUL) \/ (\A j \in 1 .. k - 1 : B(j) # NUL)
      BY <1>4, <1>10, <3>1
    <3>3. leido[k] = B(k)
      BY <1>10, <2>1, <3>1, <3>2 DEF Leido, B
    <3> QED BY <1>4, <2>1, <3>3
  <2>2. CASE k \notin 1 .. hecho
    <3> DEFINE i == desp_actual + (k - hecho)
    <3>1. k \in hecho + 1 .. h /\ i \in 1 .. TamPag
      BY <1>2, <2>2 DEF h
    <3>2. \A j \in desp_actual + 1 .. i - 1 :
            /\ hecho + j - desp_actual \in hecho + 1 .. h
            /\ hecho + j - desp_actual \in 1 .. k - 1
            /\ desp_actual + (hecho + j - desp_actual - hecho) = j
      <4> SUFFICES ASSUME NEW j \in desp_actual + 1 .. i - 1
                   PROVE  /\ hecho + j - desp_actual \in hecho + 1 .. h
                          /\ hecho + j - desp_actual \in 1 .. k - 1
                          /\ desp_actual + (hecho + j - desp_actual - hecho) = j
        OBVIOUS
      <4>1. j \in Int /\ desp_actual < j /\ j < desp_actual + (k - hecho) /\ k <= h /\ k \in Nat
        BY <1>2, <3>1 DEF h
      <4> QED BY <1>2, <4>1 DEF h
    <3>3. ASSUME NEW j \in desp_actual + 1 .. i - 1
          PROVE  p[j] = leido'[hecho + j - desp_actual] /\ aBloque(p)[j] = B(hecho + j - desp_actual)
      <4> DEFINE m == hecho + j - desp_actual
      <4>1. /\ hecho + j - desp_actual \in hecho + 1 .. h
            /\ desp_actual + (hecho + j - desp_actual - hecho) = j
        BY <3>2, Zenon
      <4> HIDE DEF m, i
      <4>2. leido'[m] = p[desp_actual + (m - hecho)]
        BY <1>4, <4>1 DEF m
      <4>3. B(m) = aBloque(p)[desp_actual + (m - hecho)]
        BY <1>9, <4>1 DEF m
      <4>4. desp_actual + (m - hecho) = j
        BY <1>2 DEF m
      <4>5. p[j] = leido'[m] /\ aBloque(p)[j] = B(m)
        BY <4>2, <4>3, <4>4
      <4> QED BY <4>5 DEF m
    <3>4. \/ \A j \in desp_actual + 1 .. i - 1 : p[j] # NUL
          \/ \A j \in desp_actual + 1 .. i - 1 : aBloque(p)[j] # NUL
      BY <1>10, <3>2, <3>3
    <3>5. hecho = 0 => \A j \in 1 .. d % TamPag : aBloque(p)[j] # NUL
      <4> SUFFICES ASSUME hecho = 0 PROVE \A j \in 1 .. d % TamPag : aBloque(p)[j] # NUL
        OBVIOUS
      <4>1. d \div TamPag = pag_actual
        BY <1>1, Direcciones
      <4>2. Mira(archivos, memoria, entrada, n, pag_actual + 1) = aBloque(p)
        BY CopiaBloques DEF p
      <4> QED BY <1>10, <4>1, <4>2 DEF Alcanza
    <3>6. \A j \in 1 .. desp_actual : aBloque(p)[j] # NUL
      BY <1>1, <3>5, HastaElTramo
    <3> HIDE DEF i
    <3>7. aBloque(p)[i] = p[i]
      BY <1>1, <1>2, <3>1, <3>4, <3>6, ByteAlcanzado
    <3> QED BY <1>4, <1>9, <3>1, <3>7 DEF i
  <2> QED BY <2>1, <2>2
<1>11. ASSUME NEW k \in 1 .. h PROVE \A j \in 1 .. k - 1 : j \in 1 .. h
  BY <1>2 DEF h
<1> HIDE DEF d, n
<1>12. ASSUME h > 0, Alcanza(archivos', memoria', entrada', n, d), NEW k \in 1 .. h,
              \/ \A j \in 1 .. k - 1 : leido'[j] # NUL
              \/ \A j \in 1 .. k - 1 : Byte(archivos', memoria', entrada', n, d + j - 1) # NUL
       PROVE  leido'[k] = Byte(archivos', memoria', entrada', n, d + k - 1)
  BY <1>7, <1>8, <1>10, <1>11, <1>12
<1> QED BY <1>4, <1>12 DEF Leido, d, n, h

\* The addresses done before a turn are of other pages.
LEMMA OtrasPaginas ==
  ASSUME EnAcceso, Recorrido(archivos, instruccion, hecho), NEW k \in 1 .. hecho
  PROVE  (instruccion.dir + k - 1) \div TamPag # pag_actual
<1>1. hecho \in Nat /\ hecho < instruccion.total
  BY DEF EnAcceso, MemoriaTypeOK, EjecucionTypeOK, AccediendoBien
<1>2. hecho > 0
  BY <1>1
<1>3. (instruccion.dir + hecho) % TamPag = 0
  BY <1>1, <1>2 DEF Recorrido
<1> QED BY <1>2, <1>3, Direcciones

LEMMA CopiaEnMarcos ==
  ASSUME NEW f \in Frames, NEW mem \in [Frames -> Pagina], NEW ent \in [Pares -> Entrada],
         Copia(f, mem, ent), instruccion.op = "WRITE",
         Recorrido(archivos, instruccion, hecho),
         EnMarcos(memoria, entrada, instruccion, hecho)
  PROVE  EnMarcos(memoria', entrada', instruccion, hecho + por_copiar)
<1> DEFINE n == instruccion.nombre
           d == instruccion.dir
           h == hecho + por_copiar
<1>1. EnAcceso /\ pag \in Pares /\ pag = <<n, pag_actual>>
  BY Tramo DEF Copia, pag
<1>2. /\ hecho \in Nat /\ por_copiar \in Nat /\ desp_actual \in Nat
      /\ desp_actual + por_copiar <= TamPag /\ TamPag \in Nat
  BY <1>1, Tramo, MemoriaAssumption DEF EnAcceso, MemoriaTypeOK, EjecucionTypeOK
<1>3. \A x \in Pares : /\ entrada'[x].nro_frame = ent[x].nro_frame
                       /\ entrada'[x].bit_presencia <=> ent[x].bit_presencia
  BY <1>1, CopiarTramoEntradas DEF Copia
<1>4. memoria' = [mem EXCEPT ![f] = escrita(mem[f])]
  BY DEF Copia, copiarTramo
<1>5. entrada'[pag].nro_frame = f /\ memoria'[f] = escrita(mem[f])
  BY <1>1, <1>3, <1>4 DEF Copia
<1>6. ASSUME NEW x \in presentes(entrada'), x # pag
      PROVE  /\ x \in presentes(entrada)
             /\ memoria'[entrada'[x].nro_frame] = memoria[entrada[x].nro_frame]
  <2>1. x \in Pares /\ ent[x].bit_presencia /\ entrada'[x].nro_frame = ent[x].nro_frame
    BY <1>3 DEF presentes
  <2>2. ent[x].nro_frame # f
    BY <1>1, <1>6, <2>1 DEF Copia, MarcosDe
  <2>3. memoria'[ent[x].nro_frame] = mem[ent[x].nro_frame]
    BY <1>4, <2>2
  <2> QED BY <1>6, <2>1, <2>3 DEF Copia, MismasPaginas, presentes
<1> DEFINE x(k) == <<n, (d + k - 1) \div TamPag>>
<1> SUFFICES ASSUME NEW k \in 1 .. h, x(k) \in presentes(entrada')
             PROVE  memoria'[entrada'[x(k)].nro_frame][((d + k - 1) % TamPag) + 1]
                      = instruccion.datos[k]
  BY DEF EnMarcos
<1>7. CASE k \in 1 .. hecho
  <2>1. x(k) # pag
    BY <1>1, <1>7, OtrasPaginas
  <2> QED BY <1>6, <1>7, <2>1 DEF EnMarcos
<1>8. CASE k \notin 1 .. hecho
  <2> DEFINE i == desp_actual + (k - hecho)
  <2>1. k \in hecho + 1 .. h
    BY <1>2, <1>8
  <2>2. x(k) = pag /\ ((d + k - 1) % TamPag) + 1 = i
    BY <1>1, <2>1, Direcciones
  <2>3. /\ i \in 1 .. TamPag /\ desp_actual < i /\ i <= desp_actual + por_copiar
        /\ hecho + i - desp_actual = k
    BY <1>2, <2>1
  <2> HIDE DEF i, x
  <2>4. escrita(mem[f])[i] = instruccion.datos[hecho + i - desp_actual]
    BY <2>3 DEF escrita, enTramo
  <2> QED BY <1>5, <2>2, <2>3, <2>4
<1> QED BY <1>7, <1>8

LEMMA CopiaEscrito ==
  ASSUME IInv, NEW f \in Frames, NEW mem \in [Frames -> Pagina], NEW ent \in [Pares -> Entrada],
         Copia(f, mem, ent), instruccion.nombre \notin Compartidos, instruccion.op = "WRITE",
         Recorrido(archivos, instruccion, hecho),
         Escrito(archivos, memoria, entrada, instruccion, hecho)
  PROVE  Escrito(archivos', memoria', entrada', instruccion, hecho + por_copiar)
<1> DEFINE n == instruccion.nombre
           d == instruccion.dir
           h == hecho + por_copiar
           e == escrita(mem[f])
<1>1. EnAcceso /\ e \in Pagina
  BY EscritaTipo DEF Copia
<1>2. /\ hecho \in Nat /\ por_copiar \in Nat /\ desp_actual \in Nat /\ d \in Nat
      /\ desp_actual + por_copiar <= TamPag /\ TamPag \in Nat \ {0}
  BY <1>1, Tramo, MemoriaAssumption DEF EnAcceso, MemoriaTypeOK, EjecucionTypeOK
<1>3. /\ pag_actual + 1 \in DOMAIN archivos[n].bloques /\ pag_actual \in Nat
      /\ Mira(archivos', memoria', entrada', n, pag_actual + 1) = aBloque(e)
      /\ \A i \in DOMAIN archivos[n].bloques : i # pag_actual + 1 =>
           Mira(archivos', memoria', entrada', n, i) = Mira(archivos, memoria, entrada, n, i)
  BY CopiaBloques
<1> HIDE DEF e
<1> SUFFICES ASSUME NEW k \in 1 .. h, Alcanza(archivos', memoria', entrada', n, d + k - 1)
             PROVE  Byte(archivos', memoria', entrada', n, d + k - 1) = instruccion.datos[k]
  BY DEF Escrito
<1>4. CASE k \in 1 .. hecho
  <2> DEFINE c == (d + k - 1) \div TamPag
  <2>1. c + 1 \in DOMAIN archivos[n].bloques /\ c # pag_actual
    BY <1>1, <1>4, OtrasPaginas DEF Recorrido
  <2>2. c \in Nat
    <3>1. d + k - 1 \in Nat
      BY <1>2
    <3> HIDE DEF d
    <3> QED BY <3>1, Division
  <2> HIDE DEF c
  <2>3. c + 1 # pag_actual + 1
    BY <1>3, <2>1, <2>2
  <2>4. Mira(archivos', memoria', entrada', n, c + 1) = Mira(archivos, memoria, entrada, n, c + 1)
    BY <1>3, <2>1, <2>3
  <2>5. Alcanza(archivos, memoria, entrada, n, d + k - 1)
    BY <2>4 DEF Alcanza, c
  <2>6. Byte(archivos, memoria, entrada, n, d + k - 1) = instruccion.datos[k]
    BY <1>4, <2>5 DEF Escrito
  <2> QED BY <2>4, <2>6 DEF Byte, c
<1>5. CASE k \notin 1 .. hecho
  <2> DEFINE i == desp_actual + (k - hecho)
  <2>1. k \in hecho + 1 .. h
    BY <1>2, <1>5
  <2>2. (d + k - 1) \div TamPag = pag_actual /\ ((d + k - 1) % TamPag) + 1 = i
    BY <1>1, <2>1, Direcciones
  <2>3. /\ i \in 1 .. TamPag /\ desp_actual < i /\ i <= desp_actual + por_copiar
        /\ hecho + i - desp_actual = k /\ (d + k - 1) % TamPag = i - 1
    <3>1. (d + k - 1) % TamPag \in Int
      <4>1. d + k - 1 \in Nat
        BY <1>2
      <4> HIDE DEF d
      <4> QED BY <1>2, <4>1, Division
    <3> DEFINE m == (d + k - 1) % TamPag
    <3>2. m \in Int /\ m + 1 = i
      BY <2>2, <3>1
    <3> HIDE DEF m
    <3>3. i \in 1 .. TamPag /\ desp_actual < i /\ i <= desp_actual + por_copiar
          /\ hecho + i - desp_actual = k
      BY <1>2, <2>1
    <3>4. m = i - 1
      BY <1>2, <3>2, <3>3
    <3> QED BY <3>3, <3>4 DEF m
  <2> HIDE DEF i
  <2>4. e[i] = instruccion.datos[k]
    BY <2>3 DEF e, escrita, enTramo
  <2>5. \A j \in 1 .. i - 1 : aBloque(e)[j] # NUL
    BY <1>3, <2>2, <2>3 DEF Alcanza
  <2>6. aBloque(e)[i] = e[i]
    BY <1>1, <2>3, <2>5, HastaElNUL
  <2>7. Byte(archivos', memoria', entrada', n, d + k - 1) = aBloque(e)[i]
    BY <1>3, <2>2 DEF Byte
  <2> QED BY <2>4, <2>6, <2>7
<1> QED BY <1>4, <1>5

LEMMA CopiaAcceso ==
  ASSUME IInv, AccesoBien, HayCopia
  PROVE  AccesoBien'
<1>1. \E f \in Frames : \E mem \in [Frames -> Pagina] : \E ent \in [Pares -> Entrada] :
        Copia(f, mem, ent)
  BY DEF HayCopia
<1> SUFFICES ASSUME NEW f \in Frames, NEW mem \in [Frames -> Pagina],
                    NEW ent \in [Pares -> Entrada], Copia(f, mem, ent)
             PROVE  AccesoBien'
  BY <1>1
<1>2. /\ EnAcceso /\ copiarTramo(f, mem, ent) /\ instruccion' = instruccion
      /\ paso \in {"accediendo", "page_fault"}
  BY DEF Copia, EnAcceso
<1>3. hecho' = hecho + por_copiar /\ hecho' \in Nat /\ hecho' <= instruccion.total
      /\ instruccion.total \in Nat
  BY <1>2, TramoAvanza, Tramo DEF EnAcceso, MemoriaTypeOK, EjecucionTypeOK
<1>4. LeidoVacio'
  BY <1>2 DEF copiarTramo, terminar, LeidoVacio
<1>5. ASSUME LeeOEscribe' PROVE Avance' /\ Terminado'
  <2>1. LeeOEscribe /\ Avance
    BY <1>2, <1>5 DEF LeeOEscribe, EnCurso, AccesoBien
  <2>2. Recorrido(archivos', instruccion, hecho + por_copiar)
    BY <2>1, CopiaRecorrido DEF LeeOEscribe, Avance
  <2>3. instruccion.op = "READ" =>
          Leido(archivos', memoria', entrada', instruccion, hecho + por_copiar, leido')
    BY <2>1, CopiaLeido DEF LeeOEscribe, Avance
  <2>4. instruccion.op = "WRITE" =>
          /\ EnMarcos(memoria', entrada', instruccion, hecho + por_copiar)
          /\ Escrito(archivos', memoria', entrada', instruccion, hecho + por_copiar)
    BY <2>1, CopiaEnMarcos, CopiaEscrito DEF LeeOEscribe, Avance
  <2>5. Avance'
    BY <1>2, <1>3, <2>2, <2>3, <2>4 DEF Avance
  <2>6. ASSUME paso' = "hecho", instruccion.op = "READ"
        PROVE  enviados' = <<mensaje("LEER", hastaNUL(leido'))>>
    <3>1. enviados = <<>>
      BY <1>2 DEF IInv, Curso
    <3>2. enviados' = enviados \o <<mensaje("LEER", hastaNUL(leido'))>>
      BY <1>2, <2>6 DEF copiarTramo, terminar
    <3> DEFINE m == mensaje("LEER", hastaNUL(leido'))
    <3> HIDE DEF m
    <3>3. <<>> \o <<m>> = <<m>>
      OBVIOUS
    <3> QED BY <3>1, <3>2, <3>3 DEF m
  <2>7. paso' = "hecho" => hecho' = instruccion.total
    BY <1>2, <1>3 DEF copiarTramo
  <2>8. Terminado'
    BY <1>2, <2>6, <2>7 DEF Terminado
  <2> QED BY <2>5, <2>8
<1> QED BY <1>4, <1>5 DEF AccesoBien

\* A request that keeps what is seen keeps what was read and written.
LEMMA PedidoAvance ==
  ASSUME IInv, IRespaldo, Pedido, UNCHANGED <<instruccion, hecho, leido>>,
         instruccion.nombre \notin Compartidos, Avance
  PROVE  Avance'
<1> DEFINE n == instruccion.nombre
           d == instruccion.dir
<1>1. hecho \in Nat /\ d \in Nat
  BY DEF IInv, MemoriaTypeOK, EjecucionTypeOK
<1>2. ASSUME n \in DOMAIN archivos
      PROVE  /\ n \in DOMAIN archivos'
             /\ \A i \in DOMAIN archivos[n].bloques :
                  /\ i \in DOMAIN archivos'[n].bloques
                  /\ Mira(archivos', memoria', entrada', n, i) = Mira(archivos, memoria, entrada, n, i)
  BY <1>2, PedidoVista, VistaActual DEF propios
<1>3. \A k \in 1 .. hecho :
        /\ n \in DOMAIN archivos' /\ ((d + k - 1) \div TamPag) + 1 \in DOMAIN archivos'[n].bloques
        /\ Byte(archivos', memoria', entrada', n, d + k - 1)
             = Byte(archivos, memoria, entrada, n, d + k - 1)
  BY <1>2 DEF Avance, Recorrido, Byte
<1>4. Recorrido(archivos', instruccion, hecho)
  BY <1>3 DEF Avance, Recorrido
<1>5. ASSUME hecho > 0, Alcanza(archivos', memoria', entrada', n, d)
      PROVE  Alcanza(archivos, memoria, entrada, n, d)
  <2>1. 1 \in 1 .. hecho /\ d + 1 - 1 = d
    BY <1>1, <1>5
  <2>2. n \in DOMAIN archivos /\ (d \div TamPag) + 1 \in DOMAIN archivos[n].bloques
    BY <2>1 DEF Avance, Recorrido
  <2> QED BY <1>2, <1>5, <2>2 DEF Alcanza
<1>6. \A k \in 1 .. hecho : \A j \in 1 .. k - 1 : j \in 1 .. hecho
  BY <1>1
<1> HIDE DEF n, d
<1>7. ASSUME instruccion.op = "READ" PROVE Leido(archivos', memoria', entrada', instruccion, hecho, leido)
  <2>1. Leido(archivos, memoria, entrada, instruccion, hecho, leido)
    BY <1>7 DEF Avance
  <2>2. ASSUME hecho > 0, Alcanza(archivos', memoria', entrada', n, d), NEW k \in 1 .. hecho,
               \/ \A j \in 1 .. k - 1 : leido[j] # NUL
               \/ \A j \in 1 .. k - 1 : Byte(archivos', memoria', entrada', n, d + j - 1) # NUL
        PROVE  leido[k] = Byte(archivos', memoria', entrada', n, d + k - 1)
    <3>1. \/ \A j \in 1 .. k - 1 : leido[j] # NUL
          \/ \A j \in 1 .. k - 1 : Byte(archivos, memoria, entrada, n, d + j - 1) # NUL
      BY <1>3, <1>6, <2>2
    <3>2. leido[k] = Byte(archivos, memoria, entrada, n, d + k - 1)
      BY <1>5, <2>1, <2>2, <3>1 DEF Leido, n, d
    <3> QED BY <1>3, <3>2
  <2> QED BY <2>1, <2>2 DEF Leido, n, d
<1>8. ASSUME instruccion.op = "WRITE"
      PROVE  /\ EnMarcos(memoria', entrada', instruccion, hecho)
             /\ Escrito(archivos', memoria', entrada', instruccion, hecho)
  <2>1. /\ EnMarcos(memoria, entrada, instruccion, hecho)
        /\ Escrito(archivos, memoria, entrada, instruccion, hecho)
    BY <1>8 DEF Avance
  <2>2. EnMarcos(memoria', entrada', instruccion, hecho)
    BY <2>1 DEF EnMarcos, Pedido, presentes
  <2>3. ASSUME NEW k \in 1 .. hecho, Alcanza(archivos', memoria', entrada', n, d + k - 1)
        PROVE  Alcanza(archivos, memoria, entrada, n, d + k - 1)
    <3>1. n \in DOMAIN archivos /\ ((d + k - 1) \div TamPag) + 1 \in DOMAIN archivos[n].bloques
      BY DEF Avance, Recorrido, n, d
    <3> QED BY <1>2, <2>3, <3>1 DEF Alcanza
  <2> QED BY <1>3, <2>1, <2>2, <2>3 DEF Escrito, n, d
<1> QED BY <1>4, <1>7, <1>8 DEF Avance

LEMMA PedidoAcceso ==
  ASSUME IInv, IRespaldo, AccesoBien, Pedido, paso' \in Paso,
         UNCHANGED <<instruccion, hecho, leido, enviados, es_error_o_end>>,
         paso' = paso \/ (paso = "accediendo" /\ paso' = "page_fault")
  PROVE  AccesoBien'
<1>1. LeidoVacio'
  BY DEF AccesoBien, LeidoVacio
<1>2. LeeOEscribe' => LeeOEscribe
  BY DEF LeeOEscribe, EnCurso
<1>3. Terminado => Terminado'
  BY DEF Terminado
<1>4. LeeOEscribe /\ Avance => Avance'
  BY PedidoAvance DEF LeeOEscribe
<1> QED BY <1>1, <1>2, <1>3, <1>4 DEF AccesoBien

LEMMA ErrorAcceso ==
  ASSUME AccesoBien, instruccion' = instruccion, (paso' = "hecho" /\ es_error_o_end') \/ paso' = "caido"
  PROVE  AccesoBien'
<1>1. LeidoVacio'
  BY DEF AccesoBien, LeidoVacio
<1>2. ~ LeeOEscribe'
  BY DEF LeeOEscribe, EnCurso
<1> QED BY <1>1, <1>2 DEF AccesoBien

LEMMA OtraInstruccion ==
  ASSUME paso' # "libre" \/ leido' = <<>>, instruccion'.op \notin {"WRITE", "READ"}
  PROVE  AccesoBien'
  BY DEF AccesoBien, LeidoVacio, LeeOEscribe

\* Nothing is read or written yet.
LEMMA EmpiezaAcceso ==
  ASSUME hecho' = 0, leido' = <<>>, paso' = "accediendo"
  PROVE  AccesoBien'
<1>1. Len(<<>>) = 0 /\ \A k \in 1 .. 0 : FALSE
  OBVIOUS
<1>2. Recorrido(archivos', instruccion', 0)
  BY <1>1 DEF Recorrido
<1>3. Leido(archivos', memoria', entrada', instruccion', 0, <<>>)
  BY <1>1 DEF Leido
<1>4. /\ EnMarcos(memoria', entrada', instruccion', 0)
      /\ Escrito(archivos', memoria', entrada', instruccion', 0)
  BY <1>1 DEF EnMarcos, Escrito
<1>5. Avance'
  BY <1>2, <1>3, <1>4 DEF Avance
<1> QED BY <1>5 DEF AccesoBien, LeidoVacio, Terminado

LEMMA ejecutarWriteAcceso ==
  ASSUME IInv, AccesoBien, NEW n \in Nombres, ejecutarWrite(n)
  PROVE  AccesoBien'
<1>1. PICK e \in Escrituras :
        Ejecutar("WRITE", n, e.dir, Append(e.contenido, NUL), Len(e.contenido) + 1, "accediendo")
  BY DEF ejecutarWrite
<1>2. paso = "libre" /\ hecho = 0 /\ leido = <<>>
  BY <1>1 DEF Ejecutar, IInv, Curso, AccesoBien, LeidoVacio
<1>3. paso' = "accediendo" /\ UNCHANGED <<hecho, leido>>
  BY <1>1 DEF Ejecutar
<1> QED BY <1>2, <1>3, EmpiezaAcceso

LEMMA ejecutarReadAcceso ==
  ASSUME IInv, AccesoBien, NEW n \in Nombres, ejecutarRead(n)
  PROVE  AccesoBien'
<1>1. \E l \in Lecturas :
        \/ Ejecutar("READ", n, l.dir, <<>>, l.tam, "accediendo")
        \/ Ejecutar("READ", n, l.dir, <<>>, 0, "hecho") /\ es_error_o_end'
  BY DEF ejecutarRead, terminar
<1>2. /\ instruccion'.op = "READ" /\ UNCHANGED <<hecho, leido>> /\ paso = "libre"
      /\ paso' = "accediendo" \/ (paso' = "hecho" /\ es_error_o_end')
  BY <1>1 DEF Ejecutar
<1>3. hecho = 0 /\ leido = <<>>
  BY <1>2 DEF IInv, Curso, AccesoBien, LeidoVacio
<1>4. paso' = "hecho" /\ es_error_o_end' => AccesoBien'
  BY DEF AccesoBien, LeidoVacio, LeeOEscribe, EnCurso
<1> QED BY <1>2, <1>3, <1>4, EmpiezaAcceso

LEMMA AccesoPaso ==
  ASSUME IInv, IRespaldo, Traida, AccesoBien, SoloCrecen, [Next]_vars
  PROVE  AccesoBien'
<1>1. CASE acceder \/ devolverFrameLibre
  BY <1>1, accederCopia, devolverCopia, CopiaAcceso
<1>2. CASE gestionarBitModificado
  <2>1. instruccion' = instruccion /\ (terminarConError => paso' = "hecho" /\ es_error_o_end')
    BY <1>2 DEF gestionarBitModificado, asignarMarco, terminarConError, terminar
  <2> QED BY <1>2, <2>1, desalojarCopia, CopiaAcceso, ErrorAcceso
<1>3. CASE gestionarPAGE_FAULT
  <2>1. UNCHANGED <<memoria, entrada>> /\ UNCHANGED almacen /\ paso = "accediendo"
    BY <1>3 DEF gestionarPAGE_FAULT, marcos
  <2>2. Pedido
    BY <2>1, SinCambioConserva DEF Pedido
  <2>3. \/ /\ paso' = "page_fault"
           /\ UNCHANGED <<instruccion, hecho, leido, enviados, es_error_o_end>>
        \/ instruccion' = instruccion /\ paso' = "hecho" /\ es_error_o_end'
    BY <1>3 DEF gestionarPAGE_FAULT, terminarConError, terminar
  <2> QED BY <2>1, <2>2, <2>3, PedidoAcceso, ErrorAcceso DEF Paso
<1>4. CASE sinVictima
  BY <1>4, ErrorAcceso DEF sinVictima, terminarConError, terminar
<1>5. CASE flushearEntrada \/ finDelFlush \/ ejecutarCommit
  <2>1. instruccion.op \notin {"WRITE", "READ"} /\ instruccion' = instruccion /\ paso' # "libre"
    BY <1>5 DEF flushearEntrada, finDelFlush, ejecutarCommit, trasElFlush, terminar, IInv, Curso
  <2> QED BY <2>1, OtraInstruccion
<1>6. CASE siguiente \/ gestionarCheckInterrupt
  BY <1>6, OtraInstruccion DEF siguiente, gestionarCheckInterrupt, limpiar, Ninguna
<1>7. ASSUME NEW n \in Nombres, Execute(n) PROVE AccesoBien'
  <2>1. CASE ejecutarCreate(n) \/ ejecutarTruncate(n) \/ ejecutarTag(n) \/ ejecutarFlush(n)
    <3>1. \E op \in {"CREATE", "TRUNCATE", "TAG", "FLUSH", "COMMIT"} :
            \E p \in {"hecho", "flusheando"} : Ejecutar(op, n, 0, <<>>, 0, p)
      BY <2>1 DEF ejecutarCreate, ejecutarTruncate, ejecutarTag, ejecutarFlush, pedirAStorage
    <3>2. paso' # "libre" /\ instruccion'.op \notin {"WRITE", "READ"}
      BY <3>1 DEF Ejecutar
    <3> QED BY <3>2, OtraInstruccion
  <2>2. CASE ejecutarDelete(n)
    BY <2>2, OtraInstruccion DEF ejecutarDelete, Ninguna, terminar
  <2> QED BY <1>7, <2>1, <2>2, ejecutarWriteAcceso, ejecutarReadAcceso DEF Execute
<1>8. ASSUME NEW n \in Nombres, otroWorker(n) PROVE AccesoBien'
  <2>1. Pedido /\ UNCHANGED ejecucion
    BY <1>8, otroWorkerConserva DEF otroWorker
  <2> QED BY <2>1, PedidoAcceso DEF ejecucion, IInv, MemoriaTypeOK, EjecucionTypeOK
<1>9. CASE UNCHANGED vars
  <2>1. UNCHANGED <<memoria, entrada>> /\ UNCHANGED almacen /\ UNCHANGED ejecucion
    BY <1>9 DEF vars, tablas, marcos
  <2>2. Pedido
    BY <2>1, SinCambioConserva DEF Pedido
  <2> QED BY <2>1, <2>2, PedidoAcceso DEF ejecucion, IInv, MemoriaTypeOK, EjecucionTypeOK
<1> QED BY <1>1, <1>2, <1>3, <1>4, <1>5, <1>6, <1>7, <1>8, <1>9 DEF Next, accesoDelWorker

LEMMA AccesoInvariante ==
  ASSUME SoloCrecen
  PROVE  Spec => [](IInv /\ AccesoBien)
<1>1. Init => AccesoBien
  BY OtraInstruccion DEF Init, AccesoBien, LeidoVacio, LeeOEscribe, Ninguna
<1>2. IInv /\ IRespaldo /\ Traida /\ AccesoBien /\ [Next]_vars => AccesoBien'
  BY AccesoPaso
<1> QED BY <1>1, <1>2, VistaInvariante, PTL DEF Spec

\* What is seen of a block a file has is bytes.
LEMMA ByteVistoTipo ==
  ASSUME IInv, NEW n \in DOMAIN archivos, NEW a \in Nat,
         (a \div TamPag) + 1 \in DOMAIN archivos[n].bloques
  PROVE  Byte(archivos, memoria, entrada, n, a) \in Bytes
<1> DEFINE i == (a \div TamPag) + 1
           j == (a % TamPag) + 1
<1>1. j \in 1 .. TamPag
  <2>1. a % TamPag \in 0 .. TamPag - 1 /\ TamPag \in Nat
    BY Division, MemoriaAssumption
  <2> QED BY <2>1
<1>2. i \in DOMAIN archivos[n].bloques
  OBVIOUS
<1> HIDE DEF i, j
<1>3. Mira(archivos, memoria, entrada, n, i) \in Bloque
  <2>1. CASE <<n, i - 1>> \in Pares /\ entrada[<<n, i - 1>>].bit_presencia
    <3>1. <<n, i - 1>> \in presentes(entrada)
      BY <2>1 DEF presentes
    <3> QED BY <2>1, <3>1, PaginaABloque DEF Mira, IInv, MemoriaTypeOK
  <2>2. CASE ~ (<<n, i - 1>> \in Pares /\ entrada[<<n, i - 1>>].bit_presencia)
    <3>1. archivos[n].bloques[i] \in Bloque
      BY <1>2, EstadoDeArchivo DEF IInv, MemoriaTypeOK
    <3> QED BY <2>2, <3>1 DEF Mira
  <2> QED BY <2>1, <2>2
<1>4. \A b \in Bloque : b[j] \in Bytes
  BY <1>1 DEF Bloque, aBloque, Pagina, Bytes
<1> QED BY <1>3, <1>4 DEF Byte, i, j

LEMMA VistoPorDireccion ==
  /\ \A n, a : byteVisto(n, a) = Byte(archivos, memoria, entrada, n, a)
  /\ \A n, a : alcanzable(n, a) <=> Alcanza(archivos, memoria, entrada, n, a)
  BY VistaActual DEF byteVisto, alcanzable, Byte, Alcanza

\* What an instruction that ended well did.
LEMMA Contestada ==
  ASSUME AccesoBien, NEW op \in {"READ", "WRITE"}, NEW n \in propios, contesto(op, n)
  PROVE  /\ instruccion.op = op /\ instruccion.nombre = n
         /\ LeeOEscribe /\ Avance /\ Terminado /\ paso = "hecho"
<1>1. LeeOEscribe
  BY DEF contesto, LeeOEscribe, EnCurso, propios
<1> QED BY <1>1 DEF AccesoBien, contesto

\* EscrituraCompleta, for any number of pages and frames, any size of page and
\* either policy: each byte of a WRITE that ended well is in its page, if the
\* page is still in memory, and it is what a query sees, whatever was replaced
\* while it wrote, unless a NUL of its page comes before it: such a byte goes
\* with its page, and nothing is said of it once the page is replaced.
THEOREM EscrituraCompletaSiempre ==
  ASSUME SoloCrecen
  PROVE  Spec => []EscrituraCompleta
<1>1. IInv /\ AccesoBien => EscrituraCompleta
  <2> SUFFICES ASSUME IInv, AccesoBien, NEW n \in propios, contesto("WRITE", n),
                      NEW i \in 1 .. instruccion.total
               PROVE  LET d == instruccion.dir + i - 1
                          x == <<n, d \div TamPag>>
                      IN /\ x \in presentes(entrada) =>
                              paginaDe(x)[(d % TamPag) + 1] = instruccion.datos[i]
                         /\ alcanzable(n, d) => byteVisto(n, d) = instruccion.datos[i]
    BY DEF EscrituraCompleta
  <2>1. /\ instruccion.nombre = n /\ hecho = instruccion.total
        /\ EnMarcos(memoria, entrada, instruccion, hecho)
        /\ Escrito(archivos, memoria, entrada, instruccion, hecho)
    BY Contestada DEF Avance, Terminado
  <2> QED BY <2>1, VistoPorDireccion DEF EnMarcos, Escrito, paginaDe
<1> QED BY <1>1, AccesoInvariante, PTL

\* LecturaCorrecta, for any number of pages and frames, any size of page and
\* either policy: what a READ answers is the file as this worker sees it, up
\* to the first NUL, whatever was replaced while it read.
THEOREM LecturaCorrectaSiempre ==
  ASSUME SoloCrecen
  PROVE  Spec => []LecturaCorrecta
<1>1. IInv /\ AccesoBien => LecturaCorrecta
  <2> DEFINE v(n) == [i \in 1 .. instruccion.total |-> byteVisto(n, instruccion.dir + i - 1)]
  <2> SUFFICES ASSUME IInv, AccesoBien, NEW n \in propios, contesto("READ", n),
                      alcanzable(n, instruccion.dir)
               PROVE  Last(enviados).contenido = hastaNUL(v(n))
    BY DEF LecturaCorrecta
  <2> DEFINE t == v(n)
             B(k) == Byte(archivos, memoria, entrada, n, instruccion.dir + k - 1)
  <2>1. /\ instruccion.nombre = n /\ instruccion.op = "READ" /\ hecho = instruccion.total
        /\ Recorrido(archivos, instruccion, hecho)
        /\ Leido(archivos, memoria, entrada, instruccion, hecho, leido)
        /\ enviados = <<mensaje("LEER", hastaNUL(leido))>>
    BY Contestada DEF Avance, Terminado
  <2>2. Last(enviados).contenido = hastaNUL(leido)
    <3> DEFINE m == mensaje("LEER", hastaNUL(leido))
    <3>1. m.contenido = hastaNUL(leido)
      BY DEF mensaje
    <3> HIDE DEF m
    <3>2. Last(<<m>>) = m
      BY DEF Last
    <3> QED BY <2>1, <3>1, <3>2 DEF m
  <2>3. /\ hecho \in Nat /\ leido \in Seq(Bytes) /\ Len(leido) = hecho /\ instruccion.dir \in Nat
    BY <2>1 DEF Leido, IInv, MemoriaTypeOK, EjecucionTypeOK
  <2>4. \A k \in 1 .. hecho : t[k] = B(k)
    BY <2>1, VistoPorDireccion
  <2>5. t \in Seq(Bytes) /\ Len(t) = hecho
    <3>1. ASSUME NEW k \in 1 .. hecho PROVE t[k] \in Bytes
      <4>1. /\ n \in DOMAIN archivos /\ instruccion.dir + k - 1 \in Nat
            /\ ((instruccion.dir + k - 1) \div TamPag) + 1 \in DOMAIN archivos[n].bloques
        BY <2>1, <2>3 DEF Recorrido
      <4>2. B(k) \in Bytes
        BY <4>1, ByteVistoTipo
      <4> QED BY <2>4, <4>2
    <3>2. t = [k \in 1 .. hecho |-> t[k]]
      BY <2>1
    <3> HIDE DEF t
    <3> QED BY <2>3, <3>1, <3>2
  <2>6. Alcanza(archivos, memoria, entrada, n, instruccion.dir)
    BY VistoPorDireccion
  <2>7. ASSUME NEW k \in 1 .. hecho,
               (\A j \in 1 .. k - 1 : leido[j] # NUL) \/ (\A j \in 1 .. k - 1 : t[j] # NUL)
        PROVE  leido[k] = t[k]
    <3>1. hecho > 0 /\ \A j \in 1 .. k - 1 : j \in 1 .. hecho
      BY <2>3
    <3> HIDE DEF t, v
    <3>2. (\A j \in 1 .. k - 1 : leido[j] # NUL) \/ (\A j \in 1 .. k - 1 : B(j) # NUL)
      BY <2>4, <2>7, <3>1
    <3>3. leido[k] = B(k)
      BY <2>1, <2>6, <3>1, <3>2 DEF Leido
    <3> QED BY <2>4, <3>3
  <2> HIDE DEF t, v
  <2>8. hastaNUL(leido) = hastaNUL(t)
    BY <2>3, <2>5, <2>7, MismaCadena
  <2> QED BY <2>2, <2>8 DEF t
<1> QED BY <1>1, AccesoInvariante, PTL

=============================================================================
