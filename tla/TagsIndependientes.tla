-------------------------- MODULE TagsIndependientes --------------------------
(***************************************************************************)
(* What storage promises to a worker: every File:Tag is a file of its own, *)
(* a list of blocks that only the requests that name it can change, and    *)
(* nothing at all once it is COMMITED, until it is deleted.  How blocks    *)
(* are shared, deduplicated, reserved and rebuilt must not show.           *)
(***************************************************************************)
EXTENDS Naturals, Sequences

CONSTANTS Nombres,     \* the File:Tag names
          Inicial,     \* the one storage starts with, initial_file:BASE
          Contenidos,  \* what a block may hold
          CERO         \* the block of zeros

VARIABLE archivos      \* existing name -> its state and its blocks

vars == archivos

Estado == {"WORK_IN_PROGRESS", "COMMITED"}

Init == archivos = [n \in {Inicial} |-> [estado |-> "COMMITED", bloques |-> <<CERO>>]]

EnProgreso(n) == n \in DOMAIN archivos /\ archivos[n].estado = "WORK_IN_PROGRESS"

Nuevo(n, bloques) ==
  archivos' = [m \in DOMAIN archivos \cup {n} |->
                 IF m = n THEN [estado |-> "WORK_IN_PROGRESS", bloques |-> bloques]
                 ELSE archivos[m]]

Crear(n) == n \notin DOMAIN archivos /\ Nuevo(n, <<>>)

\* A copy can be written whatever its origin's state.
Copiar(o, d) ==
  o \in DOMAIN archivos /\ d \notin DOMAIN archivos /\ Nuevo(d, archivos[o].bloques)

Achicar(n) ==
  /\ EnProgreso(n)
  /\ \E k \in 0 .. Len(archivos[n].bloques) :
       archivos' = [archivos EXCEPT ![n].bloques = SubSeq(@, 1, k)]

\* New blocks read as zeros.
Agrandar(n, k) ==
  /\ EnProgreso(n)
  /\ archivos' = [archivos EXCEPT ![n].bloques = @ \o [i \in 1 .. k |-> CERO]]

TieneBloque(n, i) == n \in DOMAIN archivos /\ i \in DOMAIN archivos[n].bloques
AdmiteEscritura(n, i) == EnProgreso(n) /\ TieneBloque(n, i)

Escribir(n, i, c) ==
  AdmiteEscritura(n, i) /\ archivos' = [archivos EXCEPT ![n].bloques[i] = c]

Commitear(n) ==
  EnProgreso(n) /\ archivos' = [archivos EXCEPT ![n].estado = "COMMITED"]

Eliminar(n) ==
  /\ n \in DOMAIN archivos
  /\ archivos' = [m \in DOMAIN archivos \ {n} |-> archivos[m]]

Next ==
  \E n \in Nombres :
    \/ Crear(n) \/ Achicar(n) \/ Commitear(n) \/ Eliminar(n)
    \/ /\ n \in DOMAIN archivos'
       /\ \E k \in 1 .. Len(archivos'[n].bloques) : Agrandar(n, k)
    \/ /\ EnProgreso(n)
       /\ \E i \in DOMAIN archivos[n].bloques, c \in Contenidos : Escribir(n, i, c)
    \/ \E o \in Nombres : Copiar(o, n)

Spec == Init /\ [][Next]_vars
=============================================================================
