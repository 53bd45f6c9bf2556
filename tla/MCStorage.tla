------------------------------ MODULE MCStorage ------------------------------
(***************************************************************************)
(* Small instances of Storage for TLC: initial_file:BASE and two or three  *)
(* names in one or two files, one or two contents, one of which may be the *)
(* zeros of block 0, up to three blocks more.  A workload is a set of the  *)
(* kinds of request made together, with restarts or deaths inside a        *)
(* request; one run takes a set of workloads.                              *)
(***************************************************************************)
EXTENDS Storage

CONSTANTS c1, c2, v1, v2

BASE == <<"initial_file", "BASE">>
MCNombres == {BASE, <<"f", v1>>, <<"f", v2>>, <<"g", "BASE">>}
DosNombres == {BASE, <<"f", v1>>, <<"f", v2>>}

\* Create, resize, write, commit and delete, each tag on its own: no TAG, no
\* TRUNCATE of a COMMITED tag, initial_file:BASE stays.
SinCopias == {"CREATE", "TRUNCATE_MAS", "TRUNCATE_MENOS", "WRITE", "COMMIT", "DELETE"}

\* The cycle of queries/STORAGE_1 to STORAGE_4, copy, write and commit, with
\* restarts: no DELETE, and no TRUNCATE to less.
SinBajas == {"CREATE", "TRUNCATE_MAS", "WRITE", "TAG", "COMMIT", "REINICIO"}

\* Deletes and restarts.
BajasYReinicios == {"CREATE", "TRUNCATE_MAS", "WRITE", "COMMIT", "DELETE", "REINICIO"}

\* What any query may ask, of its own files while the process lives.
Todo == {"CREATE", "TRUNCATE_MAS", "TRUNCATE_MENOS", "TRUNCATE_COMMITED", "TAG",
         "TAG_FILE_NUEVO", "WRITE", "COMMIT", "DELETE"}

\* Requests on initial_file:BASE too, each tag on its own: its deletion frees
\* block0.
SobreInicial == (Todo \ {"TAG", "TAG_FILE_NUEVO"}) \cup {"INICIAL"}

\* Copies and deletes, no restart and no TRUNCATE to less.
ConCopiasYBajas == {"CREATE", "TRUNCATE_MAS", "TAG", "WRITE", "COMMIT", "DELETE"}

\* A process that is killed at any of its system calls: with copies and no
\* DELETE, and with each tag on its own.
CaidasConCopias == {"CREATE", "TRUNCATE_MAS", "TAG", "WRITE", "COMMIT", "CAIDA"}
CaidasSinCopias == SinCopias \cup {"CAIDA", "REINICIO"}

Sanas == {SinCopias, SinBajas, BajasYReinicios}
ASSUME SanasAssumption == \A u \in Sanas : CargaSana(u)
Todas == {Todo, SobreInicial, CaidasConCopias, CaidasSinCopias}
DeRiesgo == {ConCopiasYBajas}

SimetriaTags == Permutations({v1, v2})
Simetria == Permutations(Contenidos) \cup SimetriaTags
=============================================================================
