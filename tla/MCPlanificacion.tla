--------------------------- MODULE MCPlanificacion ---------------------------
(***************************************************************************)
(* Small instances of Planificacion for TLC: two workers, two or three     *)
(* query controls, and the programs and priorities they submit.            *)
(***************************************************************************)
EXTENDS Planificacion, FiniteSets

CONSTANTS w1, w2, q1, q2, q3

MCWorkers == {w1, w2}
MCQueries == {q1, q2, q3}
DosQueries == {q1, q2}

\* scriptPlaniAging.sh starts queries with different numbers; these keep the
\* order and let aging overtake.
MCPrioridad == [q \in Queries |-> CASE q = q1 -> 2 [] q = q2 -> 1 [] OTHER -> 0]
SinPrioridad == [q \in Queries |-> 0]

\* q1 can be stopped between its instructions; q2 reads; q3 only ends.
MCPrograma ==
  [q \in Queries |->
     CASE q = q1 -> <<"OTRA", "END">>
       [] q = q2 -> <<"READ", "END">>
       [] OTHER -> <<"END">>]

\* One query long enough to be stopped, the others only end.
UnaLarga ==
  [q \in Queries |-> IF q = q2 THEN <<"OTRA", "END">> ELSE <<"END">>]

\* One query makes the worker flush, which can be refused; the others only end.
ConCommit ==
  [q \in Queries |->
     CASE q = q1 -> <<"COMMIT", "END">> [] OTHER -> <<"END">>]

\* One query flushes; the others fail on an instruction after a read.
ConInvalida ==
  [q \in Queries |->
     CASE q = q1 -> <<"COMMIT", "END">> [] OTHER -> <<"READ", "INVALIDA">>]

UnWorker == {w1}

\* Bound: one worker and three query controls, or two and two.
CuatroConectados ==
  Cardinality({w \in Workers : fase[w] # "inicio"}) +
  Cardinality({q \in Queries : estado_qc[q] # "nuevo"}) <= 4

Simetria == Permutations(MCWorkers)
=============================================================================
