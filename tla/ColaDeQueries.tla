---------------------------- MODULE ColaDeQueries ----------------------------
(***************************************************************************)
(* What scheduling by FIFO promises to those who submit queries: one queue *)
(* in order of arrival, served by workers that each run one query.  A      *)
(* query is accepted once, waits in one place, starts once, in its turn,   *)
(* on one worker, and ends once.  The master may end; what it held ends    *)
(* with it.  Lists, threads, sockets and messages must not show.           *)
(***************************************************************************)
EXTENDS Sequences, SequencesExt

CONSTANTS Workers, Queries, NULL

VARIABLES
  viva,         \* is there a master?
  cola,         \* accepted queries that no worker has
  corriendo,        \* per worker, the query it has
  terminadas    \* queries whose end was announced

vars == <<viva, cola, corriendo, terminadas>>

Init ==
  /\ viva = TRUE
  /\ cola = <<>>
  /\ corriendo = [w \in Workers |-> NULL]
  /\ terminadas = {}

Desconocida(q) ==
  /\ q \notin ToSet(cola) \cup terminadas
  /\ \A w \in Workers : corriendo[w] # q

\* An arrival finds a free worker only when nobody waits before it.
Llega(q) ==
  /\ viva /\ Desconocida(q)
  /\ \/ cola' = Append(cola, q) /\ UNCHANGED corriendo
     \/ /\ cola = <<>> /\ UNCHANGED cola
        /\ \E w \in Workers :
             corriendo[w] = NULL /\ corriendo' = [corriendo EXCEPT ![w] = q]
  /\ UNCHANGED <<viva, terminadas>>

\* A worker that has nothing takes the query that waited longest.
Despacha(w) ==
  /\ viva /\ cola # <<>> /\ corriendo[w] = NULL
  /\ corriendo' = [corriendo EXCEPT ![w] = Head(cola)]
  /\ cola' = Tail(cola)
  /\ UNCHANGED <<viva, terminadas>>

\* The query ended, failed, or lost its worker: its end is announced.
Termina(w) ==
  /\ viva /\ corriendo[w] # NULL
  /\ terminadas' = terminadas \cup {corriendo[w]}
  /\ corriendo' = [corriendo EXCEPT ![w] = NULL]
  /\ UNCHANGED <<viva, cola>>

TerminaElMaster ==
  /\ viva /\ viva' = FALSE
  /\ cola' = <<>>
  /\ corriendo' = [w \in Workers |-> NULL]
  /\ terminadas' = {}

Next ==
  \/ \E q \in Queries : Llega(q)
  \/ \E w \in Workers : Despacha(w) \/ Termina(w)
  \/ TerminaElMaster

Spec == Init /\ [][Next]_vars
=============================================================================
