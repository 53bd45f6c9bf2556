---------------------------- MODULE Planificacion ----------------------------
(***************************************************************************)
(* The whole scheduling system: one master, the workers and the query      *)
(* controls, interleaved over the channels of Protocolo.  Once the master  *)
(* process has ended, the others only find out.                            *)
(***************************************************************************)
EXTENDS Master, WorkerCiclo, QueryControl

vars == <<canales, caidos, caida, masterVars, workerVars, estado_qc>>

TypeOK == CanalesTypeOK /\ MasterTypeOK /\ WorkerTypeOK /\ QCTypeOK

Init == CanalesInit /\ MasterInit /\ WorkerInit /\ QCInit

pasoMaster(A) == caida = "no" /\ A /\ UNCHANGED <<workerVars, estado_qc>>
pasoWorker(A) == caida = "no" /\ A /\ UNCHANGED <<masterVars, caida, estado_qc>>
pasoQC(A) == A /\ UNCHANGED <<masterVars, caida, workerVars>>

PasoDelMaster == pasoMaster(MasterNext)

PasoDeWorker(w) ==
  \/ pasoWorker(cicloWorker(w) \/ hiloDesalojo(w) \/ manejador_senial(w) \/ caeWorker(w))
  \/ pierdeMaster(w) /\ UNCHANGED <<masterVars, caida, estado_qc>>

PasoDeQC(q) == pasoQC(cicloQC(q) \/ caeQC(q))

Next ==
  \/ PasoDelMaster
  \/ \E w \in Workers : PasoDeWorker(w)
  \/ \E q \in Queries : PasoDeQC(q)

Spec == Init /\ [][Next]_vars

(***************************************************************************)
(* Every thread is scheduled by the kernel: one that stays able to move    *)
(* moves.  Signals and kills are never due.  No thread here waits for a    *)
(* condition that comes and goes, so weak fairness is all that is asked.   *)
(***************************************************************************)
Justicia ==
  /\ \A q \in Queries :
       /\ WF_vars(pasoMaster(hiloDelQuery(q)))
       /\ WF_vars(pasoMaster(hiloDeAging(q)))
       /\ WF_vars(pasoQC(cicloQC(q)))
  /\ \A w \in Workers :
       /\ WF_vars(pasoMaster(hiloDelWorker(w)))
       /\ WF_vars(pasoMaster(hiloDesalojoDelWorker(w)))
       /\ WF_vars(pasoWorker(cicloWorker(w)))
       /\ WF_vars(pasoWorker(hiloDesalojo(w)))

FairSpec == Spec /\ Justicia

-----------------------------------------------------------------------------
(* Where a query is.                                                       *)

\* The master told its query control that q is over (and freed it).
finalizada(q) == "FINALIZAR" \in ToSet(aQC[q]) \/ estado_qc[q] = "terminado"

\* Positions of the master's structures that point to q.
lugares(q) ==
  {<<"ready", i>> : i \in {j \in DOMAIN lista_ready : lista_ready[j] = q}}
    \cup {<<"actual", w>> : w \in {v \in Workers : query_actual[v] = q}}
    \cup {<<"pendiente", w>> : w \in {v \in Workers : query_pendiente[v] = q}}

-----------------------------------------------------------------------------
(* Safety.                                                                 *)

\* The three structures that hold a Query* never hold the same one twice, so
\* liberarQuery leaves no dangling pointer behind and no query is run by two
\* workers.  READY, query_actual and query_pendiente are moved by different
\* threads (arrivals, aging, one per worker).
UnaCopia ==
  /\ \A i, j \in DOMAIN lista_ready : lista_ready[i] = lista_ready[j] => i = j
  /\ \A w \in Workers : query_actual[w] \notin ToSet(lista_ready)
  /\ \A w \in Workers : query_pendiente[w] \notin ToSet(lista_ready)
  /\ \A v, w \in Workers :
       /\ query_actual[v] = query_actual[w] /\ v # w => query_actual[v] = NULL
       /\ query_pendiente[v] = query_pendiente[w] /\ v # w => query_pendiente[v] = NULL
       /\ query_actual[v] = query_pendiente[w] => query_actual[v] = NULL

\* A message says nothing of the query it is about: the handler charges it to
\* worker->query_actual.  When it is handled that is the query the worker was
\* running when it sent it, or none, never another one.
Atribucion ==
  \A w \in Workers :
    hilo_worker[w] = "atiende" /\ aMaster[w] # <<>> /\
    Head(aMaster[w]).tipo \in {"LEER", "NO_FINALICE", "FINALIZAR", "ERROR"}
      => query_actual[w] \in {Head(aMaster[w]).query, NULL}

\* A query resumes where it stopped: through preemption, READY and another
\* worker, no instruction is run twice and none is skipped.
SinReejecucion ==
  \A w \in Workers : fase[w] = "ejecutando" => pc_query[w] = ejecutadas[en_curso[w]]

\* FINALIZAR is the last thing a query control is sent, it is sent once, and
\* by then the master keeps no pointer to the freed query.
FinDefinitivo ==
  \A q \in Queries :
    /\ \A i \in DOMAIN aQC[q] : aQC[q][i] = "FINALIZAR" => i = Len(aQC[q])
    /\ estado_qc[q] = "terminado" /\ caida = "no" => aQC[q] = <<>>
    /\ finalizada(q) /\ caida = "no" => lugares(q) = {}

\* Under FIFO a query that was accepted is in one of the master's structures
\* until its query control is told it is over, whatever workers do.
NingunaQueryPerdida ==
  caida = "no" =>
    \A q \in Queries :
      hilo_query[q] = "gestionada" /\ estado_qc[q] = "esperando" =>
        lugares(q) # {} \/ finalizada(q)

\* Under FIFO no worker the master believes free waits beside a query in
\* READY: an arrival looks for a worker only when READY was empty, and a
\* worker looks at READY only when it asks for work.
TrabajoConservado ==
  lista_ready # <<>> => \A w \in ToSet(lista_workers) : ~ esta_libre[w]

\* With no preemption, no kill and no failing flush, no interleaving makes a
\* handler dereference a null query or a freed worker, or makes it exit.
MasterVivo == caida = "no"

-----------------------------------------------------------------------------
(* Action properties.                                                      *)

\* Under FIFO the master dies of a null query_actual only on a message that
\* came too late: about a query it already announced as over (COMMIT sends
\* ERROR and goes on, a signalled worker says good-bye idle), or about none.
CaidaTardia ==
  [][\A w \in Workers : queryActualNula(w) =>
       Head(aMaster[w]).query = NULL \/ finalizada(Head(aMaster[w]).query)]_vars

\* PRIORIDADES: the answer to a preemption meets no pending query, and ends the
\* master, only after FIN_CICLO forgot one: that query is in no structure and
\* its query control still waits.
CaidaPorOlvido ==
  [][\A w \in Workers : queryPendienteNula(w) =>
       \E q \in Queries : hilo_query[q] = "gestionada" /\ lugares(q) = {} /\ ~ finalizada(q)]_vars

\* PRIORIDADES: a query taken from READY (not swapped in by a preemption)
\* leaves nothing with a smaller number behind, though DESALOJAR and a lost
\* worker append to READY unsorted and aging changes the numbers.
DespachoPorPrioridad ==
  [][\A w \in Workers :
       query_actual'[w] \notin {query_actual[w], query_pendiente[w], NULL} =>
         \A q \in ToSet(lista_ready') : prioridad[q] >= prioridad[query_actual'[w]]]_vars

\* PRIORIDADES: a preemption is only asked of a busy worker that nobody else
\* is waiting for, for a query with a smaller number than the one it runs,
\* and no preemptible worker runs anything worse.
PedidoJustificado ==
  [][\A w \in Workers :
       query_pendiente'[w] \notin {query_pendiente[w], NULL} =>
         /\ query_pendiente[w] = NULL /\ query_actual[w] # NULL
         /\ prioridad'[query_pendiente'[w]] < prioridad'[query_actual[w]]
         /\ \A v \in ToSet(lista_workers) :
              query_actual[v] # NULL /\ query_pendiente[v] = NULL =>
                prioridad[query_actual[v]] <= prioridad[query_actual[w]]]_vars

\* "Se desaloja la Query ... Motivo: PRIORIDAD" (helpers-master.c:657): the
\* query that takes the worker has a smaller number than the one it removes.
MotivoPrioridad ==
  [][\A w \in Workers :
       atenderDesalojar(w) /\ Head(aMaster[w]).tipo = "NO_FINALICE" =>
         prioridad[query_pendiente[w]] < prioridad[query_actual[w]]]_vars

-----------------------------------------------------------------------------
(* The abstract specification, under FIFO.  A master that has ended holds  *)
(* nothing.                                                                *)

vive == caida = "no"

Cola == INSTANCE ColaDeQueries WITH
  viva <- vive,
  cola <- IF vive THEN lista_ready ELSE <<>>,
  corriendo <- [w \in Workers |-> IF vive THEN query_actual[w] ELSE NULL],
  terminadas <- {q \in Queries : vive /\ finalizada(q)}

\* Whatever workers do and whoever dies, the master that schedules by FIFO
\* is one queue in order of arrival: queries start once and in their turn, a
\* worker gets one only when it has none, and each ends once.
PorOrdenDeLlegada == Cola!Spec

-----------------------------------------------------------------------------
(* Liveness.                                                               *)

\* "Finalizaron todas las queries." (scriptPlaniAging.sh:22, after
\* wait): every query control ends.
TodasTerminan ==
  <>(\A q \in Queries : estado_qc[q] \in {"terminado", "muerto"})
=============================================================================
