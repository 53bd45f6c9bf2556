------------------------------- MODULE Master -------------------------------
(***************************************************************************)
(* The master process (master/src): lista_ready, lista_workers, the two    *)
(* scheduling algorithms, preemption, aging and one thread per worker.     *)
(* Every handler runs with mutex_workers and mutex_lista_ready held, so it *)
(* is one action; crearQuery reads and increments quid_global in two steps *)
(* because it reads it outside mutex_quid_global.                          *)
(***************************************************************************)
EXTENDS Protocolo

CONSTANTS Algoritmo,         \* ALGORITMO_PLANIFICACION
          TiempoAging,       \* TIEMPO_AGING, only compared with 0
          PrioridadInicial   \* the priority each query control asks for

ASSUME ConfigMaster ==
  /\ Algoritmo \in {"FIFO", "PRIORIDADES"}
  /\ TiempoAging \in Nat
  /\ PrioridadInicial \in [Queries -> Nat]

VARIABLES
  lista_ready,      \* sequence of queries
  lista_workers,    \* sequence of workers, in order of registration
  esta_libre, fd_desalojo, query_actual, query_pendiente,  \* struct Worker
  prioridad, pc, quid,                                     \* struct Query
  quid_global,
  hilo_query,       \* per query, how far gestionarClienteIndividual got
  hilos_aging,      \* per query, live realizarAgingIndividual threads
  hilo_worker       \* per worker, its atenderWorker thread

masterVars == <<lista_ready, lista_workers, esta_libre, fd_desalojo,
                query_actual, query_pendiente, prioridad, pc, quid,
                quid_global, hilo_query, hilos_aging, hilo_worker>>

workerStruct == <<esta_libre, query_actual, query_pendiente>>
queryStruct == <<prioridad, pc, quid>>
hilosDeQuery == <<quid_global, hilo_query>>

MasterTypeOK ==
  /\ lista_ready \in Seq(Queries)
  /\ lista_workers \in Seq(Workers)
  /\ esta_libre \in [Workers -> BOOLEAN]
  /\ fd_desalojo \in [Workers -> BOOLEAN]
  /\ query_actual \in [Workers -> Queries \cup {NULL}]
  /\ query_pendiente \in [Workers -> Queries \cup {NULL}]
  /\ prioridad \in [Queries -> Nat]
  /\ pc \in [Queries -> Nat]
  /\ quid \in [Queries -> Nat]
  /\ quid_global \in Nat
  /\ hilo_query \in [Queries -> {"no", "creando", "creada", "gestionada"}]
  /\ hilos_aging \in [Queries -> Nat]
  /\ hilo_worker \in [Workers -> {"no", "atiende", "huerfano", "fin"}]

MasterInit ==
  /\ lista_ready = <<>>
  /\ lista_workers = <<>>
  /\ esta_libre = [w \in Workers |-> FALSE]
  /\ fd_desalojo = [w \in Workers |-> FALSE]
  /\ query_actual = [w \in Workers |-> NULL]
  /\ query_pendiente = [w \in Workers |-> NULL]
  /\ prioridad = PrioridadInicial
  /\ pc = [q \in Queries |-> 0]
  /\ quid = [q \in Queries |-> 0]
  /\ quid_global = 0
  /\ hilo_query = [q \in Queries |-> "no"]
  /\ hilos_aging = [q \in Queries |-> 0]
  /\ hilo_worker = [w \in Workers |-> "no"]

-----------------------------------------------------------------------------
(* Choosing: the list helpers.                                             *)

\* list_sort(lista, ordenarPorPrioridad): the comparator is strict and the
\* order list_sort gives to equal priorities is not specified, so any order
\* among them is a result.
Ordenaciones(s, p) ==
  {r \in [1 .. Len(s) -> ToSet(s)] :
     /\ ToSet(r) = ToSet(s)
     /\ \A i, j \in 1 .. Len(s) : i < j => r[i] # r[j] /\ p[r[i]] <= p[r[j]]}

\* Mutant: a worker that asks for work sees lista_ready unsorted.
ParaDespacharSinOrdenar(s) == {s}

\* Mutant: a worker that asks for work takes the last of lista_ready.
ParaDespacharAlReves(s) == {Reverse(s)}

\* The order in which a worker that asks for work sees lista_ready.
ParaDespachar(s) == IF Algoritmo = "FIFO" THEN {s} ELSE Ordenaciones(s, prioridad)

\* buscarWorkerLibre: the first free worker, as a set of at most one element.
WorkerLibre ==
  LET libres == {i \in 1 .. Len(lista_workers) :
                   /\ esta_libre[lista_workers[i]]
                   /\ query_pendiente[lista_workers[i]] = NULL}
  IN {lista_workers[i] : i \in {k \in libres : \A j \in libres : k <= j}}

\* Mutant: a worker already asked to preempt is chosen again.
WorkerConMenorPrioridadSinPendiente(p) ==
  {w \in ToSet(lista_workers) :
     /\ query_actual[w] # NULL
     /\ \A v \in ToSet(lista_workers) :
          query_actual[v] # NULL => p[query_actual[v]] <= p[query_actual[w]]}

\* buscarWorkerConMenorPrioridad: among the workers that run something and
\* have nothing pending, the first whose query has the largest number.
WorkerConMenorPrioridad(p) ==
  LET corren == {i \in 1 .. Len(lista_workers) :
                   /\ ~ esta_libre[lista_workers[i]]
                   /\ query_actual[lista_workers[i]] # NULL
                   /\ query_pendiente[lista_workers[i]] = NULL}
      prio(i) == p[query_actual[lista_workers[i]]]
  IN {lista_workers[i] : i \in {k \in corren : \A j \in corren :
                                  prio(k) > prio(j) \/ (prio(k) = prio(j) /\ k <= j)}}

\* buscarQueryPorIdListaReady: the first query in READY with q's quid.
EnReady(q) ==
  LET mismos == {i \in 1 .. Len(lista_ready) : quid[lista_ready[i]] = quid[q]}
  IN {lista_ready[i] : i \in {k \in mismos : \A j \in mismos : k <= j}}

-----------------------------------------------------------------------------
(* Steps shared by the handlers; each names the variables it decides.      *)

\* Mutant: query_actual is not set.
asignarQuerySinActual(w, q) ==
  /\ esta_libre' = [esta_libre EXCEPT ![w] = FALSE]
  /\ aWorker' = [aWorker EXCEPT ![w] = Append(@, [query |-> q, pc |-> pc[q]])]
  /\ enviarMensajito({w}) /\ UNCHANGED query_actual

\* Mutant: the query is sent with pc 0, not with the pc it stopped at.
asignarQueryDesdeCero(w, q) ==
  /\ query_actual' = [query_actual EXCEPT ![w] = q]
  /\ esta_libre' = [esta_libre EXCEPT ![w] = FALSE]
  /\ aWorker' = [aWorker EXCEPT ![w] = Append(@, [query |-> q, pc |-> 0])]
  /\ enviarMensajito({w})

\* asignarQueryAWorker and agarrarLaPala: esta_libre, query_actual, aWorker
\* and caida.
asignarQueryAWorker(w, q) ==
  /\ query_actual' = [query_actual EXCEPT ![w] = q]
  /\ esta_libre' = [esta_libre EXCEPT ![w] = FALSE]
  /\ aWorker' = [aWorker EXCEPT ![w] = Append(@, [query |-> q, pc |-> pc[q]])]
  /\ enviarMensajito({w})

SinAsignar == UNCHANGED <<esta_libre, query_actual, aWorker>>

\* realizarDesalojo: the message is lost when the worker has not registered
\* its preemption socket (fd_desalojo is still -1).
realizarDesalojo(w, q) ==
  /\ query_pendiente' = [query_pendiente EXCEPT ![w] = q]
  /\ IF fd_desalojo[w]
     THEN /\ desalojos' = [desalojos EXCEPT ![w] = @ + 1]
          /\ enviarMensajito({w})
     ELSE UNCHANGED <<desalojos, caida>>

SinDesalojar == UNCHANGED <<query_pendiente, desalojos>>

\* Mutant: the query that waits for the preemption stays in READY.
intentarDesalojarSinQuitar(q, r, p) ==
  /\ lista_ready' = r
  /\ \/ \E w \in WorkerConMenorPrioridad(p) :
          p[query_actual[w]] > p[q] /\ realizarDesalojo(w, Head(r))
     \/ /\ \A w \in WorkerConMenorPrioridad(p) : p[query_actual[w]] <= p[q]
        /\ SinDesalojar /\ UNCHANGED caida

\* intentarEnviarQueryAExecutePorPrioridades(q) when lista_ready is already
\* sorted as r: it compares q but takes the head.
intentarDesalojar(q, r, p) ==
  \/ \E w \in WorkerConMenorPrioridad(p) :
       /\ p[query_actual[w]] > p[q]
       /\ lista_ready' = Tail(r)
       /\ realizarDesalojo(w, Head(r))
  \/ /\ \A w \in WorkerConMenorPrioridad(p) : p[query_actual[w]] <= p[q]
     /\ lista_ready' = r
     /\ SinDesalojar /\ UNCHANGED caida

\* pthread_create(realizarAgingIndividual), when q enters READY.
LanzarAging(q) ==
  hilos_aging' = IF Algoritmo = "PRIORIDADES" /\ TiempoAging > 0 /\ prioridad[q] > 0
                 THEN [hilos_aging EXCEPT ![q] = @ + 1]
                 ELSE hilos_aging

\* intentarEnviarQueryAExecutePorWorker(w).  With READY empty the worker is
\* left free and whatever query_pendiente held is forgotten.
intentarEnviarPorWorker(w) ==
  \/ /\ lista_ready # <<>>
     /\ \E r \in ParaDespachar(lista_ready) :
          /\ lista_ready' = Tail(r)
          /\ asignarQueryAWorker(w, Head(r))
     /\ UNCHANGED query_pendiente
  \/ /\ lista_ready = <<>>
     /\ esta_libre' = [esta_libre EXCEPT ![w] = TRUE]
     /\ query_actual' = [query_actual EXCEPT ![w] = NULL]
     /\ query_pendiente' = [query_pendiente EXCEPT ![w] = NULL]
     /\ UNCHANGED <<lista_ready, aWorker, caida>>

\* Mutant: the query control is not told.
notificarFinSinEnviar(q) == UNCHANGED <<aQC, caida>>

\* The last message a query control gets: FINALIZAR and a reason.
notificarFin(q) ==
  /\ aQC' = [aQC EXCEPT ![q] = Append(@, "FINALIZAR")]
  /\ enviarMensajito({q})

\* Mutant: query_pendiente goes to READY without the test for NULL.
quitarWorkerSinChequear(w) ==
  /\ lista_workers' = SelectSeq(lista_workers, LAMBDA v : v # w)
  /\ lista_ready' = Append(lista_ready, query_pendiente[w])
  /\ query_actual' = [query_actual EXCEPT ![w] = NULL]
  /\ query_pendiente' = [query_pendiente EXCEPT ![w] = NULL]
  /\ UNCHANGED <<esta_libre, fd_desalojo>>

\* Mutant: query_pendiente is put in READY and kept.
quitarWorkerSinLimpiar(w) ==
  /\ lista_workers' = SelectSeq(lista_workers, LAMBDA v : v # w)
  /\ lista_ready' = IF query_pendiente[w] = NULL THEN lista_ready
                    ELSE Append(lista_ready, query_pendiente[w])
  /\ query_actual' = [query_actual EXCEPT ![w] = NULL]
  /\ UNCHANGED <<query_pendiente, esta_libre, fd_desalojo>>

\* list_remove(lista_workers, obtenerIndexListaWorkers(id)) and free(worker).
quitarWorker(w) ==
  /\ \E i \in 1 .. Len(lista_workers) :
       lista_workers[i] = w /\ lista_workers' = RemoveAt(lista_workers, i)
  /\ lista_ready' = IF query_pendiente[w] = NULL THEN lista_ready
                    ELSE Append(lista_ready, query_pendiente[w])
  /\ query_actual' = [query_actual EXCEPT ![w] = NULL]
  /\ query_pendiente' = [query_pendiente EXCEPT ![w] = NULL]
  /\ esta_libre' = [esta_libre EXCEPT ![w] = FALSE]
  /\ fd_desalojo' = [fd_desalojo EXCEPT ![w] = FALSE]

-----------------------------------------------------------------------------
(* A query control connects.                                               *)

\* gestionarClienteIndividual reads "QUERY ..."; crearQuery copies
\* quid_global without holding mutex_quid_global ...
crearQuery(q) ==
  /\ q \in pedidos
  /\ pedidos' = pedidos \ {q}
  /\ hilo_query' = [hilo_query EXCEPT ![q] = "creando"]
  /\ quid' = [quid EXCEPT ![q] = quid_global]
  /\ UNCHANGED <<altas, aWorker, aMaster, desalojos, aQC, caidos, caida,
                 lista_ready, lista_workers, workerStruct, fd_desalojo,
                 prioridad, pc, quid_global, hilos_aging, hilo_worker>>

\* ... and increments it in a second step.
incrementarQuid(q) ==
  /\ hilo_query[q] = "creando"
  /\ hilo_query' = [hilo_query EXCEPT ![q] = "creada"]
  /\ quid_global' = quid_global + 1
  /\ UNCHANGED <<canales, caidos, caida, lista_ready, lista_workers,
                 workerStruct, fd_desalojo, queryStruct, hilos_aging, hilo_worker>>

\* Mutant: an arrival goes to READY without looking for a free worker.
entrarFIFOSinBuscar(q) ==
  /\ Algoritmo = "FIFO" /\ lista_ready' = Append(lista_ready, q)
  /\ SinAsignar /\ SinDesalojar /\ UNCHANGED caida

\* FIFO looks for a free worker only when READY was empty.
entrarFIFO(q) ==
  /\ Algoritmo = "FIFO"
  /\ \/ /\ lista_ready = <<>>
        /\ \E w \in WorkerLibre : asignarQueryAWorker(w, q)
        /\ UNCHANGED lista_ready
     \/ /\ lista_ready # <<>> \/ WorkerLibre = {}
        /\ lista_ready' = Append(lista_ready, q)
        /\ SinAsignar /\ UNCHANGED caida
  /\ SinDesalojar

\* PRIORIDADES acts only when the sorted head has this query's quid: it takes
\* a free worker, or else asks for a preemption.
entrarPrioridades(q) ==
  /\ Algoritmo = "PRIORIDADES"
  /\ \E r \in Ordenaciones(Append(lista_ready, q), prioridad) :
       \/ /\ quid[Head(r)] # quid[q]
          /\ lista_ready' = r
          /\ SinAsignar /\ SinDesalojar /\ UNCHANGED caida
       \/ /\ quid[Head(r)] = quid[q]
          /\ \E w \in WorkerLibre : asignarQueryAWorker(w, Head(r))
          /\ lista_ready' = Tail(r)
          /\ SinDesalojar
       \/ /\ quid[Head(r)] = quid[q]
          /\ WorkerLibre = {}
          /\ intentarDesalojar(q, r, prioridad)
          /\ SinAsignar

gestionarQueryIndividual(q) ==
  /\ hilo_query[q] = "creada"
  /\ hilo_query' = [hilo_query EXCEPT ![q] = "gestionada"]
  /\ LanzarAging(q)
  /\ entrarFIFO(q) \/ entrarPrioridades(q)
  /\ UNCHANGED <<altas, pedidos, aMaster, aQC, caidos, lista_workers,
                 fd_desalojo, queryStruct, quid_global, hilo_worker>>

-----------------------------------------------------------------------------
(* A worker connects, in two sockets.                                      *)

\* crearWorker, then a first dispatch, then lista_workers.
gestionarWorkerIndividual(w) ==
  /\ "WORKER" \in altas[w]
  /\ altas' = [altas EXCEPT ![w] = @ \ {"WORKER"}]
  /\ hilo_worker' = [hilo_worker EXCEPT ![w] = "atiende"]
  /\ intentarEnviarPorWorker(w)
  /\ lista_workers' = Append(lista_workers, w)
  /\ UNCHANGED <<pedidos, aMaster, desalojos, aQC, caidos, fd_desalojo,
                 queryStruct, hilosDeQuery, hilos_aging>>

\* recibirIdWorkerDesalojo: the master exits when the worker is not (or is
\* no longer) in lista_workers.
recibirIdWorkerDesalojo(w) ==
  /\ "WORKER_DESALOJO" \in altas[w]
  /\ altas' = [altas EXCEPT ![w] = @ \ {"WORKER_DESALOJO"}]
  /\ IF w \in ToSet(lista_workers)
     THEN fd_desalojo' = [fd_desalojo EXCEPT ![w] = TRUE] /\ UNCHANGED caida
     ELSE caida' = "worker sin registrar" /\ UNCHANGED fd_desalojo
  /\ UNCHANGED <<pedidos, aWorker, aMaster, desalojos, aQC, caidos,
                 lista_ready, lista_workers, workerStruct, queryStruct,
                 hilosDeQuery, hilos_aging, hilo_worker>>

-----------------------------------------------------------------------------
(* atenderWorker: the thread of worker w handles one message.              *)

atiende(w, tipos) ==
  /\ hilo_worker[w] = "atiende"
  /\ recibirMensajito(w, tipos)

\* LEER is forwarded without any lock.
atenderLeer(w) ==
  /\ atiende(w, {"LEER"})
  /\ query_actual[w] # NULL
  /\ aQC' = [aQC EXCEPT ![query_actual[w]] = Append(@, "LEER")]
  /\ enviarMensajito({query_actual[w]})
  /\ UNCHANGED <<altas, pedidos, aWorker, desalojos, caidos, masterVars>>

\* DESALOJAR NO_FINALICE pc returns the query to the end of READY, unsorted,
\* with a new aging thread; either way the pending query takes the worker.
atenderDesalojar(w) ==
  LET m == Head(aMaster[w])
      desalojada == query_actual[w]
  IN
  /\ atiende(w, {"NO_FINALICE", "FINALICE"})
  /\ query_pendiente[w] # NULL
  /\ \/ /\ m.tipo = "NO_FINALICE" /\ desalojada # NULL
        /\ pc' = [pc EXCEPT ![desalojada] = m.pc]
        /\ lista_ready' = Append(lista_ready, desalojada)
        /\ LanzarAging(desalojada)
     \/ /\ m.tipo = "FINALICE"
        /\ UNCHANGED <<pc, lista_ready, hilos_aging>>
  /\ asignarQueryAWorker(w, query_pendiente[w])
  /\ query_pendiente' = [query_pendiente EXCEPT ![w] = NULL]
  /\ UNCHANGED <<altas, pedidos, desalojos, aQC, caidos, lista_workers,
                 fd_desalojo, prioridad, quid, hilosDeQuery, hilo_worker>>

\* Mutant: query_actual keeps the freed query.
atenderFinalizarSinLimpiar(w) ==
  /\ atiende(w, {"FINALIZAR", "ERROR"})
  /\ query_actual[w] # NULL
  /\ notificarFin(query_actual[w])
  /\ UNCHANGED <<altas, pedidos, aWorker, desalojos, caidos, masterVars>>

\* Mutant: the worker gets its next query before its FIN_CICLO.
atenderFinalizarDespachando(w) ==
  /\ atiende(w, {"FINALIZAR", "ERROR"})
  /\ query_actual[w] # NULL
  /\ notificarFin(query_actual[w])
  /\ intentarEnviarPorWorker(w)
  /\ UNCHANGED <<altas, pedidos, desalojos, caidos, lista_workers, fd_desalojo,
                 queryStruct, hilosDeQuery, hilos_aging, hilo_worker>>

\* FINALIZAR and ERROR: the query control is told and the query freed.  The
\* worker stays busy until its FIN_CICLO or its DESALOJAR.
atenderFinalizar(w) ==
  /\ atiende(w, {"FINALIZAR", "ERROR"})
  /\ query_actual[w] # NULL
  /\ notificarFin(query_actual[w])
  /\ query_actual' = [query_actual EXCEPT ![w] = NULL]
  /\ UNCHANGED <<altas, pedidos, aWorker, desalojos, caidos, lista_ready,
                 lista_workers, esta_libre, fd_desalojo, query_pendiente,
                 queryStruct, hilosDeQuery, hilos_aging, hilo_worker>>

\* FIN_CICLO: reasignarLaburoAWorker.
atenderFinCiclo(w) ==
  /\ atiende(w, {"FIN_CICLO"})
  /\ intentarEnviarPorWorker(w)
  /\ UNCHANGED <<altas, pedidos, desalojos, aQC, caidos, lista_workers,
                 fd_desalojo, queryStruct, hilosDeQuery, hilos_aging, hilo_worker>>

\* FINALIZAR_WORKER frees the worker and leaves its thread in the loop.
atenderFinalizarWorker(w) ==
  /\ atiende(w, {"FINALIZAR_WORKER"})
  /\ query_actual[w] # NULL
  /\ quitarWorker(w)
  /\ notificarFin(query_actual[w])
  /\ hilo_worker' = [hilo_worker EXCEPT ![w] = "huerfano"]
  /\ UNCHANGED <<altas, pedidos, aWorker, desalojos, caidos, queryStruct,
                 hilosDeQuery, hilos_aging>>

\* The stream ended: the thread removes the worker and returns.
desconexionWorker(w) ==
  /\ hilo_worker[w] = "atiende"
  /\ aMaster[w] = <<>> /\ w \in caidos
  /\ quitarWorker(w)
  /\ hilo_worker' = [hilo_worker EXCEPT ![w] = "fin"]
  /\ IF query_actual[w] = NULL
     THEN UNCHANGED <<aQC, caida>>
     ELSE notificarFin(query_actual[w])
  /\ UNCHANGED <<altas, pedidos, aWorker, aMaster, desalojos, caidos,
                 queryStruct, hilosDeQuery, hilos_aging>>

-----------------------------------------------------------------------------
(* The handlers that dereference a null or freed pointer.  The process and *)
(* all it holds are gone, so nothing but caida changes.                    *)

\* Every handler that reads query_actual->quid or query_actual->pc.
queryActualNula(w) ==
  /\ atiende(w, {"LEER", "NO_FINALICE", "FINALIZAR", "ERROR", "FINALIZAR_WORKER"})
  /\ query_actual[w] = NULL
  /\ caida' = "query_actual NULL"
  /\ UNCHANGED <<altas, pedidos, aWorker, desalojos, aQC, caidos, masterVars>>

\* The log line after a DESALOJAR reads query_a_entrar->quid.
queryPendienteNula(w) ==
  /\ atiende(w, {"NO_FINALICE", "FINALICE"})
  /\ query_pendiente[w] = NULL
  /\ Head(aMaster[w]).tipo = "NO_FINALICE" => query_actual[w] # NULL
  /\ caida' = "query_pendiente NULL"
  /\ UNCHANGED <<altas, pedidos, aWorker, desalojos, aQC, caidos, masterVars>>

\* After FINALIZAR_WORKER the loop reads a closed descriptor and a freed
\* worker; list_remove(lista_workers, -1) then yields no worker to read.
workerLiberado(w) ==
  /\ hilo_worker[w] = "huerfano"
  /\ caida' = "worker liberado"
  /\ UNCHANGED <<canales, caidos, masterVars>>

-----------------------------------------------------------------------------
(* realizarAgingIndividual: one turn of a thread started for q.            *)
realizarAgingIndividual(q) ==
  /\ hilos_aging[q] > 0
  /\ \/ /\ \A g \in EnReady(q) : prioridad[g] = 0
        /\ hilos_aging' = [hilos_aging EXCEPT ![q] = @ - 1]
        /\ UNCHANGED <<prioridad, lista_ready, query_pendiente, desalojos, caida>>
     \/ \E g \in EnReady(q) :
          /\ prioridad[g] > 0
          /\ prioridad' = [prioridad EXCEPT ![g] = @ - 1]
          /\ \E r \in Ordenaciones(lista_ready, prioridad') :
               \/ /\ quid[Head(r)] = quid[q]
                  /\ intentarDesalojar(g, r, prioridad')
               \/ /\ quid[Head(r)] # quid[q]
                  /\ lista_ready' = r
                  /\ UNCHANGED <<query_pendiente, desalojos, caida>>
          /\ UNCHANGED hilos_aging
  /\ UNCHANGED <<altas, pedidos, aWorker, aMaster, aQC, caidos, lista_workers,
                 esta_libre, fd_desalojo, query_actual, pc, quid, hilosDeQuery,
                 hilo_worker>>

-----------------------------------------------------------------------------
hiloDelQuery(q) == crearQuery(q) \/ incrementarQuid(q) \/ gestionarQueryIndividual(q)

hiloDelWorker(w) ==
  \/ gestionarWorkerIndividual(w)
  \/ atenderLeer(w) \/ atenderDesalojar(w) \/ atenderFinalizar(w)
  \/ atenderFinCiclo(w) \/ atenderFinalizarWorker(w) \/ desconexionWorker(w)
  \/ queryActualNula(w) \/ queryPendienteNula(w) \/ workerLiberado(w)

hiloDesalojoDelWorker(w) == recibirIdWorkerDesalojo(w)

hiloDeAging(q) == realizarAgingIndividual(q)

MasterNext ==
  \/ \E q \in Queries : hiloDelQuery(q) \/ hiloDeAging(q)
  \/ \E w \in Workers : hiloDelWorker(w) \/ hiloDesalojoDelWorker(w)
=============================================================================
