---------------------------- MODULE QueryControl ----------------------------
(***************************************************************************)
(* The query control processes (query_control/src): each submits one query *)
(* and prints what the master sends until it is told FINALIZAR.            *)
(***************************************************************************)
EXTENDS Protocolo

CONSTANT QCsQueCaen   \* query controls that may be killed while they wait

ASSUME QCAssumption == QCsQueCaen \subseteq Queries

VARIABLE estado_qc    \* per query, where its query control's main() is

QCTypeOK ==
  estado_qc \in [Queries -> {"nuevo", "esperando", "terminado", "muerto"}]

QCInit == estado_qc = [q \in Queries |-> "nuevo"]

qcPasaA(q, e) == estado_qc' = [estado_qc EXCEPT ![q] = e]

\* main connects and sends crearMensajeRegistroQuery.
registrarQuery(q) ==
  /\ estado_qc[q] = "nuevo" /\ qcPasaA(q, "esperando")
  /\ pedidos' = pedidos \cup {q}
  /\ UNCHANGED <<altas, aWorker, aMaster, desalojos, aQC, caidos>>

\* gestionarOrdenMaestro: FINALIZAR ends the process, LEER is printed.
gestionarOrdenMaestro(q) ==
  /\ estado_qc[q] = "esperando" /\ aQC[q] # <<>>
  /\ aQC' = [aQC EXCEPT ![q] = Tail(@)]
  /\ \/ /\ Head(aQC[q]) = "LEER"
        /\ UNCHANGED <<estado_qc, caidos>>
     \/ /\ Head(aQC[q]) = "FINALIZAR"
        /\ qcPasaA(q, "terminado") /\ caidos' = caidos \cup {q}
  /\ UNCHANGED <<altas, pedidos, aWorker, aMaster, desalojos>>

\* recibirMensajito returned NULL: the master is gone.
masterCerro(q) ==
  /\ estado_qc[q] = "esperando" /\ aQC[q] = <<>> /\ caida # "no"
  /\ qcPasaA(q, "terminado") /\ caidos' = caidos \cup {q}
  /\ UNCHANGED canales

\* Killed by its user.  Nothing in the master reads a query control's socket
\* after the handshake, so nobody notices.
caeQC(q) ==
  /\ q \in QCsQueCaen
  /\ estado_qc[q] = "esperando" /\ qcPasaA(q, "muerto")
  /\ caidos' = caidos \cup {q}
  /\ UNCHANGED canales

cicloQC(q) == registrarQuery(q) \/ gestionarOrdenMaestro(q) \/ masterCerro(q)
=============================================================================
