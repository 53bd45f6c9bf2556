----------------------------- MODULE Protocolo -----------------------------
(***************************************************************************)
(* The sockets between the master, the workers and the query controls, as  *)
(* utils/src/utils/helpers.c uses them: enviarMensajito writes a whole     *)
(* message and ignores every error, recibirMensajito blocks for the next   *)
(* one and returns NULL once the peer has closed.  Each TCP stream is a    *)
(* FIFO queue; the end of a stream is the peer's membership of "caidos".   *)
(***************************************************************************)
EXTENDS Naturals, Sequences, SequencesExt

CONSTANTS Workers,  \* the worker processes; each connects at most once
          Queries,  \* the query controls, each with the one query it submits
          NULL      \* the C null pointer

ASSUME NullAssumption == NULL \notin Workers \cup Queries

\* A worker and a query control are two processes.
ASSUME ProcesosDistintos == Workers \cap Queries = {}

VARIABLES
  altas,      \* per worker, the handshakes it sent that no thread has read
  pedidos,    \* query controls whose "QUERY nombre prioridad" is unread
  aWorker,    \* per worker, master -> worker: queries to run
  aMaster,    \* per worker, worker -> master: what happened
  desalojos,  \* per worker, DESALOJAR messages on the preemption socket
  aQC,        \* per query, master -> query control
  caidos,     \* workers and query controls whose sockets are closed
  caida       \* why the master process ended, or "no"

canales == <<altas, pedidos, aWorker, aMaster, desalojos, aQC>>

Handshake == {"WORKER", "WORKER_DESALOJO"}

\* "quid pc query" as asignarQueryAWorker formats it.
Asignacion == [query : Queries, pc : Nat]

\* NOMBRE_RESPUESTA_WORKER, with DESALOJAR split by its second word.  Only
\* NO_FINALICE carries a pc on the wire; "query" (the query the worker was
\* running) is never sent: it lets a property say what a message is about.
TipoRespuesta == {"LEER", "NO_FINALICE", "FINALICE", "FINALIZAR", "ERROR",
                  "FINALIZAR_WORKER", "FIN_CICLO"}
Respuesta == [tipo : TipoRespuesta, query : Queries \cup {NULL}, pc : Nat]

\* What a query control receives: "LEER file tag contenido" or
\* "FINALIZAR motivo".
Orden == {"LEER", "FINALIZAR"}

\* Why the master can end: a null pointer (a query the worker no longer has,
\* a preemption nobody asked for), a worker struct already freed, the exit()
\* of recibirIdWorkerDesalojo, or a SIGPIPE, which nothing ignores.
Caida == {"no", "query_actual NULL", "query_pendiente NULL",
          "worker liberado", "worker sin registrar", "SIGPIPE"}

CanalesTypeOK ==
  /\ altas \in [Workers -> SUBSET Handshake]
  /\ pedidos \subseteq Queries
  /\ aWorker \in [Workers -> Seq(Asignacion)]
  /\ aMaster \in [Workers -> Seq(Respuesta)]
  /\ desalojos \in [Workers -> Nat]
  /\ aQC \in [Queries -> Seq(Orden)]
  /\ caidos \subseteq Workers \cup Queries
  /\ caida \in Caida

CanalesInit ==
  /\ altas = [w \in Workers |-> {}]
  /\ pedidos = {}
  /\ aWorker = [w \in Workers |-> <<>>]
  /\ aMaster = [w \in Workers |-> <<>>]
  /\ desalojos = [w \in Workers |-> 0]
  /\ aQC = [q \in Queries |-> <<>>]
  /\ caidos = {}
  /\ caida = "no"

(***************************************************************************)
(* enviarMensajito, seen from the master: send() twice with no flags and   *)
(* no check.  Writing to a peer that has closed may raise SIGPIPE, whose   *)
(* default action ends the master; whether it does depends on when the     *)
(* kernel learns of the reset.                                             *)
(***************************************************************************)
enviarMensajito(destinos) ==
  caida' \in IF destinos \cap caidos = {} THEN {"no"} ELSE {"no", "SIGPIPE"}

\* recibirMensajito, seen from the master's thread for worker w.
recibirMensajito(w, tipos) ==
  /\ aMaster[w] # <<>>
  /\ Head(aMaster[w]).tipo \in tipos
  /\ aMaster' = [aMaster EXCEPT ![w] = Tail(@)]
=============================================================================
