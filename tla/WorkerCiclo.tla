----------------------------- MODULE WorkerCiclo -----------------------------
(***************************************************************************)
(* The control loop of a worker process (worker/src/main.c,                *)
(* helpers-worker.c and the control side of ciclo_instruccion.c): wait for *)
(* a query, run its instructions one at a time, look at hubo_interrupcion  *)
(* after each, report, and start again.  hiloDesalojo sets the flag        *)
(* concurrently.  What an instruction does to memory and storage is left   *)
(* out; what it answers and what the worker sends is kept.                 *)
(***************************************************************************)
EXTENDS Protocolo

CONSTANTS
  Programa,           \* per query, the kinds of its instructions
  Fallas,             \* which requests storage may refuse in this instance
  WorkersQueCaen,     \* workers that may be killed
  WorkersConSenial,   \* workers that may get SIGINT or SIGTERM
  SleepAlcanza        \* is sleep(1) longer than the master's handshake?

\* READ answers with LEER; OTRA is CREATE, TRUNCATE, WRITE, TAG, FLUSH or
\* DELETE; INVALIDA is an operation obtenerOperacionCodOp does not know.
Instruccion == {"READ", "OTRA", "COMMIT", "END", "INVALIDA"}

\* Fetch past the last instruction is undefined, and every script of
\* queries/ ends in END.
ASSUME ProgramaAssumption ==
  /\ Programa \in [Queries -> Seq(Instruccion)]
  /\ \A q \in Queries : /\ Programa[q] # <<>>
                        /\ Programa[q][Len(Programa[q])] \in {"END", "INVALIDA"}

ASSUME EntornoAssumption ==
  /\ Fallas \subseteq {"operacion", "flush"}
  /\ WorkersQueCaen \subseteq Workers /\ WorkersConSenial \subseteq Workers
  /\ SleepAlcanza \in BOOLEAN

VARIABLES
  fase,               \* where main() is
  en_curso,           \* query->id_query, as the query it stands for
  pc_query,           \* query->pc_query
  es_error_o_end, hubo_interrupcion, debo_morir,
  ejecutadas          \* history: instructions of each query done so far

workerVars == <<fase, en_curso, pc_query, es_error_o_end, hubo_interrupcion,
                debo_morir, ejecutadas>>

Fase == {"inicio", "sleep", "esperando", "ejecutando", "checkeando",
         "gestionando", "limpiando", "terminado"}

WorkerTypeOK ==
  /\ fase \in [Workers -> Fase]
  /\ en_curso \in [Workers -> Queries \cup {NULL}]
  /\ pc_query \in [Workers -> Nat]
  /\ es_error_o_end \in [Workers -> BOOLEAN]
  /\ hubo_interrupcion \in [Workers -> BOOLEAN]
  /\ debo_morir \in [Workers -> BOOLEAN]
  /\ ejecutadas \in [Queries -> Nat]

WorkerInit ==
  /\ fase = [w \in Workers |-> "inicio"]
  /\ en_curso = [w \in Workers |-> NULL]
  /\ pc_query = [w \in Workers |-> 0]
  /\ es_error_o_end = [w \in Workers |-> FALSE]
  /\ hubo_interrupcion = [w \in Workers |-> FALSE]
  /\ debo_morir = [w \in Workers |-> FALSE]
  /\ ejecutadas = [q \in Queries |-> 0]

-----------------------------------------------------------------------------
pasaA(w, f) == fase' = [fase EXCEPT ![w] = f]

\* while (!debo_morir): another turn, or FINALIZAR_WORKER and the end.
whileNoDeboMorir(w) ==
  IF debo_morir[w]
  THEN /\ pasaA(w, "terminado") /\ caidos' = caidos \cup {w}
       /\ aMaster' = [aMaster EXCEPT ![w] = Append(@,
            [tipo |-> "FINALIZAR_WORKER", query |-> en_curso[w], pc |-> pc_query[w]])]
  ELSE pasaA(w, "esperando") /\ UNCHANGED <<caidos, aMaster>>

\* enviarMensajito to the master, one message per element of tipos.
responder(w, tipos) ==
  aMaster' = [aMaster EXCEPT ![w] = @ \o
    [i \in 1 .. Len(tipos) |->
       [tipo |-> tipos[i], query |-> en_curso[w], pc |-> pc_query[w]]]]

SinEnviar == UNCHANGED canales
otrosCanales == <<altas, pedidos, aWorker, desalojos, aQC>>

\* conexionMaster sends WORKER; after sleep(1), which a signal cuts short,
\* conexionMasterDesalojo sends WORKER_DESALOJO on another socket and main
\* starts hiloDesalojo and the loop.
conexionMaster(w) ==
  /\ fase[w] = "inicio" /\ pasaA(w, "sleep")
  /\ altas' = [altas EXCEPT ![w] = @ \cup {"WORKER"}]
  /\ UNCHANGED <<pedidos, aWorker, aMaster, desalojos, aQC, en_curso, pc_query,
                 es_error_o_end, hubo_interrupcion, debo_morir, ejecutadas>>

conexionMasterDesalojo(w) ==
  /\ fase[w] = "sleep" /\ whileNoDeboMorir(w)
  /\ SleepAlcanza /\ ~ debo_morir[w] => "WORKER" \notin altas[w]
  /\ altas' = [altas EXCEPT ![w] = @ \cup {"WORKER_DESALOJO"}]
  /\ UNCHANGED <<pedidos, aWorker, desalojos, aQC, en_curso, pc_query,
                 es_error_o_end, hubo_interrupcion, debo_morir, ejecutadas>>

esperandoQuery(w) ==
  /\ fase[w] = "esperando" /\ pasaA(w, "ejecutando")
  /\ aWorker[w] # <<>>
  /\ aWorker' = [aWorker EXCEPT ![w] = Tail(@)]
  /\ en_curso' = [en_curso EXCEPT ![w] = Head(aWorker[w]).query]
  /\ pc_query' = [pc_query EXCEPT ![w] = Head(aWorker[w]).pc]
  /\ UNCHANGED <<altas, pedidos, aMaster, desalojos, aQC, es_error_o_end,
                 hubo_interrupcion, debo_morir, ejecutadas>>

-----------------------------------------------------------------------------
(* One turn of the instruction loop: Fetch, Decode, Execute and pc_query++. *)

instruccion(w) == Programa[en_curso[w]][pc_query[w] + 1]

\* Execute returned false.
sigue(w, tipos) ==
  /\ responder(w, tipos)
  /\ es_error_o_end' = [es_error_o_end EXCEPT ![w] = FALSE]
  /\ pc_query' = [pc_query EXCEPT ![w] = @ + 1]
  /\ ejecutadas' = [ejecutadas EXCEPT ![en_curso[w]] = @ + 1]

\* Execute returned true.
finaliza(w, tipos) ==
  /\ responder(w, tipos)
  /\ es_error_o_end' = [es_error_o_end EXCEPT ![w] = TRUE]
  /\ UNCHANGED <<pc_query, ejecutadas>>

\* ejecutarCommit drops ejecutarFlush's result: when the flush fails the
\* master has been sent ERROR, and COMMIT goes on to succeed or to fail.
ejecutarCommit(w) ==
  /\ instruccion(w) = "COMMIT"
  /\ \/ sigue(w, <<>>)
     \/ "operacion" \in Fallas /\ finaliza(w, <<"ERROR">>)
     \/ "flush" \in Fallas /\ sigue(w, <<"ERROR">>)
     \/ Fallas = {"operacion", "flush"} /\ finaliza(w, <<"ERROR", "ERROR">>)

Execute(w) ==
  /\ fase[w] = "ejecutando" /\ pasaA(w, "checkeando")
  /\ \/ instruccion(w) = "READ" /\ sigue(w, <<"LEER">>)
     \/ instruccion(w) = "OTRA" /\ sigue(w, <<>>)
     \/ /\ instruccion(w) \in {"READ", "OTRA"} /\ "operacion" \in Fallas
        /\ finaliza(w, <<"ERROR">>)
     \/ ejecutarCommit(w)
     \/ instruccion(w) = "END" /\ finaliza(w, <<"FINALIZAR">>)
     \/ instruccion(w) = "INVALIDA" /\ finaliza(w, <<>>)
  /\ UNCHANGED <<otrosCanales, en_curso, hubo_interrupcion, debo_morir>>

\* checkInterrupt and the test of tengo_que_cambiar_contexto, which is true
\* exactly when the instruction ended the query or the flag was seen here.
checkInterrupt(w) ==
  /\ fase[w] = "checkeando"
  /\ pasaA(w, IF es_error_o_end[w] \/ hubo_interrupcion[w]
              THEN "gestionando" ELSE "ejecutando")
  /\ SinEnviar
  /\ UNCHANGED <<en_curso, pc_query, es_error_o_end, hubo_interrupcion,
                 debo_morir, ejecutadas>>

-----------------------------------------------------------------------------
\* enviarMensajeFinDesalojo.
finDesalojo(w) == IF es_error_o_end[w] THEN "FINALICE" ELSE "NO_FINALICE"

\* A preempted worker flushes every table before it answers; a flush that
\* storage refuses makes ejecutarFlush send ERROR first.
gestionarCheckInterrupt(w) ==
  /\ fase[w] = "gestionando" /\ pasaA(w, "limpiando")
  /\ \/ ~ hubo_interrupcion[w] /\ responder(w, <<"FIN_CICLO">>)
     \/ hubo_interrupcion[w] /\ responder(w, <<finDesalojo(w)>>)
     \/ /\ hubo_interrupcion[w] /\ "flush" \in Fallas
        /\ responder(w, <<"ERROR", finDesalojo(w)>>)
  /\ UNCHANGED <<otrosCanales, en_curso, pc_query, es_error_o_end,
                 hubo_interrupcion, debo_morir, ejecutadas>>

\* Mutant: the flag stays up, and the next query is taken for preempted.
limpiarSinBajarla(w) ==
  /\ fase[w] = "limpiando" /\ whileNoDeboMorir(w)
  /\ UNCHANGED <<otrosCanales, en_curso, pc_query, es_error_o_end,
                 hubo_interrupcion, debo_morir, ejecutadas>>

\* The end of the loop body clears the flag without its mutex: an order that
\* arrived since gestionarCheckInterrupt is lost.
limpiar(w) ==
  /\ fase[w] = "limpiando" /\ whileNoDeboMorir(w)
  /\ hubo_interrupcion' = [hubo_interrupcion EXCEPT ![w] = FALSE]
  /\ UNCHANGED <<otrosCanales, en_curso, pc_query, es_error_o_end, debo_morir,
                 ejecutadas>>

cicloWorker(w) ==
  \/ /\ \/ conexionMaster(w) \/ esperandoQuery(w) \/ Execute(w)
        \/ checkInterrupt(w) \/ gestionarCheckInterrupt(w)
     /\ UNCHANGED caidos
  \/ conexionMasterDesalojo(w)
  \/ limpiar(w)

-----------------------------------------------------------------------------
(* The preemption thread, signals and crashes.                             *)

corre(w) == fase[w] \notin {"inicio", "sleep", "terminado"}

\* Mutant: the thread answers the order itself, with the instruction running.
hiloDesalojoRespondiendo(w) ==
  /\ corre(w) /\ desalojos[w] > 0
  /\ desalojos' = [desalojos EXCEPT ![w] = @ - 1]
  /\ responder(w, <<"NO_FINALICE">>)
  /\ UNCHANGED <<altas, pedidos, aWorker, aQC, caidos, fase, en_curso, pc_query,
                 hubo_interrupcion, es_error_o_end, debo_morir, ejecutadas>>

hiloDesalojo(w) ==
  /\ corre(w) /\ desalojos[w] > 0
  /\ desalojos' = [desalojos EXCEPT ![w] = @ - 1]
  /\ hubo_interrupcion' = [hubo_interrupcion EXCEPT ![w] = TRUE]
  /\ UNCHANGED <<altas, pedidos, aWorker, aMaster, aQC, caidos, fase, en_curso,
                 pc_query, es_error_o_end, debo_morir, ejecutadas>>

\* manejador_senial.
manejador_senial(w) ==
  /\ w \in WorkersConSenial /\ fase[w] \notin {"inicio", "terminado"}
  /\ ~ debo_morir[w]
  /\ debo_morir' = [debo_morir EXCEPT ![w] = TRUE]
  /\ UNCHANGED <<canales, caidos, fase, en_curso, pc_query, es_error_o_end,
                 hubo_interrupcion, ejecutadas>>

\* The process dies where it is: killed, by the null pointer or the destroyed
\* instruction list it uses once a signal has interrupted recv (siginterrupt
\* asks for that), or by the null list of a query whose file does not open,
\* which is a kill before its first instruction.
caeWorker(w) ==
  /\ w \in WorkersQueCaen \/ debo_morir[w]
  /\ fase[w] \notin {"inicio", "terminado"}
  /\ pasaA(w, "terminado") /\ caidos' = caidos \cup {w}
  /\ UNCHANGED <<canales, en_curso, pc_query, es_error_o_end,
                 hubo_interrupcion, debo_morir, ejecutadas>>

\* The master is gone: hiloDesalojo calls exit().
pierdeMaster(w) ==
  /\ caida # "no" /\ fase[w] \notin {"inicio", "terminado"}
  /\ pasaA(w, "terminado") /\ caidos' = caidos \cup {w}
  /\ UNCHANGED <<canales, en_curso, pc_query, es_error_o_end,
                 hubo_interrupcion, debo_morir, ejecutadas>>
=============================================================================
