---------------------- MODULE PlanificacionTurnos_proofs ----------------------
(***************************************************************************)
(* Proofs about what a message is about and where a query resumes, under   *)
(* both algorithms and every failure: messages name no query, orders cross *)
(* answers, and a query goes from worker to worker.                        *)
(***************************************************************************)
EXTENDS PlanificacionFIFO_proofs

-----------------------------------------------------------------------------
(* Whose messages.  A turn of a worker ends with one message, of Fines:     *)
(* FIN_CICLO or the answer to a preemption.  All that precedes it is about  *)
(* the query of the turn.                                                   *)

Fines == {"FIN_CICLO", "NO_FINALICE", "FINALICE"}
DeQuery == {"LEER", "NO_FINALICE", "FINALIZAR", "ERROR"}
DelTurno == Fines \cup DeQuery

\* Nothing of a turn follows its end.
Cerrada(s) ==
  \A i, j \in DOMAIN s : i < j /\ s[i].tipo \in Fines => s[j].tipo \notin DelTurno

DeUna(s, q) == \A i \in DOMAIN s : s[i].tipo \in DeQuery => s[i].query = q

SinVez(w) ==
  aWorker[w] = <<>> /\ ~ enTurno(w) /\ ~ HayTipo(aMaster[w], DelTurno)

\* A turn is in one place: on its way, in the loop of main(), or on its way
\* back.
UnaVez(w) ==
  /\ \A i \in DOMAIN aWorker[w] : i = 1
  /\ aWorker[w] # <<>> => ~ enTurno(w) /\ ~ HayTipo(aMaster[w], DelTurno)
  /\ enTurno(w) => ~ HayTipo(aMaster[w], Fines) /\ en_curso[w] \in Queries
  /\ Cerrada(aMaster[w])

Inactivo(w) ==
  /\ esta_libre[w] \/ "WORKER" \in altas[w] \/ fase[w] = "inicio" => SinVez(w)
  /\ esta_libre[w] => "WORKER" \notin altas[w] /\ fase[w] # "inicio"
  /\ "WORKER" \in altas[w] => fase[w] # "inicio"

\* query_actual, while it is not NULL, is the query of the turn.
Propia(w) ==
  query_actual[w] # NULL =>
    /\ \A i \in DOMAIN aWorker[w] : aWorker[w][i].query = query_actual[w]
    /\ enTurno(w) => en_curso[w] = query_actual[w]
    /\ DeUna(aMaster[w], query_actual[w])

Vez(w) == UnaVez(w) /\ Inactivo(w) /\ Propia(w)

IVez == TypeOK /\ \A w \in Workers : Vez(w)

\* Messages handled and sent.
LEMMA ColaLeida ==
  ASSUME NEW s \in Seq(Respuesta), s # <<>>, Cerrada(s)
  PROVE  /\ \A T : HayTipo(Tail(s), T) => HayTipo(s, T)
         /\ Cerrada(Tail(s))
         /\ Head(s).tipo \in Fines => HayTipo(s, Fines) /\ ~ HayTipo(Tail(s), DelTurno)
         /\ \A q : DeUna(s, q) => DeUna(Tail(s), q)
<1> DEFINE t == Tail(s)
<1>1. /\ \A i \in DOMAIN t : i \in Nat \ {0} /\ i + 1 \in DOMAIN s /\ t[i] = s[i + 1]
      /\ 1 \in DOMAIN s /\ Head(s) = s[1]
  OBVIOUS
<1> HIDE DEF t
<1>2. Cerrada(t)
  BY <1>1 DEF Cerrada
<1>3. \A q : DeUna(s, q) => DeUna(t, q)
  BY <1>1 DEF DeUna
<1>4. ASSUME Head(s).tipo \in Fines PROVE ~ HayTipo(t, DelTurno)
  <2>1. \A i \in DOMAIN t : 1 < i + 1 /\ t[i].tipo \notin DelTurno
    BY <1>1, <1>4 DEF Cerrada
  <2> QED BY <2>1 DEF HayTipo
<1>5. Head(s).tipo \in Fines => HayTipo(s, Fines)
  BY <1>1 DEF HayTipo
<1>6. \A T : HayTipo(t, T) => HayTipo(s, T)
  BY <1>1 DEF HayTipo
<1> QED BY <1>2, <1>3, <1>4, <1>5, <1>6 DEF t

LEMMA ColaEscrita ==
  ASSUME NEW s \in Seq(Respuesta), NEW t \in Seq(Respuesta)
  PROVE  /\ \A T : HayTipo(s \o t, T) <=> HayTipo(s, T) \/ HayTipo(t, T)
         /\ Cerrada(s) /\ ~ HayTipo(t, DelTurno) => Cerrada(s \o t)
         /\ ~ HayTipo(s, Fines) /\ Cerrada(t) => Cerrada(s \o t)
         /\ \A q : DeUna(s, q) /\ DeUna(t, q) => DeUna(s \o t, q)
<1> DEFINE u == s \o t
<1>1. /\ \A i \in DOMAIN s : i \in DOMAIN u /\ u[i] = s[i] /\ i <= Len(s) /\ i \in Nat
      /\ \A i \in DOMAIN t : i + Len(s) \in DOMAIN u /\ u[i + Len(s)] = t[i]
      /\ \A i \in DOMAIN u : i \in Nat /\ (i \in DOMAIN s \/ i - Len(s) \in DOMAIN t)
      /\ \A i \in DOMAIN t : i \in Nat \ {0}
      /\ Len(s) \in Nat
  OBVIOUS
<1> HIDE DEF u
<1>2. \A i \in DOMAIN u : i \in DOMAIN s \/ (i - Len(s) \in DOMAIN t /\ u[i] = t[i - Len(s)])
  BY <1>1
<1>3. \A T : HayTipo(u, T) <=> HayTipo(s, T) \/ HayTipo(t, T)
  BY MensajesEnviados DEF u
<1>4. ASSUME Cerrada(s), ~ HayTipo(t, DelTurno) PROVE Cerrada(u)
  <2> SUFFICES ASSUME NEW i \in DOMAIN u, NEW j \in DOMAIN u, i < j,
                      u[i].tipo \in Fines, u[j].tipo \in DelTurno
               PROVE  FALSE
    BY DEF Cerrada
  <2>1. \A k \in DOMAIN u : u[k].tipo \in DelTurno => k \in DOMAIN s /\ u[k] = s[k]
    BY <1>1, <1>2, <1>4 DEF HayTipo
  <2>2. i \in DOMAIN s /\ j \in DOMAIN s /\ u[i] = s[i] /\ u[j] = s[j]
    BY <2>1 DEF DelTurno
  <2> QED BY <1>4, <2>2 DEF Cerrada
<1>5. ASSUME ~ HayTipo(s, Fines), Cerrada(t) PROVE Cerrada(u)
  <2> SUFFICES ASSUME NEW i \in DOMAIN u, NEW j \in DOMAIN u, i < j,
                      u[i].tipo \in Fines, u[j].tipo \in DelTurno
               PROVE  FALSE
    BY DEF Cerrada
  <2>1. i \notin DOMAIN s
    BY <1>1, <1>5 DEF HayTipo
  <2>2. i - Len(s) \in DOMAIN t /\ u[i] = t[i - Len(s)] /\ i > Len(s)
    <3>1. i - Len(s) \in DOMAIN t /\ u[i] = t[i - Len(s)]
      BY <1>2, <2>1
    <3> QED BY <1>1, <3>1
  <2>3. j \notin DOMAIN s
    BY <1>1, <2>2
  <2>4. j - Len(s) \in DOMAIN t /\ u[j] = t[j - Len(s)]
    BY <1>2, <2>3
  <2>5. i - Len(s) < j - Len(s)
    BY <1>1
  <2> QED BY <1>5, <2>2, <2>4, <2>5 DEF Cerrada
<1>6. \A q : DeUna(s, q) /\ DeUna(t, q) => DeUna(u, q)
  BY <1>1, <1>2 DEF DeUna
<1> QED BY <1>3, <1>4, <1>5, <1>6 DEF u

\* What responder appends, and about which query.
LEMMA responderDe ==
  ASSUME TypeOK, NEW w \in Workers, NEW tipos \in Seq(TipoRespuesta),
         responder(w, tipos)
  PROVE  \E t \in Seq(Respuesta) :
           /\ aMaster'[w] = aMaster[w] \o t /\ Len(t) = Len(tipos)
           /\ DOMAIN t = DOMAIN tipos
           /\ \A i \in DOMAIN t : /\ t[i].tipo = tipos[i] /\ t[i].query = en_curso[w]
                                  /\ t[i].pc = pc_query[w]
           /\ \A v \in Workers : v # w => aMaster'[v] = aMaster[v]
<1> DEFINE t == [i \in 1 .. Len(tipos) |->
                   [tipo |-> tipos[i], query |-> en_curso[w], pc |-> pc_query[w]]]
<1>1. t \in Seq(Respuesta)
  BY DEF TypeOK, WorkerTypeOK, Respuesta
<1>2. /\ Len(t) = Len(tipos) /\ DOMAIN t = DOMAIN tipos
      /\ \A i \in DOMAIN t : /\ t[i].tipo = tipos[i] /\ t[i].query = en_curso[w]
                             /\ t[i].pc = pc_query[w]
  OBVIOUS
<1> HIDE DEF t
<1>3. /\ aMaster'[w] = aMaster[w] \o t
      /\ \A v \in Workers : v # w => aMaster'[v] = aMaster[v]
  BY DEF responder, t, TypeOK, CanalesTypeOK
<1> QED BY <1>1, <1>2, <1>3

-----------------------------------------------------------------------------
(* Turns: the master.                                                      *)

LEMMA MismaVez ==
  ASSUME NEW w \in Workers, Vez(w), Igual(w) PROVE Vez(w)'
<1>1. UnaVez(w)'
  BY DEF Igual, Vez, UnaVez, enTurno
<1>2. Inactivo(w)'
  BY DEF Igual, Vez, Inactivo, SinVez, enTurno
<1>3. Propia(w)'
  BY DEF Igual, Vez, Propia, enTurno
<1> QED BY <1>1, <1>2, <1>3 DEF Vez

LEMMA SinMensajes ==
  ASSUME NEW s, ~ HayTipo(s, DelTurno)
  PROVE  Cerrada(s) /\ ~ HayTipo(s, Fines) /\ \A q : DeUna(s, q)
BY DEF HayTipo, DelTurno, Cerrada, DeUna

\* The master starts a turn, or leaves the worker free, when it has none.
LEMMA asignarVez ==
  ASSUME TypeOK, NEW w \in Workers, NEW q \in Queries, asignarQueryAWorker(w, q),
         UNCHANGED workerVars, aWorker[w] = <<>>, ~ enTurno(w), fase[w] # "inicio",
         ~ HayTipo(aMaster'[w], DelTurno), "WORKER" \notin altas'[w]
  PROVE  Vez(w)'
<1>1. /\ aWorker'[w] = <<[query |-> q, pc |-> pc[q]]>>
      /\ esta_libre'[w] = FALSE /\ query_actual'[w] = q
      /\ UNCHANGED <<fase, en_curso>>
  BY DEF asignarQueryAWorker, workerVars, TypeOK, CanalesTypeOK, MasterTypeOK
<1>2. /\ \A i \in DOMAIN aWorker'[w] : i = 1 /\ aWorker'[w][i].query = q
      /\ aWorker'[w] # <<>>
  BY <1>1
<1>3. Cerrada(aMaster'[w]) /\ DeUna(aMaster'[w], q)
  BY SinMensajes
<1>4. UnaVez(w)'
  BY <1>1, <1>2, <1>3 DEF UnaVez, enTurno
<1>5. Inactivo(w)'
  BY <1>1 DEF Inactivo
<1>6. Propia(w)'
  BY <1>1, <1>2, <1>3 DEF Propia, enTurno
<1> QED BY <1>4, <1>5, <1>6 DEF Vez

LEMMA liberarVez ==
  ASSUME NEW w \in Workers, UNCHANGED workerVars, query_actual'[w] = NULL,
         aWorker'[w] = <<>>, ~ enTurno(w), fase[w] # "inicio",
         ~ HayTipo(aMaster'[w], DelTurno), "WORKER" \notin altas'[w]
  PROVE  Vez(w)'
<1>1. UNCHANGED <<fase, en_curso>>
  BY DEF workerVars
<1>2. UnaVez(w)'
  BY <1>1, SinMensajes DEF UnaVez, enTurno
<1>3. Inactivo(w)'
  BY <1>1 DEF Inactivo, SinVez, enTurno
<1> QED BY <1>2, <1>3 DEF Vez, Propia

LEMMA enviarPorWorkerVez ==
  ASSUME TypeOK, NEW w \in Workers, intentarEnviarPorWorker(w),
         UNCHANGED workerVars, aWorker[w] = <<>>, ~ enTurno(w), fase[w] # "inicio",
         ~ HayTipo(aMaster'[w], DelTurno), "WORKER" \notin altas'[w]
  PROVE  /\ Vez(w)'
         /\ \A v \in Workers : v # w =>
              /\ aWorker'[v] = aWorker[v] /\ esta_libre'[v] = esta_libre[v]
              /\ query_actual'[v] = query_actual[v]
<1>0. /\ lista_ready \in Seq(Queries)
      /\ aWorker \in [Workers -> Seq(Asignacion)]
      /\ query_actual \in [Workers -> Queries \cup {NULL}]
      /\ esta_libre \in [Workers -> BOOLEAN]
  BY DEF TypeOK, CanalesTypeOK, MasterTypeOK
<1>1. CASE lista_ready # <<>>
  <2>1. PICK r \in ParaDespachar(lista_ready) : asignarQueryAWorker(w, Head(r))
    BY <1>1 DEF intentarEnviarPorWorker
  <2>2. Head(r) \in Queries
    BY <1>0, <1>1, ReadyOrdenada
  <2>3. Vez(w)'
    BY <2>1, <2>2, asignarVez
  <2> QED BY <1>0, <2>1, <2>3 DEF asignarQueryAWorker
<1>2. CASE lista_ready = <<>>
  <2>1. /\ query_actual' = [query_actual EXCEPT ![w] = NULL]
        /\ esta_libre' = [esta_libre EXCEPT ![w] = TRUE]
        /\ aWorker' = aWorker
    BY <1>2 DEF intentarEnviarPorWorker
  <2> QED BY <1>0, <2>1, liberarVez
<1> QED BY <1>1, <1>2

\* A handler read a message of w and gave it nothing.
LEMMA leerVez ==
  ASSUME TypeOK, NEW w \in Workers, Vez(w), UNCHANGED workerVars,
         UNCHANGED <<altas, aWorker>>, aMaster[w] # <<>>,
         aMaster' = [aMaster EXCEPT ![w] = Tail(@)],
         esta_libre'[w] => esta_libre[w],
         query_actual'[w] \in {query_actual[w], NULL}
  PROVE  Vez(w)'
<1>1. /\ aMaster[w] \in Seq(Respuesta) /\ aMaster'[w] = Tail(aMaster[w])
      /\ UNCHANGED <<fase, en_curso, altas, aWorker>> /\ Cerrada(aMaster[w])
  BY DEF TypeOK, CanalesTypeOK, workerVars, Vez, UnaVez
<1>2. /\ \A T : HayTipo(aMaster'[w], T) => HayTipo(aMaster[w], T)
      /\ Cerrada(aMaster'[w])
      /\ \A q : DeUna(aMaster[w], q) => DeUna(aMaster'[w], q)
  BY <1>1, ColaLeida
<1>3. UnaVez(w)'
  BY <1>1, <1>2 DEF Vez, UnaVez, enTurno
<1>4. Inactivo(w)'
  BY <1>1, <1>2 DEF Vez, Inactivo, SinVez, enTurno
<1>5. Propia(w)'
  BY <1>1, <1>2 DEF Vez, Propia, enTurno
<1> QED BY <1>3, <1>4, <1>5 DEF Vez

LEMMA hiloDelWorkerVez ==
  ASSUME IVez, NEW w \in Workers, hiloDelWorker(w), UNCHANGED workerVars
  PROVE  \A v \in Workers : Vez(v)'
<1>0. /\ TypeOK /\ \A v \in Workers : Vez(v)
      /\ altas \in [Workers -> SUBSET Handshake]
      /\ aWorker \in [Workers -> Seq(Asignacion)]
      /\ aMaster \in [Workers -> Seq(Respuesta)]
      /\ esta_libre \in [Workers -> BOOLEAN]
      /\ query_actual \in [Workers -> Queries \cup {NULL}]
      /\ query_pendiente \in [Workers -> Queries \cup {NULL}]
      /\ UNCHANGED <<fase, es_error_o_end, en_curso, pc_query>>
  BY DEF IVez, TypeOK, CanalesTypeOK, MasterTypeOK, workerVars
<1>1. ASSUME Vez(w)',
             \A v \in Workers : v # w =>
               /\ aWorker'[v] = aWorker[v] /\ aMaster'[v] = aMaster[v]
               /\ altas'[v] = altas[v] /\ esta_libre'[v] = esta_libre[v]
               /\ query_actual'[v] = query_actual[v]
      PROVE  \A v \in Workers : Vez(v)'
  <2> SUFFICES ASSUME NEW v \in Workers, v # w PROVE Vez(v)'
    BY <1>1
  <2>1. Igual(v)
    BY <1>0, <1>1 DEF Igual
  <2> QED BY <1>0, <2>1, MismaVez
<1>2. CASE gestionarWorkerIndividual(w)
  <2>1. /\ "WORKER" \in altas[w] /\ UNCHANGED aMaster
        /\ altas' = [altas EXCEPT ![w] = @ \ {"WORKER"}]
        /\ intentarEnviarPorWorker(w)
    BY <1>2 DEF gestionarWorkerIndividual
  <2>2. SinVez(w) /\ fase[w] # "inicio"
    BY <1>0, <2>1 DEF Vez, Inactivo
  <2>3. "WORKER" \notin altas'[w]
    BY <1>0, <2>1
  <2> QED BY <1>0, <1>1, <2>1, <2>2, <2>3, enviarPorWorkerVez DEF SinVez
<1>3. ASSUME aMaster[w] # <<>>, Head(aMaster[w]).tipo \in Fines,
             aMaster' = [aMaster EXCEPT ![w] = Tail(@)], UNCHANGED altas
      PROVE  /\ ~ HayTipo(aMaster'[w], DelTurno) /\ aWorker[w] = <<>> /\ ~ enTurno(w)
             /\ "WORKER" \notin altas'[w] /\ fase[w] # "inicio"
  <2>1. /\ HayTipo(aMaster[w], Fines) /\ ~ HayTipo(aMaster'[w], DelTurno)
    BY <1>0, <1>3, ColaLeida DEF Vez, UnaVez
  <2>2. HayTipo(aMaster[w], DelTurno)
    BY <2>1 DEF HayTipo, DelTurno
  <2> QED BY <1>0, <1>3, <2>1, <2>2 DEF Vez, UnaVez, Inactivo, SinVez
<1>4. CASE atenderFinCiclo(w)
  <2>1. /\ aMaster[w] # <<>> /\ Head(aMaster[w]).tipo \in Fines
        /\ aMaster' = [aMaster EXCEPT ![w] = Tail(@)]
        /\ UNCHANGED altas /\ intentarEnviarPorWorker(w)
    BY <1>4 DEF atenderFinCiclo, atiende, recibirMensajito, Fines
  <2> QED BY <1>0, <1>1, <1>3, <2>1, enviarPorWorkerVez
<1>5. CASE atenderDesalojar(w)
  <2>1. /\ aMaster[w] # <<>> /\ Head(aMaster[w]).tipo \in Fines
        /\ aMaster' = [aMaster EXCEPT ![w] = Tail(@)]
        /\ UNCHANGED altas /\ asignarQueryAWorker(w, query_pendiente[w])
        /\ query_pendiente[w] \in Queries
    BY <1>0, <1>5 DEF atenderDesalojar, atiende, recibirMensajito, Fines
  <2>2. Vez(w)'
    BY <1>0, <1>3, <2>1, asignarVez
  <2> QED BY <1>0, <1>1, <2>1, <2>2 DEF asignarQueryAWorker
<1>6. CASE \/ atenderLeer(w) \/ atenderFinalizar(w) \/ atenderFinalizarWorker(w)
           \/ queryActualNula(w) \/ queryPendienteNula(w)
  <2>1. /\ aMaster[w] # <<>> /\ aMaster' = [aMaster EXCEPT ![w] = Tail(@)]
        /\ UNCHANGED <<altas, aWorker>>
    BY <1>6 DEF atenderLeer, atenderFinalizar, atenderFinalizarWorker, queryActualNula,
       queryPendienteNula, atiende, recibirMensajito
  <2>2. /\ esta_libre'[w] => esta_libre[w]
        /\ query_actual'[w] \in {query_actual[w], NULL}
        /\ \A v \in Workers : v # w =>
             esta_libre'[v] = esta_libre[v] /\ query_actual'[v] = query_actual[v]
    <3>1. CASE atenderLeer(w) \/ queryActualNula(w) \/ queryPendienteNula(w)
      BY <3>1 DEF atenderLeer, queryActualNula, queryPendienteNula, masterVars
    <3>2. CASE atenderFinalizar(w)
      BY <1>0, <3>2 DEF atenderFinalizar
    <3>3. CASE atenderFinalizarWorker(w)
      BY <1>0, <3>3, quitarTurno DEF atenderFinalizarWorker
    <3> QED BY <1>6, <3>1, <3>2, <3>3
  <2> QED BY <1>0, <1>1, <2>1, <2>2, leerVez
<1>7. CASE desconexionWorker(w)
  <2>1. /\ UNCHANGED <<altas, aWorker, aMaster>> /\ quitarWorker(w)
    BY <1>7 DEF desconexionWorker
  <2>2. query_actual'[w] = NULL /\ ~ esta_libre'[w]
    BY <1>0, <2>1, quitarTurno
  <2>3. UnaVez(w)'
    BY <1>0, <2>1 DEF Vez, UnaVez, enTurno
  <2>4. Inactivo(w)' /\ Propia(w)'
    BY <1>0, <2>1, <2>2 DEF Vez, Inactivo, SinVez, enTurno, Propia
  <2>5. Vez(w)'
    BY <2>3, <2>4 DEF Vez
  <2> QED BY <1>0, <1>1, <2>1, <2>5, quitarTurno
<1>8. CASE workerLiberado(w)
  <2>1. \A v \in Workers : Igual(v)
    BY <1>0, <1>8 DEF workerLiberado, canales, masterVars, Igual
  <2> QED BY <1>0, <2>1, MismaVez
<1> QED BY <1>2, <1>4, <1>5, <1>6, <1>7, <1>8 DEF hiloDelWorker

LEMMA gestionarQueryVez ==
  ASSUME IVez, NEW q \in Queries, gestionarQueryIndividual(q), UNCHANGED workerVars
  PROVE  \A v \in Workers : Vez(v)'
<1>0. /\ TypeOK /\ \A v \in Workers : Vez(v)
      /\ lista_ready \in Seq(Queries)
      /\ aWorker \in [Workers -> Seq(Asignacion)]
      /\ esta_libre \in [Workers -> BOOLEAN]
      /\ query_actual \in [Workers -> Queries \cup {NULL}]
      /\ UNCHANGED <<fase, es_error_o_end, en_curso, pc_query>>
      /\ UNCHANGED <<altas, aMaster>>
  BY DEF IVez, TypeOK, CanalesTypeOK, MasterTypeOK, workerVars, gestionarQueryIndividual
<1>1. CASE SinAsignar
  <2>1. \A v \in Workers : Igual(v)
    BY <1>0, <1>1 DEF SinAsignar, Igual
  <2> QED BY <1>0, <2>1, MismaVez
<1>2. ASSUME NEW w \in WorkerLibre, NEW g \in Queries, asignarQueryAWorker(w, g)
      PROVE  \A v \in Workers : Vez(v)'
  <2>1. w \in Workers /\ esta_libre[w]
    BY <1>0, <1>2, Elegidos DEF TypeOK, WorkerLibre
  <2>2. SinVez(w) /\ "WORKER" \notin altas[w] /\ fase[w] # "inicio"
    BY <1>0, <2>1 DEF Vez, Inactivo
  <2>3. Vez(w)'
    BY <1>0, <1>2, <2>1, <2>2, asignarVez DEF SinVez
  <2>4. \A v \in Workers : v # w => Igual(v)
    BY <1>0, <1>2, <2>1 DEF asignarQueryAWorker, Igual
  <2> QED BY <1>0, <2>3, <2>4, MismaVez
<1>3. CASE entrarFIFO(q)
  BY <1>1, <1>2, <1>3 DEF entrarFIFO
<1>4. CASE entrarPrioridades(q)
  <2>1. PICK r \in Ordenaciones(Append(lista_ready, q), prioridad) :
          SinAsignar \/ \E w \in WorkerLibre : asignarQueryAWorker(w, Head(r))
    BY <1>4 DEF entrarPrioridades
  <2>2. Head(r) \in Queries
    <3>1. Append(lista_ready, q) \in Seq(Queries) /\ Append(lista_ready, q) # <<>>
      BY <1>0, AgregarAlFinal
    <3>2. r \in Seq(Queries) /\ r # <<>>
      BY <3>1, Ordenar
    <3> QED BY <3>2
  <2> QED BY <1>1, <1>2, <2>1, <2>2
<1> QED BY <1>3, <1>4 DEF gestionarQueryIndividual

LEMMA PasoDelMasterVez ==
  ASSUME IVez, PasoDelMaster
  PROVE  \A v \in Workers : Vez(v)'
<1>0. /\ UNCHANGED workerVars /\ \A v \in Workers : Vez(v)
      /\ altas \in [Workers -> SUBSET Handshake]
  BY DEF PasoDelMaster, pasoMaster, IVez, TypeOK, CanalesTypeOK
<1>1. ASSUME UNCHANGED <<aWorker, aMaster, esta_libre, query_actual>>,
             \A v \in Workers : "WORKER" \in altas'[v] <=> "WORKER" \in altas[v]
      PROVE  \A v \in Workers : Vez(v)'
  <2>1. \A v \in Workers : Igual(v)
    BY <1>0, <1>1 DEF Igual, workerVars
  <2> QED BY <1>0, <2>1, MismaVez
<1>2. ASSUME NEW q \in Queries, hiloDelQuery(q)
      PROVE  \A v \in Workers : Vez(v)'
  <2>1. CASE crearQuery(q) \/ incrementarQuid(q)
    BY <1>1, <2>1 DEF crearQuery, incrementarQuid, workerStruct, canales
  <2>2. CASE gestionarQueryIndividual(q)
    BY <1>0, <2>2, gestionarQueryVez
  <2> QED BY <1>2, <2>1, <2>2 DEF hiloDelQuery
<1>3. ASSUME NEW q \in Queries, hiloDeAging(q)
      PROVE  \A v \in Workers : Vez(v)'
  BY <1>1, <1>3 DEF hiloDeAging, realizarAgingIndividual
<1>4. ASSUME NEW w \in Workers, hiloDelWorker(w)
      PROVE  \A v \in Workers : Vez(v)'
  BY <1>0, <1>4, hiloDelWorkerVez
<1>5. ASSUME NEW w \in Workers, hiloDesalojoDelWorker(w)
      PROVE  \A v \in Workers : Vez(v)'
  <2>1. UNCHANGED <<aWorker, aMaster, esta_libre, query_actual>>
    BY <1>5 DEF hiloDesalojoDelWorker, recibirIdWorkerDesalojo, workerStruct
  <2>2. altas' = [altas EXCEPT ![w] = @ \ {"WORKER_DESALOJO"}]
    BY <1>5 DEF hiloDesalojoDelWorker, recibirIdWorkerDesalojo
  <2> QED BY <1>0, <1>1, <2>1, <2>2
<1> QED BY <1>2, <1>3, <1>4, <1>5 DEF PasoDelMaster, pasoMaster, MasterNext

-----------------------------------------------------------------------------
(* Turns: the worker.                                                      *)

\* Out of its turn a worker sends nothing of a turn.
LEMMA fueraDeVez ==
  ASSUME TypeOK, NEW w \in Workers, Vez(w), DelMaster(w), UNCHANGED aWorker,
         fase[w] # "inicio", fase'[w] \in {"esperando", "terminado"},
         NEW t \in Seq(Respuesta), ~ HayTipo(t, DelTurno),
         aMaster'[w] = aMaster[w] \o t
  PROVE  Vez(w)'
<1>0. /\ aMaster[w] \in Seq(Respuesta) /\ Cerrada(aMaster[w])
      /\ \A q : DeUna(t, q)
  BY SinMensajes DEF TypeOK, CanalesTypeOK, Vez, UnaVez
<1>1. /\ HayTipo(aMaster'[w], DelTurno) <=> HayTipo(aMaster[w], DelTurno)
      /\ Cerrada(aMaster'[w])
      /\ \A q : DeUna(aMaster[w], q) => DeUna(aMaster'[w], q)
  BY <1>0, ColaEscrita
<1>2. UnaVez(w)'
  BY <1>1 DEF Vez, UnaVez, enTurno
<1>3. Inactivo(w)'
  BY <1>1 DEF DelMaster, Vez, Inactivo, SinVez, enTurno
<1>4. Propia(w)'
  BY <1>1 DEF DelMaster, Vez, Propia, enTurno
<1> QED BY <1>2, <1>3, <1>4 DEF Vez

\* In its turn it reports about its query, and ends the turn once.
LEMMA enSuVez ==
  ASSUME TypeOK, NEW w \in Workers, Vez(w), DelMaster(w), UNCHANGED aWorker,
         enTurno(w), fase'[w] \in {"ejecutando", "checkeando", "gestionando", "limpiando"},
         en_curso'[w] = en_curso[w],
         NEW t \in Seq(Respuesta), Cerrada(t), DeUna(t, en_curso[w]),
         fase'[w] = "limpiando" \/ ~ HayTipo(t, Fines),
         aMaster'[w] = aMaster[w] \o t
  PROVE  Vez(w)'
<1>0. /\ aMaster[w] \in Seq(Respuesta) /\ ~ HayTipo(aMaster[w], Fines)
      /\ aWorker[w] = <<>> /\ en_curso[w] \in Queries
  BY DEF TypeOK, CanalesTypeOK, Vez, UnaVez
<1>1. /\ \A T : HayTipo(aMaster'[w], T) <=> HayTipo(aMaster[w], T) \/ HayTipo(t, T)
      /\ Cerrada(aMaster'[w])
      /\ \A q : DeUna(aMaster[w], q) /\ DeUna(t, q) => DeUna(aMaster'[w], q)
  BY <1>0, ColaEscrita
<1>2. UnaVez(w)'
  BY <1>0, <1>1 DEF Vez, UnaVez, enTurno
<1>3. Inactivo(w)'
  BY <1>0 DEF DelMaster, Vez, Inactivo, SinVez
<1>4. Propia(w)'
  BY <1>0, <1>1 DEF DelMaster, Vez, Propia
<1> QED BY <1>2, <1>3, <1>4 DEF Vez

LEMMA esperandoVez ==
  ASSUME IVez, NEW w \in Workers, esperandoQuery(w), DelMaster(w)
  PROVE  /\ Vez(w)' /\ aWorker'[w] = <<>> /\ 1 \in DOMAIN aWorker[w]
         /\ aWorker[w][1] \in Asignacion
         /\ en_curso'[w] = aWorker[w][1].query /\ pc_query'[w] = aWorker[w][1].pc
<1>0. /\ Vez(w) /\ aWorker \in [Workers -> Seq(Asignacion)] /\ fase \in [Workers -> Fase]
      /\ en_curso \in [Workers -> Queries \cup {NULL}] /\ pc_query \in [Workers -> Nat]
  BY DEF IVez, TypeOK, CanalesTypeOK, WorkerTypeOK
<1>1. /\ aWorker[w] # <<>> /\ fase'[w] = "ejecutando"
      /\ aWorker'[w] = Tail(aWorker[w])
      /\ en_curso'[w] = Head(aWorker[w]).query /\ pc_query'[w] = Head(aWorker[w]).pc
      /\ UNCHANGED aMaster
  BY <1>0 DEF esperandoQuery, pasaA
<1>2. 1 \in DOMAIN aWorker[w] /\ Head(aWorker[w]) = aWorker[w][1] /\ aWorker[w][1] \in Asignacion
  BY <1>0, <1>1
<1>3. aWorker[w][1].query \in Queries
  BY <1>2 DEF Asignacion
<1>4. aWorker'[w] = <<>>
  <2>1. \A i \in DOMAIN Tail(aWorker[w]) : i \in Nat \ {0} /\ i + 1 \in DOMAIN aWorker[w]
    BY <1>0, <1>1
  <2>2. DOMAIN Tail(aWorker[w]) = {}
    BY <1>0, <2>1 DEF Vez, UnaVez
  <2> QED BY <1>0, <1>1, <2>2
<1>5. ~ HayTipo(aMaster[w], DelTurno) /\ ~ HayTipo(aMaster[w], Fines)
  BY <1>0, <1>1, SinMensajes DEF Vez, UnaVez
<1>6. UnaVez(w)'
  BY <1>0, <1>1, <1>2, <1>3, <1>4, <1>5 DEF Vez, UnaVez
<1>7. Inactivo(w)'
  BY <1>0, <1>1 DEF DelMaster, Vez, Inactivo, SinVez
<1>8. Propia(w)'
  BY <1>0, <1>1, <1>2, <1>4 DEF DelMaster, Vez, Propia
<1> QED BY <1>1, <1>2, <1>4, <1>6, <1>7, <1>8 DEF Vez

\* What an instruction sends: news of its query that end no turn.
LEMMA ExecuteEnvia ==
  ASSUME TypeOK, NEW w \in Workers, Execute(w)
  PROVE  /\ fase[w] = "ejecutando" /\ fase'[w] = "checkeando"
         /\ UNCHANGED <<altas, aWorker, en_curso>>
         /\ \E t \in Seq(Respuesta) :
              /\ aMaster'[w] = aMaster[w] \o t
              /\ \A i \in DOMAIN t : t[i].tipo \notin Fines /\ t[i].query = en_curso[w]
         /\ \A v \in Workers : v # w => aMaster'[v] = aMaster[v] /\ fase'[v] = fase[v]
<1>0. /\ fase[w] = "ejecutando" /\ fase' = [fase EXCEPT ![w] = "checkeando"]
      /\ UNCHANGED <<altas, aWorker, en_curso>>
      /\ fase \in [Workers -> Fase]
  BY DEF Execute, pasaA, otrosCanales, TypeOK, WorkerTypeOK
<1>1. \E tipos \in Seq(TipoRespuesta) :
        responder(w, tipos) /\ \A i \in DOMAIN tipos : tipos[i] \notin Fines
  <2>1. /\ <<>> \in Seq(TipoRespuesta) /\ <<"LEER">> \in Seq(TipoRespuesta)
        /\ <<"ERROR">> \in Seq(TipoRespuesta) /\ <<"FINALIZAR">> \in Seq(TipoRespuesta)
        /\ <<"ERROR", "ERROR">> \in Seq(TipoRespuesta)
    BY DEF TipoRespuesta
  <2>2. /\ \A i \in DOMAIN <<>> : <<>>[i] \notin Fines
        /\ \A i \in DOMAIN <<"LEER">> : <<"LEER">>[i] \notin Fines
        /\ \A i \in DOMAIN <<"ERROR">> : <<"ERROR">>[i] \notin Fines
        /\ \A i \in DOMAIN <<"FINALIZAR">> : <<"FINALIZAR">>[i] \notin Fines
        /\ \A i \in DOMAIN <<"ERROR", "ERROR">> : <<"ERROR", "ERROR">>[i] \notin Fines
    BY DEF Fines
  <2>3. \/ responder(w, <<>>) \/ responder(w, <<"LEER">>) \/ responder(w, <<"ERROR">>)
        \/ responder(w, <<"FINALIZAR">>) \/ responder(w, <<"ERROR", "ERROR">>)
    BY DEF Execute, ejecutarCommit, sigue, finaliza
  <2> QED BY <2>1, <2>2, <2>3
<1>2. PICK tipos \in Seq(TipoRespuesta) :
        responder(w, tipos) /\ \A i \in DOMAIN tipos : tipos[i] \notin Fines
  BY <1>1
<1>3. PICK t \in Seq(Respuesta) :
        /\ aMaster'[w] = aMaster[w] \o t
        /\ DOMAIN t = DOMAIN tipos
        /\ \A i \in DOMAIN t : /\ t[i].tipo = tipos[i] /\ t[i].query = en_curso[w]
                               /\ t[i].pc = pc_query[w]
        /\ \A v \in Workers : v # w => aMaster'[v] = aMaster[v]
  BY <1>2, responderDe
<1>4. \A i \in DOMAIN t : t[i].tipo \notin Fines /\ t[i].query = en_curso[w]
  BY <1>2, <1>3
<1> QED BY <1>0, <1>3, <1>4

\* What ends a turn: one message of Fines, after an ERROR at most.
LEMMA gestionarEnvia ==
  ASSUME TypeOK, NEW w \in Workers, gestionarCheckInterrupt(w)
  PROVE  /\ fase[w] = "gestionando" /\ fase'[w] = "limpiando"
         /\ UNCHANGED <<altas, aWorker, en_curso>>
         /\ \E t \in Seq(Respuesta) :
              /\ aMaster'[w] = aMaster[w] \o t /\ Cerrada(t)
              /\ \A i \in DOMAIN t : t[i].query = en_curso[w] /\ t[i].pc = pc_query[w]
         /\ \A v \in Workers : v # w => aMaster'[v] = aMaster[v] /\ fase'[v] = fase[v]
<1>0. /\ fase[w] = "gestionando" /\ fase' = [fase EXCEPT ![w] = "limpiando"]
      /\ UNCHANGED <<altas, aWorker, en_curso>>
      /\ fase \in [Workers -> Fase]
  BY DEF gestionarCheckInterrupt, pasaA, otrosCanales, TypeOK, WorkerTypeOK
<1>1. \E tipos \in Seq(TipoRespuesta) :
        /\ responder(w, tipos)
        /\ \A i, j \in DOMAIN tipos : i < j => tipos[i] = "ERROR"
  <2>1. finDesalojo(w) \in TipoRespuesta /\ "ERROR" \in TipoRespuesta
        /\ "FIN_CICLO" \in TipoRespuesta
    BY DEF finDesalojo, TipoRespuesta
  <2>2. /\ <<"FIN_CICLO">> \in Seq(TipoRespuesta) /\ <<finDesalojo(w)>> \in Seq(TipoRespuesta)
        /\ <<"ERROR", finDesalojo(w)>> \in Seq(TipoRespuesta)
    BY <2>1
  <2>3. /\ \A i, j \in DOMAIN <<"FIN_CICLO">> : i < j => <<"FIN_CICLO">>[i] = "ERROR"
        /\ \A i, j \in DOMAIN <<finDesalojo(w)>> : i < j => <<finDesalojo(w)>>[i] = "ERROR"
        /\ \A i, j \in DOMAIN <<"ERROR", finDesalojo(w)>> :
             i < j => <<"ERROR", finDesalojo(w)>>[i] = "ERROR"
    OBVIOUS
  <2>4. \/ responder(w, <<"FIN_CICLO">>) \/ responder(w, <<finDesalojo(w)>>)
        \/ responder(w, <<"ERROR", finDesalojo(w)>>)
    BY DEF gestionarCheckInterrupt
  <2> QED BY <2>2, <2>3, <2>4
<1>2. PICK tipos \in Seq(TipoRespuesta) :
        /\ responder(w, tipos)
        /\ \A i, j \in DOMAIN tipos : i < j => tipos[i] = "ERROR"
  BY <1>1
<1>3. PICK t \in Seq(Respuesta) :
        /\ aMaster'[w] = aMaster[w] \o t
        /\ DOMAIN t = DOMAIN tipos
        /\ \A i \in DOMAIN t : /\ t[i].tipo = tipos[i] /\ t[i].query = en_curso[w]
                               /\ t[i].pc = pc_query[w]
        /\ \A v \in Workers : v # w => aMaster'[v] = aMaster[v]
  BY <1>2, responderDe
<1>4. Cerrada(t)
  BY <1>2, <1>3 DEF Cerrada, Fines
<1> QED BY <1>0, <1>3, <1>4

LEMMA whileVez ==
  ASSUME TypeOK, NEW w \in Workers, whileNoDeboMorir(w)
  PROVE  /\ fase'[w] \in {"esperando", "terminado"}
         /\ \E t \in Seq(Respuesta) :
              ~ HayTipo(t, DelTurno) /\ aMaster'[w] = aMaster[w] \o t
         /\ \A v \in Workers : v # w => fase'[v] = fase[v] /\ aMaster'[v] = aMaster[v]
<1> DEFINE m == [tipo |-> "FINALIZAR_WORKER", query |-> en_curso[w], pc |-> pc_query[w]]
<1>0. fase \in [Workers -> Fase] /\ aMaster \in [Workers -> Seq(Respuesta)]
  BY DEF TypeOK, CanalesTypeOK, WorkerTypeOK
<1>1. m \in Respuesta /\ m.tipo = "FINALIZAR_WORKER"
  BY DEF Respuesta, TipoRespuesta, TypeOK, WorkerTypeOK
<1> HIDE DEF m
<1>2. \/ pasaA(w, "terminado") /\ aMaster' = [aMaster EXCEPT ![w] = Append(@, m)]
      \/ pasaA(w, "esperando") /\ UNCHANGED aMaster
  BY DEF whileNoDeboMorir, m
<1>3. <<m>> \in Seq(Respuesta) /\ ~ HayTipo(<<m>>, DelTurno)
  BY <1>1 DEF HayTipo, DelTurno, Fines, DeQuery
<1>4. <<>> \in Seq(Respuesta) /\ ~ HayTipo(<<>>, DelTurno)
  BY DEF HayTipo
<1>5. Append(aMaster[w], m) = aMaster[w] \o <<m>> /\ aMaster[w] = aMaster[w] \o <<>>
  BY <1>0, <1>1
<1> QED BY <1>0, <1>2, <1>3, <1>4, <1>5 DEF pasaA

LEMMA PasoDeWorkerVez ==
  ASSUME IVez, NEW w \in Workers, PasoDeWorker(w)
  PROVE  \A v \in Workers : Vez(v)'
<1>0. /\ UNCHANGED masterVars
      /\ TypeOK /\ \A v \in Workers : Vez(v)
      /\ \/ cicloWorker(w) \/ hiloDesalojo(w) \/ manejador_senial(w) \/ caeWorker(w)
         \/ pierdeMaster(w)
      /\ altas \in [Workers -> SUBSET Handshake]
      /\ aWorker \in [Workers -> Seq(Asignacion)]
      /\ aMaster \in [Workers -> Seq(Respuesta)]
      /\ fase \in [Workers -> Fase] /\ es_error_o_end \in [Workers -> BOOLEAN]
      /\ en_curso \in [Workers -> Queries \cup {NULL}] /\ pc_query \in [Workers -> Nat]
  BY DEF PasoDeWorker, pasoWorker, IVez, TypeOK, CanalesTypeOK, WorkerTypeOK
<1>1. UNCHANGED <<esta_libre, query_actual>>
  BY <1>0 DEF masterVars
<1>2. ASSUME Vez(w)',
             \A v \in Workers : v # w =>
               /\ aWorker'[v] = aWorker[v] /\ aMaster'[v] = aMaster[v]
               /\ altas'[v] = altas[v] /\ fase'[v] = fase[v]
               /\ en_curso'[v] = en_curso[v]
      PROVE  \A v \in Workers : Vez(v)'
  <2> SUFFICES ASSUME NEW v \in Workers, v # w PROVE Vez(v)'
    BY <1>2
  <2> QED BY <1>0, <1>1, <1>2 DEF Vez, UnaVez, Inactivo, SinVez, Propia, enTurno
<1>3. CASE conexionMaster(w)
  <2>1. /\ fase[w] = "inicio" /\ fase' = [fase EXCEPT ![w] = "sleep"]
        /\ altas' = [altas EXCEPT ![w] = @ \cup {"WORKER"}]
        /\ UNCHANGED <<aWorker, aMaster, en_curso>>
    BY <1>3 DEF conexionMaster, pasaA
  <2>2. SinVez(w) /\ ~ esta_libre[w] /\ UnaVez(w) /\ Propia(w)
    BY <1>0, <2>1 DEF Vez, Inactivo
  <2>3. UnaVez(w)' /\ Inactivo(w)' /\ Propia(w)'
    BY <1>0, <1>1, <2>1, <2>2 DEF UnaVez, Inactivo, SinVez, enTurno, Propia
  <2>4. Vez(w)'
    BY <2>3 DEF Vez
  <2> QED BY <1>0, <1>2, <2>1, <2>4
<1>4. CASE conexionMasterDesalojo(w)
  <2>1. /\ fase[w] = "sleep" /\ whileNoDeboMorir(w)
        /\ altas' = [altas EXCEPT ![w] = @ \cup {"WORKER_DESALOJO"}]
        /\ UNCHANGED <<aWorker, en_curso>>
    BY <1>4 DEF conexionMasterDesalojo
  <2>2. DelMaster(w)
    BY <1>0, <1>1, <2>1 DEF DelMaster
  <2>3. Vez(w)'
    BY <1>0, <2>1, <2>2, whileVez, fueraDeVez
  <2> QED BY <1>0, <1>2, <2>1, <2>3, whileVez
<1>5. CASE limpiar(w)
  <2>1. /\ fase[w] = "limpiando" /\ whileNoDeboMorir(w)
        /\ UNCHANGED <<altas, aWorker, en_curso>>
    BY <1>5 DEF limpiar, otrosCanales
  <2>2. DelMaster(w)
    BY <1>1, <2>1 DEF DelMaster
  <2>3. Vez(w)'
    BY <1>0, <2>1, <2>2, whileVez, fueraDeVez
  <2> QED BY <1>0, <1>2, <2>1, <2>3, whileVez
<1>6. CASE esperandoQuery(w)
  <2>1. DelMaster(w)
    BY <1>1, <1>6 DEF esperandoQuery, DelMaster
  <2>2. Vez(w)'
    BY <1>6, <2>1, esperandoVez
  <2> QED BY <1>0, <1>2, <1>6, <2>2 DEF esperandoQuery, pasaA
<1>7. CASE Execute(w)
  <2>1. /\ fase[w] = "ejecutando" /\ fase'[w] = "checkeando"
        /\ UNCHANGED <<altas, aWorker, en_curso>>
        /\ \A v \in Workers : v # w => aMaster'[v] = aMaster[v] /\ fase'[v] = fase[v]
    BY <1>0, <1>7, ExecuteEnvia
  <2>2. PICK t \in Seq(Respuesta) :
          /\ aMaster'[w] = aMaster[w] \o t
          /\ \A i \in DOMAIN t : t[i].tipo \notin Fines /\ t[i].query = en_curso[w]
    BY <1>0, <1>7, ExecuteEnvia
  <2>3. Cerrada(t) /\ ~ HayTipo(t, Fines) /\ DeUna(t, en_curso[w])
    BY <2>2 DEF Cerrada, HayTipo, DeUna
  <2>4. DelMaster(w) /\ enTurno(w)
    BY <1>1, <2>1 DEF DelMaster, enTurno
  <2>5. Vez(w)'
    BY <1>0, <2>1, <2>2, <2>3, <2>4, enSuVez
  <2> QED BY <1>2, <2>1, <2>5
<1>8. CASE checkInterrupt(w)
  <2>1. /\ fase[w] = "checkeando"
        /\ \E f \in {"gestionando", "ejecutando"} : fase' = [fase EXCEPT ![w] = f]
        /\ UNCHANGED <<altas, aWorker, aMaster, en_curso>>
    BY <1>8 DEF checkInterrupt, pasaA, SinEnviar, canales
  <2>2. /\ <<>> \in Seq(Respuesta) /\ Cerrada(<<>>) /\ ~ HayTipo(<<>>, Fines)
        /\ DeUna(<<>>, en_curso[w]) /\ aMaster'[w] = aMaster[w] \o <<>>
    BY <1>0, <2>1 DEF Cerrada, HayTipo, DeUna
  <2>3. DelMaster(w) /\ enTurno(w)
    BY <1>1, <2>1 DEF DelMaster, enTurno
  <2>4. fase'[w] \in {"gestionando", "ejecutando"} /\ en_curso'[w] = en_curso[w]
    BY <1>0, <2>1
  <2>5. Vez(w)'
    BY <1>0, <2>1, <2>2, <2>3, <2>4, enSuVez
  <2> QED BY <1>0, <1>2, <2>1, <2>5
<1>9. CASE gestionarCheckInterrupt(w)
  <2>1. /\ fase[w] = "gestionando" /\ fase'[w] = "limpiando"
        /\ UNCHANGED <<altas, aWorker, en_curso>>
        /\ \A v \in Workers : v # w => aMaster'[v] = aMaster[v] /\ fase'[v] = fase[v]
    BY <1>0, <1>9, gestionarEnvia
  <2>2. PICK t \in Seq(Respuesta) :
          /\ aMaster'[w] = aMaster[w] \o t /\ Cerrada(t)
          /\ \A i \in DOMAIN t : t[i].query = en_curso[w]
    BY <1>0, <1>9, gestionarEnvia
  <2>3. DeUna(t, en_curso[w])
    BY <2>2 DEF DeUna
  <2>4. DelMaster(w) /\ enTurno(w)
    BY <1>1, <2>1 DEF DelMaster, enTurno
  <2>5. Vez(w)'
    BY <1>0, <2>1, <2>2, <2>3, <2>4, enSuVez
  <2> QED BY <1>2, <2>1, <2>5
<1>10. CASE hiloDesalojo(w) \/ manejador_senial(w)
  <2>1. UNCHANGED <<altas, aWorker, aMaster, fase, en_curso>>
    BY <1>10 DEF hiloDesalojo, manejador_senial, canales
  <2>2. Vez(w)'
    BY <1>0, <1>1, <2>1 DEF Vez, UnaVez, Inactivo, SinVez, Propia, enTurno
  <2> QED BY <1>2, <2>1, <2>2
<1>11. CASE caeWorker(w) \/ pierdeMaster(w)
  <2>1. /\ fase[w] # "inicio" /\ fase' = [fase EXCEPT ![w] = "terminado"]
        /\ UNCHANGED <<altas, aWorker, aMaster, en_curso>>
    BY <1>11 DEF caeWorker, pierdeMaster, pasaA, canales
  <2>2. DelMaster(w)
    BY <1>1, <2>1 DEF DelMaster
  <2>3. /\ <<>> \in Seq(Respuesta) /\ ~ HayTipo(<<>>, DelTurno)
        /\ aMaster'[w] = aMaster[w] \o <<>>
    BY <1>0, <2>1 DEF HayTipo
  <2>4. Vez(w)'
    BY <1>0, <2>1, <2>2, <2>3, fueraDeVez
  <2> QED BY <1>0, <1>2, <2>1, <2>4
<1> QED
  BY <1>0, <1>3, <1>4, <1>5, <1>6, <1>7, <1>8, <1>9, <1>10, <1>11 DEF cicloWorker

LEMMA IVezInvariante == Spec => []IVez
<1> DEFINE TodasVez == \A w \in Workers : Vez(w)
<1>1. Init => TodasVez
  BY DEF Init, CanalesInit, MasterInit, WorkerInit, Vez, UnaVez, Inactivo, SinVez,
     Propia, enTurno, HayTipo, Cerrada
<1>2. TypeOK /\ TodasVez /\ [Next]_vars => TodasVez'
  <2> SUFFICES ASSUME IVez, [Next]_vars PROVE \A v \in Workers : Vez(v)'
    BY DEF IVez
  <2>1. CASE PasoDelMaster
    BY <2>1, PasoDelMasterVez
  <2>2. CASE \E w \in Workers : PasoDeWorker(w)
    BY <2>2, PasoDeWorkerVez
  <2>3. ASSUME UNCHANGED <<masterVars, workerVars, altas, aWorker, aMaster>>
        PROVE  \A v \in Workers : Vez(v)'
    <3>1. \A v \in Workers : Igual(v)
      BY <2>3 DEF Igual, masterVars, workerVars
    <3> QED BY <2>3, <3>1, MismaVez DEF IVez
  <2>4. CASE \E q \in Queries : PasoDeQC(q)
    BY <2>3, <2>4 DEF PasoDeQC, pasoQC, cicloQC, registrarQuery,
       gestionarOrdenMaestro, masterCerro, caeQC, canales
  <2>5. CASE UNCHANGED vars
    BY <2>3, <2>5 DEF vars, canales
  <2> QED BY <2>1, <2>2, <2>4, <2>5 DEF Next
<1>3. TypeOK /\ TodasVez => IVez
  BY DEF IVez
<1> HIDE DEF TodasVez
<1> QED BY <1>1, <1>2, <1>3, TipoCorrecto, PTL DEF Spec

\* Atribucion: the handler of a message charges it to the query the worker
\* was running when it sent it, or to none.
THEOREM AtribucionSiempre == Spec => []Atribucion
<1>1. IVez => Atribucion
  <2> SUFFICES ASSUME IVez, NEW w \in Workers, aMaster[w] # <<>>,
                      Head(aMaster[w]).tipo \in DeQuery, query_actual[w] # NULL
               PROVE  Head(aMaster[w]).query = query_actual[w]
    BY DEF Atribucion, DeQuery
  <2>1. 1 \in DOMAIN aMaster[w] /\ Head(aMaster[w]) = aMaster[w][1]
    BY DEF IVez, TypeOK, CanalesTypeOK
  <2> QED BY <2>1 DEF IVez, Vez, Propia, DeUna
<1> QED BY <1>1, IVezInvariante, PTL

-----------------------------------------------------------------------------
(* Where a query resumes.  The pc of a query travels with it: in the        *)
(* message that assigns it, in the loop of main(), in the answer to a       *)
(* preemption and, when no worker has it, in the master.  Only the copy of  *)
(* whoever holds the query counts, and there is one holder.                 *)

\* w has q, or an answer that gives it back.
Lleva(w, q) ==
  \/ \E i \in DOMAIN aWorker[w] : aWorker[w][i].query = q
  \/ enTurno(w) /\ en_curso[w] = q
  \/ \E i \in DOMAIN aMaster[w] : aMaster[w][i].tipo = "NO_FINALICE" /\ aMaster[w][i].query = q

\* The master may yet give q to a worker.
Suelta(q) ==
  \/ q \in ToSet(lista_ready)
  \/ \E w \in Workers : query_pendiente[w] = q
  \/ hilo_query[q] # "gestionada"

AlDia(w) ==
  /\ \A i \in DOMAIN aWorker[w] : aWorker[w][i].pc = ejecutadas[aWorker[w][i].query]
  /\ enTurno(w) => pc_query[w] = ejecutadas[en_curso[w]]
  /\ \A i \in DOMAIN aMaster[w] : aMaster[w][i].tipo = "NO_FINALICE" =>
       aMaster[w][i].query \in Queries /\ aMaster[w][i].pc = ejecutadas[aMaster[w][i].query]

SueltaAlDia(q) == Suelta(q) => pc[q] = ejecutadas[q] /\ \A w \in Workers : ~ Lleva(w, q)

UnDuenio == \A q \in Queries : \A v, w \in Workers : Lleva(v, q) /\ Lleva(w, q) => v = w

Avance ==
  (\A w \in Workers : AlDia(w)) /\ (\A q \in Queries : SueltaAlDia(q)) /\ UnDuenio

\* What a step of the master does with the queries: it reads messages, gives
\* loose queries to workers, and takes back the one a message returns.
Recibe(w) ==
  \A i \in DOMAIN aMaster'[w] : \E j \in DOMAIN aMaster[w] : aMaster'[w][i] = aMaster[w][j]

Toma(w, q) ==
  Suelta(q) /\ query_actual'[w] = q /\ aWorker'[w] = <<[query |-> q, pc |-> pc[q]]>>

Devuelve(w, q) ==
  /\ \E i \in DOMAIN aMaster[w] :
       aMaster[w][i].tipo = "NO_FINALICE" /\ aMaster[w][i].query = q /\ pc'[q] = aMaster[w][i].pc
  /\ ~ Lleva(w, q)'

Mueve ==
  /\ \A w \in Workers : Recibe(w)
  /\ \A w \in Workers : aWorker'[w] = aWorker[w] \/ \E q \in Queries : Toma(w, q)
  /\ \A q \in Queries : Suelta(q)' =>
       (Suelta(q) /\ pc'[q] = pc[q]) \/ \E w \in Workers : Devuelve(w, q)

\* A query that a worker is running once the step is done is loose no more.
LEMMA TomadaNoSuelta ==
  ASSUME IUnaCopia', NEW w \in Workers, NEW q \in Queries, query_actual'[w] = q
  PROVE  /\ ~ Suelta(q)'
         /\ \A v \in Workers : query_actual'[v] = q => v = w
<1>1. q # NULL
  BY NullAssumption
<1>2. q \notin ToSet(lista_ready') /\ \A v \in Workers : query_pendiente'[v] # q
  BY <1>1 DEF IUnaCopia, UnaCopia
<1>3. hilo_query'[q] = "gestionada"
  BY DEF IUnaCopia, Admitidas, Ocupadas
<1>4. \A v \in Workers : query_actual'[v] = q => v = w
  BY <1>1 DEF IUnaCopia, UnaCopia
<1> QED BY <1>2, <1>3, <1>4 DEF Suelta

LEMMA MueveAvance ==
  ASSUME Avance, IUnaCopia', Mueve, UNCHANGED workerVars
  PROVE  Avance'
<1>0. UNCHANGED <<fase, en_curso, pc_query, ejecutadas>>
  BY DEF workerVars
<1>1. ASSUME NEW w \in Workers, NEW q \in Queries, Toma(w, q)
      PROVE  /\ Suelta(q) /\ ~ Suelta(q)' /\ \A v \in Workers : ~ Lleva(v, q)
             /\ pc[q] = ejecutadas[q]
             /\ \A v \in Workers : Toma(v, q) => v = w
  <2>1. Suelta(q) /\ query_actual'[w] = q
    BY <1>1 DEF Toma
  <2>2. ~ Suelta(q)' /\ \A v \in Workers : query_actual'[v] = q => v = w
    BY <2>1, TomadaNoSuelta
  <2> QED BY <2>1, <2>2 DEF Avance, SueltaAlDia, Toma
<1>2. ASSUME NEW w \in Workers PROVE AlDia(w)'
  <2>1. \A i \in DOMAIN aWorker'[w] : aWorker'[w][i].pc = ejecutadas'[aWorker'[w][i].query]
    <3>1. CASE aWorker'[w] = aWorker[w]
      BY <1>0, <3>1 DEF Avance, AlDia
    <3>2. ASSUME NEW q \in Queries, Toma(w, q)
          PROVE  \A i \in DOMAIN aWorker'[w] : aWorker'[w][i].pc = ejecutadas'[aWorker'[w][i].query]
      <4>1. aWorker'[w] = <<[query |-> q, pc |-> pc[q]]>> /\ pc[q] = ejecutadas'[q]
        BY <1>0, <1>1, <3>2 DEF Toma
      <4> QED BY <4>1
    <3> QED BY <3>1, <3>2 DEF Mueve
  <2>2. \A i \in DOMAIN aMaster'[w] : aMaster'[w][i].tipo = "NO_FINALICE" =>
          /\ aMaster'[w][i].query \in Queries
          /\ aMaster'[w][i].pc = ejecutadas'[aMaster'[w][i].query]
    BY <1>0 DEF Avance, AlDia, Mueve, Recibe
  <2>3. enTurno(w)' => pc_query'[w] = ejecutadas'[en_curso'[w]]
    BY <1>0 DEF Avance, AlDia, enTurno
  <2> QED BY <2>1, <2>2, <2>3 DEF AlDia
<1>3. ASSUME NEW w \in Workers, NEW q \in Queries, Lleva(w, q)'
      PROVE  Lleva(w, q) \/ Toma(w, q)
  <2>1. CASE \E i \in DOMAIN aWorker'[w] : aWorker'[w][i].query = q
    <3>1. ASSUME NEW g \in Queries, Toma(w, g) PROVE g = q
      <4>1. aWorker'[w] = <<[query |-> g, pc |-> pc[g]]>>
        BY <3>1 DEF Toma
      <4> QED BY <2>1, <4>1
    <3> QED BY <2>1, <3>1 DEF Mueve, Lleva
  <2>2. CASE enTurno(w)' /\ en_curso'[w] = q
    BY <1>0, <2>2 DEF Lleva, enTurno
  <2>3. CASE \E i \in DOMAIN aMaster'[w] :
               aMaster'[w][i].tipo = "NO_FINALICE" /\ aMaster'[w][i].query = q
    BY <2>3 DEF Mueve, Recibe, Lleva
  <2> QED BY <1>3, <2>1, <2>2, <2>3 DEF Lleva
<1>4. ASSUME NEW q \in Queries, Suelta(q)'
      PROVE  pc'[q] = ejecutadas'[q] /\ \A w \in Workers : ~ Lleva(w, q)'
  <2>1. CASE Suelta(q) /\ pc'[q] = pc[q]
    BY <1>0, <1>1, <1>3, <1>4, <2>1 DEF Avance, SueltaAlDia
  <2>2. ASSUME NEW v \in Workers, Devuelve(v, q)
        PROVE  pc'[q] = ejecutadas'[q] /\ \A w \in Workers : ~ Lleva(w, q)'
    <3>1. Lleva(v, q) /\ pc'[q] = ejecutadas[q] /\ ~ Lleva(v, q)'
      BY <2>2 DEF Devuelve, Lleva, Avance, AlDia
    <3> QED BY <1>0, <1>1, <1>3, <3>1 DEF Avance, UnDuenio
  <2> QED BY <1>4, <2>1, <2>2 DEF Mueve
<1>5. UnDuenio'
  BY <1>1, <1>3 DEF Avance, UnDuenio
<1> QED BY <1>2, <1>4, <1>5 DEF Avance, SueltaAlDia

\* The queries the master's structures offer after a step were offered before.
MismasSueltas ==
  \A q \in Queries :
    q \in ToSet(lista_ready') \/ (\E w \in Workers : query_pendiente'[w] = q) =>
      q \in ToSet(lista_ready) \/ \E w \in Workers : query_pendiente[w] = q

LEMMA MueveSinMensajes ==
  ASSUME MismasSueltas, UNCHANGED <<pc, hilo_query>>, \A w \in Workers : Recibe(w),
         \A w \in Workers : aWorker'[w] = aWorker[w] \/ \E q \in Queries : Toma(w, q)
  PROVE  Mueve
BY DEF MismasSueltas, Mueve, Suelta

LEMMA asignarMueve ==
  ASSUME TypeOK, NEW w \in Workers, NEW q \in Queries, Suelta(q), asignarQueryAWorker(w, q),
         aWorker[w] = <<>>
  PROVE  \A v \in Workers : aWorker'[v] = aWorker[v] \/ \E g \in Queries : Toma(v, g)
<1>1. /\ aWorker'[w] = <<[query |-> q, pc |-> pc[q]]>> /\ query_actual'[w] = q
      /\ \A v \in Workers : v # w => aWorker'[v] = aWorker[v]
  BY DEF asignarQueryAWorker, TypeOK, CanalesTypeOK, MasterTypeOK
<1> QED BY <1>1 DEF Toma

LEMMA enviarPorWorkerMueve ==
  ASSUME TypeOK, NEW w \in Workers, intentarEnviarPorWorker(w), aWorker[w] = <<>>
  PROVE  /\ MismasSueltas
         /\ \A v \in Workers : aWorker'[v] = aWorker[v] \/ \E g \in Queries : Toma(v, g)
<1>0. /\ lista_ready \in Seq(Queries)
      /\ query_pendiente \in [Workers -> Queries \cup {NULL}]
  BY DEF TypeOK, MasterTypeOK
<1>1. CASE lista_ready # <<>>
  <2>1. PICK r \in ParaDespachar(lista_ready) :
          lista_ready' = Tail(r) /\ asignarQueryAWorker(w, Head(r))
    BY <1>1 DEF intentarEnviarPorWorker
  <2>2. r \in Seq(Queries) /\ r # <<>> /\ ToSet(r) = ToSet(lista_ready)
    BY <1>0, <1>1, ReadyOrdenada
  <2>3. Head(r) \in Queries /\ Head(r) \in ToSet(r) /\ ToSet(Tail(r)) \subseteq ToSet(r)
    BY <2>2, SacarPrimero
  <2>4. Suelta(Head(r))
    BY <2>2, <2>3 DEF Suelta
  <2>5. UNCHANGED query_pendiente
    BY <1>1 DEF intentarEnviarPorWorker
  <2> QED BY <2>1, <2>2, <2>3, <2>4, <2>5, asignarMueve DEF MismasSueltas
<1>2. CASE lista_ready = <<>>
  <2>1. /\ query_pendiente' = [query_pendiente EXCEPT ![w] = NULL]
        /\ UNCHANGED <<lista_ready, aWorker>>
    BY <1>2 DEF intentarEnviarPorWorker
  <2>2. \A q \in Queries : q # NULL
    BY NullAssumption
  <2> QED BY <1>0, <2>1, <2>2 DEF MismasSueltas
<1> QED BY <1>1, <1>2

LEMMA desalojarMueve ==
  ASSUME TypeOK, NEW q, NEW r \in Seq(Queries), r # <<>>, NEW p, intentarDesalojar(q, r, p)
  PROVE  \A x \in Queries :
           x \in ToSet(lista_ready') \/ (\E w \in Workers : query_pendiente'[w] = x) =>
             x \in ToSet(r) \/ \E w \in Workers : query_pendiente[w] = x
<1>0. query_pendiente \in [Workers -> Queries \cup {NULL}]
  BY DEF TypeOK, MasterTypeOK
<1>1. ASSUME NEW w, lista_ready' = Tail(r),
             query_pendiente' = [query_pendiente EXCEPT ![w] = Head(r)]
      PROVE  \A x \in Queries :
               x \in ToSet(lista_ready') \/ (\E v \in Workers : query_pendiente'[v] = x) =>
                 x \in ToSet(r) \/ \E v \in Workers : query_pendiente[v] = x
  <2>1. Head(r) \in ToSet(r) /\ ToSet(Tail(r)) \subseteq ToSet(r)
    BY SacarPrimero
  <2> QED BY <1>0, <1>1, <2>1
<1>2. CASE lista_ready' = r /\ UNCHANGED query_pendiente
  BY <1>2
<1> QED BY <1>1, <1>2 DEF intentarDesalojar, realizarDesalojo, SinDesalojar

LEMMA gestionarQueryMueve ==
  ASSUME IVez, NEW q \in Queries, gestionarQueryIndividual(q)
  PROVE  Mueve
<1>0. /\ TypeOK /\ UNCHANGED <<aMaster, pc>> /\ hilo_query[q] # "gestionada"
      /\ hilo_query' = [hilo_query EXCEPT ![q] = "gestionada"]
      /\ lista_ready \in Seq(Queries)
      /\ hilo_query \in [Queries -> {"no", "creando", "creada", "gestionada"}]
  BY DEF IVez, TypeOK, MasterTypeOK, gestionarQueryIndividual, queryStruct
<1>1. Suelta(q) /\ \A x \in Queries : x \in ToSet(lista_ready) => Suelta(x)
  BY <1>0 DEF Suelta
<1>2. ASSUME NEW w \in WorkerLibre, NEW g \in Queries, Suelta(g), asignarQueryAWorker(w, g)
      PROVE  \A v \in Workers : aWorker'[v] = aWorker[v] \/ \E x \in Queries : Toma(v, x)
  <2>1. w \in Workers /\ esta_libre[w]
    BY <1>0, <1>2, Elegidos DEF TypeOK, WorkerLibre
  <2>2. aWorker[w] = <<>>
    BY <2>1 DEF IVez, Vez, Inactivo, SinVez
  <2> QED BY <1>0, <1>2, <2>1, <2>2, asignarMueve
<1>3. /\ ToSet(Append(lista_ready, q)) = ToSet(lista_ready) \cup {q}
      /\ Append(lista_ready, q) \in Seq(Queries) /\ Append(lista_ready, q) # <<>>
  BY <1>0, AgregarAlFinal
<1>4. /\ \A v \in Workers : aWorker'[v] = aWorker[v] \/ \E x \in Queries : Toma(v, x)
      /\ \A x \in Queries :
           x \in ToSet(lista_ready') \/ (\E w \in Workers : query_pendiente'[w] = x) =>
             x \in ToSet(Append(lista_ready, q)) \/ \E w \in Workers : query_pendiente[w] = x
  <2>1. CASE entrarFIFO(q)
    BY <1>1, <1>2, <1>3, <2>1 DEF entrarFIFO, SinAsignar, SinDesalojar
  <2>2. CASE entrarPrioridades(q)
    <3>1. PICK r \in Ordenaciones(Append(lista_ready, q), prioridad) :
            \/ lista_ready' = r /\ SinAsignar /\ SinDesalojar
            \/ /\ \E w \in WorkerLibre : asignarQueryAWorker(w, Head(r))
               /\ lista_ready' = Tail(r) /\ SinDesalojar
            \/ intentarDesalojar(q, r, prioridad) /\ SinAsignar
      BY <2>2 DEF entrarPrioridades
    <3>2. r \in Seq(Queries) /\ r # <<>> /\ ToSet(r) = ToSet(Append(lista_ready, q))
      BY <1>3, Ordenar
    <3>3. Head(r) \in Queries /\ Head(r) \in ToSet(r) /\ ToSet(Tail(r)) \subseteq ToSet(r)
      BY <3>2, SacarPrimero
    <3>4. Suelta(Head(r))
      BY <1>1, <1>3, <3>2, <3>3
    <3>5. CASE lista_ready' = r /\ SinAsignar /\ SinDesalojar
      BY <3>2, <3>5 DEF SinAsignar, SinDesalojar
    <3>6. CASE /\ \E w \in WorkerLibre : asignarQueryAWorker(w, Head(r))
               /\ lista_ready' = Tail(r) /\ SinDesalojar
      BY <1>2, <3>2, <3>3, <3>4, <3>6 DEF SinDesalojar
    <3>7. CASE intentarDesalojar(q, r, prioridad) /\ SinAsignar
      <4>1. \A v \in Workers : aWorker'[v] = aWorker[v]
        BY <3>7 DEF SinAsignar
      <4>2. \A x \in Queries :
              x \in ToSet(lista_ready') \/ (\E w \in Workers : query_pendiente'[w] = x) =>
                x \in ToSet(r) \/ \E w \in Workers : query_pendiente[w] = x
        BY <1>0, <3>2, <3>7, desalojarMueve
      <4> QED BY <3>2, <4>1, <4>2
    <3> QED BY <3>1, <3>5, <3>6, <3>7
  <2> QED BY <2>1, <2>2 DEF gestionarQueryIndividual
<1>5. \A x \in Queries : Suelta(x)' => Suelta(x)
  BY <1>0, <1>1, <1>3, <1>4 DEF Suelta
<1>6. \A w \in Workers : Recibe(w)
  BY <1>0 DEF Recibe
<1> QED BY <1>0, <1>4, <1>5, <1>6 DEF Mueve

LEMMA RecibeLeyendo ==
  ASSUME TypeOK, NEW w \in Workers, aMaster[w] # <<>>,
         aMaster' = [aMaster EXCEPT ![w] = Tail(@)]
  PROVE  \A v \in Workers : Recibe(v)
<1>1. /\ aMaster[w] \in Seq(Respuesta) /\ aMaster'[w] = Tail(aMaster[w])
      /\ \A v \in Workers : v # w => aMaster'[v] = aMaster[v]
  BY DEF TypeOK, CanalesTypeOK
<1>2. \A i \in DOMAIN Tail(aMaster[w]) :
        i + 1 \in DOMAIN aMaster[w] /\ Tail(aMaster[w])[i] = aMaster[w][i + 1]
  BY <1>1
<1> QED BY <1>1, <1>2 DEF Recibe

LEMMA quitarMueve ==
  ASSUME TypeOK, NEW w \in Workers, quitarWorker(w)
  PROVE  MismasSueltas
<1>0. /\ lista_ready \in Seq(Queries)
      /\ query_pendiente \in [Workers -> Queries \cup {NULL}]
      /\ \A q \in Queries : q # NULL
  BY NullAssumption DEF TypeOK, MasterTypeOK
<1>1. /\ lista_ready' = IF query_pendiente[w] = NULL THEN lista_ready
                        ELSE Append(lista_ready, query_pendiente[w])
      /\ query_pendiente' = [query_pendiente EXCEPT ![w] = NULL]
  BY DEF quitarWorker
<1>2. CASE query_pendiente[w] = NULL
  BY <1>0, <1>1, <1>2 DEF MismasSueltas
<1>3. CASE query_pendiente[w] # NULL
  <2>1. query_pendiente[w] \in Queries
    BY <1>0, <1>3
  <2>2. ToSet(lista_ready') = ToSet(lista_ready) \cup {query_pendiente[w]}
    BY <1>0, <1>1, <1>3, <2>1, AgregarAlFinal
  <2> QED BY <1>0, <1>1, <2>1, <2>2 DEF MismasSueltas
<1> QED BY <1>2, <1>3

\* The answer to a preemption gives back the query of the turn, and the
\* worker gets another one.
LEMMA atenderDesalojarMueve ==
  ASSUME IVez, IUnaCopia, NEW w \in Workers, atenderDesalojar(w), UNCHANGED workerVars
  PROVE  Mueve
<1> DEFINE e == query_pendiente[w]
<1>0. /\ TypeOK /\ Vez(w) /\ UNCHANGED <<fase, en_curso>>
      /\ aMaster \in [Workers -> Seq(Respuesta)] /\ aWorker \in [Workers -> Seq(Asignacion)]
      /\ lista_ready \in Seq(Queries) /\ pc \in [Queries -> Nat]
      /\ query_actual \in [Workers -> Queries \cup {NULL}]
      /\ query_pendiente \in [Workers -> Queries \cup {NULL}]
  BY DEF IVez, TypeOK, CanalesTypeOK, MasterTypeOK, workerVars
<1>1. /\ aMaster[w] # <<>> /\ Head(aMaster[w]).tipo \in Fines
      /\ aMaster' = [aMaster EXCEPT ![w] = Tail(@)]
      /\ asignarQueryAWorker(w, e) /\ e # NULL
      /\ query_pendiente' = [query_pendiente EXCEPT ![w] = NULL]
      /\ UNCHANGED hilo_query
  BY DEF atenderDesalojar, atiende, recibirMensajito, Fines, hilosDeQuery
<1>2. e \in Queries /\ Suelta(e)
  BY <1>0, <1>1 DEF Suelta
<1>3. /\ HayTipo(aMaster[w], Fines) /\ ~ HayTipo(aMaster'[w], DelTurno)
      /\ HayTipo(aMaster[w], DelTurno) /\ aMaster'[w] = Tail(aMaster[w])
  <2>1. HayTipo(aMaster[w], Fines) /\ ~ HayTipo(Tail(aMaster[w]), DelTurno)
    BY <1>0, <1>1, ColaLeida DEF Vez, UnaVez
  <2> QED BY <1>0, <1>1, <2>1 DEF HayTipo, DelTurno
<1>4. aWorker[w] = <<>> /\ ~ enTurno(w)
  BY <1>0, <1>3 DEF Vez, UnaVez
<1>5. \A v \in Workers : aWorker'[v] = aWorker[v] \/ \E g \in Queries : Toma(v, g)
  BY <1>0, <1>1, <1>2, <1>4, asignarMueve
<1>6. \A v \in Workers : Recibe(v)
  BY <1>0, <1>1, RecibeLeyendo
<1>7. CASE UNCHANGED <<pc, lista_ready>>
  <2>1. MismasSueltas
    BY <1>0, <1>1, <1>7, NullAssumption DEF MismasSueltas
  <2> QED BY <1>1, <1>5, <1>6, <1>7, <2>1, MueveSinMensajes
<1>8. ASSUME NEW d \in Queries, query_actual[w] = d,
             Head(aMaster[w]).tipo = "NO_FINALICE",
             pc' = [pc EXCEPT ![d] = Head(aMaster[w]).pc],
             lista_ready' = Append(lista_ready, d)
      PROVE  Mueve
  <2>0. d # NULL
    BY NullAssumption
  <2>1. ToSet(lista_ready') = ToSet(lista_ready) \cup {d}
    BY <1>0, <1>8, AgregarAlFinal
  <2>2. /\ 1 \in DOMAIN aMaster[w] /\ Head(aMaster[w]) = aMaster[w][1]
        /\ aMaster[w][1].query = d
    BY <1>0, <1>1, <1>8, <2>0 DEF Vez, Propia, DeUna, DeQuery
  <2>3. d # e
    BY <1>8, <2>0 DEF IUnaCopia, UnaCopia
  <2>4. aWorker'[w] = <<[query |-> e, pc |-> pc[e]]>>
    BY <1>0, <1>1, <1>4 DEF asignarQueryAWorker
  <2>5. \A i \in DOMAIN aWorker'[w] : aWorker'[w][i].query = e
    BY <2>4
  <2>6. \A i \in DOMAIN aMaster'[w] : aMaster'[w][i].tipo # "NO_FINALICE"
    BY <1>3 DEF HayTipo, DelTurno, Fines
  <2>7. ~ Lleva(w, d)'
    BY <1>0, <1>4, <2>3, <2>5, <2>6 DEF Lleva, enTurno
  <2>8. Devuelve(w, d)
    BY <1>0, <1>8, <2>2, <2>7 DEF Devuelve
  <2>9. ASSUME NEW q \in Queries, Suelta(q)'
        PROVE  (Suelta(q) /\ pc'[q] = pc[q]) \/ Devuelve(w, q)
    <3>1. CASE q = d
      BY <2>8, <3>1
    <3>2. CASE q # d
      <4>1. pc'[q] = pc[q]
        BY <1>0, <1>8, <3>2
      <4>2. q # NULL
        BY NullAssumption
      <4>3. Suelta(q)
        BY <1>0, <1>1, <2>1, <2>9, <3>2, <4>2 DEF Suelta
      <4> QED BY <4>1, <4>3
    <3> QED BY <3>1, <3>2
  <2> QED BY <1>5, <1>6, <2>9 DEF Mueve
<1>9. query_actual[w] # NULL => query_actual[w] \in Queries
  BY <1>0
<1> QED BY <1>7, <1>8, <1>9 DEF atenderDesalojar

LEMMA hiloDelWorkerMueve ==
  ASSUME IVez, IUnaCopia, NEW w \in Workers, hiloDelWorker(w), UNCHANGED workerVars
  PROVE  Mueve
<1>0. /\ TypeOK /\ Vez(w)
      /\ aMaster \in [Workers -> Seq(Respuesta)] /\ aWorker \in [Workers -> Seq(Asignacion)]
  BY DEF IVez, TypeOK, CanalesTypeOK
<1>1. CASE gestionarWorkerIndividual(w)
  <2>1. /\ "WORKER" \in altas[w] /\ UNCHANGED <<aMaster, pc, hilo_query>>
        /\ intentarEnviarPorWorker(w)
    BY <1>1 DEF gestionarWorkerIndividual, queryStruct, hilosDeQuery
  <2>2. aWorker[w] = <<>>
    BY <1>0, <2>1 DEF Vez, Inactivo, SinVez
  <2>3. \A v \in Workers : Recibe(v)
    BY <2>1 DEF Recibe
  <2> QED BY <1>0, <2>1, <2>2, <2>3, enviarPorWorkerMueve, MueveSinMensajes
<1>2. CASE atenderFinCiclo(w)
  <2>1. /\ aMaster[w] # <<>> /\ Head(aMaster[w]).tipo \in Fines
        /\ aMaster' = [aMaster EXCEPT ![w] = Tail(@)]
        /\ UNCHANGED <<pc, hilo_query>> /\ intentarEnviarPorWorker(w)
    BY <1>2 DEF atenderFinCiclo, atiende, recibirMensajito, Fines, queryStruct, hilosDeQuery
  <2>2. HayTipo(aMaster[w], DelTurno)
    BY <1>0, <2>1, ColaLeida DEF Vez, UnaVez, HayTipo, DelTurno
  <2>3. aWorker[w] = <<>>
    BY <1>0, <2>2 DEF Vez, UnaVez
  <2>4. \A v \in Workers : Recibe(v)
    BY <1>0, <2>1, RecibeLeyendo
  <2> QED BY <1>0, <2>1, <2>3, <2>4, enviarPorWorkerMueve, MueveSinMensajes
<1>3. CASE atenderDesalojar(w)
  BY <1>3, atenderDesalojarMueve
<1>4. CASE \/ atenderLeer(w) \/ atenderFinalizar(w) \/ queryActualNula(w)
           \/ queryPendienteNula(w)
  <2>1. /\ aMaster[w] # <<>> /\ aMaster' = [aMaster EXCEPT ![w] = Tail(@)]
        /\ UNCHANGED <<aWorker, lista_ready, query_pendiente, pc, hilo_query>>
    BY <1>4 DEF atenderLeer, atenderFinalizar, queryActualNula, queryPendienteNula,
       atiende, recibirMensajito, masterVars, queryStruct, hilosDeQuery
  <2>2. MismasSueltas
    BY <2>1 DEF MismasSueltas
  <2>3. \A v \in Workers : Recibe(v)
    BY <1>0, <2>1, RecibeLeyendo
  <2> QED BY <2>1, <2>2, <2>3, MueveSinMensajes
<1>5. CASE atenderFinalizarWorker(w)
  <2>1. /\ aMaster[w] # <<>> /\ aMaster' = [aMaster EXCEPT ![w] = Tail(@)]
        /\ UNCHANGED <<aWorker, pc, hilo_query>> /\ quitarWorker(w)
    BY <1>5 DEF atenderFinalizarWorker, atiende, recibirMensajito, queryStruct, hilosDeQuery
  <2>2. \A v \in Workers : Recibe(v)
    BY <1>0, <2>1, RecibeLeyendo
  <2> QED BY <1>0, <2>1, <2>2, quitarMueve, MueveSinMensajes
<1>6. CASE desconexionWorker(w)
  <2>1. UNCHANGED <<aWorker, aMaster, pc, hilo_query>> /\ quitarWorker(w)
    BY <1>6 DEF desconexionWorker, queryStruct, hilosDeQuery
  <2>2. \A v \in Workers : Recibe(v)
    BY <2>1 DEF Recibe
  <2> QED BY <1>0, <2>1, <2>2, quitarMueve, MueveSinMensajes
<1>7. CASE workerLiberado(w)
  <2>1. UNCHANGED <<aWorker, aMaster, lista_ready, query_pendiente, pc, hilo_query>>
    BY <1>7 DEF workerLiberado, canales, masterVars
  <2>2. MismasSueltas /\ \A v \in Workers : Recibe(v)
    BY <2>1 DEF MismasSueltas, Recibe
  <2> QED BY <2>1, <2>2, MueveSinMensajes
<1> QED BY <1>1, <1>2, <1>3, <1>4, <1>5, <1>6, <1>7 DEF hiloDelWorker

LEMMA PasoDelMasterMueve ==
  ASSUME IVez, IUnaCopia, PasoDelMaster
  PROVE  Mueve /\ UNCHANGED workerVars
<1>0. UNCHANGED workerVars /\ TypeOK
  BY DEF PasoDelMaster, pasoMaster, IVez
<1>1. ASSUME UNCHANGED <<aWorker, aMaster, pc>>,
             \A q \in Queries : Suelta(q)' => Suelta(q)
      PROVE  Mueve
  BY <1>1 DEF Mueve, Recibe
<1>2. ASSUME NEW q \in Queries, hiloDelQuery(q) PROVE Mueve
  <2>1. CASE crearQuery(q)
    <3>1. /\ hilo_query[q] = "no"
          /\ UNCHANGED <<aWorker, aMaster, pc, lista_ready, query_pendiente>>
          /\ hilo_query' = [hilo_query EXCEPT ![q] = "creando"]
      BY <2>1 DEF crearQuery, workerStruct, IUnaCopia, PedidosNuevos
    <3>2. \A x \in Queries : Suelta(x)' => Suelta(x)
      BY <1>0, <3>1 DEF Suelta, TypeOK, MasterTypeOK
    <3> QED BY <1>1, <3>1, <3>2
  <2>2. CASE incrementarQuid(q)
    <3>1. /\ hilo_query[q] = "creando"
          /\ UNCHANGED <<aWorker, aMaster, pc, lista_ready, query_pendiente>>
          /\ hilo_query' = [hilo_query EXCEPT ![q] = "creada"]
      BY <2>2 DEF incrementarQuid, workerStruct, queryStruct, canales
    <3>2. \A x \in Queries : Suelta(x)' => Suelta(x)
      BY <1>0, <3>1 DEF Suelta, TypeOK, MasterTypeOK
    <3> QED BY <1>1, <3>1, <3>2
  <2>3. CASE gestionarQueryIndividual(q)
    BY <2>3, gestionarQueryMueve
  <2> QED BY <1>2, <2>1, <2>2, <2>3 DEF hiloDelQuery
<1>3. ASSUME NEW q \in Queries, hiloDeAging(q) PROVE Mueve
  <2>0. UNCHANGED <<aWorker, aMaster, pc, hilo_query>> /\ lista_ready \in Seq(Queries)
    BY <1>0, <1>3 DEF hiloDeAging, realizarAgingIndividual, hilosDeQuery, TypeOK, MasterTypeOK
  <2>1. CASE UNCHANGED <<lista_ready, query_pendiente>>
    BY <1>1, <2>0, <2>1 DEF Suelta
  <2>2. ASSUME NEW g \in EnReady(q), NEW r \in Ordenaciones(lista_ready, prioridad'),
               \/ intentarDesalojar(g, r, prioridad')
               \/ lista_ready' = r /\ UNCHANGED query_pendiente
        PROVE  Mueve
    <3>1. lista_ready # <<>>
      BY <2>2 DEF EnReady
    <3>2. r \in Seq(Queries) /\ r # <<>> /\ ToSet(r) = ToSet(lista_ready)
      BY <2>0, <3>1, Ordenar
    <3>3. \A x \in Queries :
            x \in ToSet(lista_ready') \/ (\E v \in Workers : query_pendiente'[v] = x) =>
              x \in ToSet(lista_ready) \/ \E v \in Workers : query_pendiente[v] = x
      BY <1>0, <2>2, <3>2, desalojarMueve
    <3>4. \A x \in Queries : Suelta(x)' => Suelta(x)
      BY <2>0, <3>3 DEF Suelta
    <3> QED BY <1>1, <2>0, <3>4
  <2> QED BY <1>3, <2>1, <2>2 DEF hiloDeAging, realizarAgingIndividual
<1>4. ASSUME NEW w \in Workers, hiloDelWorker(w) PROVE Mueve
  BY <1>0, <1>4, hiloDelWorkerMueve
<1>5. ASSUME NEW w \in Workers, hiloDesalojoDelWorker(w) PROVE Mueve
  <2>1. UNCHANGED <<aWorker, aMaster, pc, lista_ready, query_pendiente, hilo_query>>
    BY <1>5 DEF hiloDesalojoDelWorker, recibirIdWorkerDesalojo, workerStruct, queryStruct,
       hilosDeQuery
  <2> QED BY <1>1, <2>1 DEF Suelta
<1> QED BY <1>0, <1>2, <1>3, <1>4, <1>5 DEF PasoDelMaster, pasoMaster, MasterNext

-----------------------------------------------------------------------------
(* Where a query resumes: the worker.                                      *)

\* The other workers, and the master, keep what they had.
SoloDe(w) ==
  /\ \A v \in Workers : v # w =>
       /\ aWorker'[v] = aWorker[v] /\ aMaster'[v] = aMaster[v] /\ fase'[v] = fase[v]
       /\ en_curso'[v] = en_curso[v] /\ pc_query'[v] = pc_query[v]
  /\ UNCHANGED masterVars

LEMMA LocalAvance ==
  ASSUME Avance, NEW w \in Workers, SoloDe(w), AlDia(w)', UNCHANGED ejecutadas,
         \A q \in Queries : Lleva(w, q)' => Lleva(w, q)
  PROVE  Avance'
<1>1. ASSUME NEW v \in Workers, v # w
      PROVE  /\ AlDia(v)' /\ \A q \in Queries : Lleva(v, q)' <=> Lleva(v, q)
  <2>1. /\ aWorker'[v] = aWorker[v] /\ aMaster'[v] = aMaster[v] /\ fase'[v] = fase[v]
        /\ en_curso'[v] = en_curso[v] /\ pc_query'[v] = pc_query[v]
    BY <1>1 DEF SoloDe
  <2>2. AlDia(v)'
    BY <2>1 DEF Avance, AlDia, enTurno
  <2> QED BY <2>1, <2>2 DEF Lleva, enTurno
<1>2. \A v \in Workers : \A q \in Queries : Lleva(v, q)' => Lleva(v, q)
  BY <1>1
<1>3. \A q \in Queries : Suelta(q)' => Suelta(q)
  BY DEF SoloDe, masterVars, Suelta
<1>4. UNCHANGED pc
  BY DEF SoloDe, masterVars
<1>5. \A q \in Queries : SueltaAlDia(q)'
  BY <1>2, <1>3, <1>4 DEF Avance, SueltaAlDia
<1>6. UnDuenio'
  BY <1>2 DEF Avance, UnDuenio
<1> QED BY <1>1, <1>5, <1>6 DEF Avance

\* A worker out of its turn, or at the end of it, sends t.
LEMMA callaAvance ==
  ASSUME IVez, Avance, NEW w \in Workers, SoloDe(w),
         UNCHANGED <<aWorker, en_curso, pc_query, ejecutadas>>,
         enTurno(w)' => enTurno(w),
         NEW t \in Seq(Respuesta), aMaster'[w] = aMaster[w] \o t,
         \A i \in DOMAIN t : t[i].tipo = "NO_FINALICE" =>
           enTurno(w) /\ t[i].query = en_curso[w] /\ t[i].pc = pc_query[w]
  PROVE  Avance'
<1>0. /\ aMaster[w] \in Seq(Respuesta)
      /\ enTurno(w) => en_curso[w] \in Queries /\ pc_query[w] = ejecutadas[en_curso[w]]
      /\ AlDia(w)
  BY DEF IVez, TypeOK, CanalesTypeOK, Vez, UnaVez, Avance, AlDia
<1>1. ASSUME NEW i \in DOMAIN aMaster'[w]
      PROVE  (\E j \in DOMAIN aMaster[w] : aMaster'[w][i] = aMaster[w][j])
             \/ \E j \in DOMAIN t : aMaster'[w][i] = t[j]
  <2>1. \/ i \in DOMAIN aMaster[w] /\ aMaster'[w][i] = aMaster[w][i]
        \/ i - Len(aMaster[w]) \in DOMAIN t /\ aMaster'[w][i] = t[i - Len(aMaster[w])]
    BY <1>0
  <2> QED BY <2>1
<1>2. ASSUME NEW i \in DOMAIN aMaster'[w], aMaster'[w][i].tipo = "NO_FINALICE"
      PROVE  /\ aMaster'[w][i].query \in Queries
             /\ aMaster'[w][i].pc = ejecutadas'[aMaster'[w][i].query]
             /\ Lleva(w, aMaster'[w][i].query)
  <2>1. CASE \E j \in DOMAIN aMaster[w] : aMaster'[w][i] = aMaster[w][j]
    BY <1>0, <1>2, <2>1 DEF AlDia, Lleva
  <2>2. CASE \E j \in DOMAIN t : aMaster'[w][i] = t[j]
    BY <1>0, <1>2, <2>2 DEF Lleva
  <2> QED BY <1>1, <2>1, <2>2
<1>3. AlDia(w)'
  BY <1>0, <1>2 DEF AlDia, enTurno
<1>4. \A q \in Queries : Lleva(w, q)' => Lleva(w, q)
  BY <1>2 DEF Lleva, enTurno
<1> QED BY <1>3, <1>4, LocalAvance

LEMMA esperandoAvance ==
  ASSUME IVez, Avance, NEW w \in Workers, esperandoQuery(w), SoloDe(w)
  PROVE  Avance'
<1>0. /\ AlDia(w) /\ UNCHANGED <<aMaster, ejecutadas>> /\ DelMaster(w)
  BY DEF Avance, esperandoQuery, SoloDe, masterVars, DelMaster
<1>1. /\ aWorker'[w] = <<>> /\ 1 \in DOMAIN aWorker[w]
      /\ en_curso'[w] = aWorker[w][1].query /\ pc_query'[w] = aWorker[w][1].pc
  BY <1>0, esperandoVez
<1>2. pc_query'[w] = ejecutadas'[en_curso'[w]]
  BY <1>0, <1>1 DEF AlDia
<1>3. AlDia(w)'
  BY <1>0, <1>1, <1>2 DEF AlDia, enTurno
<1>4. \A q \in Queries : Lleva(w, q)' => Lleva(w, q)
  BY <1>0, <1>1 DEF Lleva
<1> QED BY <1>0, <1>3, <1>4, LocalAvance

\* An instruction advances the query in the loop and nothing else: nobody
\* else holds a copy of its pc.
LEMMA ExecuteAvance ==
  ASSUME IVez, Avance, NEW w \in Workers, Execute(w), SoloDe(w)
  PROVE  Avance'
<1> DEFINE e == en_curso[w]
<1>0. /\ TypeOK /\ Vez(w) /\ aMaster[w] \in Seq(Respuesta)
      /\ ejecutadas \in [Queries -> Nat] /\ pc_query \in [Workers -> Nat]
      /\ AlDia(w)
  BY DEF IVez, TypeOK, CanalesTypeOK, WorkerTypeOK, Avance
<1>1. /\ fase[w] = "ejecutando" /\ fase'[w] = "checkeando"
      /\ UNCHANGED <<aWorker, en_curso>>
  BY <1>0, ExecuteEnvia
<1>2. PICK t \in Seq(Respuesta) :
        /\ aMaster'[w] = aMaster[w] \o t
        /\ \A i \in DOMAIN t : t[i].tipo \notin Fines /\ t[i].query = en_curso[w]
  BY <1>0, ExecuteEnvia
<1>3. enTurno(w) /\ enTurno(w)' /\ Lleva(w, e)
  BY <1>1 DEF enTurno, Lleva
<1>4. e \in Queries /\ aWorker[w] = <<>> /\ ~ HayTipo(aMaster[w], Fines) /\ pc_query[w] = ejecutadas[e]
  BY <1>0, <1>3 DEF Vez, UnaVez, AlDia
<1>5. CASE UNCHANGED <<pc_query, ejecutadas>>
  <2>1. \A i \in DOMAIN t : t[i].tipo # "NO_FINALICE"
    BY <1>2 DEF Fines
  <2> QED BY <1>1, <1>2, <1>3, <1>5, <2>1, callaAvance
<1>6. CASE /\ pc_query' = [pc_query EXCEPT ![w] = @ + 1]
           /\ ejecutadas' = [ejecutadas EXCEPT ![e] = @ + 1]
  <2>1. ~ HayTipo(t, Fines)
    BY <1>2 DEF HayTipo
  <2>2. ~ HayTipo(aMaster'[w], Fines)
    BY <1>0, <1>2, <1>4, <2>1, ColaEscrita
  <2>3. \A i \in DOMAIN aMaster'[w] : aMaster'[w][i].tipo # "NO_FINALICE"
    BY <2>2 DEF HayTipo, Fines
  <2>4. pc_query'[w] = ejecutadas'[en_curso'[w]]
    BY <1>0, <1>1, <1>4, <1>6
  <2>5. AlDia(w)'
    BY <1>1, <1>4, <2>3, <2>4 DEF AlDia
  <2>6. \A q \in Queries : q # e => ejecutadas'[q] = ejecutadas[q]
    BY <1>0, <1>6
  <2>7. \A v \in Workers : v # w => ~ Lleva(v, e)
    BY <1>3, <1>4 DEF Avance, UnDuenio
  <2>8. ~ Suelta(e)
    BY <1>3, <1>4 DEF Avance, SueltaAlDia
  <2>9. ASSUME NEW v \in Workers, v # w
        PROVE  /\ AlDia(v)' /\ \A q \in Queries : Lleva(v, q)' <=> Lleva(v, q)
    <3>1. /\ aWorker'[v] = aWorker[v] /\ aMaster'[v] = aMaster[v] /\ fase'[v] = fase[v]
          /\ en_curso'[v] = en_curso[v] /\ pc_query'[v] = pc_query[v]
      BY <2>9 DEF SoloDe
    <3>2. AlDia(v) /\ Vez(v) /\ aWorker[v] \in Seq(Asignacion)
      BY DEF Avance, IVez, TypeOK, CanalesTypeOK
    <3>3. ASSUME NEW i \in DOMAIN aWorker[v]
          PROVE  aWorker[v][i].query \in Queries /\ aWorker[v][i].query # e
      <4>1. aWorker[v][i] \in Asignacion
        BY <3>2
      <4>2. Lleva(v, aWorker[v][i].query)
        BY DEF Lleva
      <4> QED BY <2>7, <2>9, <4>1, <4>2 DEF Asignacion
    <3>4. enTurno(v) => en_curso[v] \in Queries /\ en_curso[v] # e
      BY <2>7, <2>9, <3>2 DEF Lleva, Vez, UnaVez
    <3>5. \A i \in DOMAIN aMaster[v] : aMaster[v][i].tipo = "NO_FINALICE" =>
            aMaster[v][i].query # e
      BY <2>7, <2>9 DEF Lleva
    <3>6. AlDia(v)'
      BY <2>6, <3>1, <3>2, <3>3, <3>4, <3>5 DEF AlDia, enTurno
    <3> QED BY <3>1, <3>6 DEF Lleva, enTurno
  <2>10. \A q \in Queries : Lleva(w, q)' => q = e
    BY <1>1, <1>4, <2>3 DEF Lleva
  <2>11. /\ \A q \in Queries : Suelta(q)' => Suelta(q)
         /\ UNCHANGED pc
    BY DEF SoloDe, masterVars, Suelta
  <2>12. ASSUME NEW q \in Queries PROVE SueltaAlDia(q)'
    BY <2>6, <2>8, <2>9, <2>10, <2>11 DEF Avance, SueltaAlDia
  <2>13. UnDuenio'
    BY <2>7, <2>9, <2>10 DEF Avance, UnDuenio
  <2> QED BY <2>5, <2>9, <2>12, <2>13 DEF Avance
<1> QED BY <1>5, <1>6 DEF Execute, ejecutarCommit, sigue, finaliza

LEMMA PasoDeWorkerAvance ==
  ASSUME IVez, Avance, NEW w \in Workers, PasoDeWorker(w)
  PROVE  Avance'
<1>0. /\ UNCHANGED masterVars
      /\ TypeOK /\ Vez(w)
      /\ \/ cicloWorker(w) \/ hiloDesalojo(w) \/ manejador_senial(w) \/ caeWorker(w)
         \/ pierdeMaster(w)
      /\ aWorker \in [Workers -> Seq(Asignacion)]
      /\ aMaster \in [Workers -> Seq(Respuesta)]
      /\ fase \in [Workers -> Fase]
      /\ en_curso \in [Workers -> Queries \cup {NULL}] /\ pc_query \in [Workers -> Nat]
  BY DEF PasoDeWorker, pasoWorker, IVez, TypeOK, CanalesTypeOK, WorkerTypeOK
<1>1. <<>> \in Seq(Respuesta) /\ DOMAIN <<>> = {} /\ aMaster[w] = aMaster[w] \o <<>>
  BY <1>0
<1>2. ASSUME UNCHANGED <<aWorker, aMaster, en_curso, pc_query, ejecutadas>>,
             \E f \in Fase : fase' = [fase EXCEPT ![w] = f],
             enTurno(w)' => enTurno(w)
      PROVE  Avance'
  <2>1. SoloDe(w)
    BY <1>0, <1>2 DEF SoloDe
  <2> QED BY <1>1, <1>2, <2>1, callaAvance
<1>3. CASE conexionMaster(w)
  BY <1>0, <1>2, <1>3 DEF conexionMaster, pasaA, enTurno, Fase
<1>4. CASE conexionMasterDesalojo(w) \/ limpiar(w)
  <2>1. /\ whileNoDeboMorir(w) /\ UNCHANGED <<aWorker, en_curso, pc_query, ejecutadas>>
    BY <1>4 DEF conexionMasterDesalojo, limpiar, otrosCanales
  <2>2. /\ fase'[w] \in {"esperando", "terminado"}
        /\ \A v \in Workers : v # w => fase'[v] = fase[v] /\ aMaster'[v] = aMaster[v]
    BY <1>0, <2>1, whileVez
  <2>3. PICK t \in Seq(Respuesta) :
          ~ HayTipo(t, DelTurno) /\ aMaster'[w] = aMaster[w] \o t
    BY <1>0, <2>1, whileVez
  <2>4. \A i \in DOMAIN t : t[i].tipo # "NO_FINALICE"
    BY <2>3 DEF HayTipo, DelTurno, Fines
  <2>5. SoloDe(w)
    BY <1>0, <2>1, <2>2 DEF SoloDe
  <2>6. ~ enTurno(w)'
    BY <2>2 DEF enTurno
  <2> QED BY <2>1, <2>3, <2>4, <2>5, <2>6, callaAvance
<1>5. CASE esperandoQuery(w)
  <2>1. SoloDe(w)
    BY <1>0, <1>5 DEF esperandoQuery, pasaA, SoloDe
  <2> QED BY <1>5, <2>1, esperandoAvance
<1>6. CASE Execute(w)
  <2>1. /\ \A v \in Workers : v # w => aMaster'[v] = aMaster[v] /\ fase'[v] = fase[v]
        /\ UNCHANGED <<aWorker, en_curso>>
    BY <1>0, <1>6, ExecuteEnvia
  <2>2. \A v \in Workers : v # w => pc_query'[v] = pc_query[v]
    BY <1>0, <1>6 DEF Execute, ejecutarCommit, sigue, finaliza
  <2>3. SoloDe(w)
    BY <1>0, <2>1, <2>2 DEF SoloDe
  <2> QED BY <1>6, <2>3, ExecuteAvance
<1>7. CASE checkInterrupt(w)
  <2>1. fase[w] = "checkeando"
    BY <1>7 DEF checkInterrupt
  <2>2. enTurno(w)
    BY <2>1 DEF enTurno
  <2>3. UNCHANGED <<aWorker, aMaster, en_curso, pc_query, ejecutadas>>
    BY <1>7 DEF checkInterrupt, SinEnviar, canales
  <2>4. \E f \in Fase : fase' = [fase EXCEPT ![w] = f]
    BY <1>7 DEF checkInterrupt, pasaA, Fase
  <2> QED BY <1>2, <2>2, <2>3, <2>4
<1>8. CASE gestionarCheckInterrupt(w)
  <2>1. /\ fase[w] = "gestionando" /\ fase'[w] = "limpiando"
        /\ UNCHANGED <<altas, aWorker, en_curso>>
        /\ \A v \in Workers : v # w => aMaster'[v] = aMaster[v] /\ fase'[v] = fase[v]
    BY <1>0, <1>8, gestionarEnvia
  <2>2. PICK t \in Seq(Respuesta) :
          /\ aMaster'[w] = aMaster[w] \o t
          /\ \A i \in DOMAIN t : t[i].query = en_curso[w] /\ t[i].pc = pc_query[w]
    BY <1>0, <1>8, gestionarEnvia
  <2>3. enTurno(w) /\ ~ enTurno(w)'
    BY <2>1 DEF enTurno
  <2>4. UNCHANGED <<pc_query, ejecutadas>>
    BY <1>8 DEF gestionarCheckInterrupt
  <2>5. SoloDe(w)
    BY <1>0, <2>1, <2>4 DEF SoloDe
  <2> QED BY <2>1, <2>2, <2>3, <2>4, <2>5, callaAvance
<1>9. CASE hiloDesalojo(w) \/ manejador_senial(w)
  <2>1. UNCHANGED <<aWorker, aMaster, en_curso, pc_query, ejecutadas, fase>>
    BY <1>9 DEF hiloDesalojo, manejador_senial, canales
  <2>2. fase' = [fase EXCEPT ![w] = fase[w]] /\ fase[w] \in Fase
    BY <1>0, <2>1
  <2>3. enTurno(w)' => enTurno(w)
    BY <2>1 DEF enTurno
  <2> QED BY <1>2, <2>1, <2>2, <2>3
<1>10. CASE caeWorker(w) \/ pierdeMaster(w)
  <2>1. /\ UNCHANGED <<aWorker, aMaster, en_curso, pc_query, ejecutadas>>
        /\ fase' = [fase EXCEPT ![w] = "terminado"]
    BY <1>10 DEF caeWorker, pierdeMaster, pasaA, canales
  <2>2. "terminado" \in Fase /\ ~ enTurno(w)'
    BY <1>0, <2>1 DEF Fase, enTurno
  <2> QED BY <1>2, <2>1, <2>2
<1> QED
  BY <1>0, <1>3, <1>4, <1>5, <1>6, <1>7, <1>8, <1>9, <1>10 DEF cicloWorker

LEMMA AvanceInvariante == Spec => []Avance
<1>1. Init => Avance
  <2> SUFFICES ASSUME Init PROVE Avance
    OBVIOUS
  <2>1. \A w \in Workers : \A q \in Queries : ~ Lleva(w, q)
    BY DEF Init, CanalesInit, WorkerInit, Lleva, enTurno
  <2>2. \A w \in Workers : AlDia(w)
    BY DEF Init, CanalesInit, WorkerInit, AlDia, enTurno
  <2>3. \A q \in Queries : pc[q] = ejecutadas[q]
    BY DEF Init, MasterInit, WorkerInit
  <2> QED BY <2>1, <2>2, <2>3 DEF Avance, SueltaAlDia, UnDuenio
<1>2. IVez /\ IUnaCopia /\ IUnaCopia' /\ Avance /\ [Next]_vars => Avance'
  <2> SUFFICES ASSUME IVez, IUnaCopia, IUnaCopia', Avance, [Next]_vars PROVE Avance'
    OBVIOUS
  <2>1. CASE PasoDelMaster
    BY <2>1, PasoDelMasterMueve, MueveAvance
  <2>2. CASE \E w \in Workers : PasoDeWorker(w)
    BY <2>2, PasoDeWorkerAvance
  <2>3. ASSUME UNCHANGED <<masterVars, workerVars, aWorker, aMaster>> PROVE Avance'
    BY <2>3 DEF masterVars, workerVars, Avance, AlDia, SueltaAlDia, UnDuenio, Suelta,
       Lleva, enTurno
  <2>4. CASE \E q \in Queries : PasoDeQC(q)
    BY <2>3, <2>4 DEF PasoDeQC, pasoQC, cicloQC, registrarQuery,
       gestionarOrdenMaestro, masterCerro, caeQC, canales
  <2>5. CASE UNCHANGED vars
    BY <2>3, <2>5 DEF vars, canales
  <2> QED BY <2>1, <2>2, <2>4, <2>5 DEF Next
<1> QED BY <1>1, <1>2, IVezInvariante, IUnaCopiaInvariante, PTL DEF Spec

\* SinReejecucion: the pc a worker runs a query from is the number of
\* instructions already run of it, by whichever worker: preempted, returned
\* to READY and resumed elsewhere, a query repeats none and skips none.
THEOREM SinReejecucionSiempre == Spec => []SinReejecucion
<1>1. Avance => SinReejecucion
  BY DEF Avance, AlDia, SinReejecucion, enTurno
<1> QED BY <1>1, AvanceInvariante, PTL

=============================================================================
