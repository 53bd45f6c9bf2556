------------------------ MODULE Planificacion_proofs ------------------------
(***************************************************************************)
(* Proofs about Planificacion for any number of workers and queries, any   *)
(* priorities, programs and faults, under both scheduling algorithms.      *)
(***************************************************************************)
EXTENDS Planificacion, SequenceTheorems, TLAPS

-----------------------------------------------------------------------------
(* Sequences without repetitions: what READY is.                           *)

SinRepetidos(s) == \A i, j \in DOMAIN s : s[i] = s[j] => i = j

LEMMA ElementosTipo == ASSUME NEW S, NEW s \in Seq(S) PROVE ToSet(s) \subseteq S
  BY DEF ToSet

\* list_add.
LEMMA AgregarAlFinal ==
  ASSUME NEW S, NEW s \in Seq(S), NEW e \in S
  PROVE  /\ Append(s, e) \in Seq(S) /\ Append(s, e) # <<>>
         /\ ToSet(Append(s, e)) = ToSet(s) \cup {e}
         /\ SinRepetidos(s) /\ e \notin ToSet(s) => SinRepetidos(Append(s, e))
<1>1. DOMAIN Append(s, e) = DOMAIN s \cup {Len(s) + 1}
  OBVIOUS
<1>2. \A i \in DOMAIN s : Append(s, e)[i] = s[i]
  OBVIOUS
<1>3. Append(s, e)[Len(s) + 1] = e
  OBVIOUS
<1>4. ToSet(Append(s, e)) = ToSet(s) \cup {e}
  BY <1>1, <1>2, <1>3 DEF ToSet
<1>5. ASSUME SinRepetidos(s), e \notin ToSet(s)
      PROVE  SinRepetidos(Append(s, e))
  BY <1>1, <1>2, <1>3, <1>5 DEF SinRepetidos, ToSet
<1> QED BY <1>4, <1>5

\* list_remove(lista, 0).
LEMMA SacarPrimero ==
  ASSUME NEW S, NEW s \in Seq(S), s # <<>>
  PROVE  /\ Head(s) \in S /\ Head(s) \in ToSet(s)
         /\ Tail(s) \in Seq(S)
         /\ ToSet(Tail(s)) \subseteq ToSet(s)
         /\ SinRepetidos(s) => SinRepetidos(Tail(s)) /\ Head(s) \notin ToSet(Tail(s))
<1>1. \A i \in DOMAIN Tail(s) : i + 1 \in DOMAIN s /\ Tail(s)[i] = s[i + 1]
  OBVIOUS
<1>2. 1 \in DOMAIN s /\ Head(s) = s[1]
  OBVIOUS
<1>3. DOMAIN Tail(s) \subseteq Nat /\ 0 \notin DOMAIN Tail(s)
  OBVIOUS
<1>4. ASSUME SinRepetidos(s)
      PROVE  SinRepetidos(Tail(s)) /\ Head(s) \notin ToSet(Tail(s))
  <2>1. SinRepetidos(Tail(s))
    BY <1>1, <1>3, <1>4 DEF SinRepetidos
  <2>2. Head(s) \notin ToSet(Tail(s))
    BY <1>1, <1>2, <1>3, <1>4 DEF SinRepetidos, ToSet
  <2> QED BY <2>1, <2>2
<1> QED BY <1>1, <1>2, <1>4 DEF ToSet

\* list_sort: the same elements, and a strict order leaves none twice.
LEMMA Ordenar ==
  ASSUME NEW S, NEW s \in Seq(S), NEW p, NEW r \in Ordenaciones(s, p)
  PROVE  /\ r \in Seq(S) /\ (s # <<>> => r # <<>>)
         /\ ToSet(r) = ToSet(s)
         /\ SinRepetidos(r)
<1>1. r \in [1 .. Len(s) -> ToSet(s)] /\ ToSet(r) = ToSet(s)
  BY DEF Ordenaciones
<1>2. r \in Seq(S) /\ Len(r) = Len(s)
  BY <1>1, ElementosTipo
<1>3. \A i, j \in 1 .. Len(s) : i < j => r[i] # r[j]
  BY DEF Ordenaciones
<1> QED BY <1>1, <1>2, <1>3 DEF SinRepetidos

\* The READY list as a worker that asks for work sees it.
LEMMA ReadyOrdenada ==
  ASSUME NEW S, NEW s \in Seq(S), NEW r \in ParaDespachar(s)
  PROVE  /\ r \in Seq(S) /\ (s # <<>> => r # <<>>)
         /\ ToSet(r) = ToSet(s)
         /\ SinRepetidos(s) => SinRepetidos(r)
  BY Ordenar DEF ParaDespachar

LEMMA QuitarDeLista ==
  ASSUME NEW S, NEW s \in Seq(S), NEW i \in 1 .. Len(s)
  PROVE  RemoveAt(s, i) \in Seq(S)
  BY DEF RemoveAt

\* What the selection helpers return is a registered worker, or a query of
\* READY.
LEMMA Elegidos ==
  ASSUME MasterTypeOK
  PROVE /\ WorkerLibre \subseteq Workers
        /\ \A p : \A w \in WorkerConMenorPrioridad(p) :
             w \in Workers /\ query_actual[w] # NULL /\ query_pendiente[w] = NULL
        /\ \A q : EnReady(q) \subseteq ToSet(lista_ready)
  BY DEF MasterTypeOK, WorkerLibre, WorkerConMenorPrioridad, EnReady, ToSet

-----------------------------------------------------------------------------
(* Type correctness: the steps the master's handlers share.                *)

LEMMA enviarTipo == \A d : enviarMensajito(d) => caida' \in Caida
  BY DEF enviarMensajito, Caida

LEMMA asignarTipo ==
  ASSUME TypeOK, NEW w \in Workers, NEW q \in Queries, asignarQueryAWorker(w, q)
  PROVE  /\ query_actual' \in [Workers -> Queries \cup {NULL}]
         /\ esta_libre' \in [Workers -> BOOLEAN]
         /\ aWorker' \in [Workers -> Seq(Asignacion)]
         /\ caida' \in Caida
<1>1. [query |-> q, pc |-> pc[q]] \in Asignacion
  BY DEF TypeOK, MasterTypeOK, Asignacion
<1>2. aWorker' \in [Workers -> Seq(Asignacion)]
  BY <1>1 DEF asignarQueryAWorker, TypeOK, CanalesTypeOK
<1>3. caida' \in Caida
  BY enviarTipo DEF asignarQueryAWorker
<1> QED
  BY <1>2, <1>3 DEF asignarQueryAWorker, TypeOK, MasterTypeOK

LEMMA desalojarTipo ==
  ASSUME TypeOK, NEW q, NEW r \in Seq(Queries), r # <<>>, NEW p,
         intentarDesalojar(q, r, p)
  PROVE  /\ lista_ready' \in Seq(Queries)
         /\ query_pendiente' \in [Workers -> Queries \cup {NULL}]
         /\ desalojos' \in [Workers -> Nat]
         /\ caida' \in Caida
<1>1. CASE \E w \in WorkerConMenorPrioridad(p) :
             lista_ready' = Tail(r) /\ realizarDesalojo(w, Head(r))
  <2>1. PICK w \in WorkerConMenorPrioridad(p) :
          lista_ready' = Tail(r) /\ realizarDesalojo(w, Head(r))
    BY <1>1
  <2>2. w \in Workers
    BY Elegidos DEF TypeOK
  <2>3. Head(r) \in Queries /\ Tail(r) \in Seq(Queries)
    BY SacarPrimero
  <2>4. caida' \in Caida
    BY <2>1, enviarTipo DEF realizarDesalojo, TypeOK, CanalesTypeOK
  <2>5. desalojos' \in [Workers -> Nat]
    <3>1. desalojos' = [desalojos EXCEPT ![w] = @ + 1] \/ desalojos' = desalojos
      BY <2>1 DEF realizarDesalojo
    <3>2. desalojos \in [Workers -> Nat]
      BY DEF TypeOK, CanalesTypeOK
    <3> QED BY <2>2, <3>1, <3>2
  <2>6. query_pendiente' \in [Workers -> Queries \cup {NULL}]
    BY <2>1, <2>2, <2>3 DEF realizarDesalojo, TypeOK, MasterTypeOK
  <2> QED BY <2>1, <2>3, <2>4, <2>5, <2>6
<1>2. CASE lista_ready' = r /\ SinDesalojar /\ UNCHANGED caida
  BY <1>2 DEF SinDesalojar, TypeOK, CanalesTypeOK, MasterTypeOK
<1> QED BY <1>1, <1>2 DEF intentarDesalojar

LEMMA enviarPorWorkerTipo ==
  ASSUME TypeOK, NEW w \in Workers, intentarEnviarPorWorker(w)
  PROVE  /\ lista_ready' \in Seq(Queries)
         /\ query_actual' \in [Workers -> Queries \cup {NULL}]
         /\ query_pendiente' \in [Workers -> Queries \cup {NULL}]
         /\ esta_libre' \in [Workers -> BOOLEAN]
         /\ aWorker' \in [Workers -> Seq(Asignacion)]
         /\ caida' \in Caida
<1>1. CASE lista_ready # <<>>
  <2>1. PICK r \in ParaDespachar(lista_ready) :
          /\ lista_ready' = Tail(r) /\ asignarQueryAWorker(w, Head(r))
          /\ UNCHANGED query_pendiente
    BY <1>1 DEF intentarEnviarPorWorker
  <2>2. r \in Seq(Queries) /\ r # <<>>
    BY <1>1, ReadyOrdenada DEF TypeOK, MasterTypeOK
  <2>3. Head(r) \in Queries /\ Tail(r) \in Seq(Queries)
    BY <2>2, SacarPrimero
  <2> QED BY <2>1, <2>3, asignarTipo DEF TypeOK, MasterTypeOK
<1>2. CASE lista_ready = <<>>
  BY <1>2 DEF intentarEnviarPorWorker, TypeOK, CanalesTypeOK, MasterTypeOK
<1> QED BY <1>1, <1>2

LEMMA agingTipo ==
  ASSUME TypeOK, NEW q \in Queries, LanzarAging(q)
  PROVE  hilos_aging' \in [Queries -> Nat]
  BY DEF LanzarAging, TypeOK, MasterTypeOK

LEMMA notificarTipo ==
  ASSUME TypeOK, NEW q \in Queries, notificarFin(q)
  PROVE  aQC' \in [Queries -> Seq(Orden)] /\ caida' \in Caida
<1>1. caida' \in Caida
  BY enviarTipo DEF notificarFin
<1> QED BY <1>1 DEF notificarFin, TypeOK, CanalesTypeOK, Orden

LEMMA quitarTipo ==
  ASSUME TypeOK, NEW w \in Workers, quitarWorker(w)
  PROVE  /\ lista_workers' \in Seq(Workers)
         /\ lista_ready' \in Seq(Queries)
         /\ query_actual' \in [Workers -> Queries \cup {NULL}]
         /\ query_pendiente' \in [Workers -> Queries \cup {NULL}]
         /\ esta_libre' \in [Workers -> BOOLEAN]
         /\ fd_desalojo' \in [Workers -> BOOLEAN]
<1>1. lista_workers' \in Seq(Workers)
  BY QuitarDeLista DEF quitarWorker, TypeOK, MasterTypeOK
<1>2. lista_ready' \in Seq(Queries)
  BY AgregarAlFinal DEF quitarWorker, TypeOK, MasterTypeOK
<1> QED BY <1>1, <1>2 DEF quitarWorker, TypeOK, MasterTypeOK

-----------------------------------------------------------------------------
(* Type correctness: one lemma per thread of the master.                   *)

LEMMA gestionarQueryTipo ==
  ASSUME TypeOK, NEW q \in Queries, gestionarQueryIndividual(q)
  PROVE  CanalesTypeOK' /\ MasterTypeOK'
<1> DEFINE Bien == /\ lista_ready' \in Seq(Queries)
                   /\ query_actual' \in [Workers -> Queries \cup {NULL}]
                   /\ query_pendiente' \in [Workers -> Queries \cup {NULL}]
                   /\ esta_libre' \in [Workers -> BOOLEAN]
                   /\ aWorker' \in [Workers -> Seq(Asignacion)]
                   /\ desalojos' \in [Workers -> Nat]
                   /\ caida' \in Caida
<1>0. /\ WorkerLibre \subseteq Workers
      /\ Append(lista_ready, q) \in Seq(Queries) /\ Append(lista_ready, q) # <<>>
  BY Elegidos, AgregarAlFinal DEF TypeOK, MasterTypeOK
<1>1. ASSUME entrarFIFO(q) PROVE Bien
  <2>1. CASE \E w \in WorkerLibre : asignarQueryAWorker(w, q)
    BY <1>0, <1>1, <2>1, asignarTipo
       DEF entrarFIFO, SinDesalojar, TypeOK, CanalesTypeOK, MasterTypeOK
  <2>2. CASE SinAsignar /\ UNCHANGED caida
    BY <1>0, <1>1, <2>2
       DEF entrarFIFO, SinAsignar, SinDesalojar, TypeOK, CanalesTypeOK, MasterTypeOK
  <2> QED BY <1>1, <2>1, <2>2 DEF entrarFIFO
<1>2. ASSUME entrarPrioridades(q) PROVE Bien
  <2>1. PICK r \in Ordenaciones(Append(lista_ready, q), prioridad) :
         \/ lista_ready' = r /\ SinAsignar /\ SinDesalojar /\ UNCHANGED caida
         \/ /\ \E w \in WorkerLibre : asignarQueryAWorker(w, Head(r))
            /\ lista_ready' = Tail(r) /\ SinDesalojar
         \/ intentarDesalojar(q, r, prioridad) /\ SinAsignar
    BY <1>2 DEF entrarPrioridades
  <2>2. r \in Seq(Queries) /\ r # <<>>
    BY <1>0, Ordenar
  <2>3. Head(r) \in Queries /\ Tail(r) \in Seq(Queries)
    BY <2>2, SacarPrimero
  <2>4. CASE lista_ready' = r /\ SinAsignar /\ SinDesalojar /\ UNCHANGED caida
    BY <2>2, <2>4 DEF SinAsignar, SinDesalojar, TypeOK, CanalesTypeOK, MasterTypeOK
  <2>5. CASE /\ \E w \in WorkerLibre : asignarQueryAWorker(w, Head(r))
             /\ lista_ready' = Tail(r) /\ SinDesalojar
    BY <1>0, <2>3, <2>5, asignarTipo
       DEF SinDesalojar, TypeOK, CanalesTypeOK, MasterTypeOK
  <2>6. CASE intentarDesalojar(q, r, prioridad) /\ SinAsignar
    BY <2>2, <2>6, desalojarTipo
       DEF SinAsignar, TypeOK, CanalesTypeOK, MasterTypeOK
  <2> QED BY <2>1, <2>4, <2>5, <2>6
<1>3. Bien
  BY <1>1, <1>2 DEF gestionarQueryIndividual
<1>4. hilos_aging' \in [Queries -> Nat]
  BY agingTipo DEF gestionarQueryIndividual
<1> QED
  BY <1>3, <1>4 DEF gestionarQueryIndividual, TypeOK, CanalesTypeOK,
     MasterTypeOK, queryStruct

LEMMA hiloDelQueryTipo ==
  ASSUME TypeOK, NEW q \in Queries, hiloDelQuery(q)
  PROVE  CanalesTypeOK' /\ MasterTypeOK'
<1>1. CASE crearQuery(q)
  BY <1>1 DEF crearQuery, TypeOK, CanalesTypeOK, MasterTypeOK, workerStruct
<1>2. CASE incrementarQuid(q)
  BY <1>2 DEF incrementarQuid, TypeOK, CanalesTypeOK, MasterTypeOK, canales,
     workerStruct, queryStruct
<1>3. CASE gestionarQueryIndividual(q)
  BY <1>3, gestionarQueryTipo
<1> QED BY <1>1, <1>2, <1>3 DEF hiloDelQuery

LEMMA hiloDeAgingTipo ==
  ASSUME TypeOK, NEW q \in Queries, hiloDeAging(q)
  PROVE  CanalesTypeOK' /\ MasterTypeOK'
<1> DEFINE Quietas == UNCHANGED <<altas, pedidos, aWorker, aMaster, aQC, caidos,
                                  lista_workers, esta_libre, fd_desalojo,
                                  query_actual, pc, quid, quid_global,
                                  hilo_query, hilo_worker>>
<1>0. hilos_aging[q] > 0 /\ Quietas
  BY DEF hiloDeAging, realizarAgingIndividual, hilosDeQuery
<1>1. CASE hilos_aging' = [hilos_aging EXCEPT ![q] = @ - 1] /\
           UNCHANGED <<prioridad, lista_ready, query_pendiente, desalojos, caida>>
  <2>1. hilos_aging' \in [Queries -> Nat]
    BY <1>0, <1>1 DEF TypeOK, MasterTypeOK
  <2> QED BY <1>0, <1>1, <2>1 DEF TypeOK, CanalesTypeOK, MasterTypeOK
<1>2. ASSUME NEW g \in EnReady(q), prioridad[g] > 0,
             prioridad' = [prioridad EXCEPT ![g] = @ - 1],
             NEW r \in Ordenaciones(lista_ready, prioridad'),
             \/ intentarDesalojar(g, r, prioridad')
             \/ lista_ready' = r /\ UNCHANGED <<query_pendiente, desalojos, caida>>,
             UNCHANGED hilos_aging
      PROVE  CanalesTypeOK' /\ MasterTypeOK'
  <2>1. g \in Queries /\ lista_ready # <<>>
    BY Elegidos, ElementosTipo DEF TypeOK, MasterTypeOK, EnReady
  <2>2. r \in Seq(Queries) /\ r # <<>>
    BY <2>1, Ordenar DEF TypeOK, MasterTypeOK
  <2>3. prioridad' \in [Queries -> Nat]
    <3>1. prioridad \in [Queries -> Nat]
      BY DEF TypeOK, MasterTypeOK
    <3>2. prioridad[g] - 1 \in Nat
      BY <1>2, <2>1, <3>1
    <3> QED BY <1>2, <3>1, <3>2
  <2>4. /\ lista_ready' \in Seq(Queries)
        /\ query_pendiente' \in [Workers -> Queries \cup {NULL}]
        /\ desalojos' \in [Workers -> Nat]
        /\ caida' \in Caida
    <3>1. CASE intentarDesalojar(g, r, prioridad')
      BY <2>2, <3>1, desalojarTipo
    <3>2. CASE lista_ready' = r /\ UNCHANGED <<query_pendiente, desalojos, caida>>
      BY <2>2, <3>2 DEF TypeOK, CanalesTypeOK, MasterTypeOK
    <3> QED BY <1>2, <3>1, <3>2
  <2> QED BY <1>0, <1>2, <2>3, <2>4 DEF TypeOK, CanalesTypeOK, MasterTypeOK
<1> QED BY <1>1, <1>2 DEF hiloDeAging, realizarAgingIndividual


LEMMA recibirTipo ==
  ASSUME TypeOK, NEW w \in Workers, NEW tipos, recibirMensajito(w, tipos)
  PROVE  aMaster' \in [Workers -> Seq(Respuesta)] /\ Head(aMaster[w]) \in Respuesta
  BY DEF recibirMensajito, TypeOK, CanalesTypeOK

LEMMA atenderDesalojarTipo ==
  ASSUME TypeOK, NEW w \in Workers, atenderDesalojar(w)
  PROVE  CanalesTypeOK' /\ MasterTypeOK'
<1> DEFINE m == Head(aMaster[w])
           desalojada == query_actual[w]
<1>1. aMaster' \in [Workers -> Seq(Respuesta)] /\ m \in Respuesta
  BY recibirTipo DEF atenderDesalojar, atiende
<1>2. query_pendiente[w] \in Queries
  BY DEF atenderDesalojar, TypeOK, MasterTypeOK
<1>3. /\ query_actual' \in [Workers -> Queries \cup {NULL}]
      /\ esta_libre' \in [Workers -> BOOLEAN]
      /\ aWorker' \in [Workers -> Seq(Asignacion)]
      /\ caida' \in Caida
  BY <1>2, asignarTipo DEF atenderDesalojar
<1>4. /\ pc' \in [Queries -> Nat]
      /\ lista_ready' \in Seq(Queries)
      /\ hilos_aging' \in [Queries -> Nat]
  <2>1. CASE /\ desalojada # NULL
             /\ pc' = [pc EXCEPT ![desalojada] = m.pc]
             /\ lista_ready' = Append(lista_ready, desalojada)
             /\ LanzarAging(desalojada)
    <3>1. desalojada \in Queries /\ m.pc \in Nat
      BY <1>1, <2>1 DEF TypeOK, MasterTypeOK, Respuesta
    <3>2. hilos_aging' \in [Queries -> Nat]
      BY <2>1, <3>1, agingTipo
    <3>3. lista_ready' \in Seq(Queries)
      BY <2>1, <3>1 DEF TypeOK, MasterTypeOK
    <3> QED BY <2>1, <3>1, <3>2, <3>3 DEF TypeOK, MasterTypeOK
  <2>2. CASE UNCHANGED <<pc, lista_ready, hilos_aging>>
    BY <2>2 DEF TypeOK, MasterTypeOK
  <2> QED BY <2>1, <2>2 DEF atenderDesalojar
<1>5. query_pendiente' \in [Workers -> Queries \cup {NULL}]
  BY DEF atenderDesalojar, TypeOK, MasterTypeOK
<1> QED
  BY <1>1, <1>3, <1>4, <1>5 DEF atenderDesalojar, TypeOK, CanalesTypeOK,
     MasterTypeOK, hilosDeQuery

LEMMA hiloDelWorkerTipo ==
  ASSUME TypeOK, NEW w \in Workers, hiloDelWorker(w)
  PROVE  CanalesTypeOK' /\ MasterTypeOK'
<1>1. CASE gestionarWorkerIndividual(w)
  <2>1. lista_workers' \in Seq(Workers)
    BY <1>1 DEF gestionarWorkerIndividual, TypeOK, MasterTypeOK
  <2> QED
    BY <1>1, <2>1, enviarPorWorkerTipo DEF gestionarWorkerIndividual, TypeOK,
       CanalesTypeOK, MasterTypeOK, queryStruct, hilosDeQuery
<1>2. CASE atenderLeer(w)
  <2>1. query_actual[w] \in Queries
    BY <1>2 DEF atenderLeer, TypeOK, MasterTypeOK
  <2>2. aQC' \in [Queries -> Seq(Orden)]
    BY <1>2, <2>1 DEF atenderLeer, TypeOK, CanalesTypeOK, Orden
  <2> QED
    BY <1>2, <2>2, recibirTipo, enviarTipo DEF atenderLeer, atiende, TypeOK,
       CanalesTypeOK, MasterTypeOK, masterVars
<1>3. CASE atenderDesalojar(w)
  BY <1>3, atenderDesalojarTipo
<1>4. CASE atenderFinalizar(w)
  <2>1. query_actual[w] \in Queries
    BY <1>4 DEF atenderFinalizar, TypeOK, MasterTypeOK
  <2>2. query_actual' \in [Workers -> Queries \cup {NULL}]
    BY <1>4 DEF atenderFinalizar, TypeOK, MasterTypeOK
  <2> QED
    BY <1>4, <2>1, <2>2, recibirTipo, notificarTipo DEF atenderFinalizar, atiende,
       TypeOK, CanalesTypeOK, MasterTypeOK, queryStruct, hilosDeQuery
<1>5. CASE atenderFinCiclo(w)
  BY <1>5, recibirTipo, enviarPorWorkerTipo DEF atenderFinCiclo, atiende,
     TypeOK, CanalesTypeOK, MasterTypeOK, queryStruct, hilosDeQuery
<1>6. CASE atenderFinalizarWorker(w)
  <2>1. query_actual[w] \in Queries
    BY <1>6 DEF atenderFinalizarWorker, TypeOK, MasterTypeOK
  <2>2. hilo_worker' \in [Workers -> {"no", "atiende", "huerfano", "fin"}]
    BY <1>6 DEF atenderFinalizarWorker, TypeOK, MasterTypeOK
  <2> QED
    BY <1>6, <2>1, <2>2, recibirTipo, notificarTipo, quitarTipo
       DEF atenderFinalizarWorker, atiende, TypeOK, CanalesTypeOK,
       MasterTypeOK, queryStruct, hilosDeQuery
<1>7. CASE desconexionWorker(w)
  <2>1. aQC' \in [Queries -> Seq(Orden)] /\ caida' \in Caida
    BY <1>7, notificarTipo DEF desconexionWorker, TypeOK, CanalesTypeOK, MasterTypeOK
  <2>2. hilo_worker' \in [Workers -> {"no", "atiende", "huerfano", "fin"}]
    BY <1>7 DEF desconexionWorker, TypeOK, MasterTypeOK
  <2> QED
    BY <1>7, <2>1, <2>2, quitarTipo DEF desconexionWorker, TypeOK,
       CanalesTypeOK, MasterTypeOK, queryStruct, hilosDeQuery
<1>8. CASE queryActualNula(w) \/ queryPendienteNula(w)
  <2>1. aMaster' \in [Workers -> Seq(Respuesta)]
    BY <1>8, recibirTipo DEF queryActualNula, queryPendienteNula, atiende
  <2> QED
    BY <1>8, <2>1 DEF queryActualNula, queryPendienteNula, TypeOK,
       CanalesTypeOK, MasterTypeOK, masterVars, Caida
<1>9. CASE workerLiberado(w)
  BY <1>9 DEF workerLiberado, TypeOK, CanalesTypeOK, MasterTypeOK, masterVars,
     canales, Caida
<1> QED
  BY <1>1, <1>2, <1>3, <1>4, <1>5, <1>6, <1>7, <1>8, <1>9 DEF hiloDelWorker

LEMMA hiloDesalojoDelWorkerTipo ==
  ASSUME TypeOK, NEW w \in Workers, hiloDesalojoDelWorker(w)
  PROVE  CanalesTypeOK' /\ MasterTypeOK'
  BY DEF hiloDesalojoDelWorker, recibirIdWorkerDesalojo, TypeOK, CanalesTypeOK,
     MasterTypeOK, workerStruct, queryStruct, hilosDeQuery, Caida

-----------------------------------------------------------------------------
(* Type correctness: workers and query controls.                           *)

LEMMA responderTipo ==
  ASSUME TypeOK, NEW w \in Workers, NEW tipos \in Seq(TipoRespuesta),
         responder(w, tipos)
  PROVE  aMaster' \in [Workers -> Seq(Respuesta)]
<1> DEFINE nuevos == [i \in 1 .. Len(tipos) |->
                        [tipo |-> tipos[i], query |-> en_curso[w], pc |-> pc_query[w]]]
<1>1. nuevos \in Seq(Respuesta)
  BY DEF TypeOK, WorkerTypeOK, Respuesta
<1>2. aMaster[w] \o nuevos \in Seq(Respuesta)
  BY <1>1 DEF TypeOK, CanalesTypeOK
<1> HIDE DEF nuevos
<1>3. aMaster' = [aMaster EXCEPT ![w] = @ \o nuevos]
  BY DEF responder, nuevos
<1> QED BY <1>2, <1>3 DEF TypeOK, CanalesTypeOK

LEMMA ExecuteTipo ==
  ASSUME TypeOK, NEW w \in Workers, Execute(w), UNCHANGED <<caidos, caida>>
  PROVE  CanalesTypeOK' /\ WorkerTypeOK'
<1>1. \E tipos \in Seq(TipoRespuesta) : sigue(w, tipos) \/ finaliza(w, tipos)
  <2>1. /\ <<>> \in Seq(TipoRespuesta)
        /\ <<"LEER">> \in Seq(TipoRespuesta) /\ <<"ERROR">> \in Seq(TipoRespuesta)
        /\ <<"FINALIZAR">> \in Seq(TipoRespuesta)
        /\ <<"ERROR", "ERROR">> \in Seq(TipoRespuesta)
    BY DEF TipoRespuesta
  <2> QED BY <2>1 DEF Execute, ejecutarCommit
<1>2. PICK tipos \in Seq(TipoRespuesta) : sigue(w, tipos) \/ finaliza(w, tipos)
  BY <1>1
<1>3. aMaster' \in [Workers -> Seq(Respuesta)]
  BY <1>2, responderTipo DEF sigue, finaliza
<1>4. /\ es_error_o_end' \in [Workers -> BOOLEAN]
      /\ pc_query' \in [Workers -> Nat]
      /\ ejecutadas' \in [Queries -> Nat]
  <2>1. CASE sigue(w, tipos)
    <3>1. ejecutadas' \in [Queries -> Nat]
      <4>1. /\ ejecutadas \in [Queries -> Nat]
            /\ ejecutadas' = [ejecutadas EXCEPT ![en_curso[w]] = ejecutadas[en_curso[w]] + 1]
        BY <2>1 DEF sigue, TypeOK, WorkerTypeOK
      <4>2. CASE en_curso[w] \in Queries
        BY <4>1, <4>2
      <4>3. CASE en_curso[w] \notin Queries
        BY <4>1, <4>3
      <4> QED BY <4>2, <4>3
    <3> QED BY <2>1, <3>1 DEF sigue, TypeOK, WorkerTypeOK
  <2>2. CASE finaliza(w, tipos)
    BY <2>2 DEF finaliza, TypeOK, WorkerTypeOK
  <2> QED BY <1>2, <2>1, <2>2
<1>5. fase' \in [Workers -> Fase]
  BY DEF Execute, pasaA, Fase, TypeOK, WorkerTypeOK
<1> QED BY <1>3, <1>4, <1>5 DEF WorkerTypeOK, Execute, otrosCanales, TypeOK, CanalesTypeOK

LEMMA gestionarTipo ==
  ASSUME TypeOK, NEW w \in Workers, gestionarCheckInterrupt(w),
         UNCHANGED <<caidos, caida>>
  PROVE  CanalesTypeOK' /\ WorkerTypeOK'
<1>1. PICK tipos \in Seq(TipoRespuesta) : responder(w, tipos)
  <2>1. /\ <<"FIN_CICLO">> \in Seq(TipoRespuesta)
        /\ <<finDesalojo(w)>> \in Seq(TipoRespuesta)
        /\ <<"ERROR", finDesalojo(w)>> \in Seq(TipoRespuesta)
    BY DEF TipoRespuesta, finDesalojo
  <2> QED BY <2>1 DEF gestionarCheckInterrupt
<1>2. aMaster' \in [Workers -> Seq(Respuesta)]
  BY <1>1, responderTipo
<1> QED
  BY <1>2 DEF gestionarCheckInterrupt, otrosCanales, pasaA, Fase, TypeOK,
     CanalesTypeOK, WorkerTypeOK

LEMMA whileTipo ==
  ASSUME TypeOK, NEW w \in Workers, whileNoDeboMorir(w)
  PROVE  /\ fase' \in [Workers -> Fase]
         /\ caidos' \subseteq Workers \cup Queries
         /\ aMaster' \in [Workers -> Seq(Respuesta)]
<1> DEFINE m == [tipo |-> "FINALIZAR_WORKER", query |-> en_curso[w], pc |-> pc_query[w]]
<1>1. m \in Respuesta
  BY DEF Respuesta, TipoRespuesta, TypeOK, WorkerTypeOK
<1> HIDE DEF m
<1>2. aMaster' = [aMaster EXCEPT ![w] = Append(@, m)] \/ aMaster' = aMaster
  BY DEF whileNoDeboMorir, m
<1>3. aMaster' \in [Workers -> Seq(Respuesta)]
  <2>1. aMaster \in [Workers -> Seq(Respuesta)]
    BY DEF TypeOK, CanalesTypeOK
  <2>2. Append(aMaster[w], m) \in Seq(Respuesta)
    BY <1>1, <2>1
  <2> QED BY <1>2, <2>1, <2>2
<1>4. \/ pasaA(w, "terminado") /\ caidos' = caidos \cup {w}
      \/ pasaA(w, "esperando") /\ caidos' = caidos
  BY DEF whileNoDeboMorir
<1> QED
  BY <1>3, <1>4 DEF pasaA, Fase, TypeOK, CanalesTypeOK, WorkerTypeOK

LEMMA cicloWorkerTipo ==
  ASSUME TypeOK, NEW w \in Workers, cicloWorker(w), UNCHANGED caida
  PROVE  CanalesTypeOK' /\ WorkerTypeOK'
<1>1. CASE conexionMaster(w) /\ UNCHANGED caidos
  BY <1>1 DEF conexionMaster, pasaA, Fase, Handshake, TypeOK, CanalesTypeOK, WorkerTypeOK
<1>2. CASE esperandoQuery(w) /\ UNCHANGED caidos
  <2>1. /\ Head(aWorker[w]) \in Asignacion
        /\ aWorker' \in [Workers -> Seq(Asignacion)]
    BY <1>2 DEF esperandoQuery, TypeOK, CanalesTypeOK
  <2> QED
    BY <1>2, <2>1 DEF esperandoQuery, pasaA, Fase, Asignacion, TypeOK,
       CanalesTypeOK, WorkerTypeOK
<1>3. CASE Execute(w) /\ UNCHANGED caidos
  BY <1>3, ExecuteTipo
<1>4. CASE checkInterrupt(w) /\ UNCHANGED caidos
  BY <1>4 DEF checkInterrupt, SinEnviar, canales, pasaA, Fase, TypeOK,
     CanalesTypeOK, WorkerTypeOK
<1>5. CASE gestionarCheckInterrupt(w) /\ UNCHANGED caidos
  BY <1>5, gestionarTipo
<1>6. CASE conexionMasterDesalojo(w)
  BY <1>6, whileTipo DEF conexionMasterDesalojo, Handshake, TypeOK,
     CanalesTypeOK, WorkerTypeOK
<1>7. CASE limpiar(w)
  BY <1>7, whileTipo DEF limpiar, otrosCanales, TypeOK, CanalesTypeOK, WorkerTypeOK
<1> QED BY <1>1, <1>2, <1>3, <1>4, <1>5, <1>6, <1>7 DEF cicloWorker

LEMMA PasoDeWorkerTipo ==
  ASSUME TypeOK, NEW w \in Workers, PasoDeWorker(w)
  PROVE  TypeOK'
<1>1. CASE pasoWorker(cicloWorker(w))
  BY <1>1, cicloWorkerTipo DEF pasoWorker, masterVars, TypeOK, MasterTypeOK, QCTypeOK
<1>2. CASE pasoWorker(hiloDesalojo(w))
  BY <1>2 DEF pasoWorker, masterVars, hiloDesalojo, TypeOK, CanalesTypeOK,
     MasterTypeOK, WorkerTypeOK, QCTypeOK
<1>3. CASE pasoWorker(manejador_senial(w))
  BY <1>3 DEF pasoWorker, masterVars, canales, manejador_senial, TypeOK,
     CanalesTypeOK, MasterTypeOK, WorkerTypeOK, QCTypeOK
<1>4. CASE pasoWorker(caeWorker(w))
  BY <1>4 DEF pasoWorker, masterVars, canales, caeWorker, pasaA, Fase, TypeOK,
     CanalesTypeOK, MasterTypeOK, WorkerTypeOK, QCTypeOK
<1>5. CASE pierdeMaster(w) /\ UNCHANGED <<masterVars, caida, estado_qc>>
  BY <1>5 DEF masterVars, canales, pierdeMaster, pasaA, Fase, TypeOK,
     CanalesTypeOK, MasterTypeOK, WorkerTypeOK, QCTypeOK
<1> QED BY <1>1, <1>2, <1>3, <1>4, <1>5 DEF PasoDeWorker, pasoWorker

LEMMA PasoDeQCTipo ==
  ASSUME TypeOK, NEW q \in Queries, PasoDeQC(q)
  PROVE  TypeOK'
<1> USE DEF pasoQC, masterVars, workerVars, qcPasaA, TypeOK, CanalesTypeOK,
        MasterTypeOK, WorkerTypeOK, QCTypeOK
<1>1. CASE pasoQC(registrarQuery(q))
  BY <1>1 DEF registrarQuery
<1>2. CASE pasoQC(gestionarOrdenMaestro(q))
  <2>1. aQC' \in [Queries -> Seq(Orden)]
    BY <1>2 DEF gestionarOrdenMaestro
  <2>2. QCTypeOK' /\ caidos' \subseteq Workers \cup Queries
    BY <1>2 DEF gestionarOrdenMaestro
  <2> QED BY <1>2, <2>1, <2>2 DEF gestionarOrdenMaestro
<1>3. CASE pasoQC(masterCerro(q))
  BY <1>3 DEF masterCerro, canales
<1>4. CASE pasoQC(caeQC(q))
  BY <1>4 DEF caeQC, canales
<1> QED BY <1>1, <1>2, <1>3, <1>4 DEF PasoDeQC, cicloQC

LEMMA InitTipo == Init => TypeOK
  BY ConfigMaster DEF Init, TypeOK, CanalesInit, CanalesTypeOK, Caida,
     MasterInit, MasterTypeOK, WorkerInit, WorkerTypeOK, Fase, QCInit, QCTypeOK

\* Every structure and channel keeps its type, for any configuration: the
\* state invariant the other proofs start from.
THEOREM TipoCorrecto == Spec => []TypeOK
<1>1. Init => TypeOK
  BY InitTipo
<1>2. TypeOK /\ [Next]_vars => TypeOK'
  <2> SUFFICES ASSUME TypeOK, [Next]_vars PROVE TypeOK'
    OBVIOUS
  <2>1. CASE PasoDelMaster
    BY <2>1, hiloDelQueryTipo, hiloDeAgingTipo, hiloDelWorkerTipo,
       hiloDesalojoDelWorkerTipo
       DEF PasoDelMaster, pasoMaster, MasterNext, workerVars, TypeOK,
           WorkerTypeOK, QCTypeOK
  <2>2. CASE \E w \in Workers : PasoDeWorker(w)
    BY <2>2, PasoDeWorkerTipo
  <2>3. CASE \E q \in Queries : PasoDeQC(q)
    BY <2>3, PasoDeQCTipo
  <2>4. CASE UNCHANGED vars
    BY <2>4 DEF vars, canales, masterVars, workerVars, TypeOK, CanalesTypeOK,
       MasterTypeOK, WorkerTypeOK, QCTypeOK
  <2> QED BY <2>1, <2>2, <2>3, <2>4 DEF Next
<1> QED BY <1>1, <1>2, PTL DEF Spec

-----------------------------------------------------------------------------
(* One copy of every query.  The three structures, as data: a READY list r, *)
(* what each worker runs (a) and what waits for it (p).                     *)

Disjuntas(r, a, p) ==
  /\ SinRepetidos(r)
  /\ \A w \in Workers : a[w] \notin ToSet(r) /\ p[w] \notin ToSet(r)
  /\ \A v, w \in Workers :
       /\ a[v] = a[w] /\ v # w => a[v] = NULL
       /\ p[v] = p[w] /\ v # w => p[v] = NULL
       /\ a[v] = p[w] => a[v] = NULL

Ocupadas(r, a, p) ==
  ToSet(r) \cup {a[w] : w \in Workers} \cup {p[w] : w \in Workers}

\* A query that gestionarQueryIndividual has not queued yet is nowhere.
Admitidas ==
  \A q \in Queries : hilo_query[q] # "gestionada" =>
    q \notin Ocupadas(lista_ready, query_actual, query_pendiente)

\* A request is read once: its query control sent it, and no thread has
\* started on it.
PedidosNuevos ==
  \A q \in Queries :
    /\ q \in pedidos => estado_qc[q] # "nuevo"
    /\ q \in pedidos \/ estado_qc[q] = "nuevo" => hilo_query[q] = "no"

\* UnaCopia is not inductive: an arrival keeps it only if the query is new.
IUnaCopia == TypeOK /\ UnaCopia /\ Admitidas /\ PedidosNuevos

LEMMA UnaCopiaDisjuntas ==
  UnaCopia <=> Disjuntas(lista_ready, query_actual, query_pendiente)
  BY DEF UnaCopia, Disjuntas, SinRepetidos

\* The moves the handlers are made of.
LEMMA ReadyAWorker ==
  ASSUME NEW r \in Seq(Queries), r # <<>>, NEW w \in Workers,
         NEW a \in [Workers -> Queries \cup {NULL}],
         NEW p \in [Workers -> Queries \cup {NULL}], Disjuntas(r, a, p)
  PROVE  LET a2 == [a EXCEPT ![w] = Head(r)] IN
         /\ Disjuntas(Tail(r), a2, p)
         /\ Ocupadas(Tail(r), a2, p) \subseteq Ocupadas(r, a, p)
  BY SacarPrimero, NullAssumption DEF Disjuntas, Ocupadas

LEMMA ReadyAPendiente ==
  ASSUME NEW r \in Seq(Queries), r # <<>>, NEW w \in Workers,
         NEW a \in [Workers -> Queries \cup {NULL}],
         NEW p \in [Workers -> Queries \cup {NULL}], Disjuntas(r, a, p)
  PROVE  LET p2 == [p EXCEPT ![w] = Head(r)] IN
         /\ Disjuntas(Tail(r), a, p2)
         /\ Ocupadas(Tail(r), a, p2) \subseteq Ocupadas(r, a, p)
  BY SacarPrimero, NullAssumption DEF Disjuntas, Ocupadas

LEMMA NuevaAReady ==
  ASSUME NEW r \in Seq(Queries), NEW q \in Queries, NEW a, NEW p,
         Disjuntas(r, a, p), q \notin Ocupadas(r, a, p)
  PROVE  /\ Disjuntas(Append(r, q), a, p)
         /\ Ocupadas(Append(r, q), a, p) = Ocupadas(r, a, p) \cup {q}
<1>1. Disjuntas(Append(r, q), a, p)
  BY AgregarAlFinal DEF Disjuntas, Ocupadas
<1>2. Ocupadas(Append(r, q), a, p) = Ocupadas(r, a, p) \cup {q}
  BY AgregarAlFinal DEF Ocupadas
<1> QED BY <1>1, <1>2

LEMMA NuevaAWorker ==
  ASSUME NEW r \in Seq(Queries), NEW q \in Queries, NEW w \in Workers,
         NEW a \in [Workers -> Queries \cup {NULL}],
         NEW p \in [Workers -> Queries \cup {NULL}],
         Disjuntas(r, a, p), q \notin Ocupadas(r, a, p)
  PROVE  LET a2 == [a EXCEPT ![w] = q] IN
         /\ Disjuntas(r, a2, p)
         /\ Ocupadas(r, a2, p) \subseteq Ocupadas(r, a, p) \cup {q}
  BY NullAssumption DEF Disjuntas, Ocupadas

LEMMA MismosEnReady ==
  ASSUME NEW r, NEW s, NEW a, NEW p, Disjuntas(r, a, p),
         ToSet(s) = ToSet(r), SinRepetidos(s)
  PROVE  Disjuntas(s, a, p) /\ Ocupadas(s, a, p) = Ocupadas(r, a, p)
  BY DEF Disjuntas, Ocupadas

\* A worker forgets what it ran, or what waited for it.
LEMMA Olvidar ==
  ASSUME NEW r \in Seq(Queries), NEW w \in Workers,
         NEW a \in [Workers -> Queries \cup {NULL}],
         NEW p \in [Workers -> Queries \cup {NULL}], Disjuntas(r, a, p)
  PROVE  LET a2 == [a EXCEPT ![w] = NULL]
             p2 == [p EXCEPT ![w] = NULL]
         IN /\ Disjuntas(r, a2, p) /\ Disjuntas(r, a, p2) /\ Disjuntas(r, a2, p2)
            /\ a[w] # NULL => a[w] \notin Ocupadas(r, a2, p)
            /\ p[w] # NULL => p[w] \notin Ocupadas(r, a, p2)
            /\ Ocupadas(r, a2, p) \subseteq Ocupadas(r, a, p) \cup {NULL}
            /\ Ocupadas(r, a, p2) \subseteq Ocupadas(r, a, p) \cup {NULL}
            /\ Ocupadas(r, a2, p2) \subseteq Ocupadas(r, a, p) \cup {NULL}
<1>1. NULL \notin ToSet(r)
  BY ElementosTipo, NullAssumption
<1> QED BY <1>1 DEF Disjuntas, Ocupadas

-----------------------------------------------------------------------------
(* One copy of every query: the handlers.                                  *)

OcupadasAhora == Ocupadas(lista_ready, query_actual, query_pendiente)

\* A step that moves queries but brings in none.
Conserva == UnaCopia' /\ OcupadasAhora' \subseteq OcupadasAhora \cup {NULL}

LEMMA desalojarCopia ==
  ASSUME TypeOK, NEW q, NEW p, NEW r \in Seq(Queries), r # <<>>,
         Disjuntas(r, query_actual, query_pendiente),
         intentarDesalojar(q, r, p), query_actual' = query_actual
  PROVE  /\ UnaCopia'
         /\ OcupadasAhora' \subseteq Ocupadas(r, query_actual, query_pendiente)
<1> DEFINE D(l, p2) == /\ Disjuntas(l, query_actual, p2)
                       /\ Ocupadas(l, query_actual, p2)
                             \subseteq Ocupadas(r, query_actual, query_pendiente)
<1>1. D(lista_ready', query_pendiente')
  <2>1. ASSUME NEW w \in WorkerConMenorPrioridad(p),
               lista_ready' = Tail(r), realizarDesalojo(w, Head(r))
        PROVE  D(lista_ready', query_pendiente')
    <3>1. w \in Workers
      BY Elegidos DEF TypeOK
    <3> QED BY <2>1, <3>1, ReadyAPendiente DEF realizarDesalojo, TypeOK, MasterTypeOK
  <2>2. ASSUME lista_ready' = r, SinDesalojar
        PROVE  D(lista_ready', query_pendiente')
    BY <2>2 DEF SinDesalojar
  <2> QED BY <2>1, <2>2 DEF intentarDesalojar
<1>2. UnaCopia' <=> Disjuntas(lista_ready', query_actual', query_pendiente')
  BY DEF UnaCopia, Disjuntas, SinRepetidos
<1> QED BY <1>1, <1>2 DEF OcupadasAhora

LEMMA despacharCopia ==
  ASSUME TypeOK, NEW w \in Workers, NEW r \in Seq(Queries), r # <<>>,
         Disjuntas(r, query_actual, query_pendiente),
         asignarQueryAWorker(w, Head(r))
  PROVE  /\ Disjuntas(Tail(r), query_actual', query_pendiente)
         /\ Ocupadas(Tail(r), query_actual', query_pendiente)
               \subseteq Ocupadas(r, query_actual, query_pendiente)
<1>1. /\ query_actual \in [Workers -> Queries \cup {NULL}]
      /\ query_pendiente \in [Workers -> Queries \cup {NULL}]
  BY DEF TypeOK, MasterTypeOK
<1>2. query_actual' = [query_actual EXCEPT ![w] = Head(r)]
  BY DEF asignarQueryAWorker
<1> QED BY <1>1, <1>2, ReadyAWorker

LEMMA asignarCopia ==
  ASSUME TypeOK, NEW w \in Workers, NEW r \in Seq(Queries), NEW q \in Queries,
         NEW p \in [Workers -> Queries \cup {NULL}],
         NEW a \in [Workers -> Queries \cup {NULL}],
         Disjuntas(r, a, p), q \notin Ocupadas(r, a, p),
         [a EXCEPT ![w] = q] = query_actual'
  PROVE  /\ Disjuntas(r, query_actual', p)
         /\ Ocupadas(r, query_actual', p) \subseteq Ocupadas(r, a, p) \cup {q}
  BY NuevaAWorker

LEMMA enviarPorWorkerCopia ==
  ASSUME TypeOK, UnaCopia, NEW w \in Workers, intentarEnviarPorWorker(w)
  PROVE  Conserva
<1> DEFINE a == query_actual
           p == query_pendiente
<1>0. /\ lista_ready \in Seq(Queries) /\ Disjuntas(lista_ready, a, p)
      /\ a \in [Workers -> Queries \cup {NULL}]
      /\ p \in [Workers -> Queries \cup {NULL}]
  BY UnaCopiaDisjuntas DEF TypeOK, MasterTypeOK
<1>1. /\ Disjuntas(lista_ready', a', p')
      /\ Ocupadas(lista_ready', a', p') \subseteq Ocupadas(lista_ready, a, p) \cup {NULL}
  <2>1. CASE lista_ready # <<>>
    <3>1. PICK r \in ParaDespachar(lista_ready) :
            /\ lista_ready' = Tail(r) /\ asignarQueryAWorker(w, Head(r))
            /\ UNCHANGED p
      BY <2>1 DEF intentarEnviarPorWorker
    <3>2. /\ r \in Seq(Queries) /\ r # <<>> /\ Disjuntas(r, a, p)
          /\ Ocupadas(r, a, p) = Ocupadas(lista_ready, a, p)
      <4>1. r \in Seq(Queries) /\ r # <<>> /\ ToSet(r) = ToSet(lista_ready) /\ SinRepetidos(r)
        BY <1>0, <2>1, ReadyOrdenada DEF Disjuntas
      <4> QED BY <1>0, <4>1, MismosEnReady
    <3> QED BY <3>1, <3>2, despacharCopia
  <2>2. CASE lista_ready = <<>>
    <3>1. /\ a' = [a EXCEPT ![w] = NULL] /\ p' = [p EXCEPT ![w] = NULL]
          /\ lista_ready' = lista_ready
      BY <2>2 DEF intentarEnviarPorWorker
    <3> QED BY <1>0, <3>1, Olvidar
  <2> QED BY <2>1, <2>2
<1>2. UnaCopia' <=> Disjuntas(lista_ready', a', p')
  BY DEF UnaCopia, Disjuntas, SinRepetidos
<1> QED BY <1>1, <1>2 DEF Conserva, OcupadasAhora

\* An arrival brings in its own query and no other.
LEMMA gestionarQueryCopia ==
  ASSUME IUnaCopia, NEW q \in Queries, gestionarQueryIndividual(q)
  PROVE  UnaCopia' /\ OcupadasAhora' \subseteq OcupadasAhora \cup {q}
<1> DEFINE a == query_actual
           p == query_pendiente
           l == lista_ready
           nueva == Append(l, q)
           Bien == /\ Disjuntas(l', a', p')
                   /\ Ocupadas(l', a', p') \subseteq Ocupadas(l, a, p) \cup {q}
<1>0. /\ l \in Seq(Queries) /\ Disjuntas(l, a, p) /\ q \notin Ocupadas(l, a, p)
      /\ a \in [Workers -> Queries \cup {NULL}]
      /\ p \in [Workers -> Queries \cup {NULL}]
      /\ WorkerLibre \subseteq Workers
  BY UnaCopiaDisjuntas, Elegidos
     DEF IUnaCopia, Admitidas, gestionarQueryIndividual, TypeOK, MasterTypeOK
<1>1. /\ nueva \in Seq(Queries) /\ nueva # <<>>
      /\ Disjuntas(nueva, a, p)
      /\ Ocupadas(nueva, a, p) = Ocupadas(l, a, p) \cup {q}
  BY <1>0, NuevaAReady, AgregarAlFinal
<1> HIDE DEF nueva
<1>2. ASSUME entrarFIFO(q) PROVE Bien
  <2>1. CASE /\ l' = l /\ p' = p
             /\ \E w \in WorkerLibre : asignarQueryAWorker(w, q)
    <3>1. PICK w \in Workers : a' = [a EXCEPT ![w] = q]
      BY <1>0, <2>1 DEF asignarQueryAWorker
    <3> QED BY <1>0, <2>1, <3>1, asignarCopia DEF IUnaCopia
  <2>2. CASE l' = nueva /\ p' = p /\ a' = a
    BY <1>1, <2>2
  <2> QED BY <1>2, <2>1, <2>2 DEF entrarFIFO, SinDesalojar, SinAsignar, nueva
<1>3. ASSUME entrarPrioridades(q) PROVE Bien
  <2>1. PICK r \in Ordenaciones(nueva, prioridad) :
         \/ l' = r /\ SinAsignar /\ SinDesalojar
         \/ /\ \E w \in WorkerLibre : asignarQueryAWorker(w, Head(r))
            /\ l' = Tail(r) /\ SinDesalojar
         \/ intentarDesalojar(q, r, prioridad) /\ SinAsignar
    BY <1>3 DEF entrarPrioridades, nueva
  <2>2. /\ r \in Seq(Queries) /\ r # <<>> /\ Disjuntas(r, a, p)
        /\ Ocupadas(r, a, p) = Ocupadas(l, a, p) \cup {q}
    <3>1. r \in Seq(Queries) /\ r # <<>> /\ ToSet(r) = ToSet(nueva) /\ SinRepetidos(r)
      BY <1>1, Ordenar
    <3> QED BY <1>1, <3>1, MismosEnReady
  <2>3. CASE l' = r /\ SinAsignar /\ SinDesalojar
    BY <2>2, <2>3 DEF SinAsignar, SinDesalojar
  <2>4. CASE /\ \E w \in WorkerLibre : asignarQueryAWorker(w, Head(r))
             /\ l' = Tail(r) /\ SinDesalojar
    <3>1. PICK w \in Workers : asignarQueryAWorker(w, Head(r))
      BY <1>0, <2>4
    <3> QED BY <2>2, <2>4, <3>1, despacharCopia DEF IUnaCopia, SinDesalojar
  <2>5. CASE intentarDesalojar(q, r, prioridad) /\ SinAsignar
    <3>1. a' = a
      BY <2>5 DEF SinAsignar
    <3>2. UnaCopia' /\ OcupadasAhora' \subseteq Ocupadas(r, a, p)
      BY <2>2, <2>5, <3>1, desalojarCopia DEF IUnaCopia
    <3>3. UnaCopia' <=> Disjuntas(l', a', p')
      BY DEF UnaCopia, Disjuntas, SinRepetidos
    <3> QED BY <2>2, <3>2, <3>3 DEF OcupadasAhora
  <2> QED BY <2>1, <2>3, <2>4, <2>5
<1>4. Bien
  BY <1>2, <1>3 DEF gestionarQueryIndividual
<1>5. UnaCopia' <=> Disjuntas(l', a', p')
  BY DEF UnaCopia, Disjuntas, SinRepetidos
<1> QED BY <1>4, <1>5 DEF OcupadasAhora

LEMMA agingCopia ==
  ASSUME TypeOK, UnaCopia, NEW q \in Queries, realizarAgingIndividual(q)
  PROVE  Conserva
<1> DEFINE a == query_actual
           p == query_pendiente
<1>0. /\ lista_ready \in Seq(Queries) /\ Disjuntas(lista_ready, a, p) /\ a' = a
  BY UnaCopiaDisjuntas DEF realizarAgingIndividual, TypeOK, MasterTypeOK
<1>1. CASE UNCHANGED <<lista_ready, query_pendiente>>
  BY <1>0, <1>1 DEF Conserva, OcupadasAhora, UnaCopia
<1>2. ASSUME NEW g \in EnReady(q), NEW r \in Ordenaciones(lista_ready, prioridad'),
             \/ intentarDesalojar(g, r, prioridad')
             \/ lista_ready' = r /\ UNCHANGED query_pendiente
      PROVE  Conserva
  <2>1. lista_ready # <<>>
    BY DEF EnReady
  <2>2. /\ r \in Seq(Queries) /\ r # <<>> /\ Disjuntas(r, a, p)
        /\ Ocupadas(r, a, p) = OcupadasAhora
    <3>1. r \in Seq(Queries) /\ r # <<>> /\ ToSet(r) = ToSet(lista_ready) /\ SinRepetidos(r)
      BY <1>0, <2>1, Ordenar
    <3> QED BY <1>0, <3>1, MismosEnReady DEF OcupadasAhora
  <2>3. CASE intentarDesalojar(g, r, prioridad')
    BY <1>0, <2>2, <2>3, desalojarCopia DEF Conserva
  <2>4. CASE lista_ready' = r /\ UNCHANGED query_pendiente
    <3>1. UnaCopia' <=> Disjuntas(lista_ready', a', p')
      BY DEF UnaCopia, Disjuntas, SinRepetidos
    <3> QED BY <1>0, <2>2, <2>4, <3>1 DEF Conserva, OcupadasAhora
  <2> QED BY <1>2, <2>3, <2>4
<1> QED BY <1>1, <1>2 DEF realizarAgingIndividual

LEMMA quitarCopia ==
  ASSUME TypeOK, UnaCopia, NEW w \in Workers, quitarWorker(w)
  PROVE  /\ Conserva
         /\ query_actual[w] # NULL => query_actual[w] \notin OcupadasAhora'
<1> DEFINE a == query_actual
           p == query_pendiente
           l == lista_ready
           a2 == [a EXCEPT ![w] = NULL]
           p2 == [p EXCEPT ![w] = NULL]
<1>0. /\ l \in Seq(Queries) /\ Disjuntas(l, a, p)
      /\ a \in [Workers -> Queries \cup {NULL}]
      /\ p \in [Workers -> Queries \cup {NULL}]
  BY UnaCopiaDisjuntas DEF TypeOK, MasterTypeOK
<1>1. /\ a' = a2 /\ p' = p2
      /\ p[w] = NULL => l' = l
      /\ p[w] # NULL => l' = Append(l, p[w])
  BY DEF quitarWorker
<1>2. /\ Disjuntas(l, a2, p2)
      /\ Ocupadas(l, a2, p2) \subseteq Ocupadas(l, a, p) \cup {NULL}
      /\ a[w] # NULL => a[w] \notin Ocupadas(l, a2, p)
  BY <1>0, Olvidar
<1>3. p[w] # NULL => p[w] \notin Ocupadas(l, a2, p2)
  BY <1>0 DEF Disjuntas, Ocupadas
<1>4. a[w] # NULL => a[w] \notin Ocupadas(l, a2, p2) /\ a[w] # p[w]
  BY <1>0 DEF Disjuntas, Ocupadas
<1> HIDE DEF a2, p2
<1>5. /\ Disjuntas(l', a2, p2)
      /\ Ocupadas(l', a2, p2) \subseteq Ocupadas(l, a, p) \cup {NULL}
      /\ a[w] # NULL => a[w] \notin Ocupadas(l', a2, p2)
  <2>1. CASE p[w] = NULL
    BY <1>1, <1>2, <1>4, <2>1
  <2>2. CASE p[w] # NULL
    <3>1. p[w] \in Queries /\ p[w] \in Ocupadas(l, a, p)
      BY <1>0, <2>2 DEF Ocupadas
    <3>2. /\ Disjuntas(Append(l, p[w]), a2, p2)
          /\ Ocupadas(Append(l, p[w]), a2, p2) = Ocupadas(l, a2, p2) \cup {p[w]}
      BY <1>0, <1>2, <1>3, <2>2, <3>1, NuevaAReady
    <3> QED BY <1>1, <1>2, <1>4, <2>2, <3>1, <3>2
  <2> QED BY <2>1, <2>2
<1>6. UnaCopia' <=> Disjuntas(l', a', p')
  BY DEF UnaCopia, Disjuntas, SinRepetidos
<1> QED BY <1>1, <1>5, <1>6 DEF Conserva, OcupadasAhora

LEMMA atenderDesalojarCopia ==
  ASSUME TypeOK, UnaCopia, NEW w \in Workers, atenderDesalojar(w)
  PROVE  Conserva
<1> DEFINE a == query_actual
           p == query_pendiente
           l == lista_ready
           a2 == [a EXCEPT ![w] = NULL]
           p2 == [p EXCEPT ![w] = NULL]
<1>0. /\ l \in Seq(Queries) /\ Disjuntas(l, a, p)
      /\ a \in [Workers -> Queries \cup {NULL}]
      /\ p \in [Workers -> Queries \cup {NULL}]
      /\ p[w] \in Queries
  BY UnaCopiaDisjuntas DEF atenderDesalojar, TypeOK, MasterTypeOK
<1>1. /\ a' = [a EXCEPT ![w] = p[w]] /\ p' = p2
      /\ l' = l \/ (a[w] # NULL /\ l' = Append(l, a[w]))
  BY DEF atenderDesalojar, asignarQueryAWorker
<1>2. /\ Disjuntas(l, a2, p2)
      /\ Ocupadas(l, a2, p2) \subseteq Ocupadas(l, a, p) \cup {NULL}
      /\ p[w] \notin Ocupadas(l, a2, p2)
      /\ a[w] # NULL => a[w] \notin Ocupadas(l, a2, p2) /\ a[w] # p[w]
  <2>1. /\ Disjuntas(l, a2, p2)
        /\ Ocupadas(l, a2, p2) \subseteq Ocupadas(l, a, p) \cup {NULL}
    BY <1>0, Olvidar
  <2>2. p[w] \notin Ocupadas(l, a2, p2)
    BY <1>0, NullAssumption DEF Disjuntas, Ocupadas
  <2>3. a[w] # NULL => a[w] \notin Ocupadas(l, a2, p2) /\ a[w] # p[w]
    BY <1>0 DEF Disjuntas, Ocupadas
  <2> QED BY <2>1, <2>2, <2>3
<1> HIDE DEF a2, p2
<1>3. /\ Disjuntas(l', a2, p2) /\ l' \in Seq(Queries)
      /\ Ocupadas(l', a2, p2) \subseteq Ocupadas(l, a, p) \cup {NULL}
      /\ p[w] \notin Ocupadas(l', a2, p2)
  <2>1. CASE l' = l
    BY <1>0, <1>2, <2>1
  <2>2. CASE a[w] # NULL /\ l' = Append(l, a[w])
    <3>1. a[w] \in Queries /\ a[w] \in Ocupadas(l, a, p)
      BY <1>0, <2>2 DEF Ocupadas
    <3>2. /\ Disjuntas(Append(l, a[w]), a2, p2)
          /\ Ocupadas(Append(l, a[w]), a2, p2) = Ocupadas(l, a2, p2) \cup {a[w]}
          /\ Append(l, a[w]) \in Seq(Queries)
      BY <1>0, <1>2, <2>2, <3>1, NuevaAReady, AgregarAlFinal
    <3> QED BY <1>2, <2>2, <3>1, <3>2
  <2> QED BY <1>1, <2>1, <2>2
<1>4. /\ Disjuntas(l', a', p2)
      /\ Ocupadas(l', a', p2) \subseteq Ocupadas(l', a2, p2) \cup {p[w]}
  <2>1. a' = [a2 EXCEPT ![w] = p[w]]
    BY <1>0, <1>1 DEF a2
  <2>2. a2 \in [Workers -> Queries \cup {NULL}] /\ p2 \in [Workers -> Queries \cup {NULL}]
    BY <1>0 DEF a2, p2
  <2> QED BY <1>0, <1>3, <2>1, <2>2, asignarCopia
<1>5. p[w] \in Ocupadas(l, a, p)
  BY DEF Ocupadas
<1>6. UnaCopia' <=> Disjuntas(l', a', p')
  BY DEF UnaCopia, Disjuntas, SinRepetidos
<1> QED BY <1>1, <1>3, <1>4, <1>5, <1>6 DEF Conserva, OcupadasAhora

LEMMA finalizarCopia ==
  ASSUME TypeOK, UnaCopia, NEW w \in Workers, atenderFinalizar(w)
  PROVE  Conserva /\ query_actual[w] \notin OcupadasAhora'
<1> DEFINE a == query_actual
           p == query_pendiente
<1>1. /\ lista_ready \in Seq(Queries) /\ Disjuntas(lista_ready, a, p)
      /\ a \in [Workers -> Queries \cup {NULL}]
      /\ p \in [Workers -> Queries \cup {NULL}]
  BY UnaCopiaDisjuntas DEF TypeOK, MasterTypeOK
<1>2. /\ lista_ready' = lista_ready /\ p' = p /\ a[w] # NULL
      /\ a' = [a EXCEPT ![w] = NULL]
  BY DEF atenderFinalizar
<1>3. UnaCopia' <=> Disjuntas(lista_ready', a', p')
  BY DEF UnaCopia, Disjuntas, SinRepetidos
<1> QED BY <1>1, <1>2, <1>3, Olvidar DEF Conserva, OcupadasAhora

\* Every other handler leaves the three structures alone or conserves them.
LEMMA hiloDelWorkerCopia ==
  ASSUME TypeOK, UnaCopia, NEW w \in Workers, hiloDelWorker(w)
  PROVE  Conserva
<1> DEFINE Quietas == UNCHANGED <<lista_ready, query_actual, query_pendiente>>
<1>1. CASE Quietas
  BY <1>1 DEF Conserva, UnaCopia, OcupadasAhora
<1>2. CASE gestionarWorkerIndividual(w) \/ atenderFinCiclo(w)
  BY <1>2, enviarPorWorkerCopia DEF gestionarWorkerIndividual, atenderFinCiclo
<1>3. CASE atenderDesalojar(w)
  BY <1>3, atenderDesalojarCopia
<1>4. CASE atenderFinalizar(w)
  BY <1>4, finalizarCopia
<1>5. CASE atenderFinalizarWorker(w) \/ desconexionWorker(w)
  BY <1>5, quitarCopia DEF atenderFinalizarWorker, desconexionWorker
<1>6. CASE \/ atenderLeer(w) \/ queryActualNula(w)
           \/ queryPendienteNula(w) \/ workerLiberado(w)
  <2>1. Quietas
    BY <1>6 DEF atenderLeer, queryActualNula, queryPendienteNula, workerLiberado, masterVars
  <2> QED BY <1>1, <2>1
<1> QED BY <1>2, <1>3, <1>4, <1>5, <1>6 DEF hiloDelWorker

LEMMA hiloDelQueryCopia ==
  ASSUME IUnaCopia, NEW q \in Queries, hiloDelQuery(q), UNCHANGED estado_qc
  PROVE  UnaCopia' /\ Admitidas' /\ PedidosNuevos'
<1>0. hilo_query \in [Queries -> {"no", "creando", "creada", "gestionada"}]
  BY DEF IUnaCopia, TypeOK, MasterTypeOK
<1>1. CASE crearQuery(q) \/ incrementarQuid(q)
  <2>1. UNCHANGED <<lista_ready, query_actual, query_pendiente>>
    BY <1>1 DEF crearQuery, incrementarQuid, workerStruct
  <2>2. \A x \in Queries : hilo_query'[x] # "gestionada" => hilo_query[x] # "gestionada"
    BY <1>0, <1>1 DEF crearQuery, incrementarQuid, IUnaCopia, PedidosNuevos
  <2>3. PedidosNuevos'
    BY <1>0, <1>1 DEF crearQuery, incrementarQuid, canales, IUnaCopia, PedidosNuevos
  <2> QED BY <2>1, <2>2, <2>3 DEF IUnaCopia, UnaCopia, Admitidas
<1>2. CASE gestionarQueryIndividual(q)
  <2>1. UnaCopia' /\ OcupadasAhora' \subseteq OcupadasAhora \cup {q}
    BY <1>2, gestionarQueryCopia
  <2>2. /\ hilo_query[q] = "creada" /\ pedidos' = pedidos
        /\ hilo_query' = [hilo_query EXCEPT ![q] = "gestionada"]
    BY <1>2 DEF gestionarQueryIndividual
  <2>3. Admitidas'
    BY <1>0, <2>1, <2>2 DEF IUnaCopia, Admitidas, OcupadasAhora
  <2>4. PedidosNuevos'
    BY <1>0, <2>2 DEF IUnaCopia, PedidosNuevos
  <2> QED BY <2>1, <2>3, <2>4
<1> QED BY <1>1, <1>2 DEF hiloDelQuery

LEMMA PasoDelMasterCopia ==
  ASSUME IUnaCopia, PasoDelMaster
  PROVE  UnaCopia' /\ Admitidas' /\ PedidosNuevos'
<1>1. ASSUME Conserva, UNCHANGED <<pedidos, hilo_query>>
      PROVE  UnaCopia' /\ Admitidas' /\ PedidosNuevos'
  <2>1. Admitidas'
    BY <1>1, NullAssumption DEF Conserva, OcupadasAhora, IUnaCopia, Admitidas
  <2> QED
    BY <1>1, <2>1 DEF Conserva, IUnaCopia, PedidosNuevos, PasoDelMaster, pasoMaster
<1>2. ASSUME NEW q \in Queries, hiloDelQuery(q)
      PROVE  UnaCopia' /\ Admitidas' /\ PedidosNuevos'
  BY <1>2, hiloDelQueryCopia DEF PasoDelMaster, pasoMaster
<1>3. ASSUME NEW q \in Queries, hiloDeAging(q)
      PROVE  Conserva /\ UNCHANGED <<pedidos, hilo_query>>
  BY <1>3, agingCopia DEF IUnaCopia, hiloDeAging, realizarAgingIndividual, hilosDeQuery
<1>4. ASSUME NEW w \in Workers, hiloDelWorker(w)
      PROVE  Conserva /\ UNCHANGED <<pedidos, hilo_query>>
  <2>1. UNCHANGED <<pedidos, hilo_query>>
    BY <1>4 DEF hiloDelWorker, gestionarWorkerIndividual, atenderLeer,
       atenderDesalojar, atenderFinalizar, atenderFinCiclo,
       atenderFinalizarWorker, desconexionWorker, queryActualNula,
       queryPendienteNula, workerLiberado, masterVars, canales, hilosDeQuery
  <2> QED BY <1>4, <2>1, hiloDelWorkerCopia DEF IUnaCopia
<1>5. ASSUME NEW w \in Workers, hiloDesalojoDelWorker(w)
      PROVE  Conserva /\ UNCHANGED <<pedidos, hilo_query>>
  BY <1>5 DEF hiloDesalojoDelWorker, recibirIdWorkerDesalojo, workerStruct,
     hilosDeQuery, Conserva, OcupadasAhora, IUnaCopia, UnaCopia
<1> QED
  BY <1>1, <1>2, <1>3, <1>4, <1>5 DEF PasoDelMaster, pasoMaster, MasterNext

LEMMA IUnaCopiaInvariante == Spec => []IUnaCopia
<1>1. Init => IUnaCopia
  <2> SUFFICES ASSUME Init PROVE IUnaCopia
    OBVIOUS
  <2>1. TypeOK
    BY InitTipo
  <2>2. UnaCopia /\ Admitidas
    BY NullAssumption DEF Init, MasterInit, UnaCopia, Admitidas, Ocupadas, ToSet
  <2>3. PedidosNuevos
    BY DEF Init, CanalesInit, MasterInit, QCInit, PedidosNuevos
  <2> QED BY <2>1, <2>2, <2>3 DEF IUnaCopia
<1>2. TypeOK /\ TypeOK' /\ IUnaCopia /\ [Next]_vars => IUnaCopia'
  <2> SUFFICES ASSUME TypeOK', IUnaCopia, [Next]_vars PROVE IUnaCopia'
    OBVIOUS
  <2>1. CASE PasoDelMaster
    BY <2>1, PasoDelMasterCopia DEF IUnaCopia
  <2>2. CASE \E w \in Workers : PasoDeWorker(w)
    <3>1. UNCHANGED <<masterVars, estado_qc, pedidos>>
      BY <2>2 DEF PasoDeWorker, pasoWorker, pierdeMaster, caeWorker, hiloDesalojo,
         manejador_senial, cicloWorker, conexionMaster, esperandoQuery, Execute,
         checkInterrupt, SinEnviar, gestionarCheckInterrupt,
         conexionMasterDesalojo, limpiar, canales, otrosCanales
    <3> QED
      BY <3>1 DEF masterVars, IUnaCopia, UnaCopia, Admitidas, PedidosNuevos
  <2>3. CASE \E q \in Queries : PasoDeQC(q)
    <3>1. UNCHANGED masterVars
      BY <2>3 DEF PasoDeQC, pasoQC
    <3>2. PedidosNuevos'
      BY <2>3, <3>1 DEF PasoDeQC, pasoQC, cicloQC, registrarQuery, qcPasaA,
         gestionarOrdenMaestro, masterCerro, caeQC, canales, masterVars,
         IUnaCopia, PedidosNuevos, TypeOK, QCTypeOK
    <3> QED BY <3>1, <3>2 DEF masterVars, IUnaCopia, UnaCopia, Admitidas
  <2>4. CASE UNCHANGED vars
    BY <2>4 DEF vars, canales, masterVars, IUnaCopia, UnaCopia, Admitidas, PedidosNuevos
  <2> QED BY <2>1, <2>2, <2>3, <2>4 DEF Next
<1> QED BY <1>1, <1>2, TipoCorrecto, PTL DEF Spec

\* No Query* is held twice by READY, query_actual and query_pendiente: a
\* freed query leaves no dangling pointer and no query runs on two workers,
\* for any number of workers, queries, failures and preemptions.
THEOREM UnaCopiaSiempre == Spec => []UnaCopia
<1>1. IUnaCopia => UnaCopia
  BY DEF IUnaCopia
<1> QED BY <1>1, IUnaCopiaInvariante, PTL

-----------------------------------------------------------------------------
(* The last message is the last.                                           *)

\* A query whose query control was told FINALIZAR was accepted and is nowhere.
FinLibre ==
  caida = "no" =>
    \A q \in Queries : finalizada(q) =>
      hilo_query[q] = "gestionada" /\ q \notin OcupadasAhora

UltimoFin ==
  \A q \in Queries : \A i \in DOMAIN aQC[q] : aQC[q][i] = "FINALIZAR" => i = Len(aQC[q])

NadaDespues ==
  caida = "no" => \A q \in Queries : estado_qc[q] = "terminado" => aQC[q] = <<>>

IFin == IUnaCopia /\ FinLibre /\ UltimoFin /\ NadaDespues

\* What a step of the master may do to the query controls: speak for a query
\* that a worker holds, and say FINALIZAR only when letting go of it.
Habla(q) ==
  \/ aQC'[q] = aQC[q]
  \/ /\ q \in OcupadasAhora
     /\ \E x \in Orden :
          /\ aQC'[q] = Append(aQC[q], x)
          /\ x = "FINALIZAR" => q \notin OcupadasAhora'

LEMMA MasterHabla ==
  ASSUME IUnaCopia, PasoDelMaster
  PROVE  /\ \A q \in Queries : Habla(q)
         /\ \A q \in Queries : q \in OcupadasAhora' /\ q \notin OcupadasAhora
                              => hilo_query[q] # "gestionada"
         /\ \A q \in Queries : hilo_query[q] = "gestionada" => hilo_query'[q] = "gestionada"
<1> DEFINE Llegan == \A q \in Queries : q \in OcupadasAhora' /\ q \notin OcupadasAhora
                                        => hilo_query[q] # "gestionada"
           Crecen == \A q \in Queries : hilo_query[q] = "gestionada"
                                        => hilo_query'[q] = "gestionada"
           Hablan == \A q \in Queries : Habla(q)
<1>0. /\ TypeOK /\ UnaCopia /\ aQC \in [Queries -> Seq(Orden)]
      /\ query_actual \in [Workers -> Queries \cup {NULL}]
      /\ hilo_query \in [Queries -> {"no", "creando", "creada", "gestionada"}]
  BY DEF IUnaCopia, TypeOK, CanalesTypeOK, MasterTypeOK
<1>1. ASSUME NEW q \in Queries, hiloDelQuery(q)
      PROVE  Hablan /\ Llegan /\ Crecen
  <2>1. UNCHANGED aQC
    BY <1>1 DEF hiloDelQuery, crearQuery, incrementarQuid, gestionarQueryIndividual, canales
  <2>2. CASE crearQuery(q) \/ incrementarQuid(q)
    <3>1. OcupadasAhora' = OcupadasAhora
      BY <2>2 DEF crearQuery, incrementarQuid, workerStruct, OcupadasAhora
    <3>2. Crecen
      BY <1>0, <2>2 DEF crearQuery, incrementarQuid, IUnaCopia, PedidosNuevos
    <3> QED BY <2>1, <3>1, <3>2 DEF Habla
  <2>3. CASE gestionarQueryIndividual(q)
    <3>1. OcupadasAhora' \subseteq OcupadasAhora \cup {q}
      BY <2>3, gestionarQueryCopia
    <3>2. hilo_query[q] = "creada" /\ hilo_query' = [hilo_query EXCEPT ![q] = "gestionada"]
      BY <2>3 DEF gestionarQueryIndividual
    <3> QED BY <1>0, <2>1, <3>1, <3>2 DEF Habla
  <2> QED BY <1>1, <2>2, <2>3 DEF hiloDelQuery
<1>2. ASSUME NEW q \in Queries, hiloDeAging(q)
      PROVE  Hablan /\ Llegan /\ Crecen
  <2>1. Conserva /\ UNCHANGED <<aQC, hilo_query>>
    BY <1>0, <1>2, agingCopia DEF hiloDeAging, realizarAgingIndividual, hilosDeQuery
  <2> QED BY <2>1, NullAssumption DEF Habla, Conserva
<1>3. ASSUME NEW w \in Workers, hiloDelWorker(w)
      PROVE  Hablan /\ Llegan /\ Crecen
  <2>1. Conserva /\ UNCHANGED hilo_query
    BY <1>0, <1>3, hiloDelWorkerCopia DEF hiloDelWorker, gestionarWorkerIndividual,
       atenderLeer, atenderDesalojar, atenderFinalizar, atenderFinCiclo,
       atenderFinalizarWorker, desconexionWorker, queryActualNula,
       queryPendienteNula, workerLiberado, masterVars, hilosDeQuery
  <2>2. Llegan /\ Crecen
    BY <2>1, NullAssumption DEF Conserva
  <2>3. query_actual[w] \in OcupadasAhora
    BY DEF OcupadasAhora, Ocupadas
  <2>4. ASSUME NEW x \in Orden, query_actual[w] # NULL,
               aQC' = [aQC EXCEPT ![query_actual[w]] = Append(@, x)],
               x = "FINALIZAR" => query_actual[w] \notin OcupadasAhora'
        PROVE  Hablan
    BY <1>0, <2>3, <2>4 DEF Habla
  <2>5. ASSUME atenderLeer(w) PROVE Hablan
    BY <2>4, <2>5 DEF atenderLeer, Orden
  <2>6. ASSUME atenderFinalizar(w) PROVE Hablan
    BY <1>0, <2>4, <2>6, finalizarCopia DEF atenderFinalizar, notificarFin, Orden
  <2>7. ASSUME atenderFinalizarWorker(w) PROVE Hablan
    BY <1>0, <2>4, <2>7, quitarCopia DEF atenderFinalizarWorker, notificarFin, Orden
  <2>8. ASSUME desconexionWorker(w) PROVE Hablan
    <3>1. CASE query_actual[w] = NULL
      BY <2>8, <3>1 DEF desconexionWorker, Habla
    <3>2. CASE query_actual[w] # NULL
      BY <1>0, <2>4, <2>8, <3>2, quitarCopia DEF desconexionWorker, notificarFin, Orden
    <3> QED BY <3>1, <3>2
  <2>9. ASSUME UNCHANGED aQC PROVE Hablan
    BY <2>9 DEF Habla
  <2>10. ASSUME \/ gestionarWorkerIndividual(w) \/ atenderDesalojar(w)
                \/ atenderFinCiclo(w) \/ queryActualNula(w)
                \/ queryPendienteNula(w) \/ workerLiberado(w)
         PROVE  Hablan
    BY <2>9, <2>10 DEF gestionarWorkerIndividual, atenderDesalojar,
       atenderFinCiclo, queryActualNula, queryPendienteNula, workerLiberado, canales
  <2> QED BY <1>3, <2>2, <2>5, <2>6, <2>7, <2>8, <2>10 DEF hiloDelWorker
<1>4. ASSUME NEW w \in Workers, hiloDesalojoDelWorker(w)
      PROVE  Hablan /\ Llegan /\ Crecen
  BY <1>4 DEF hiloDesalojoDelWorker, recibirIdWorkerDesalojo, workerStruct,
     hilosDeQuery, OcupadasAhora, Habla
<1> QED
  BY <1>1, <1>2, <1>3, <1>4 DEF PasoDelMaster, pasoMaster, MasterNext

LEMMA PasoDelMasterFin ==
  ASSUME IFin, PasoDelMaster
  PROVE  FinLibre' /\ UltimoFin' /\ NadaDespues'
<1>0. /\ IUnaCopia /\ caida = "no" /\ UNCHANGED estado_qc
      /\ aQC \in [Queries -> Seq(Orden)]
  BY DEF IFin, IUnaCopia, TypeOK, CanalesTypeOK, PasoDelMaster, pasoMaster
<1> SUFFICES ASSUME NEW q \in Queries
             PROVE  /\ finalizada(q)' => hilo_query'[q] = "gestionada" /\ q \notin OcupadasAhora'
                    /\ \A i \in DOMAIN aQC'[q] : aQC'[q][i] = "FINALIZAR" => i = Len(aQC'[q])
                    /\ estado_qc'[q] = "terminado" => aQC'[q] = <<>>
  BY DEF FinLibre, UltimoFin, NadaDespues
<1> DEFINE Bien == /\ finalizada(q)' => hilo_query'[q] = "gestionada" /\ q \notin OcupadasAhora'
                   /\ \A i \in DOMAIN aQC'[q] : aQC'[q][i] = "FINALIZAR" => i = Len(aQC'[q])
                   /\ estado_qc'[q] = "terminado" => aQC'[q] = <<>>
<1>1. /\ finalizada(q) => hilo_query[q] = "gestionada" /\ q \notin OcupadasAhora
      /\ \A i \in DOMAIN aQC[q] : aQC[q][i] = "FINALIZAR" => i = Len(aQC[q])
      /\ estado_qc[q] = "terminado" => aQC[q] = <<>>
  BY <1>0 DEF IFin, FinLibre, UltimoFin, NadaDespues
<1>2. /\ Habla(q)
      /\ q \in OcupadasAhora' /\ q \notin OcupadasAhora => hilo_query[q] # "gestionada"
      /\ hilo_query[q] = "gestionada" => hilo_query'[q] = "gestionada"
  BY <1>0, MasterHabla
<1>3. ASSUME aQC'[q] = aQC[q] PROVE Bien
  <2>1. finalizada(q)' <=> finalizada(q)
    BY <1>0, <1>3 DEF finalizada
  <2> QED BY <1>0, <1>1, <1>2, <1>3, <2>1
<1>4. ASSUME NEW x \in Orden, q \in OcupadasAhora, aQC'[q] = Append(aQC[q], x),
             x = "FINALIZAR" => q \notin OcupadasAhora'
      PROVE  Bien
  <2>1. ~ finalizada(q) /\ estado_qc[q] # "terminado" /\ "FINALIZAR" \notin ToSet(aQC[q])
    BY <1>1, <1>4 DEF finalizada
  <2>2. ToSet(aQC'[q]) = ToSet(aQC[q]) \cup {x}
    BY <1>0, <1>4, AgregarAlFinal
  <2>3. finalizada(q)' => x = "FINALIZAR"
    BY <1>0, <2>1, <2>2 DEF finalizada
  <2>4. hilo_query[q] = "gestionada"
    BY <1>0, <1>4 DEF IUnaCopia, Admitidas, OcupadasAhora
  <2>5. \A i \in DOMAIN aQC'[q] : aQC'[q][i] = "FINALIZAR" => i = Len(aQC'[q])
    <3>1. \A i \in DOMAIN aQC[q] : aQC[q][i] # "FINALIZAR"
      BY <2>1 DEF ToSet
    <3>2. aQC[q] \in Seq(Orden)
      BY <1>0
    <3> QED BY <1>4, <3>1, <3>2
  <2> QED BY <1>0, <1>2, <1>4, <2>1, <2>3, <2>4, <2>5
<1>5. ASSUME aQC'[q] # aQC[q] PROVE Bien
  <2>1. PICK x \in Orden :
          /\ q \in OcupadasAhora /\ aQC'[q] = Append(aQC[q], x)
          /\ x = "FINALIZAR" => q \notin OcupadasAhora'
    BY <1>2, <1>5 DEF Habla
  <2> HIDE DEF Bien
  <2> QED BY <1>4, <2>1
<1>6. Bien
  <2> HIDE DEF Bien
  <2> QED BY <1>3, <1>5
<1> QED BY <1>6

LEMMA PasoDeQCFin ==
  ASSUME IFin, NEW q \in Queries, PasoDeQC(q)
  PROVE  FinLibre' /\ UltimoFin' /\ NadaDespues'
<1>0. /\ UNCHANGED <<masterVars, caida>> /\ aQC \in [Queries -> Seq(Orden)]
      /\ estado_qc \in [Queries -> {"nuevo", "esperando", "terminado", "muerto"}]
  BY DEF PasoDeQC, pasoQC, IFin, IUnaCopia, TypeOK, CanalesTypeOK, QCTypeOK
<1>1. OcupadasAhora' = OcupadasAhora
  BY <1>0 DEF masterVars, OcupadasAhora
<1>2. CASE gestionarOrdenMaestro(q)
  <2>1. /\ aQC[q] # <<>> /\ aQC' = [aQC EXCEPT ![q] = Tail(@)]
        /\ \/ Head(aQC[q]) = "LEER" /\ UNCHANGED estado_qc
           \/ Head(aQC[q]) = "FINALIZAR" /\ estado_qc' = [estado_qc EXCEPT ![q] = "terminado"]
    BY <1>2 DEF gestionarOrdenMaestro, qcPasaA
  <2>2. Head(aQC[q]) \in ToSet(aQC[q]) /\ ToSet(Tail(aQC[q])) \subseteq ToSet(aQC[q])
    BY <1>0, <2>1, SacarPrimero
  <2>3. \A x \in Queries : finalizada(x)' => finalizada(x)
    BY <1>0, <2>1, <2>2 DEF finalizada
  <2>4. FinLibre'
    BY <1>0, <1>1, <2>3 DEF IFin, FinLibre, masterVars
  <2>5. UltimoFin'
    <3>1. ASSUME NEW i \in DOMAIN Tail(aQC[q]), Tail(aQC[q])[i] = "FINALIZAR"
          PROVE  i = Len(Tail(aQC[q]))
      <4>1. i + 1 \in DOMAIN aQC[q] /\ aQC[q][i + 1] = "FINALIZAR"
        BY <1>0, <2>1, <3>1
      <4>2. i + 1 = Len(aQC[q])
        BY <4>1 DEF IFin, UltimoFin
      <4> QED BY <1>0, <2>1, <4>2
    <3> QED BY <1>0, <2>1, <3>1 DEF IFin, UltimoFin
  <2>6. NadaDespues'
    <3>1. Head(aQC[q]) = "FINALIZAR" => Tail(aQC[q]) = <<>>
      <4> SUFFICES ASSUME Head(aQC[q]) = "FINALIZAR" PROVE Tail(aQC[q]) = <<>>
        OBVIOUS
      <4>1. 1 \in DOMAIN aQC[q] /\ aQC[q][1] = "FINALIZAR"
        BY <1>0, <2>1
      <4>2. Len(aQC[q]) = 1
        BY <4>1 DEF IFin, UltimoFin
      <4>3. aQC[q] \in Seq(Orden) /\ Tail(aQC[q]) \in Seq(Orden)
        BY <1>0, <2>1
      <4>4. Len(Tail(aQC[q])) = 0
        BY <2>1, <4>2, <4>3
      <4> QED BY <4>3, <4>4, EmptySeq
    <3>2. caida = "no" => \A x \in Queries : estado_qc[x] = "terminado" => aQC[x] = <<>>
      BY DEF IFin, NadaDespues
    <3> QED BY <1>0, <2>1, <3>1, <3>2 DEF NadaDespues
  <2> QED BY <2>4, <2>5, <2>6
<1>3. ASSUME UNCHANGED aQC,
             \/ estado_qc' = [estado_qc EXCEPT ![q] = "esperando"]
             \/ estado_qc' = [estado_qc EXCEPT ![q] = "muerto"]
             \/ caida # "no"
      PROVE  FinLibre' /\ UltimoFin' /\ NadaDespues'
  BY <1>0, <1>1, <1>3 DEF IFin, FinLibre, UltimoFin, NadaDespues, finalizada, masterVars
<1>4. CASE registrarQuery(q) \/ masterCerro(q) \/ caeQC(q)
  BY <1>3, <1>4 DEF registrarQuery, masterCerro, caeQC, canales, qcPasaA
<1> QED BY <1>2, <1>4 DEF PasoDeQC, pasoQC, cicloQC

LEMMA IFinInvariante == Spec => []IFin
<1>1. Init => FinLibre /\ UltimoFin /\ NadaDespues
  BY DEF Init, CanalesInit, QCInit, FinLibre, UltimoFin, NadaDespues, finalizada, ToSet
<1>2. IUnaCopia /\ IUnaCopia' /\ IFin /\ [Next]_vars => IFin'
  <2> SUFFICES ASSUME IUnaCopia', IFin, [Next]_vars PROVE IFin'
    OBVIOUS
  <2>1. CASE PasoDelMaster
    BY <2>1, PasoDelMasterFin DEF IFin
  <2>2. CASE \E w \in Workers : PasoDeWorker(w)
    <3>1. UNCHANGED <<masterVars, estado_qc, aQC, caida>>
      BY <2>2 DEF PasoDeWorker, pasoWorker, pierdeMaster, caeWorker, hiloDesalojo,
         manejador_senial, cicloWorker, conexionMaster, esperandoQuery, Execute,
         checkInterrupt, SinEnviar, gestionarCheckInterrupt,
         conexionMasterDesalojo, limpiar, canales, otrosCanales
    <3> QED
      BY <3>1 DEF masterVars, IFin, FinLibre, UltimoFin, NadaDespues, finalizada, OcupadasAhora
  <2>3. CASE \E q \in Queries : PasoDeQC(q)
    BY <2>3, PasoDeQCFin DEF IFin
  <2>4. CASE UNCHANGED vars
    BY <2>4 DEF vars, canales, masterVars, IFin, FinLibre, UltimoFin, NadaDespues,
       finalizada, OcupadasAhora
  <2> QED BY <2>1, <2>2, <2>3, <2>4 DEF Next
<1> QED BY <1>1, <1>2, IUnaCopiaInvariante, PTL DEF Spec, IFin

\* FinDefinitivo: FINALIZAR is the last thing a query control is sent, and by
\* then the master holds no pointer to the query it freed, for any number of
\* workers, queries, failures and preemptions.
THEOREM FinDefinitivoSiempre == Spec => []FinDefinitivo
<1>1. IFin => FinDefinitivo
  <2> SUFFICES ASSUME IFin, NEW q \in Queries,
                      finalizada(q), caida = "no"
               PROVE  lugares(q) = {}
    BY DEF IFin, UltimoFin, NadaDespues, FinDefinitivo
  <2>1. q \notin OcupadasAhora
    BY DEF IFin, FinLibre
  <2> QED BY <2>1 DEF lugares, OcupadasAhora, Ocupadas, ToSet
<1> QED BY <1>1, IFinInvariante, PTL

=============================================================================
