----------------------- MODULE PlanificacionFIFO_proofs -----------------------
(***************************************************************************)
(* Proofs about Planificacion when the master schedules by FIFO: nobody is *)
(* preempted, no free worker waits beside a query in READY, a worker is    *)
(* given a query only when its turn is over, and the system implements     *)
(* ColaDeQueries.  For any number of workers and queries, any programs     *)
(* and any kills, signals and refusals.                                    *)
(***************************************************************************)
EXTENDS Planificacion_proofs, WellFoundedInduction

-----------------------------------------------------------------------------
(* Nobody is preempted, and no free worker waits beside READY.             *)

SinDesalojos ==
  /\ hilos_aging = [q \in Queries |-> 0]
  /\ query_pendiente = [w \in Workers |-> NULL]
  /\ desalojos = [w \in Workers |-> 0]
  /\ hubo_interrupcion = [w \in Workers |-> FALSE]
  /\ pc = [q \in Queries |-> 0]

IFifo == TypeOK /\ SinDesalojos /\ TrabajoConservado

\* A set of numbers has a smallest one.
LEMMA MenorNatural ==
  ASSUME NEW S \in SUBSET Nat, S # {}
  PROVE  \E n \in S : \A m \in S : n <= m
<1> DEFINE R == {ss \in Nat \X Nat : ss[1] < ss[2]}
<1>1. IsWellFoundedOn(R, Nat)
  BY NatLessThanWellFounded DEF OpToRel
<1>2. PICK n \in S : \A m \in S : <<m, n>> \notin R
  <2> HIDE DEF R
  <2> QED BY <1>1, WFMin
<1>3. \A m \in S : ~ (m < n)
  BY <1>2
<1> QED BY <1>3

\* Without a pending query the first free worker is found when there is one.
LEMMA HayWorkerLibre ==
  ASSUME TypeOK, SinDesalojos, WorkerLibre = {}
  PROVE  \A w \in ToSet(lista_workers) : ~ esta_libre[w]
<1> DEFINE libres == {i \in 1 .. Len(lista_workers) :
                        /\ esta_libre[lista_workers[i]]
                        /\ query_pendiente[lista_workers[i]] = NULL}
<1>1. libres = {}
  <2> SUFFICES ASSUME libres # {} PROVE FALSE
    OBVIOUS
  <2>1. libres \subseteq Nat
    OBVIOUS
  <2>2. PICK k \in libres : \A j \in libres : k <= j
    <3> HIDE DEF libres
    <3> QED BY <2>1, MenorNatural
  <2>3. lista_workers[k] \in WorkerLibre
    BY <2>2 DEF WorkerLibre
  <2> QED BY <2>3
<1>2. ASSUME NEW i \in DOMAIN lista_workers, esta_libre[lista_workers[i]]
      PROVE  FALSE
  <2>1. i \in 1 .. Len(lista_workers) /\ lista_workers[i] \in Workers
    BY DEF TypeOK, MasterTypeOK
  <2> QED BY <1>1, <1>2, <2>1 DEF SinDesalojos
<1> QED BY <1>2 DEF ToSet

\* Under FIFO the only steps that touch READY are an arrival and a worker
\* that asks for work.
LEMMA gestionarQueryFifo ==
  ASSUME Algoritmo = "FIFO", IFifo, NEW q \in Queries, gestionarQueryIndividual(q)
  PROVE  /\ UNCHANGED <<hilos_aging, query_pendiente, desalojos, pc>>
         /\ TrabajoConservado'
<1>1. entrarFIFO(q) /\ UNCHANGED <<lista_workers, pc, hilos_aging>>
  BY DEF gestionarQueryIndividual, entrarPrioridades, LanzarAging, queryStruct
<1>2. CASE lista_ready = <<>> /\ UNCHANGED lista_ready
  BY <1>1, <1>2 DEF entrarFIFO, SinDesalojar, TrabajoConservado
<1>3. CASE (lista_ready # <<>> \/ WorkerLibre = {}) /\ SinAsignar
  <2>1. \A w \in ToSet(lista_workers) : ~ esta_libre[w]
    BY <1>3, HayWorkerLibre DEF IFifo, TrabajoConservado
  <2> QED BY <1>1, <1>3, <2>1 DEF entrarFIFO, SinDesalojar, SinAsignar, TrabajoConservado
<1> QED BY <1>1, <1>2, <1>3 DEF entrarFIFO

LEMMA enviarPorWorkerFifo ==
  ASSUME Algoritmo = "FIFO", IFifo, NEW w \in Workers, intentarEnviarPorWorker(w),
         \/ UNCHANGED lista_workers
         \/ lista_workers' = Append(lista_workers, w)
  PROVE  UNCHANGED query_pendiente /\ TrabajoConservado'
<1>0. /\ lista_ready \in Seq(Queries) /\ lista_workers \in Seq(Workers)
      /\ esta_libre \in [Workers -> BOOLEAN]
  BY DEF IFifo, TypeOK, MasterTypeOK
<1>1. ToSet(lista_workers') \subseteq ToSet(lista_workers) \cup {w}
  BY <1>0, AgregarAlFinal
<1>2. CASE lista_ready # <<>>
  <2>1. UNCHANGED query_pendiente /\ esta_libre' = [esta_libre EXCEPT ![w] = FALSE]
    BY <1>2 DEF intentarEnviarPorWorker, asignarQueryAWorker
  <2>2. \A v \in ToSet(lista_workers) : ~ esta_libre[v]
    BY <1>2 DEF IFifo, TrabajoConservado
  <2>3. ToSet(lista_workers) \subseteq Workers
    BY <1>0, ElementosTipo
  <2> QED BY <1>0, <1>1, <2>1, <2>2, <2>3 DEF TrabajoConservado
<1>3. CASE lista_ready = <<>>
  BY <1>3 DEF intentarEnviarPorWorker, IFifo, SinDesalojos, TrabajoConservado
<1> QED BY <1>2, <1>3

\* list_remove(lista, i) adds nothing.
LEMMA QuitarNoAgrega ==
  ASSUME NEW S, NEW s \in Seq(S), NEW i \in 1 .. Len(s)
  PROVE  ToSet(RemoveAt(s, i)) \subseteq ToSet(s)
<1> DEFINE a == SubSeq(s, 1, i - 1)
           b == SubSeq(s, i + 1, Len(s))
<1>1. /\ a \in Seq(S) /\ Len(a) = i - 1 /\ \A j \in 1 .. i - 1 : a[j] = s[j]
      /\ b \in Seq(S) /\ Len(b) = Len(s) - i /\ \A j \in 1 .. Len(s) - i : b[j] = s[j + i]
  OBVIOUS
<1>2. RemoveAt(s, i) = a \o b
  BY DEF RemoveAt
<1> HIDE DEF a, b
<1>3. \A j \in DOMAIN (a \o b) : \E k \in DOMAIN s : (a \o b)[j] = s[k]
  <2> SUFFICES ASSUME NEW j \in 1 .. Len(a) + Len(b)
               PROVE  \E k \in DOMAIN s : (a \o b)[j] = s[k]
    BY <1>1
  <2>1. CASE j <= Len(a)
    <3>1. (a \o b)[j] = a[j] /\ j \in 1 .. i - 1 /\ j \in DOMAIN s
      BY <1>1, <2>1
    <3>2. (a \o b)[j] = s[j]
      BY <1>1, <3>1
    <3> QED BY <3>1, <3>2
  <2>2. CASE j > Len(a)
    <3>1. (a \o b)[j] = b[j - Len(a)] /\ j - Len(a) \in 1 .. Len(s) - i
      BY <1>1, <2>2
    <3>2. (a \o b)[j] = s[j - Len(a) + i] /\ j - Len(a) + i \in DOMAIN s
      BY <1>1, <3>1
    <3> QED BY <3>2
  <2> QED BY <1>1, <2>1, <2>2
<1> QED BY <1>2, <1>3 DEF ToSet

LEMMA quitarFifo ==
  ASSUME IFifo, NEW w \in Workers, quitarWorker(w)
  PROVE  UNCHANGED <<lista_ready, query_pendiente>> /\ TrabajoConservado'
<1>0. /\ lista_workers \in Seq(Workers) /\ esta_libre \in [Workers -> BOOLEAN]
  BY DEF IFifo, TypeOK, MasterTypeOK
<1>1. UNCHANGED <<lista_ready, query_pendiente>>
  BY DEF quitarWorker, IFifo, SinDesalojos
<1>2. ToSet(lista_workers') \subseteq ToSet(lista_workers)
  <2>1. PICK i \in 1 .. Len(lista_workers) : lista_workers' = RemoveAt(lista_workers, i)
    BY DEF quitarWorker
  <2> QED BY <1>0, <2>1, QuitarNoAgrega
<1>3. esta_libre' = [esta_libre EXCEPT ![w] = FALSE]
  BY DEF quitarWorker
<1>4. ToSet(lista_workers) \subseteq Workers
  BY <1>0, ElementosTipo
<1> QED BY <1>0, <1>1, <1>2, <1>3, <1>4 DEF IFifo, TrabajoConservado

\* The rest of the master, and everybody else, leaves READY, the workers'
\* freedom and what SinDesalojos speaks of alone.
Quieto == UNCHANGED <<lista_ready, lista_workers, esta_libre, hilos_aging,
                      query_pendiente, desalojos, hubo_interrupcion, pc>>

LEMMA hiloDelWorkerFifo ==
  ASSUME Algoritmo = "FIFO", IFifo, NEW w \in Workers, hiloDelWorker(w),
         UNCHANGED hubo_interrupcion
  PROVE  SinDesalojos' /\ TrabajoConservado'
<1>1. ASSUME UNCHANGED <<hilos_aging, query_pendiente, desalojos, pc>>
      PROVE  SinDesalojos'
  BY <1>1 DEF IFifo, SinDesalojos
<1>2. CASE gestionarWorkerIndividual(w) \/ atenderFinCiclo(w)
  BY <1>1, <1>2, enviarPorWorkerFifo
     DEF gestionarWorkerIndividual, atenderFinCiclo, queryStruct
<1>3. CASE atenderFinalizarWorker(w) \/ desconexionWorker(w)
  BY <1>1, <1>3, quitarFifo
     DEF atenderFinalizarWorker, desconexionWorker, queryStruct
<1>4. CASE Quieto
  BY <1>1, <1>4 DEF Quieto, IFifo, TrabajoConservado
<1>5. CASE atenderDesalojar(w)
  BY <1>5 DEF atenderDesalojar, IFifo, SinDesalojos
<1>6. CASE \/ atenderLeer(w) \/ atenderFinalizar(w) \/ queryActualNula(w)
           \/ queryPendienteNula(w) \/ workerLiberado(w)
  <2>1. Quieto
    BY <1>6 DEF Quieto, atenderLeer, atenderFinalizar, queryActualNula,
       queryPendienteNula, workerLiberado, masterVars, canales, queryStruct
  <2> QED BY <1>4, <2>1
<1> QED BY <1>2, <1>3, <1>5, <1>6 DEF hiloDelWorker

LEMMA PasoDelMasterFifo ==
  ASSUME Algoritmo = "FIFO", IFifo, PasoDelMaster
  PROVE  SinDesalojos' /\ TrabajoConservado'
<1>0. UNCHANGED hubo_interrupcion
  BY DEF PasoDelMaster, pasoMaster, workerVars
<1>1. ASSUME NEW q \in Queries, hiloDelQuery(q)
      PROVE  SinDesalojos' /\ TrabajoConservado'
  <2>1. CASE gestionarQueryIndividual(q)
    BY <1>0, <2>1, gestionarQueryFifo DEF IFifo, SinDesalojos
  <2>2. CASE crearQuery(q) \/ incrementarQuid(q)
    BY <1>0, <2>2 DEF crearQuery, incrementarQuid, canales, workerStruct,
       queryStruct, IFifo, SinDesalojos, TrabajoConservado
  <2> QED BY <1>1, <2>1, <2>2 DEF hiloDelQuery
<1>2. ASSUME NEW q \in Queries, hiloDeAging(q) PROVE FALSE
  BY <1>2 DEF hiloDeAging, realizarAgingIndividual, IFifo, SinDesalojos
<1>3. ASSUME NEW w \in Workers, hiloDesalojoDelWorker(w)
      PROVE  SinDesalojos' /\ TrabajoConservado'
  BY <1>0, <1>3 DEF hiloDesalojoDelWorker, recibirIdWorkerDesalojo, workerStruct,
     queryStruct, IFifo, SinDesalojos, TrabajoConservado
<1> QED
  BY <1>0, <1>1, <1>2, <1>3, hiloDelWorkerFifo DEF PasoDelMaster, pasoMaster, MasterNext

LEMMA IFifoInvariante ==
  ASSUME Algoritmo = "FIFO" PROVE Spec => []IFifo
<1>1. Init => SinDesalojos /\ TrabajoConservado
  BY DEF Init, CanalesInit, MasterInit, WorkerInit, SinDesalojos, TrabajoConservado
<1>2. TypeOK /\ TypeOK' /\ IFifo /\ [Next]_vars => IFifo'
  <2> SUFFICES ASSUME TypeOK', IFifo, [Next]_vars
               PROVE  SinDesalojos' /\ TrabajoConservado'
    BY DEF IFifo
  <2>1. CASE PasoDelMaster
    BY <2>1, PasoDelMasterFifo
  <2>2. ASSUME NEW w \in Workers, PasoDeWorker(w)
        PROVE  SinDesalojos' /\ TrabajoConservado'
    <3>1. ~ hiloDesalojo(w)
      BY DEF hiloDesalojo, IFifo, SinDesalojos
    <3>2. UNCHANGED <<masterVars, desalojos>>
      BY <2>2, <3>1 DEF PasoDeWorker, pasoWorker, cicloWorker, conexionMaster,
         esperandoQuery, Execute, checkInterrupt, SinEnviar,
         gestionarCheckInterrupt, conexionMasterDesalojo, limpiar,
         manejador_senial, caeWorker, pierdeMaster, canales, otrosCanales
    <3>3. hubo_interrupcion' = hubo_interrupcion
      BY <2>2, <3>1 DEF PasoDeWorker, pasoWorker, cicloWorker, conexionMaster,
         esperandoQuery, Execute, checkInterrupt, gestionarCheckInterrupt,
         conexionMasterDesalojo, limpiar, manejador_senial, caeWorker,
         pierdeMaster, IFifo, SinDesalojos
    <3> QED BY <3>2, <3>3 DEF masterVars, IFifo, SinDesalojos, TrabajoConservado
  <2>3. CASE \E q \in Queries : PasoDeQC(q)
    BY <2>3 DEF PasoDeQC, pasoQC, masterVars, workerVars, cicloQC, registrarQuery,
       gestionarOrdenMaestro, masterCerro, caeQC, canales, IFifo, SinDesalojos,
       TrabajoConservado
  <2>4. CASE UNCHANGED vars
    BY <2>4 DEF vars, canales, masterVars, workerVars, IFifo, SinDesalojos,
       TrabajoConservado
  <2> QED BY <2>1, <2>2, <2>3, <2>4 DEF Next
<1> QED BY <1>1, <1>2, TipoCorrecto, PTL DEF Spec, IFifo

\* TrabajoConservado: under FIFO a worker the master believes free never
\* waits beside a query in READY, for any number of workers and queries and
\* any failures.
THEOREM TrabajoConservadoSiempre ==
  ASSUME Algoritmo = "FIFO" PROVE Spec => []TrabajoConservado
<1>1. IFifo => TrabajoConservado
  BY DEF IFifo
<1> QED BY <1>1, IFifoInvariante, PTL

-----------------------------------------------------------------------------
(* Turns.  A worker has one turn at a time, and it is in one place: the     *)
(* query on its way (aWorker), the loop of main(), or the FIN_CICLO on its  *)
(* way back (aMaster).  FIN_CICLO follows the news that ended the query.    *)

HayTipo(s, tipos) == \E i \in DOMAIN s : s[i].tipo \in tipos

Avisos == {"FINALIZAR", "ERROR"}
FinCiclo == {"FIN_CICLO"}

UnFin(s) ==
  \A i, j \in DOMAIN s :
    s[i].tipo = "FIN_CICLO" /\ s[j].tipo = "FIN_CICLO" => i = j

Avisado(s) ==
  \A k \in DOMAIN s : s[k].tipo = "FIN_CICLO" =>
    \E i \in DOMAIN s : i < k /\ s[i].tipo \in Avisos

enTurno(w) == fase[w] \in {"ejecutando", "checkeando", "gestionando"}

SinTurno(w) ==
  aWorker[w] = <<>> /\ ~ HayTipo(aMaster[w], FinCiclo) /\ ~ enTurno(w)

UnTurno(w) ==
  /\ \A i \in DOMAIN aWorker[w] : i = 1 /\ aWorker[w][i].pc = 0
  /\ aWorker[w] # <<>> => ~ HayTipo(aMaster[w], FinCiclo) /\ ~ enTurno(w)
  /\ enTurno(w) => ~ HayTipo(aMaster[w], FinCiclo)
  /\ UnFin(aMaster[w])

\* A worker that is free or has not been registered has no turn.
Ociosos(w) ==
  /\ esta_libre[w] \/ "WORKER" \in altas[w] \/ fase[w] = "inicio" =>
       SinTurno(w) /\ query_actual[w] = NULL
  /\ esta_libre[w] => "WORKER" \notin altas[w] /\ fase[w] # "inicio"
  /\ "WORKER" \in altas[w] => fase[w] # "inicio"

\* A query that ended was reported, and not after FIN_CICLO.
Reportada(w) ==
  /\ fase[w] = "gestionando" => es_error_o_end[w]
  /\ fase[w] \in {"checkeando", "gestionando"} /\ es_error_o_end[w] =>
       query_actual[w] = NULL \/ HayTipo(aMaster[w], Avisos)
  /\ query_actual[w] = NULL \/ Avisado(aMaster[w])

\* Fetch never runs past the program.
EnPrograma(w) ==
  fase[w] = "ejecutando" \/ (fase[w] = "checkeando" /\ ~ es_error_o_end[w]) =>
    en_curso[w] \in Queries /\ pc_query[w] + 1 \in DOMAIN Programa[en_curso[w]]

Turno(w) == UnTurno(w) /\ Ociosos(w) /\ Reportada(w) /\ EnPrograma(w)

Turnos == caida = "no" => \A w \in Workers : Turno(w)

\* Messages handled and sent.
LEMMA MensajeLeido ==
  ASSUME NEW s \in Seq(Respuesta), s # <<>>
  PROVE  /\ \A T : HayTipo(Tail(s), T) => HayTipo(s, T)
         /\ UnFin(s) => UnFin(Tail(s))
         /\ Head(s).tipo \notin Avisos =>
              /\ Avisado(s) => Avisado(Tail(s))
              /\ HayTipo(s, Avisos) => HayTipo(Tail(s), Avisos)
         /\ Head(s).tipo = "FIN_CICLO" =>
              /\ HayTipo(s, FinCiclo)
              /\ UnFin(s) => ~ HayTipo(Tail(s), FinCiclo)
              /\ ~ Avisado(s)
<1> DEFINE t == Tail(s)
<1>1. /\ \A i \in DOMAIN t : i \in Nat \ {0} /\ i + 1 \in DOMAIN s /\ t[i] = s[i + 1]
      /\ \A i \in DOMAIN s : i \in Nat \ {0} /\ (i = 1 \/ i - 1 \in DOMAIN t)
      /\ 1 \in DOMAIN s /\ Head(s) = s[1]
  OBVIOUS
<1> HIDE DEF t
<1>2. \A i \in DOMAIN s : i # 1 => i - 1 \in DOMAIN t /\ t[i - 1] = s[i]
  BY <1>1
<1>3. \A T : HayTipo(t, T) => HayTipo(s, T)
  BY <1>1 DEF HayTipo
<1>4. UnFin(s) => UnFin(t)
  BY <1>1 DEF UnFin
<1>5. ASSUME Head(s).tipo \notin Avisos, Avisado(s) PROVE Avisado(t)
  <2> SUFFICES ASSUME NEW k \in DOMAIN t, t[k].tipo = "FIN_CICLO"
               PROVE  \E i \in DOMAIN t : i < k /\ t[i].tipo \in Avisos
    BY DEF Avisado
  <2>1. PICK i \in DOMAIN s : i < k + 1 /\ s[i].tipo \in Avisos
    BY <1>1, <1>5 DEF Avisado
  <2>2. i # 1
    BY <1>1, <1>5, <2>1
  <2>3. i - 1 \in DOMAIN t /\ t[i - 1].tipo \in Avisos
    BY <1>2, <2>1, <2>2
  <2>4. i - 1 < k
    BY <1>1, <2>1
  <2> QED BY <2>3, <2>4
<1>6. ASSUME Head(s).tipo \notin Avisos, HayTipo(s, Avisos) PROVE HayTipo(t, Avisos)
  BY <1>1, <1>2, <1>6 DEF HayTipo
<1>7. ASSUME Head(s).tipo = "FIN_CICLO"
      PROVE  /\ HayTipo(s, FinCiclo)
             /\ UnFin(s) => ~ HayTipo(t, FinCiclo)
             /\ ~ Avisado(s)
  <2>1. HayTipo(s, FinCiclo)
    BY <1>1, <1>7 DEF HayTipo, FinCiclo
  <2>2. ASSUME UnFin(s), NEW i \in DOMAIN t, t[i].tipo = "FIN_CICLO" PROVE FALSE
    <3>1. i + 1 = 1
      BY <1>1, <1>7, <2>2 DEF UnFin
    <3> QED BY <1>1, <3>1
  <2>3. ~ Avisado(s)
    <3>1. ~ \E i \in DOMAIN s : i < 1
      BY <1>1
    <3> QED BY <1>1, <1>7, <3>1 DEF Avisado
  <2> QED BY <2>1, <2>2, <2>3 DEF HayTipo, FinCiclo
<1> QED BY <1>3, <1>4, <1>5, <1>6, <1>7 DEF t

LEMMA MensajesEnviados ==
  ASSUME NEW s \in Seq(Respuesta), NEW t \in Seq(Respuesta)
  PROVE  /\ \A T : HayTipo(s \o t, T) <=> HayTipo(s, T) \/ HayTipo(t, T)
         /\ ~ HayTipo(t, FinCiclo) =>
              /\ UnFin(s) => UnFin(s \o t)
              /\ Avisado(s) => Avisado(s \o t)
         /\ Len(t) = 1 /\ ~ HayTipo(s, FinCiclo) =>
              /\ UnFin(s \o t)
              /\ HayTipo(s, Avisos) => Avisado(s \o t)
<1> DEFINE u == s \o t
<1>1. /\ \A i \in DOMAIN s : i \in DOMAIN u /\ u[i] = s[i] /\ i <= Len(s) /\ i \in Nat
      /\ \A i \in DOMAIN t : i + Len(s) \in DOMAIN u /\ u[i + Len(s)] = t[i]
      /\ \A i \in DOMAIN u : i \in Nat /\ (i \in DOMAIN s \/ i - Len(s) \in DOMAIN t)
      /\ \A i \in DOMAIN t : i \in Nat \ {0}
      /\ Len(s) \in Nat
  OBVIOUS
<1> HIDE DEF u
<1>2. \A i \in DOMAIN u : i \in DOMAIN s \/ (i - Len(s) \in DOMAIN t /\ u[i] = t[i - Len(s)])
  BY <1>1
<1>3. \A T : HayTipo(u, T) <=> HayTipo(s, T) \/ HayTipo(t, T)
  <2> TAKE T
  <2>1. HayTipo(s, T) => HayTipo(u, T)
    BY <1>1 DEF HayTipo
  <2>2. HayTipo(t, T) => HayTipo(u, T)
    BY <1>1 DEF HayTipo
  <2>3. HayTipo(u, T) => HayTipo(s, T) \/ HayTipo(t, T)
    BY <1>1, <1>2 DEF HayTipo
  <2> QED BY <2>1, <2>2, <2>3
<1>4. ASSUME ~ HayTipo(t, FinCiclo)
      PROVE  (UnFin(s) => UnFin(u)) /\ (Avisado(s) => Avisado(u))
  <2>1. \A i \in DOMAIN u : u[i].tipo = "FIN_CICLO" => i \in DOMAIN s /\ s[i].tipo = "FIN_CICLO"
    BY <1>1, <1>2, <1>4 DEF HayTipo, FinCiclo
  <2>2. UnFin(s) => UnFin(u)
    BY <2>1 DEF UnFin
  <2>3. Avisado(s) => Avisado(u)
    BY <1>1, <2>1 DEF Avisado
  <2> QED BY <2>2, <2>3
<1>5. ASSUME Len(t) = 1, ~ HayTipo(s, FinCiclo)
      PROVE  UnFin(u) /\ (HayTipo(s, Avisos) => Avisado(u))
  <2>1. \A i \in DOMAIN t : i = 1
    BY <1>5
  <2>2. \A i \in DOMAIN u : u[i].tipo = "FIN_CICLO" => i = Len(s) + 1
    <3>1. \A i \in DOMAIN s : u[i].tipo # "FIN_CICLO"
      BY <1>1, <1>5 DEF HayTipo, FinCiclo
    <3>2. \A i \in DOMAIN u : i \in DOMAIN s \/ i = Len(s) + 1
      BY <1>1, <2>1
    <3> QED BY <3>1, <3>2
  <2>3. \A i \in DOMAIN s : i < Len(s) + 1
    BY <1>1
  <2>4. HayTipo(s, Avisos) => Avisado(u)
    BY <1>1, <2>2, <2>3 DEF HayTipo, Avisado
  <2> QED BY <2>2, <2>4 DEF UnFin
<1> QED BY <1>3, <1>4, <1>5 DEF u

-----------------------------------------------------------------------------
(* Turns: the master.                                                      *)

\* What a turn depends on.
Igual(w) ==
  /\ aWorker'[w] = aWorker[w] /\ aMaster'[w] = aMaster[w]
  /\ fase'[w] = fase[w] /\ es_error_o_end'[w] = es_error_o_end[w]
  /\ en_curso'[w] = en_curso[w] /\ pc_query'[w] = pc_query[w]
  /\ "WORKER" \in altas'[w] <=> "WORKER" \in altas[w]
  /\ esta_libre'[w] = esta_libre[w] /\ query_actual'[w] = query_actual[w]

LEMMA MismoTurno ==
  ASSUME NEW w \in Workers, Turno(w), Igual(w) PROVE Turno(w)'
<1>1. UnTurno(w)'
  BY DEF Igual, Turno, UnTurno, enTurno
<1>2. Ociosos(w)'
  BY DEF Igual, Turno, Ociosos, SinTurno, enTurno
<1>3. Reportada(w)'
  BY DEF Igual, Turno, Reportada
<1>4. EnPrograma(w)'
  BY DEF Igual, Turno, EnPrograma
<1> QED BY <1>1, <1>2, <1>3, <1>4 DEF Turno

\* The master starts a turn, or leaves the worker free, when it has none.
LEMMA asignarTurno ==
  ASSUME IFifo, NEW w \in Workers, NEW q \in Queries, asignarQueryAWorker(w, q),
         UNCHANGED workerVars, aWorker[w] = <<>>, ~ enTurno(w), fase[w] # "inicio",
         ~ HayTipo(aMaster'[w], FinCiclo), "WORKER" \notin altas'[w]
  PROVE  Turno(w)'
<1>1. /\ aWorker'[w] = <<[query |-> q, pc |-> 0]>>
      /\ esta_libre'[w] = FALSE
      /\ UNCHANGED <<fase, es_error_o_end, en_curso, pc_query>>
  BY DEF asignarQueryAWorker, workerVars, IFifo, SinDesalojos, TypeOK,
     CanalesTypeOK, MasterTypeOK
<1>2. UnTurno(w)'
  BY <1>1 DEF UnTurno, enTurno, HayTipo, FinCiclo, UnFin
<1>3. Ociosos(w)'
  BY <1>1 DEF Ociosos
<1>4. Reportada(w)'
  BY <1>1 DEF Reportada, enTurno, HayTipo, FinCiclo, Avisado
<1>5. EnPrograma(w)'
  BY <1>1 DEF EnPrograma, enTurno
<1> QED BY <1>2, <1>3, <1>4, <1>5 DEF Turno

LEMMA liberarTurno ==
  ASSUME NEW w \in Workers, UNCHANGED workerVars, query_actual'[w] = NULL,
         aWorker'[w] = <<>>, ~ enTurno(w), fase[w] # "inicio",
         ~ HayTipo(aMaster'[w], FinCiclo), "WORKER" \notin altas'[w]
  PROVE  Turno(w)'
<1>1. UNCHANGED <<fase, es_error_o_end, en_curso, pc_query>>
  BY DEF workerVars
<1>2. UnTurno(w)'
  BY <1>1 DEF UnTurno, enTurno, HayTipo, FinCiclo, UnFin
<1>3. Ociosos(w)'
  BY <1>1 DEF Ociosos, SinTurno, enTurno
<1>4. Reportada(w)'
  BY <1>1 DEF Reportada, enTurno
<1>5. EnPrograma(w)'
  BY <1>1 DEF EnPrograma, enTurno
<1> QED BY <1>2, <1>3, <1>4, <1>5 DEF Turno

LEMMA enviarPorWorkerTurno ==
  ASSUME Algoritmo = "FIFO", IFifo, NEW w \in Workers, intentarEnviarPorWorker(w),
         UNCHANGED workerVars, aWorker[w] = <<>>, ~ enTurno(w), fase[w] # "inicio",
         ~ HayTipo(aMaster'[w], FinCiclo), "WORKER" \notin altas'[w]
  PROVE  /\ Turno(w)'
         /\ \A v \in Workers : v # w =>
              /\ aWorker'[v] = aWorker[v] /\ esta_libre'[v] = esta_libre[v]
              /\ query_actual'[v] = query_actual[v]
<1>0. /\ lista_ready \in Seq(Queries)
      /\ aWorker \in [Workers -> Seq(Asignacion)]
      /\ query_actual \in [Workers -> Queries \cup {NULL}]
      /\ esta_libre \in [Workers -> BOOLEAN]
  BY DEF IFifo, TypeOK, CanalesTypeOK, MasterTypeOK
<1>1. CASE lista_ready # <<>>
  <2>1. Head(lista_ready) \in Queries /\ asignarQueryAWorker(w, Head(lista_ready))
    BY <1>0, <1>1 DEF intentarEnviarPorWorker, ParaDespachar
  <2>2. Turno(w)'
    BY <2>1, asignarTurno
  <2> QED BY <1>0, <2>1, <2>2 DEF asignarQueryAWorker
<1>2. CASE lista_ready = <<>>
  <2>1. /\ query_actual' = [query_actual EXCEPT ![w] = NULL]
        /\ esta_libre' = [esta_libre EXCEPT ![w] = TRUE]
        /\ aWorker' = aWorker
    BY <1>2 DEF intentarEnviarPorWorker
  <2> QED BY <1>0, <2>1, liberarTurno
<1> QED BY <1>1, <1>2

\* A handler read a message of w that is not FIN_CICLO, and gave it nothing.
LEMMA leerTurno ==
  ASSUME TypeOK, NEW w \in Workers, Turno(w), UNCHANGED workerVars,
         UNCHANGED <<altas, aWorker>>, aMaster[w] # <<>>,
         aMaster' = [aMaster EXCEPT ![w] = Tail(@)],
         esta_libre'[w] => esta_libre[w],
         \/ query_actual'[w] = NULL
         \/ query_actual'[w] = query_actual[w] /\ Head(aMaster[w]).tipo \notin Avisos
  PROVE  Turno(w)'
<1>1. /\ aMaster[w] \in Seq(Respuesta) /\ aMaster'[w] = Tail(aMaster[w])
      /\ UNCHANGED <<fase, es_error_o_end, en_curso, pc_query, altas, aWorker>>
  BY DEF TypeOK, CanalesTypeOK, workerVars
<1>2. /\ \A T : HayTipo(aMaster'[w], T) => HayTipo(aMaster[w], T)
      /\ UnFin(aMaster[w]) => UnFin(aMaster'[w])
      /\ Head(aMaster[w]).tipo \notin Avisos =>
           /\ Avisado(aMaster[w]) => Avisado(aMaster'[w])
           /\ HayTipo(aMaster[w], Avisos) => HayTipo(aMaster'[w], Avisos)
  BY <1>1, MensajeLeido
<1>3. UnTurno(w)'
  BY <1>1, <1>2 DEF Turno, UnTurno, enTurno
<1>4. Ociosos(w)'
  BY <1>1, <1>2 DEF Turno, Ociosos, SinTurno, enTurno
<1>5. Reportada(w)'
  BY <1>1, <1>2 DEF Turno, Reportada
<1>6. EnPrograma(w)'
  BY <1>1 DEF Turno, EnPrograma
<1> QED BY <1>3, <1>4, <1>5, <1>6 DEF Turno

\* quitarWorker lets go of the query and of the worker.
LEMMA quitarTurno ==
  ASSUME TypeOK, NEW w \in Workers, quitarWorker(w)
  PROVE  /\ query_actual'[w] = NULL /\ ~ esta_libre'[w]
         /\ \A v \in Workers : v # w =>
              esta_libre'[v] = esta_libre[v] /\ query_actual'[v] = query_actual[v]
  BY DEF quitarWorker, TypeOK, MasterTypeOK

ITurnos == IFifo /\ Turnos

LEMMA hiloDelWorkerTurno ==
  ASSUME Algoritmo = "FIFO", ITurnos, caida = "no", caida' = "no",
         NEW w \in Workers, hiloDelWorker(w), UNCHANGED workerVars
  PROVE  \A v \in Workers : Turno(v)'
<1>0. /\ TypeOK /\ SinDesalojos /\ IFifo /\ \A v \in Workers : Turno(v)
      /\ altas \in [Workers -> SUBSET Handshake]
      /\ aWorker \in [Workers -> Seq(Asignacion)]
      /\ aMaster \in [Workers -> Seq(Respuesta)]
      /\ esta_libre \in [Workers -> BOOLEAN]
      /\ query_actual \in [Workers -> Queries \cup {NULL}]
      /\ UNCHANGED <<fase, es_error_o_end, en_curso, pc_query>>
  BY DEF ITurnos, Turnos, IFifo, TypeOK, CanalesTypeOK, MasterTypeOK, workerVars
<1>1. ASSUME Turno(w)',
             \A v \in Workers : v # w =>
               /\ aWorker'[v] = aWorker[v] /\ aMaster'[v] = aMaster[v]
               /\ altas'[v] = altas[v] /\ esta_libre'[v] = esta_libre[v]
               /\ query_actual'[v] = query_actual[v]
      PROVE  \A v \in Workers : Turno(v)'
  <2> SUFFICES ASSUME NEW v \in Workers, v # w PROVE Turno(v)'
    BY <1>1
  <2>1. Igual(v)
    BY <1>0, <1>1 DEF Igual
  <2> QED BY <1>0, <2>1, MismoTurno
<1>2. CASE gestionarWorkerIndividual(w)
  <2>1. /\ "WORKER" \in altas[w] /\ UNCHANGED aMaster
        /\ altas' = [altas EXCEPT ![w] = @ \ {"WORKER"}]
        /\ intentarEnviarPorWorker(w)
    BY <1>2 DEF gestionarWorkerIndividual
  <2>2. SinTurno(w) /\ fase[w] # "inicio"
    BY <1>0, <2>1 DEF Turno, Ociosos
  <2>3. "WORKER" \notin altas'[w]
    BY <1>0, <2>1
  <2> QED BY <1>0, <1>1, <2>1, <2>2, <2>3, enviarPorWorkerTurno DEF SinTurno
<1>3. CASE atenderFinCiclo(w)
  <2>1. /\ aMaster[w] # <<>> /\ Head(aMaster[w]).tipo = "FIN_CICLO"
        /\ aMaster' = [aMaster EXCEPT ![w] = Tail(@)]
        /\ UNCHANGED altas /\ intentarEnviarPorWorker(w)
    BY <1>3 DEF atenderFinCiclo, atiende, recibirMensajito
  <2>2. HayTipo(aMaster[w], FinCiclo) /\ ~ HayTipo(aMaster'[w], FinCiclo)
    BY <1>0, <2>1, MensajeLeido DEF Turno, UnTurno
  <2>3. aWorker[w] = <<>> /\ ~ enTurno(w)
    BY <1>0, <2>2 DEF Turno, UnTurno
  <2>4. "WORKER" \notin altas'[w] /\ fase[w] # "inicio"
    BY <1>0, <2>1, <2>2 DEF Turno, Ociosos, SinTurno
  <2> QED BY <1>0, <1>1, <2>1, <2>2, <2>3, <2>4, enviarPorWorkerTurno
<1>4. CASE atenderLeer(w) \/ atenderFinalizar(w) \/ atenderFinalizarWorker(w)
  <2>1. /\ aMaster[w] # <<>> /\ aMaster' = [aMaster EXCEPT ![w] = Tail(@)]
        /\ UNCHANGED <<altas, aWorker>>
    BY <1>4 DEF atenderLeer, atenderFinalizar, atenderFinalizarWorker, atiende,
       recibirMensajito
  <2>2. /\ esta_libre'[w] => esta_libre[w]
        /\ \/ query_actual'[w] = NULL
           \/ query_actual'[w] = query_actual[w] /\ Head(aMaster[w]).tipo \notin Avisos
        /\ \A v \in Workers : v # w =>
             esta_libre'[v] = esta_libre[v] /\ query_actual'[v] = query_actual[v]
    <3>1. CASE atenderLeer(w)
      BY <3>1 DEF atenderLeer, atiende, recibirMensajito, masterVars, Avisos
    <3>2. CASE atenderFinalizar(w)
      BY <1>0, <3>2 DEF atenderFinalizar
    <3>3. CASE atenderFinalizarWorker(w)
      BY <1>0, <3>3, quitarTurno DEF atenderFinalizarWorker
    <3> QED BY <1>4, <3>1, <3>2, <3>3
  <2> QED BY <1>0, <1>1, <2>1, <2>2, leerTurno
<1>5. CASE desconexionWorker(w)
  <2>1. /\ UNCHANGED <<altas, aWorker, aMaster>> /\ quitarWorker(w)
    BY <1>5 DEF desconexionWorker
  <2>2. query_actual'[w] = NULL /\ ~ esta_libre'[w]
    BY <1>0, <2>1, quitarTurno
  <2>3. UnTurno(w)' /\ EnPrograma(w)'
    BY <1>0, <2>1 DEF Turno, UnTurno, enTurno, EnPrograma
  <2>4. Ociosos(w)' /\ Reportada(w)'
    BY <1>0, <2>1, <2>2 DEF Turno, Ociosos, SinTurno, enTurno, Reportada
  <2>5. Turno(w)'
    BY <2>3, <2>4 DEF Turno
  <2> QED BY <1>0, <1>1, <2>1, <2>5, quitarTurno
<1>6. CASE atenderDesalojar(w)
  BY <1>0, <1>6 DEF atenderDesalojar, SinDesalojos
<1>7. CASE queryActualNula(w) \/ queryPendienteNula(w) \/ workerLiberado(w)
  BY <1>7 DEF queryActualNula, queryPendienteNula, workerLiberado
<1> QED BY <1>2, <1>3, <1>4, <1>5, <1>6, <1>7 DEF hiloDelWorker

LEMMA gestionarQueryTurno ==
  ASSUME Algoritmo = "FIFO", ITurnos, caida = "no", NEW q \in Queries,
         gestionarQueryIndividual(q), UNCHANGED workerVars
  PROVE  \A v \in Workers : Turno(v)'
<1>0. /\ TypeOK /\ IFifo /\ \A v \in Workers : Turno(v)
      /\ aWorker \in [Workers -> Seq(Asignacion)]
      /\ esta_libre \in [Workers -> BOOLEAN]
      /\ query_actual \in [Workers -> Queries \cup {NULL}]
      /\ UNCHANGED <<fase, es_error_o_end, en_curso, pc_query>>
  BY DEF ITurnos, Turnos, IFifo, TypeOK, CanalesTypeOK, MasterTypeOK, workerVars
<1>1. entrarFIFO(q) /\ UNCHANGED <<altas, aMaster>>
  BY DEF gestionarQueryIndividual, entrarPrioridades
<1>2. CASE SinAsignar
  <2>1. \A v \in Workers : Igual(v)
    BY <1>0, <1>1, <1>2 DEF SinAsignar, Igual
  <2> QED BY <1>0, <2>1, MismoTurno
<1>3. ASSUME NEW w \in WorkerLibre, asignarQueryAWorker(w, q)
      PROVE  \A v \in Workers : Turno(v)'
  <2>1. w \in Workers /\ esta_libre[w]
    BY <1>0, <1>3, Elegidos DEF TypeOK, WorkerLibre
  <2>2. SinTurno(w) /\ "WORKER" \notin altas[w] /\ fase[w] # "inicio"
    BY <1>0, <2>1 DEF Turno, Ociosos
  <2>3. Turno(w)'
    BY <1>0, <1>1, <1>3, <2>1, <2>2, asignarTurno DEF SinTurno
  <2>4. \A v \in Workers : v # w => Igual(v)
    BY <1>0, <1>1, <1>3, <2>1 DEF asignarQueryAWorker, Igual
  <2> QED BY <1>0, <2>3, <2>4, MismoTurno
<1> QED BY <1>1, <1>2, <1>3 DEF entrarFIFO

LEMMA PasoDelMasterTurno ==
  ASSUME Algoritmo = "FIFO", ITurnos, PasoDelMaster
  PROVE  Turnos'
<1> SUFFICES ASSUME caida' = "no" PROVE \A v \in Workers : Turno(v)'
  BY DEF Turnos
<1>0. /\ caida = "no" /\ UNCHANGED workerVars /\ \A v \in Workers : Turno(v)
      /\ altas \in [Workers -> SUBSET Handshake]
  BY DEF PasoDelMaster, pasoMaster, ITurnos, Turnos, IFifo, TypeOK, CanalesTypeOK
<1>1. ASSUME UNCHANGED <<aWorker, aMaster, esta_libre, query_actual>>,
             \A v \in Workers : "WORKER" \in altas'[v] <=> "WORKER" \in altas[v]
      PROVE  \A v \in Workers : Turno(v)'
  <2>1. \A v \in Workers : Igual(v)
    BY <1>0, <1>1 DEF Igual, workerVars
  <2> QED BY <1>0, <2>1, MismoTurno
<1>2. ASSUME NEW q \in Queries, hiloDelQuery(q)
      PROVE  \A v \in Workers : Turno(v)'
  <2>1. CASE crearQuery(q) \/ incrementarQuid(q)
    BY <1>1, <2>1 DEF crearQuery, incrementarQuid, workerStruct, canales
  <2>2. CASE gestionarQueryIndividual(q)
    BY <1>0, <2>2, gestionarQueryTurno
  <2> QED BY <1>2, <2>1, <2>2 DEF hiloDelQuery
<1>3. ASSUME NEW q \in Queries, hiloDeAging(q)
      PROVE  \A v \in Workers : Turno(v)'
  BY <1>3 DEF hiloDeAging, realizarAgingIndividual, ITurnos, IFifo, SinDesalojos
<1>4. ASSUME NEW w \in Workers, hiloDelWorker(w)
      PROVE  \A v \in Workers : Turno(v)'
  BY <1>0, <1>4, hiloDelWorkerTurno
<1>5. ASSUME NEW w \in Workers, hiloDesalojoDelWorker(w)
      PROVE  \A v \in Workers : Turno(v)'
  <2>1. UNCHANGED <<aWorker, aMaster, esta_libre, query_actual>>
    BY <1>5 DEF hiloDesalojoDelWorker, recibirIdWorkerDesalojo, workerStruct
  <2>2. altas' = [altas EXCEPT ![w] = @ \ {"WORKER_DESALOJO"}]
    BY <1>5 DEF hiloDesalojoDelWorker, recibirIdWorkerDesalojo
  <2> QED BY <1>0, <1>1, <2>1, <2>2
<1> QED BY <1>2, <1>3, <1>4, <1>5 DEF PasoDelMaster, pasoMaster, MasterNext

-----------------------------------------------------------------------------
(* Turns: the worker.                                                      *)

\* obtenerOperacionCodOp knows every operation of every program.
SinInvalidas == \A q \in Queries : "INVALIDA" \notin ToSet(Programa[q])

\* What a step of the worker leaves alone.
DelMaster(w) ==
  /\ "WORKER" \in altas'[w] <=> "WORKER" \in altas[w]
  /\ esta_libre'[w] = esta_libre[w] /\ query_actual'[w] = query_actual[w]

\* Out of its turn a worker sends at most FINALIZAR_WORKER.
LEMMA fueraDeTurno ==
  ASSUME TypeOK, NEW w \in Workers, Turno(w), DelMaster(w), UNCHANGED aWorker,
         fase[w] # "inicio", fase'[w] \in {"esperando", "terminado"},
         NEW t \in Seq(Respuesta), ~ HayTipo(t, FinCiclo),
         aMaster'[w] = aMaster[w] \o t
  PROVE  Turno(w)'
<1>0. /\ aMaster[w] \in Seq(Respuesta)
      /\ HayTipo(aMaster'[w], FinCiclo) <=> HayTipo(aMaster[w], FinCiclo)
      /\ UnFin(aMaster[w]) => UnFin(aMaster'[w])
      /\ Avisado(aMaster[w]) => Avisado(aMaster'[w])
  <2>1. aMaster[w] \in Seq(Respuesta)
    BY DEF TypeOK, CanalesTypeOK
  <2> QED BY <2>1, MensajesEnviados
<1>1. UnTurno(w)'
  BY <1>0 DEF Turno, UnTurno, enTurno
<1>2. Ociosos(w)'
  BY <1>0 DEF DelMaster, Turno, Ociosos, SinTurno, enTurno
<1>3. Reportada(w)'
  BY <1>0 DEF DelMaster, Turno, Reportada
<1>4. EnPrograma(w)'
  BY DEF EnPrograma
<1> QED BY <1>1, <1>2, <1>3, <1>4 DEF Turno

\* In its turn it reports with messages that are not FIN_CICLO.
LEMMA enSuTurno ==
  ASSUME TypeOK, NEW w \in Workers, Turno(w), DelMaster(w), UNCHANGED aWorker,
         enTurno(w), fase'[w] \in {"ejecutando", "checkeando", "gestionando"},
         NEW t \in Seq(Respuesta), ~ HayTipo(t, FinCiclo),
         aMaster'[w] = aMaster[w] \o t,
         fase'[w] = "gestionando" => es_error_o_end'[w],
         fase'[w] \in {"checkeando", "gestionando"} /\ es_error_o_end'[w] =>
           query_actual[w] = NULL \/ HayTipo(aMaster[w], Avisos) \/ HayTipo(t, Avisos),
         EnPrograma(w)'
  PROVE  Turno(w)'
<1>0. /\ aMaster[w] \in Seq(Respuesta)
      /\ \A T : HayTipo(aMaster'[w], T) <=> HayTipo(aMaster[w], T) \/ HayTipo(t, T)
      /\ UnFin(aMaster[w]) => UnFin(aMaster'[w])
      /\ Avisado(aMaster[w]) => Avisado(aMaster'[w])
  <2>1. aMaster[w] \in Seq(Respuesta)
    BY DEF TypeOK, CanalesTypeOK
  <2> QED BY <2>1, MensajesEnviados
<1>1. UnTurno(w)'
  BY <1>0 DEF Turno, UnTurno, enTurno
<1>2. Ociosos(w)'
  BY <1>0 DEF DelMaster, Turno, Ociosos, SinTurno, enTurno
<1>3. Reportada(w)'
  BY <1>0 DEF DelMaster, Turno, Reportada
<1> QED BY <1>1, <1>2, <1>3 DEF Turno

\* What responder appends.
LEMMA responderMensajes ==
  ASSUME TypeOK, NEW w \in Workers, NEW tipos \in Seq(TipoRespuesta),
         responder(w, tipos)
  PROVE  \E t \in Seq(Respuesta) :
           /\ aMaster'[w] = aMaster[w] \o t /\ Len(t) = Len(tipos)
           /\ \A i \in DOMAIN t : i \in DOMAIN tipos /\ t[i].tipo = tipos[i]
           /\ \A i \in DOMAIN tipos : i \in DOMAIN t
<1> DEFINE t == [i \in 1 .. Len(tipos) |->
                   [tipo |-> tipos[i], query |-> en_curso[w], pc |-> pc_query[w]]]
<1>1. t \in Seq(Respuesta)
  BY DEF TypeOK, WorkerTypeOK, Respuesta
<1>2. /\ Len(t) = Len(tipos)
      /\ \A i \in DOMAIN t : i \in DOMAIN tipos /\ t[i].tipo = tipos[i]
      /\ \A i \in DOMAIN tipos : i \in DOMAIN t
  OBVIOUS
<1> HIDE DEF t
<1>3. aMaster'[w] = aMaster[w] \o t
  BY DEF responder, t, TypeOK, CanalesTypeOK
<1> QED BY <1>1, <1>2, <1>3

LEMMA whileTurno ==
  ASSUME TypeOK, NEW w \in Workers, whileNoDeboMorir(w)
  PROVE  /\ fase'[w] \in {"esperando", "terminado"}
         /\ \E t \in Seq(Respuesta) :
              ~ HayTipo(t, FinCiclo) /\ aMaster'[w] = aMaster[w] \o t
         /\ \A v \in Workers : v # w => fase'[v] = fase[v] /\ aMaster'[v] = aMaster[v]
<1> DEFINE m == [tipo |-> "FINALIZAR_WORKER", query |-> en_curso[w], pc |-> pc_query[w]]
<1>0. fase \in [Workers -> Fase] /\ aMaster \in [Workers -> Seq(Respuesta)]
  BY DEF TypeOK, CanalesTypeOK, WorkerTypeOK
<1>1. m \in Respuesta /\ m.tipo = "FINALIZAR_WORKER"
  BY DEF Respuesta, TipoRespuesta, TypeOK, WorkerTypeOK
<1> HIDE DEF m
<1>2. \/ pasaA(w, "terminado") /\ aMaster' = [aMaster EXCEPT ![w] = Append(@, m)]
      \/ pasaA(w, "esperando") /\ UNCHANGED aMaster
  BY DEF whileNoDeboMorir, m
<1>3. <<m>> \in Seq(Respuesta) /\ ~ HayTipo(<<m>>, FinCiclo)
  BY <1>1 DEF HayTipo, FinCiclo
<1>4. <<>> \in Seq(Respuesta) /\ ~ HayTipo(<<>>, FinCiclo)
  BY DEF HayTipo
<1>5. Append(aMaster[w], m) = aMaster[w] \o <<m>> /\ aMaster[w] = aMaster[w] \o <<>>
  BY <1>0, <1>1
<1> QED BY <1>0, <1>2, <1>3, <1>4, <1>5 DEF pasaA

LEMMA esperandoTurno ==
  ASSUME ITurnos, caida = "no", NEW w \in Workers, esperandoQuery(w), DelMaster(w)
  PROVE  Turno(w)'
<1>0. /\ Turno(w) /\ aWorker \in [Workers -> Seq(Asignacion)] /\ fase \in [Workers -> Fase]
      /\ en_curso \in [Workers -> Queries \cup {NULL}] /\ pc_query \in [Workers -> Nat]
  BY DEF ITurnos, Turnos, IFifo, TypeOK, CanalesTypeOK, WorkerTypeOK
<1>1. /\ aWorker[w] # <<>> /\ fase'[w] = "ejecutando"
      /\ aWorker'[w] = Tail(aWorker[w])
      /\ en_curso'[w] = Head(aWorker[w]).query /\ pc_query'[w] = Head(aWorker[w]).pc
      /\ UNCHANGED aMaster
  BY <1>0 DEF esperandoQuery, pasaA
<1>2. 1 \in DOMAIN aWorker[w] /\ Head(aWorker[w]) = aWorker[w][1] /\ aWorker[w][1] \in Asignacion
  BY <1>0, <1>1
<1>3. aWorker[w][1].query \in Queries /\ aWorker[w][1].pc = 0
  BY <1>0, <1>2 DEF Asignacion, Turno, UnTurno
<1>4. Tail(aWorker[w]) = <<>>
  <2>1. \A i \in DOMAIN Tail(aWorker[w]) : i \in Nat \ {0} /\ i + 1 \in DOMAIN aWorker[w]
    BY <1>0, <1>1
  <2>2. DOMAIN Tail(aWorker[w]) = {}
    BY <1>0, <2>1 DEF Turno, UnTurno
  <2> QED BY <1>0, <1>1, <2>2
<1>5. UnTurno(w)'
  BY <1>0, <1>1, <1>4 DEF Turno, UnTurno, enTurno
<1>6. Ociosos(w)'
  BY <1>0, <1>1 DEF DelMaster, Turno, Ociosos, SinTurno
<1>7. Reportada(w)'
  BY <1>0, <1>1 DEF DelMaster, Turno, Reportada
<1>8. EnPrograma(w)'
  <2>1. 1 \in DOMAIN Programa[aWorker[w][1].query]
    BY <1>3, ProgramaAssumption
  <2> QED BY <1>1, <1>2, <1>3, <2>1 DEF EnPrograma
<1> QED BY <1>5, <1>6, <1>7, <1>8 DEF Turno

\* Every instruction but the last one is followed by another.
LEMMA HaySiguiente ==
  ASSUME NEW q \in Queries, NEW k \in DOMAIN Programa[q],
         Programa[q][k] \notin {"END", "INVALIDA"}
  PROVE  k + 1 \in DOMAIN Programa[q]
<1>1. Programa[q] \in Seq(Instruccion) /\ Programa[q][Len(Programa[q])] \in {"END", "INVALIDA"}
  BY ProgramaAssumption
<1> QED BY <1>1

LEMMA ExecuteTurno ==
  ASSUME SinInvalidas, ITurnos, caida = "no", NEW w \in Workers, Execute(w), DelMaster(w)
  PROVE  Turno(w)'
<1>0. /\ TypeOK /\ Turno(w) /\ enTurno(w) /\ EnPrograma(w)
      /\ fase \in [Workers -> Fase] /\ es_error_o_end \in [Workers -> BOOLEAN]
      /\ en_curso \in [Workers -> Queries \cup {NULL}] /\ pc_query \in [Workers -> Nat]
  BY DEF ITurnos, Turnos, Turno, IFifo, TypeOK, WorkerTypeOK, Execute, enTurno
<1> DEFINE q == en_curso[w]
           k == pc_query[w] + 1
<1>1. /\ fase'[w] = "checkeando" /\ UNCHANGED <<aWorker, en_curso>>
      /\ q \in Queries /\ k \in DOMAIN Programa[q]
  BY <1>0 DEF Execute, pasaA, otrosCanales, EnPrograma
<1>2. instruccion(w) # "INVALIDA"
  BY <1>1 DEF SinInvalidas, ToSet, instruccion
<1>3. ASSUME NEW tipos \in Seq(TipoRespuesta), sigue(w, tipos),
             \A i \in DOMAIN tipos : tipos[i] # "FIN_CICLO",
             instruccion(w) # "END"
      PROVE  Turno(w)'
  <2>1. PICK t \in Seq(Respuesta) :
          /\ aMaster'[w] = aMaster[w] \o t
          /\ \A i \in DOMAIN t : i \in DOMAIN tipos /\ t[i].tipo = tipos[i]
    <3>1. responder(w, tipos)
      BY <1>3 DEF sigue
    <3>2. TypeOK
      BY <1>0
    <3> HIDE DEF q, k
    <3> QED BY <3>1, <3>2, responderMensajes
  <2>2. ~ HayTipo(t, FinCiclo)
    BY <1>3, <2>1 DEF HayTipo, FinCiclo
  <2>3. es_error_o_end'[w] = FALSE /\ pc_query'[w] = k
    BY <1>0, <1>3 DEF sigue
  <2>4. k + 1 \in DOMAIN Programa[q]
    BY <1>1, <1>2, <1>3, HaySiguiente DEF instruccion
  <2>5. EnPrograma(w)'
    BY <1>1, <2>3, <2>4 DEF EnPrograma
  <2> HIDE DEF q, k
  <2> QED BY <1>0, <1>1, <2>1, <2>2, <2>3, <2>5, enSuTurno
<1>4. ASSUME NEW tipos \in Seq(TipoRespuesta), finaliza(w, tipos),
             1 \in DOMAIN tipos, \A i \in DOMAIN tipos : tipos[i] \in Avisos
      PROVE  Turno(w)'
  <2>1. PICK t \in Seq(Respuesta) :
          /\ aMaster'[w] = aMaster[w] \o t
          /\ \A i \in DOMAIN t : i \in DOMAIN tipos /\ t[i].tipo = tipos[i]
          /\ \A i \in DOMAIN tipos : i \in DOMAIN t
    <3>1. responder(w, tipos)
      BY <1>4 DEF finaliza
    <3>2. TypeOK
      BY <1>0
    <3> HIDE DEF q, k
    <3> QED BY <3>1, <3>2, responderMensajes
  <2>2. ~ HayTipo(t, FinCiclo) /\ HayTipo(t, Avisos)
    BY <1>4, <2>1 DEF HayTipo, FinCiclo, Avisos
  <2>3. es_error_o_end'[w] = TRUE
    BY <1>0, <1>4 DEF finaliza
  <2>4. EnPrograma(w)'
    BY <1>1, <2>3 DEF EnPrograma
  <2> HIDE DEF q, k
  <2> QED BY <1>0, <1>1, <2>1, <2>2, <2>3, <2>4, enSuTurno
<1>5. /\ <<>> \in Seq(TipoRespuesta) /\ <<"LEER">> \in Seq(TipoRespuesta)
      /\ <<"ERROR">> \in Seq(TipoRespuesta) /\ <<"FINALIZAR">> \in Seq(TipoRespuesta)
      /\ <<"ERROR", "ERROR">> \in Seq(TipoRespuesta)
  BY DEF TipoRespuesta
<1>6. /\ \A i \in DOMAIN <<>> : <<>>[i] # "FIN_CICLO"
      /\ \A i \in DOMAIN <<"LEER">> : <<"LEER">>[i] # "FIN_CICLO"
      /\ \A i \in DOMAIN <<"ERROR">> : <<"ERROR">>[i] # "FIN_CICLO" /\ <<"ERROR">>[i] \in Avisos
      /\ \A i \in DOMAIN <<"FINALIZAR">> : <<"FINALIZAR">>[i] \in Avisos
      /\ \A i \in DOMAIN <<"ERROR", "ERROR">> : <<"ERROR", "ERROR">>[i] \in Avisos
      /\ 1 \in DOMAIN <<"ERROR">> /\ 1 \in DOMAIN <<"FINALIZAR">>
      /\ 1 \in DOMAIN <<"ERROR", "ERROR">>
  BY DEF Avisos
<1>7. \/ /\ sigue(w, <<"LEER">>) \/ sigue(w, <<>>) \/ sigue(w, <<"ERROR">>)
         /\ instruccion(w) # "END"
      \/ finaliza(w, <<"ERROR">>) \/ finaliza(w, <<"FINALIZAR">>)
      \/ finaliza(w, <<"ERROR", "ERROR">>)
  <2> HIDE DEF q, k
  <2> QED BY <1>2 DEF Execute, ejecutarCommit
<1> HIDE DEF q, k
<1>8. CASE sigue(w, <<"LEER">>) /\ instruccion(w) # "END"
  BY <1>3, <1>5, <1>6, <1>8
<1>9. CASE sigue(w, <<>>) /\ instruccion(w) # "END"
  BY <1>3, <1>5, <1>6, <1>9
<1>10. CASE sigue(w, <<"ERROR">>) /\ instruccion(w) # "END"
  BY <1>3, <1>5, <1>6, <1>10
<1>11. CASE finaliza(w, <<"ERROR">>)
  BY <1>4, <1>5, <1>6, <1>11
<1>12. CASE finaliza(w, <<"FINALIZAR">>)
  BY <1>4, <1>5, <1>6, <1>12
<1>13. CASE finaliza(w, <<"ERROR", "ERROR">>)
  BY <1>4, <1>5, <1>6, <1>13
<1> QED BY <1>7, <1>8, <1>9, <1>10, <1>11, <1>12, <1>13

LEMMA gestionarTurno ==
  ASSUME ITurnos, caida = "no", NEW w \in Workers, gestionarCheckInterrupt(w), DelMaster(w)
  PROVE  Turno(w)'
<1>0. /\ TypeOK /\ Turno(w) /\ fase[w] = "gestionando" /\ ~ hubo_interrupcion[w]
      /\ fase \in [Workers -> Fase] /\ aMaster[w] \in Seq(Respuesta)
  BY DEF ITurnos, Turnos, IFifo, SinDesalojos, TypeOK, CanalesTypeOK, WorkerTypeOK,
     gestionarCheckInterrupt
<1>1. /\ fase'[w] = "limpiando" /\ responder(w, <<"FIN_CICLO">>)
      /\ UNCHANGED <<altas, aWorker>>
  BY <1>0 DEF gestionarCheckInterrupt, pasaA, otrosCanales
<1>2. PICK t \in Seq(Respuesta) : aMaster'[w] = aMaster[w] \o t /\ Len(t) = 1
  <2>1. <<"FIN_CICLO">> \in Seq(TipoRespuesta) /\ Len(<<"FIN_CICLO">>) = 1
    BY DEF TipoRespuesta
  <2> QED BY <1>0, <1>1, <2>1, responderMensajes
<1>3. /\ ~ HayTipo(aMaster[w], FinCiclo) /\ aWorker[w] = <<>>
      /\ query_actual[w] = NULL \/ HayTipo(aMaster[w], Avisos)
      /\ ~ esta_libre[w] /\ "WORKER" \notin altas[w]
  BY <1>0 DEF Turno, UnTurno, Ociosos, SinTurno, Reportada, enTurno
<1>4. UnFin(aMaster'[w]) /\ (HayTipo(aMaster[w], Avisos) => Avisado(aMaster'[w]))
  BY <1>0, <1>2, <1>3, MensajesEnviados
<1>5. UnTurno(w)'
  BY <1>1, <1>3, <1>4 DEF UnTurno, enTurno
<1>6. Ociosos(w)'
  BY <1>1, <1>3 DEF DelMaster, Ociosos
<1>7. Reportada(w)'
  BY <1>1, <1>3, <1>4 DEF DelMaster, Reportada
<1>8. EnPrograma(w)'
  BY <1>1 DEF EnPrograma
<1> QED BY <1>5, <1>6, <1>7, <1>8 DEF Turno

LEMMA PasoDeWorkerTurno ==
  ASSUME SinInvalidas, ITurnos, NEW w \in Workers, PasoDeWorker(w)
  PROVE  Turnos'
<1> SUFFICES ASSUME caida' = "no" PROVE \A v \in Workers : Turno(v)'
  BY DEF Turnos
<1>0. /\ caida = "no" /\ UNCHANGED masterVars
      /\ TypeOK /\ \A v \in Workers : Turno(v)
      /\ cicloWorker(w) \/ manejador_senial(w) \/ caeWorker(w)
      /\ altas \in [Workers -> SUBSET Handshake]
      /\ aWorker \in [Workers -> Seq(Asignacion)]
      /\ aMaster \in [Workers -> Seq(Respuesta)]
      /\ fase \in [Workers -> Fase] /\ es_error_o_end \in [Workers -> BOOLEAN]
      /\ en_curso \in [Workers -> Queries \cup {NULL}] /\ pc_query \in [Workers -> Nat]
  BY DEF PasoDeWorker, pasoWorker, pierdeMaster, hiloDesalojo, ITurnos, Turnos,
     IFifo, SinDesalojos, TypeOK, CanalesTypeOK, WorkerTypeOK
<1>1. UNCHANGED <<esta_libre, query_actual>>
  BY <1>0 DEF masterVars
<1>2. ASSUME Turno(w)',
             \A v \in Workers : v # w =>
               /\ aWorker'[v] = aWorker[v] /\ aMaster'[v] = aMaster[v]
               /\ altas'[v] = altas[v] /\ fase'[v] = fase[v]
               /\ es_error_o_end'[v] = es_error_o_end[v]
               /\ en_curso'[v] = en_curso[v] /\ pc_query'[v] = pc_query[v]
      PROVE  \A v \in Workers : Turno(v)'
  <2> SUFFICES ASSUME NEW v \in Workers, v # w PROVE Turno(v)'
    BY <1>2
  <2>1. Igual(v)
    BY <1>1, <1>2 DEF Igual
  <2> QED BY <1>0, <2>1, MismoTurno
<1>3. CASE conexionMaster(w)
  <2>1. /\ fase[w] = "inicio" /\ fase' = [fase EXCEPT ![w] = "sleep"]
        /\ altas' = [altas EXCEPT ![w] = @ \cup {"WORKER"}]
        /\ UNCHANGED <<aWorker, aMaster, es_error_o_end, en_curso, pc_query>>
    BY <1>3 DEF conexionMaster, pasaA
  <2>2. SinTurno(w) /\ query_actual[w] = NULL /\ ~ esta_libre[w] /\ UnTurno(w)
    BY <1>0, <2>1 DEF Turno, Ociosos
  <2>3. UnTurno(w)' /\ Ociosos(w)' /\ Reportada(w)' /\ EnPrograma(w)'
    BY <1>0, <1>1, <2>1, <2>2 DEF UnTurno, Ociosos, SinTurno, enTurno, Reportada, EnPrograma
  <2>4. Turno(w)'
    BY <2>3 DEF Turno
  <2> QED BY <1>0, <1>2, <2>1, <2>4
<1>4. CASE conexionMasterDesalojo(w)
  <2>1. /\ fase[w] = "sleep" /\ whileNoDeboMorir(w)
        /\ altas' = [altas EXCEPT ![w] = @ \cup {"WORKER_DESALOJO"}]
        /\ UNCHANGED <<aWorker, es_error_o_end, en_curso, pc_query>>
    BY <1>4 DEF conexionMasterDesalojo
  <2>2. DelMaster(w)
    BY <1>0, <1>1, <2>1 DEF DelMaster
  <2>3. Turno(w)'
    BY <1>0, <2>1, <2>2, whileTurno, fueraDeTurno
  <2> QED BY <1>0, <1>2, <2>1, <2>3, whileTurno
<1>5. CASE limpiar(w)
  <2>1. /\ fase[w] = "limpiando" /\ whileNoDeboMorir(w)
        /\ UNCHANGED <<altas, aWorker, es_error_o_end, en_curso, pc_query>>
    BY <1>5 DEF limpiar, otrosCanales
  <2>2. DelMaster(w)
    BY <1>1, <2>1 DEF DelMaster
  <2>3. Turno(w)'
    BY <1>0, <2>1, <2>2, whileTurno, fueraDeTurno
  <2> QED BY <1>0, <1>2, <2>1, <2>3, whileTurno
<1>6. CASE esperandoQuery(w)
  <2>1. DelMaster(w)
    BY <1>1, <1>6 DEF esperandoQuery, DelMaster
  <2>2. Turno(w)'
    BY <1>0, <1>6, <2>1, esperandoTurno
  <2> QED BY <1>0, <1>2, <1>6, <2>2 DEF esperandoQuery, pasaA
<1>7. CASE Execute(w)
  <2>1. DelMaster(w)
    BY <1>1, <1>7 DEF Execute, otrosCanales, DelMaster
  <2>2. Turno(w)'
    BY <1>0, <1>7, <2>1, ExecuteTurno
  <2>3. /\ UNCHANGED <<altas, aWorker, en_curso>> /\ pasaA(w, "checkeando")
        /\ \E tipos : sigue(w, tipos) \/ finaliza(w, tipos)
    BY <1>7 DEF Execute, ejecutarCommit, otrosCanales
  <2>4. \A v \in Workers : v # w =>
          /\ aMaster'[v] = aMaster[v] /\ es_error_o_end'[v] = es_error_o_end[v]
          /\ pc_query'[v] = pc_query[v]
    BY <1>0, <2>3 DEF sigue, finaliza, responder
  <2> QED BY <1>0, <1>2, <2>2, <2>3, <2>4 DEF pasaA
<1>8. CASE checkInterrupt(w)
  <2>1. /\ fase[w] = "checkeando"
        /\ fase' = [fase EXCEPT ![w] = IF es_error_o_end[w] \/ hubo_interrupcion[w]
                                        THEN "gestionando" ELSE "ejecutando"]
        /\ ~ hubo_interrupcion[w]
        /\ UNCHANGED <<altas, aWorker, aMaster, en_curso, pc_query, es_error_o_end>>
    BY <1>8 DEF checkInterrupt, pasaA, SinEnviar, canales, ITurnos, IFifo, SinDesalojos
  <2>2. DelMaster(w)
    BY <1>1, <2>1 DEF DelMaster
  <2>3. \/ fase'[w] = "gestionando" /\ es_error_o_end[w]
        \/ fase'[w] = "ejecutando" /\ ~ es_error_o_end[w]
    BY <1>0, <2>1
  <2>4. EnPrograma(w)'
    BY <1>0, <2>1, <2>3 DEF Turno, EnPrograma
  <2>5. UnTurno(w)' /\ Ociosos(w)' /\ Reportada(w)'
    BY <1>0, <2>1, <2>2, <2>3 DEF DelMaster, Turno, UnTurno, Ociosos, SinTurno,
       enTurno, Reportada
  <2>6. Turno(w)'
    BY <2>4, <2>5 DEF Turno
  <2> QED BY <1>0, <1>2, <2>1, <2>6
<1>9. CASE gestionarCheckInterrupt(w)
  <2>1. DelMaster(w)
    BY <1>1, <1>9 DEF gestionarCheckInterrupt, otrosCanales, DelMaster
  <2>2. Turno(w)'
    BY <1>0, <1>9, <2>1, gestionarTurno
  <2>3. \A v \in Workers : v # w => aMaster'[v] = aMaster[v] /\ fase'[v] = fase[v]
    BY <1>0, <1>9 DEF gestionarCheckInterrupt, responder, pasaA
  <2>4. UNCHANGED <<altas, aWorker, en_curso, pc_query, es_error_o_end>>
    BY <1>9 DEF gestionarCheckInterrupt, otrosCanales
  <2> QED BY <1>2, <2>2, <2>3, <2>4
<1>10. CASE manejador_senial(w)
  <2>1. \A v \in Workers : Igual(v)
    BY <1>1, <1>10 DEF manejador_senial, canales, Igual
  <2> QED BY <1>0, <2>1, MismoTurno
<1>11. CASE caeWorker(w)
  <2>1. /\ fase[w] # "inicio" /\ fase' = [fase EXCEPT ![w] = "terminado"]
        /\ UNCHANGED <<altas, aWorker, aMaster, en_curso, pc_query, es_error_o_end>>
    BY <1>11 DEF caeWorker, pasaA, canales
  <2>2. DelMaster(w)
    BY <1>1, <2>1 DEF DelMaster
  <2>3. /\ <<>> \in Seq(Respuesta) /\ ~ HayTipo(<<>>, FinCiclo)
        /\ aMaster'[w] = aMaster[w] \o <<>>
    BY <1>0, <2>1 DEF HayTipo
  <2>4. Turno(w)'
    BY <1>0, <2>1, <2>2, <2>3, fueraDeTurno
  <2> QED BY <1>0, <1>2, <2>1, <2>4
<1> QED
  BY <1>0, <1>3, <1>4, <1>5, <1>6, <1>7, <1>8, <1>9, <1>10, <1>11 DEF cicloWorker

LEMMA TurnosInvariante ==
  ASSUME Algoritmo = "FIFO", SinInvalidas PROVE Spec => []ITurnos
<1>1. Init => Turnos
  BY DEF Init, CanalesInit, MasterInit, WorkerInit, Turnos, Turno, UnTurno, Ociosos,
     SinTurno, enTurno, Reportada, EnPrograma, HayTipo, UnFin, Avisado
<1>2. IFifo /\ ITurnos /\ [Next]_vars => Turnos'
  <2> SUFFICES ASSUME ITurnos, [Next]_vars PROVE Turnos'
    OBVIOUS
  <2>1. CASE PasoDelMaster
    BY <2>1, PasoDelMasterTurno
  <2>2. CASE \E w \in Workers : PasoDeWorker(w)
    BY <2>2, PasoDeWorkerTurno
  <2>3. ASSUME UNCHANGED <<masterVars, workerVars, caida, altas, aWorker, aMaster>>
        PROVE  Turnos'
    <3>1. \A v \in Workers : Igual(v)
      BY <2>3 DEF Igual, masterVars, workerVars
    <3> QED BY <2>3, <3>1, MismoTurno DEF ITurnos, Turnos
  <2>4. CASE \E q \in Queries : PasoDeQC(q)
    BY <2>3, <2>4 DEF PasoDeQC, pasoQC, cicloQC, registrarQuery,
       gestionarOrdenMaestro, masterCerro, caeQC, canales
  <2>5. CASE UNCHANGED vars
    BY <2>3, <2>5 DEF vars, canales
  <2> QED BY <2>1, <2>2, <2>4, <2>5 DEF Next
<1> QED BY <1>1, <1>2, IFifoInvariante, PTL DEF Spec, ITurnos

-----------------------------------------------------------------------------
(* The refinement.  While the master lives, ColaDeQueries sees READY, what  *)
(* each worker runs, and the queries that were told they are over.          *)

ICola == ITurnos /\ IFin

terminadasAhora == {q \in Queries : finalizada(q)}

\* The steps of ColaDeQueries, in the words of the master.
Llegada(q) ==
  /\ q \notin ToSet(lista_ready) \cup terminadasAhora
  /\ \A w \in Workers : query_actual[w] # q
  /\ \/ lista_ready' = Append(lista_ready, q) /\ UNCHANGED query_actual
     \/ /\ lista_ready = <<>> /\ UNCHANGED lista_ready
        /\ \E w \in Workers :
             query_actual[w] = NULL /\ query_actual' = [query_actual EXCEPT ![w] = q]
  /\ terminadasAhora' = terminadasAhora

Despacho(w) ==
  /\ lista_ready # <<>> /\ query_actual[w] = NULL
  /\ query_actual' = [query_actual EXCEPT ![w] = Head(lista_ready)]
  /\ lista_ready' = Tail(lista_ready)
  /\ terminadasAhora' = terminadasAhora

Fin(w) ==
  /\ query_actual[w] # NULL
  /\ terminadasAhora' = terminadasAhora \cup {query_actual[w]}
  /\ query_actual' = [query_actual EXCEPT ![w] = NULL]
  /\ UNCHANGED lista_ready

NadaVisible == UNCHANGED <<lista_ready, query_actual, terminadasAhora>>

PasoVisible ==
  \/ \E q \in Queries : Llegada(q)
  \/ \E w \in Workers : Despacho(w) \/ Fin(w)
  \/ NadaVisible

LEMMA MismasTerminadas ==
  ASSUME UNCHANGED <<aQC, estado_qc>> PROVE terminadasAhora' = terminadasAhora
  BY DEF terminadasAhora, finalizada

\* A query is over when notificarFin tells its query control; LEER does not
\* end it.
LEMMA ordenTerminadas ==
  ASSUME TypeOK, NEW q \in Queries, NEW x \in Orden, UNCHANGED estado_qc,
         aQC' = [aQC EXCEPT ![q] = Append(@, x)]
  PROVE  terminadasAhora' = IF x = "FINALIZAR" THEN terminadasAhora \cup {q}
                            ELSE terminadasAhora
<1>1. aQC \in [Queries -> Seq(Orden)]
  BY DEF TypeOK, CanalesTypeOK
<1>2. \A r \in Queries : r # q => aQC'[r] = aQC[r]
  BY <1>1
<1>3. ToSet(aQC'[q]) = ToSet(aQC[q]) \cup {x}
  BY <1>1, AgregarAlFinal
<1>4. \A r \in Queries : finalizada(r)' <=> finalizada(r) \/ (r = q /\ x = "FINALIZAR")
  BY <1>2, <1>3 DEF finalizada
<1> QED BY <1>4 DEF terminadasAhora

LEMMA gestionarQueryVisible ==
  ASSUME Algoritmo = "FIFO", ICola, caida = "no", NEW q \in Queries,
         gestionarQueryIndividual(q), UNCHANGED estado_qc
  PROVE  Llegada(q)
<1>0. /\ TypeOK /\ \A w \in Workers : Turno(w)
      /\ hilo_query[q] = "creada" /\ entrarFIFO(q)
  BY DEF ICola, ITurnos, IFifo, Turnos, gestionarQueryIndividual, entrarPrioridades
<1>1. terminadasAhora' = terminadasAhora
  BY MismasTerminadas DEF gestionarQueryIndividual
<1>2. q \notin OcupadasAhora /\ ~ finalizada(q)
  BY <1>0 DEF ICola, IFin, IUnaCopia, Admitidas, FinLibre, OcupadasAhora
<1>3. /\ q \notin ToSet(lista_ready) \cup terminadasAhora
      /\ \A w \in Workers : query_actual[w] # q
  BY <1>2 DEF OcupadasAhora, Ocupadas, terminadasAhora
<1>4. \A w \in WorkerLibre : w \in Workers /\ query_actual[w] = NULL
  <2> SUFFICES ASSUME NEW w \in WorkerLibre PROVE w \in Workers /\ query_actual[w] = NULL
    OBVIOUS
  <2>1. w \in Workers /\ esta_libre[w]
    BY <1>0, Elegidos DEF TypeOK, WorkerLibre
  <2> QED BY <1>0, <2>1 DEF Turno, Ociosos
<1> QED
  BY <1>0, <1>1, <1>3, <1>4 DEF Llegada, entrarFIFO, asignarQueryAWorker, SinAsignar

LEMMA enviarPorWorkerVisible ==
  ASSUME Algoritmo = "FIFO", ICola, NEW w \in Workers, intentarEnviarPorWorker(w),
         query_actual[w] = NULL, UNCHANGED <<aQC, estado_qc>>
  PROVE  Despacho(w) \/ NadaVisible
<1>0. query_actual \in [Workers -> Queries \cup {NULL}]
  BY DEF ICola, ITurnos, IFifo, TypeOK, MasterTypeOK
<1>1. CASE lista_ready # <<>>
  BY <1>1, MismasTerminadas
     DEF intentarEnviarPorWorker, ParaDespachar, asignarQueryAWorker, Despacho
<1>2. CASE lista_ready = <<>>
  BY <1>0, <1>2, MismasTerminadas DEF intentarEnviarPorWorker, NadaVisible
<1> QED BY <1>1, <1>2

LEMMA notificarVisible ==
  ASSUME ICola, NEW w \in Workers, query_actual[w] # NULL, UNCHANGED <<estado_qc, lista_ready>>,
         notificarFin(query_actual[w]), query_actual' = [query_actual EXCEPT ![w] = NULL]
  PROVE  Fin(w)
<1>1. TypeOK /\ query_actual[w] \in Queries
  BY DEF ICola, ITurnos, IFifo, TypeOK, MasterTypeOK
<1>2. terminadasAhora' = terminadasAhora \cup {query_actual[w]}
  BY <1>1, ordenTerminadas DEF notificarFin, Orden
<1> QED BY <1>2 DEF Fin

LEMMA hiloDelWorkerVisible ==
  ASSUME Algoritmo = "FIFO", ICola, caida = "no", caida' = "no",
         NEW w \in Workers, hiloDelWorker(w), UNCHANGED estado_qc
  PROVE  Despacho(w) \/ Fin(w) \/ NadaVisible
<1>0. /\ TypeOK /\ IFifo /\ SinDesalojos /\ Turno(w)
      /\ aMaster \in [Workers -> Seq(Respuesta)]
      /\ query_actual \in [Workers -> Queries \cup {NULL}]
  BY DEF ICola, ITurnos, IFifo, Turnos, TypeOK, CanalesTypeOK, MasterTypeOK
<1>1. CASE gestionarWorkerIndividual(w)
  <2>1. query_actual[w] = NULL
    BY <1>0, <1>1 DEF gestionarWorkerIndividual, Turno, Ociosos
  <2> QED BY <1>1, <2>1, enviarPorWorkerVisible DEF gestionarWorkerIndividual
<1>2. CASE atenderFinCiclo(w)
  <2>1. aMaster[w] # <<>> /\ Head(aMaster[w]).tipo = "FIN_CICLO"
    BY <1>2 DEF atenderFinCiclo, atiende, recibirMensajito
  <2>2. query_actual[w] = NULL
    BY <1>0, <2>1, MensajeLeido DEF Turno, Reportada
  <2> QED BY <1>2, <2>2, enviarPorWorkerVisible DEF atenderFinCiclo
<1>3. CASE atenderLeer(w)
  <2>1. /\ query_actual[w] \in Queries /\ UNCHANGED <<lista_ready, query_actual>>
        /\ aQC' = [aQC EXCEPT ![query_actual[w]] = Append(@, "LEER")]
    BY <1>0, <1>3 DEF atenderLeer, masterVars
  <2> QED BY <1>0, <2>1, ordenTerminadas DEF NadaVisible, Orden
<1>4. CASE atenderFinalizar(w)
  BY <1>4, notificarVisible DEF atenderFinalizar
<1>5. CASE atenderFinalizarWorker(w)
  <2>1. quitarWorker(w) /\ query_actual[w] # NULL /\ notificarFin(query_actual[w])
    BY <1>5 DEF atenderFinalizarWorker
  <2> QED BY <1>0, <2>1, quitarFifo, notificarVisible DEF quitarWorker
<1>6. CASE desconexionWorker(w)
  <2>1. quitarWorker(w) /\ UNCHANGED lista_ready
    BY <1>0, <1>6, quitarFifo DEF desconexionWorker
  <2>2. CASE query_actual[w] = NULL
    <3>1. UNCHANGED <<aQC, query_actual>>
      BY <1>0, <1>6, <2>1, <2>2 DEF desconexionWorker, quitarWorker
    <3> QED BY <2>1, <3>1, MismasTerminadas DEF NadaVisible
  <2>3. CASE query_actual[w] # NULL
    BY <1>6, <2>1, <2>3, notificarVisible DEF desconexionWorker, quitarWorker
  <2> QED BY <2>2, <2>3
<1>7. CASE atenderDesalojar(w)
  BY <1>0, <1>7 DEF atenderDesalojar, SinDesalojos
<1>8. CASE queryActualNula(w) \/ queryPendienteNula(w) \/ workerLiberado(w)
  BY <1>8 DEF queryActualNula, queryPendienteNula, workerLiberado
<1> QED BY <1>1, <1>2, <1>3, <1>4, <1>5, <1>6, <1>7, <1>8 DEF hiloDelWorker

\* Every step that leaves the master alive is a step of the queue.
LEMMA PasoDelMasterVisible ==
  ASSUME Algoritmo = "FIFO", ICola, PasoDelMaster, caida' = "no"
  PROVE  PasoVisible
<1>0. caida = "no" /\ UNCHANGED estado_qc
  BY DEF PasoDelMaster, pasoMaster
<1>1. ASSUME NEW q \in Queries, hiloDelQuery(q) PROVE PasoVisible
  <2>1. CASE crearQuery(q) \/ incrementarQuid(q)
    BY <1>0, <2>1, MismasTerminadas DEF crearQuery, incrementarQuid, workerStruct,
       canales, PasoVisible, NadaVisible
  <2>2. CASE gestionarQueryIndividual(q)
    BY <1>0, <2>2, gestionarQueryVisible DEF PasoVisible
  <2> QED BY <1>1, <2>1, <2>2 DEF hiloDelQuery
<1>2. ASSUME NEW q \in Queries, hiloDeAging(q) PROVE FALSE
  BY <1>2 DEF hiloDeAging, realizarAgingIndividual, ICola, ITurnos, IFifo, SinDesalojos
<1>3. ASSUME NEW w \in Workers, hiloDelWorker(w) PROVE PasoVisible
  BY <1>0, <1>3, hiloDelWorkerVisible DEF PasoVisible
<1>4. ASSUME NEW w \in Workers, hiloDesalojoDelWorker(w) PROVE PasoVisible
  BY <1>0, <1>4, MismasTerminadas DEF hiloDesalojoDelWorker, recibirIdWorkerDesalojo,
     workerStruct, PasoVisible, NadaVisible
<1> QED BY <1>1, <1>2, <1>3, <1>4 DEF PasoDelMaster, pasoMaster, MasterNext

\* What the queue sees of a state: its variables under the mapping.
colaAhora == IF vive THEN lista_ready ELSE <<>>
corriendoAhora == [w \in Workers |-> IF vive THEN query_actual[w] ELSE NULL]
terminadasDeCola == {q \in Queries : vive /\ finalizada(q)}

LEMMA Mapa ==
  /\ Cola!vars = <<vive, colaAhora, corriendoAhora, terminadasDeCola>>
  /\ Cola!vars' = <<vive, colaAhora, corriendoAhora, terminadasDeCola>>'
  BY DEF Cola!vars, colaAhora, corriendoAhora, terminadasDeCola

\* With the master alive the mapping shows the master's own structures.
LEMMA VivoSeVe ==
  TypeOK /\ caida = "no" =>
    /\ vive /\ colaAhora = lista_ready /\ corriendoAhora = query_actual
    /\ terminadasDeCola = terminadasAhora
<1> SUFFICES ASSUME TypeOK, caida = "no"
             PROVE  /\ vive /\ colaAhora = lista_ready
                    /\ corriendoAhora = query_actual
                    /\ terminadasDeCola = terminadasAhora
  OBVIOUS
<1>1. query_actual \in [Workers -> Queries \cup {NULL}]
  BY DEF TypeOK, MasterTypeOK
<1> QED
  BY <1>1 DEF vive, colaAhora, corriendoAhora, terminadasDeCola, terminadasAhora

LEMMA CaidoSeVe ==
  caida # "no" =>
    /\ vive = FALSE /\ colaAhora = <<>> /\ terminadasDeCola = {}
    /\ corriendoAhora = [w \in Workers |-> NULL]
  BY DEF vive, colaAhora, corriendoAhora, terminadasDeCola

\* A visible step of the living master is a step of the queue or none.
LEMMA VisibleEsDeCola ==
  ASSUME TypeOK, TypeOK', caida = "no", caida' = "no", PasoVisible
  PROVE  [Cola!Next]_Cola!vars
<1>1. /\ vive /\ colaAhora = lista_ready /\ corriendoAhora = query_actual
      /\ terminadasDeCola = terminadasAhora
  BY VivoSeVe
<1>2. /\ vive' /\ colaAhora' = lista_ready' /\ corriendoAhora' = query_actual'
      /\ terminadasDeCola' = terminadasAhora'
  <2>1. query_actual' \in [Workers -> Queries \cup {NULL}]
    BY DEF TypeOK, MasterTypeOK
  <2> QED
    BY <2>1 DEF vive, colaAhora, corriendoAhora, terminadasDeCola, terminadasAhora
<1>3. ASSUME NEW q \in Queries, Llegada(q) PROVE Cola!Llega(q)
  BY <1>1, <1>2, <1>3 DEF Cola!Llega, Cola!Desconocida, Cola!ToSet, ToSet,
     Llegada, colaAhora, corriendoAhora, terminadasDeCola
<1>4. ASSUME NEW w \in Workers, Despacho(w) PROVE Cola!Despacha(w)
  BY <1>1, <1>2, <1>4 DEF Cola!Despacha, Despacho, colaAhora, corriendoAhora,
     terminadasDeCola
<1>5. ASSUME NEW w \in Workers, Fin(w) PROVE Cola!Termina(w)
  BY <1>1, <1>2, <1>5 DEF Cola!Termina, Fin, colaAhora, corriendoAhora,
     terminadasDeCola
<1>6. ASSUME NadaVisible PROVE UNCHANGED Cola!vars
  BY <1>1, <1>2, <1>6, Mapa DEF NadaVisible, vive
<1> QED BY <1>3, <1>4, <1>5, <1>6 DEF PasoVisible, Cola!Next

LEMMA PrimeroYResto ==
  ASSUME NEW S, NEW s \in Seq(S), s # <<>>
  PROVE  ToSet(s) = {Head(s)} \cup ToSet(Tail(s))
<1>1. \A i \in DOMAIN s : i = 1 \/ (i - 1 \in DOMAIN Tail(s) /\ Tail(s)[i - 1] = s[i])
  OBVIOUS
<1>2. Head(s) \in ToSet(s) /\ ToSet(Tail(s)) \subseteq ToSet(s)
  BY SacarPrimero
<1>3. ASSUME NEW x \in ToSet(s), x # Head(s) PROVE x \in ToSet(Tail(s))
  <2>1. PICK i \in DOMAIN s : s[i] = x
    BY DEF ToSet
  <2>2. i # 1
    BY <1>3, <2>1
  <2> QED BY <1>1, <2>1, <2>2 DEF ToSet
<1> QED BY <1>2, <1>3

\* A query control that reads its orders, registers or is killed changes
\* nothing the queue sees: the FINALIZAR it reads ends it.
LEMMA PasoDeQCVisible ==
  ASSUME ICola, NEW q \in Queries, PasoDeQC(q), caida = "no"
  PROVE  NadaVisible
<1>0. /\ UNCHANGED <<lista_ready, query_actual>> /\ aQC \in [Queries -> Seq(Orden)]
      /\ estado_qc \in [Queries -> {"nuevo", "esperando", "terminado", "muerto"}]
  BY DEF PasoDeQC, pasoQC, masterVars, queryStruct, workerStruct, ICola, ITurnos,
     IFifo, TypeOK, CanalesTypeOK, QCTypeOK
<1>1. ASSUME gestionarOrdenMaestro(q), NEW r \in Queries
      PROVE  finalizada(r)' <=> finalizada(r)
  <2>1. /\ aQC[q] # <<>> /\ aQC' = [aQC EXCEPT ![q] = Tail(@)]
        /\ \/ Head(aQC[q]) = "LEER" /\ UNCHANGED estado_qc
           \/ Head(aQC[q]) = "FINALIZAR" /\ estado_qc' = [estado_qc EXCEPT ![q] = "terminado"]
    BY <1>1 DEF gestionarOrdenMaestro, qcPasaA
  <2>2. ToSet(aQC[q]) = {Head(aQC[q])} \cup ToSet(Tail(aQC[q]))
    BY <1>0, <2>1, PrimeroYResto
  <2> QED BY <1>0, <2>1, <2>2 DEF finalizada
<1>2. ASSUME UNCHANGED aQC, NEW r \in Queries,
             \/ estado_qc[q] = "nuevo" /\ estado_qc' = [estado_qc EXCEPT ![q] = "esperando"]
             \/ estado_qc[q] = "esperando" /\ estado_qc' = [estado_qc EXCEPT ![q] = "muerto"]
      PROVE  finalizada(r)' <=> finalizada(r)
  BY <1>0, <1>2 DEF finalizada
<1>3. \A r \in Queries : finalizada(r)' <=> finalizada(r)
  BY <1>1, <1>2 DEF PasoDeQC, pasoQC, cicloQC, registrarQuery, masterCerro, caeQC,
     canales, qcPasaA
<1> QED BY <1>0, <1>3 DEF NadaVisible, terminadasAhora

\* Once the master has ended nothing of it is seen again.
LEMMA MasterTerminado ==
  ASSUME caida # "no", [Next]_vars PROVE UNCHANGED Cola!vars
<1>1. caida' = caida
  BY DEF Next, PasoDelMaster, pasoMaster, PasoDeWorker, pasoWorker, PasoDeQC,
     pasoQC, vars
<1>2. /\ vive' = FALSE /\ colaAhora' = <<>> /\ terminadasDeCola' = {}
      /\ corriendoAhora' = [w \in Workers |-> NULL]
  BY <1>1 DEF vive, colaAhora, corriendoAhora, terminadasDeCola
<1> QED BY <1>2, CaidoSeVe, Mapa

LEMMA PasoDeCola ==
  ASSUME Algoritmo = "FIFO", ICola, TypeOK', [Next]_vars
  PROVE  [Cola!Next]_Cola!vars
<1>0. TypeOK
  BY DEF ICola, ITurnos, IFifo
<1>1. CASE caida # "no"
  BY <1>1, MasterTerminado
<1>2. CASE caida = "no" /\ caida' # "no"
  <2>1. vive /\ vive' = FALSE
    BY <1>2 DEF vive
  <2>2. /\ colaAhora' = <<>> /\ terminadasDeCola' = {}
        /\ corriendoAhora' = [w \in Workers |-> NULL]
    BY <1>2 DEF vive, colaAhora, corriendoAhora, terminadasDeCola
  <2>3. Cola!TerminaElMaster
    BY <2>1, <2>2 DEF Cola!TerminaElMaster, colaAhora, corriendoAhora, terminadasDeCola
  <2> QED BY <2>3 DEF Cola!Next
<1>3. CASE caida = "no" /\ caida' = "no"
  <2>1. CASE PasoDelMaster
    BY <1>0, <1>3, <2>1, PasoDelMasterVisible, VisibleEsDeCola
  <2>2. CASE \E w \in Workers : PasoDeWorker(w)
    <3>1. UNCHANGED <<masterVars, estado_qc, aQC, caida>>
      BY <2>2 DEF PasoDeWorker, pasoWorker, pierdeMaster, caeWorker, hiloDesalojo,
         manejador_senial, cicloWorker, conexionMaster, esperandoQuery, Execute,
         checkInterrupt, SinEnviar, gestionarCheckInterrupt,
         conexionMasterDesalojo, limpiar, canales, otrosCanales
    <3>2. NadaVisible
      BY <3>1, MismasTerminadas DEF masterVars, queryStruct, workerStruct, NadaVisible
    <3> QED BY <1>0, <1>3, <3>2, VisibleEsDeCola DEF PasoVisible
  <2>3. CASE \E q \in Queries : PasoDeQC(q)
    BY <1>0, <1>3, <2>3, PasoDeQCVisible, VisibleEsDeCola DEF PasoVisible
  <2>4. CASE UNCHANGED vars
    <3>1. NadaVisible
      BY <2>4, MismasTerminadas DEF vars, canales, masterVars, queryStruct,
         workerStruct, NadaVisible
    <3> QED BY <1>0, <1>3, <3>1, VisibleEsDeCola DEF PasoVisible
  <2> QED BY <2>1, <2>2, <2>3, <2>4 DEF Next
<1> QED BY <1>1, <1>2, <1>3

LEMMA IColaInvariante ==
  ASSUME Algoritmo = "FIFO", SinInvalidas PROVE Spec => []ICola
  BY TurnosInvariante, IFinInvariante, PTL DEF ICola

\* PorOrdenDeLlegada: when no program holds an instruction the worker does
\* not know, the whole system under FIFO implements one queue in order of
\* arrival, for any number of workers and queries and whoever dies.
THEOREM ImplementaCola ==
  ASSUME Algoritmo = "FIFO", SinInvalidas PROVE Spec => PorOrdenDeLlegada
<1>1. Init => Cola!Init
  BY DEF Init, CanalesInit, MasterInit, QCInit, Cola!Init, vive, finalizada, ToSet
<1>2. ICola /\ ICola' /\ [Next]_vars => [Cola!Next]_Cola!vars
  BY PasoDeCola DEF ICola, ITurnos, IFifo
<1> QED BY <1>1, <1>2, IColaInvariante, PTL DEF Spec, PorOrdenDeLlegada, Cola!Spec

-----------------------------------------------------------------------------
(* No query is lost.                                                       *)

Guardada(q) ==
  \/ q \in ToSet(lista_ready)
  \/ \E w \in Workers : query_actual[w] = q
  \/ q \in terminadasAhora

Guardadas == caida = "no" => \A q \in Queries : hilo_query[q] = "gestionada" => Guardada(q)

\* The queue loses nothing, and what arrives stays in it.
LEMMA NoPierde ==
  ASSUME TypeOK, PasoVisible, NEW q \in Queries, Guardada(q) \/ Llegada(q)
  PROVE  Guardada(q)'
<1>0. lista_ready \in Seq(Queries) /\ query_actual \in [Workers -> Queries \cup {NULL}]
  BY DEF TypeOK, MasterTypeOK
<1>1. ASSUME NEW r \in Queries, Llegada(r), Guardada(q) \/ q = r
      PROVE  Guardada(q)'
  <2>1. CASE lista_ready' = Append(lista_ready, r) /\ UNCHANGED query_actual
    <3>1. ToSet(lista_ready') = ToSet(lista_ready) \cup {r}
      BY <1>0, <2>1, AgregarAlFinal
    <3> QED BY <1>1, <2>1, <3>1 DEF Guardada, Llegada
  <2>2. CASE /\ lista_ready = <<>> /\ UNCHANGED lista_ready
             /\ \E w \in Workers :
                  query_actual[w] = NULL /\ query_actual' = [query_actual EXCEPT ![w] = r]
    BY <1>0, <1>1, <2>2, NullAssumption DEF Guardada, Llegada
  <2> QED BY <1>1, <2>1, <2>2 DEF Llegada
<1>2. ASSUME NEW w \in Workers, Despacho(w), Guardada(q) PROVE Guardada(q)'
  <2>1. q \in ToSet(lista_ready) => q = Head(lista_ready) \/ q \in ToSet(Tail(lista_ready))
    BY <1>0, <1>2, PrimeroYResto DEF Despacho
  <2> QED BY <1>0, <1>2, <2>1, NullAssumption DEF Guardada, Despacho
<1>3. ASSUME NEW w \in Workers, Fin(w), Guardada(q) PROVE Guardada(q)'
  BY <1>0, <1>3 DEF Guardada, Fin
<1>4. ASSUME NadaVisible, Guardada(q) PROVE Guardada(q)'
  BY <1>4 DEF Guardada, NadaVisible
<1>5. CASE Llegada(q)
  BY <1>1, <1>5
<1>6. CASE Guardada(q)
  BY <1>1, <1>2, <1>3, <1>4, <1>6 DEF PasoVisible
<1> QED BY <1>5, <1>6

\* A query becomes "gestionada" only by arriving in the queue.
LEMMA SoloLlegando ==
  ASSUME Algoritmo = "FIFO", ICola, PasoDelMaster,
         NEW q \in Queries, hilo_query'[q] = "gestionada"
  PROVE  hilo_query[q] = "gestionada" \/ Llegada(q)
<1>0. /\ caida = "no" /\ UNCHANGED estado_qc
      /\ hilo_query \in [Queries -> {"no", "creando", "creada", "gestionada"}]
  BY DEF PasoDelMaster, pasoMaster, ICola, ITurnos, IFifo, TypeOK, MasterTypeOK
<1>1. ASSUME NEW r \in Queries, hiloDelQuery(r) PROVE hilo_query[q] = "gestionada" \/ Llegada(q)
  <2>1. CASE crearQuery(r) \/ incrementarQuid(r)
    BY <1>0, <2>1 DEF crearQuery, incrementarQuid
  <2>2. CASE gestionarQueryIndividual(r)
    <3>1. Llegada(r) /\ hilo_query' = [hilo_query EXCEPT ![r] = "gestionada"]
      BY <1>0, <2>2, gestionarQueryVisible DEF gestionarQueryIndividual
    <3> QED BY <1>0, <3>1
  <2> QED BY <1>1, <2>1, <2>2 DEF hiloDelQuery
<1>2. ASSUME NEW r \in Queries, hiloDeAging(r) PROVE FALSE
  BY <1>2 DEF hiloDeAging, realizarAgingIndividual, ICola, ITurnos, IFifo, SinDesalojos
<1>3. ASSUME NEW w \in Workers, hiloDelWorker(w) \/ hiloDesalojoDelWorker(w)
      PROVE  UNCHANGED hilo_query
  BY <1>3 DEF hiloDelWorker, gestionarWorkerIndividual, atenderLeer, atenderDesalojar,
     atenderFinalizar, atenderFinCiclo, atenderFinalizarWorker, desconexionWorker,
     queryActualNula, queryPendienteNula, workerLiberado, masterVars, hilosDeQuery,
     hiloDesalojoDelWorker, recibirIdWorkerDesalojo
<1> QED BY <1>1, <1>2, <1>3 DEF PasoDelMaster, pasoMaster, MasterNext

\* NingunaQueryPerdida: under FIFO, when no program holds an instruction the
\* worker does not know, an accepted query stays in READY or with a worker
\* until its query control is told it is over, whoever fails.
THEOREM NingunaQueryPerdidaSiempre ==
  ASSUME Algoritmo = "FIFO", SinInvalidas PROVE Spec => []NingunaQueryPerdida
<1>1. Init => Guardadas
  BY DEF Init, MasterInit, Guardadas
<1>2. ICola /\ Guardadas /\ [Next]_vars => Guardadas'
  <2> SUFFICES ASSUME ICola, Guardadas, [Next]_vars, caida' = "no", NEW q \in Queries,
                      hilo_query'[q] = "gestionada"
               PROVE  Guardada(q)'
    BY DEF Guardadas
  <2>0. TypeOK
    BY DEF ICola, ITurnos, IFifo
  <2>1. CASE PasoDelMaster
    <3>1. PasoVisible /\ (hilo_query[q] = "gestionada" \/ Llegada(q)) /\ caida = "no"
      BY <2>1, PasoDelMasterVisible, SoloLlegando DEF PasoDelMaster, pasoMaster
    <3> QED BY <2>0, <3>1, NoPierde DEF Guardadas
  <2>2. ASSUME NadaVisible, UNCHANGED <<caida, hilo_query>> PROVE Guardada(q)'
    BY <2>0, <2>2, NoPierde DEF Guardadas, PasoVisible
  <2>3. CASE \E w \in Workers : PasoDeWorker(w)
    <3>1. UNCHANGED <<masterVars, estado_qc, aQC, caida>>
      BY <2>3 DEF PasoDeWorker, pasoWorker, pierdeMaster, caeWorker, hiloDesalojo,
         manejador_senial, cicloWorker, conexionMaster, esperandoQuery, Execute,
         checkInterrupt, SinEnviar, gestionarCheckInterrupt,
         conexionMasterDesalojo, limpiar, canales, otrosCanales
    <3> QED
      BY <2>2, <3>1, MismasTerminadas DEF masterVars, queryStruct, workerStruct,
         hilosDeQuery, NadaVisible
  <2>4. CASE \E r \in Queries : PasoDeQC(r)
    <3>1. UNCHANGED <<masterVars, caida>>
      BY <2>4 DEF PasoDeQC, pasoQC
    <3> QED
      BY <2>2, <2>4, <3>1, PasoDeQCVisible DEF masterVars, hilosDeQuery
  <2>5. CASE UNCHANGED vars
    BY <2>2, <2>5, MismasTerminadas DEF vars, canales, masterVars, queryStruct,
       workerStruct, hilosDeQuery, NadaVisible
  <2> QED BY <2>1, <2>3, <2>4, <2>5 DEF Next
<1>3. Guardadas => NingunaQueryPerdida
  <2> SUFFICES ASSUME Guardadas, caida = "no", NEW q \in Queries,
                      hilo_query[q] = "gestionada", ~ finalizada(q)
               PROVE  lugares(q) # {}
    BY DEF NingunaQueryPerdida
  <2>1. CASE q \in ToSet(lista_ready)
    <3>1. PICK i \in DOMAIN lista_ready : lista_ready[i] = q
      BY <2>1 DEF ToSet
    <3>2. <<"ready", i>> \in lugares(q)
      BY <3>1 DEF lugares
    <3> QED BY <3>2
  <2>2. CASE \E w \in Workers : query_actual[w] = q
    <3>1. PICK w \in Workers : query_actual[w] = q
      BY <2>2
    <3>2. <<"actual", w>> \in lugares(q)
      BY <3>1 DEF lugares
    <3> QED BY <3>2
  <2> QED BY <2>1, <2>2 DEF Guardadas, Guardada, terminadasAhora
<1> QED BY <1>1, <1>2, <1>3, IColaInvariante, PTL DEF Spec
=============================================================================
