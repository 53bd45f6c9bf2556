---------------------- MODULE PlanificacionMaster_proofs ----------------------
(***************************************************************************)
(* Proofs about the master process: what it can die of, when it cannot     *)
(* die, and what its steps under PRIORIDADES promise.                      *)
(***************************************************************************)
EXTENDS PlanificacionTurnos_proofs

-----------------------------------------------------------------------------
(* Late messages.  Under FIFO whatever a worker has, runs or has reported   *)
(* is about the query the master believes it runs, about one already over,  *)
(* or about none.                                                           *)

Saldadas(w) == {NULL, query_actual[w]} \cup terminadasAhora

Deudas(w) ==
  /\ en_curso[w] \in Saldadas(w)
  /\ \A i \in DOMAIN aWorker[w] : aWorker[w][i].query \in Saldadas(w)
  /\ \A i \in DOMAIN aMaster[w] : aMaster[w][i].query \in Saldadas(w)

IDeudas == caida = "no" => \A w \in Workers : Deudas(w)

\* A query leaves query_actual by ending.
LEMMA SaldadasCrecen ==
  ASSUME TypeOK, PasoVisible
  PROVE  \A w \in Workers : Saldadas(w) \subseteq Saldadas(w)'
<1> SUFFICES ASSUME NEW w \in Workers PROVE Saldadas(w) \subseteq Saldadas(w)'
  OBVIOUS
<1>0. query_actual \in [Workers -> Queries \cup {NULL}]
  BY DEF TypeOK, MasterTypeOK
<1>1. ASSUME NEW q \in Queries, Llegada(q) PROVE Saldadas(w) \subseteq Saldadas(w)'
  BY <1>0, <1>1 DEF Llegada, Saldadas
<1>2. ASSUME NEW v \in Workers, Despacho(v) PROVE Saldadas(w) \subseteq Saldadas(w)'
  BY <1>0, <1>2 DEF Despacho, Saldadas
<1>3. ASSUME NEW v \in Workers, Fin(v) PROVE Saldadas(w) \subseteq Saldadas(w)'
  BY <1>0, <1>3 DEF Fin, Saldadas
<1>4. CASE NadaVisible
  BY <1>4 DEF NadaVisible, Saldadas
<1> QED BY <1>1, <1>2, <1>3, <1>4 DEF PasoVisible

LEMMA PasoDelMasterDeudas ==
  ASSUME Algoritmo = "FIFO", ICola, IVez, IDeudas, PasoDelMaster
  PROVE  IDeudas'
<1> SUFFICES ASSUME caida' = "no", NEW w \in Workers PROVE Deudas(w)'
  BY DEF IDeudas
<1>0. Mueve /\ UNCHANGED en_curso
  BY PasoDelMasterMueve DEF ICola, IFin, workerVars
<1>1. Deudas(w) /\ Saldadas(w) \subseteq Saldadas(w)'
  BY PasoDelMasterVisible, SaldadasCrecen DEF IDeudas, PasoDelMaster, pasoMaster, IVez
<1>2. \A i \in DOMAIN aMaster'[w] : aMaster'[w][i].query \in Saldadas(w)'
  BY <1>0, <1>1 DEF Mueve, Recibe, Deudas
<1>3. \A i \in DOMAIN aWorker'[w] : aWorker'[w][i].query \in Saldadas(w)'
  <2>1. CASE aWorker'[w] = aWorker[w]
    BY <1>1, <2>1 DEF Deudas
  <2>2. ASSUME NEW q \in Queries, Toma(w, q)
        PROVE  \A i \in DOMAIN aWorker'[w] : aWorker'[w][i].query \in Saldadas(w)'
    <3>1. aWorker'[w] = <<[query |-> q, pc |-> pc[q]]>> /\ query_actual'[w] = q
      BY <2>2 DEF Toma
    <3> QED BY <3>1 DEF Saldadas
  <2> QED BY <1>0, <2>1, <2>2 DEF Mueve
<1> QED BY <1>0, <1>1, <1>2, <1>3 DEF Deudas

\* A worker takes its query from the master and reports about that one.
LEMMA PasoDeWorkerReporta ==
  ASSUME TypeOK, NEW w \in Workers, PasoDeWorker(w)
  PROVE  /\ \E t \in Seq(Respuesta) :
              /\ aMaster'[w] = aMaster[w] \o t
              /\ \A i \in DOMAIN t : t[i].query = en_curso[w]
         /\ \/ aWorker'[w] = aWorker[w] /\ en_curso'[w] = en_curso[w]
            \/ /\ aWorker'[w] = Tail(aWorker[w]) /\ aWorker[w] # <<>>
               /\ en_curso'[w] = Head(aWorker[w]).query
         /\ \A v \in Workers : v # w =>
              aWorker'[v] = aWorker[v] /\ aMaster'[v] = aMaster[v] /\ en_curso'[v] = en_curso[v]
         /\ UNCHANGED <<masterVars, caida, aQC, estado_qc>>
<1>0. /\ UNCHANGED <<masterVars, caida, estado_qc>>
      /\ \/ cicloWorker(w) \/ hiloDesalojo(w) \/ manejador_senial(w) \/ caeWorker(w)
         \/ pierdeMaster(w)
      /\ aWorker \in [Workers -> Seq(Asignacion)]
      /\ aMaster \in [Workers -> Seq(Respuesta)]
      /\ en_curso \in [Workers -> Queries \cup {NULL}]
  BY DEF PasoDeWorker, pasoWorker, TypeOK, CanalesTypeOK, WorkerTypeOK
<1>1. \E t \in Seq(Respuesta) :
         /\ aMaster[w] = aMaster[w] \o t
         /\ \A i \in DOMAIN t : t[i].query = en_curso[w]
  <2>1. <<>> \in Seq(Respuesta) /\ DOMAIN <<>> = {} /\ aMaster[w] = aMaster[w] \o <<>>
    BY <1>0
  <2> QED BY <2>1
<1>2. CASE \/ conexionMaster(w) \/ checkInterrupt(w) \/ hiloDesalojo(w)
           \/ manejador_senial(w) \/ caeWorker(w) \/ pierdeMaster(w)
  <2>1. UNCHANGED <<aWorker, aMaster, en_curso, aQC>>
    BY <1>2 DEF conexionMaster, checkInterrupt, SinEnviar, hiloDesalojo, manejador_senial,
       caeWorker, pierdeMaster, canales
  <2> QED BY <1>0, <1>1, <2>1
<1>3. CASE conexionMasterDesalojo(w) \/ limpiar(w)
  <2>1. whileNoDeboMorir(w) /\ UNCHANGED <<aWorker, en_curso, aQC>>
    BY <1>3 DEF conexionMasterDesalojo, limpiar, otrosCanales
  <2>2. CASE UNCHANGED aMaster
    BY <1>0, <1>1, <2>1, <2>2
  <2>3. ASSUME NEW m \in Respuesta, m.query = en_curso[w],
               aMaster' = [aMaster EXCEPT ![w] = Append(@, m)]
        PROVE  /\ \E t \in Seq(Respuesta) :
                    /\ aMaster'[w] = aMaster[w] \o t
                    /\ \A i \in DOMAIN t : t[i].query = en_curso[w]
               /\ \A v \in Workers : v # w => aMaster'[v] = aMaster[v]
    <3>1. /\ <<m>> \in Seq(Respuesta) /\ aMaster'[w] = aMaster[w] \o <<m>>
          /\ \A i \in DOMAIN <<m>> : <<m>>[i].query = en_curso[w]
      BY <1>0, <2>3
    <3> QED BY <1>0, <2>3, <3>1
  <2>4. [tipo |-> "FINALIZAR_WORKER", query |-> en_curso[w], pc |-> pc_query[w]] \in Respuesta
    BY DEF Respuesta, TipoRespuesta, TypeOK, WorkerTypeOK
  <2> QED BY <1>0, <2>1, <2>2, <2>3, <2>4 DEF whileNoDeboMorir
<1>4. CASE esperandoQuery(w)
  <2>1. /\ UNCHANGED <<aMaster, aQC>> /\ aWorker[w] # <<>>
        /\ aWorker' = [aWorker EXCEPT ![w] = Tail(@)]
        /\ en_curso' = [en_curso EXCEPT ![w] = Head(aWorker[w]).query]
    BY <1>4 DEF esperandoQuery
  <2> QED BY <1>0, <1>1, <2>1
<1>5. CASE Execute(w)
  <2>1. UNCHANGED <<aWorker, en_curso, aQC>>
    BY <1>5 DEF Execute, otrosCanales
  <2> QED BY <1>0, <1>5, <2>1, ExecuteEnvia
<1>6. CASE gestionarCheckInterrupt(w)
  <2>1. UNCHANGED <<aWorker, en_curso, aQC>>
    BY <1>6 DEF gestionarCheckInterrupt, otrosCanales
  <2> QED BY <1>0, <1>6, <2>1, gestionarEnvia
<1> QED BY <1>0, <1>2, <1>3, <1>4, <1>5, <1>6 DEF cicloWorker

LEMMA PasoDeWorkerDeudas ==
  ASSUME TypeOK, IDeudas, NEW w \in Workers, PasoDeWorker(w)
  PROVE  IDeudas'
<1>0. UNCHANGED <<caida, query_actual, aQC, estado_qc>>
  BY PasoDeWorkerReporta DEF masterVars
<1>1. \A v \in Workers : Saldadas(v)' = Saldadas(v)
  BY <1>0, MismasTerminadas DEF Saldadas
<1> SUFFICES ASSUME caida = "no", NEW v \in Workers PROVE Deudas(v)'
  BY <1>0 DEF IDeudas
<1>2. Deudas(v)
  BY DEF IDeudas
<1>3. CASE v # w
  BY <1>1, <1>2, <1>3, PasoDeWorkerReporta DEF Deudas
<1>4. CASE v = w
  <2>0. aWorker[w] \in Seq(Asignacion) /\ aMaster[w] \in Seq(Respuesta)
    BY DEF TypeOK, CanalesTypeOK
  <2>1. PICK t \in Seq(Respuesta) :
          aMaster'[w] = aMaster[w] \o t /\ \A i \in DOMAIN t : t[i].query = en_curso[w]
    BY PasoDeWorkerReporta
  <2>2. ASSUME NEW i \in DOMAIN aMaster'[w] PROVE aMaster'[w][i].query \in Saldadas(w)
    <3>1. \/ i \in DOMAIN aMaster[w] /\ aMaster'[w][i] = aMaster[w][i]
          \/ i - Len(aMaster[w]) \in DOMAIN t /\ aMaster'[w][i] = t[i - Len(aMaster[w])]
      BY <2>0, <2>1
    <3> QED BY <1>2, <1>4, <2>1, <3>1 DEF Deudas
  <2>3. CASE aWorker'[w] = aWorker[w] /\ en_curso'[w] = en_curso[w]
    BY <1>1, <1>2, <1>4, <2>2, <2>3 DEF Deudas
  <2>4. CASE /\ aWorker'[w] = Tail(aWorker[w]) /\ aWorker[w] # <<>>
             /\ en_curso'[w] = Head(aWorker[w]).query
    <3>1. /\ Head(aWorker[w]) = aWorker[w][1] /\ 1 \in DOMAIN aWorker[w]
          /\ \A i \in DOMAIN Tail(aWorker[w]) :
               i + 1 \in DOMAIN aWorker[w] /\ Tail(aWorker[w])[i] = aWorker[w][i + 1]
      BY <2>0, <2>4
    <3> QED BY <1>1, <1>2, <1>4, <2>2, <2>4, <3>1 DEF Deudas
  <2> QED BY <2>3, <2>4, PasoDeWorkerReporta
<1> QED BY <1>3, <1>4

LEMMA PasoDeQCDeudas ==
  ASSUME ICola, IDeudas, NEW q \in Queries, PasoDeQC(q)
  PROVE  IDeudas'
<1>1. UNCHANGED <<caida, aWorker, aMaster, en_curso>>
  BY DEF PasoDeQC, pasoQC, cicloQC, registrarQuery, gestionarOrdenMaestro, masterCerro,
     caeQC, canales, workerVars
<1> SUFFICES ASSUME caida = "no", NEW w \in Workers PROVE Deudas(w)'
  BY <1>1 DEF IDeudas
<1>2. Saldadas(w)' = Saldadas(w)
  BY PasoDeQCVisible DEF NadaVisible, Saldadas
<1> QED BY <1>1, <1>2 DEF IDeudas, Deudas

LEMMA IDeudasInvariante ==
  ASSUME Algoritmo = "FIFO", SinInvalidas PROVE Spec => []IDeudas
<1>1. Init => IDeudas
  BY DEF Init, CanalesInit, WorkerInit, IDeudas, Deudas, Saldadas
<1>2. IDeudas /\ ICola /\ IVez /\ TypeOK /\ [Next]_vars => IDeudas'
  <2> SUFFICES ASSUME IDeudas, ICola, IVez, TypeOK, [Next]_vars PROVE IDeudas'
    OBVIOUS
  <2>1. CASE PasoDelMaster
    BY <2>1, PasoDelMasterDeudas
  <2>2. CASE \E w \in Workers : PasoDeWorker(w)
    BY <2>2, PasoDeWorkerDeudas
  <2>3. CASE \E q \in Queries : PasoDeQC(q)
    BY <2>3, PasoDeQCDeudas
  <2>4. CASE UNCHANGED vars
    BY <2>4, MismasTerminadas DEF vars, canales, masterVars, workerVars, IDeudas, Deudas, Saldadas
  <2> QED BY <2>1, <2>2, <2>3, <2>4 DEF Next
<1> QED BY <1>1, <1>2, IColaInvariante, IVezInvariante, TipoCorrecto, PTL DEF Spec

\* CaidaTardia: under FIFO, when no program holds an instruction the worker
\* does not know, the message that finds query_actual NULL and ends the
\* master is about a query already announced as over, or about none.
THEOREM CaidaTardiaSiempre ==
  ASSUME Algoritmo = "FIFO", SinInvalidas PROVE Spec => CaidaTardia
<1> DEFINE Tarde == \A w \in Workers : queryActualNula(w) =>
             Head(aMaster[w]).query = NULL \/ finalizada(Head(aMaster[w]).query)
<1>1. IDeudas /\ TypeOK /\ [Next]_vars => [Tarde]_vars
  <2> SUFFICES ASSUME IDeudas, TypeOK, [Next]_vars, vars' # vars, NEW w \in Workers,
                      queryActualNula(w)
               PROVE  Head(aMaster[w]).query = NULL \/ finalizada(Head(aMaster[w]).query)
    OBVIOUS
  <2>1. aMaster[w] # <<>> /\ query_actual[w] = NULL /\ caida' # "no"
        /\ aMaster[w] \in Seq(Respuesta) /\ aMaster' = [aMaster EXCEPT ![w] = Tail(@)]
    BY DEF queryActualNula, atiende, recibirMensajito, TypeOK, CanalesTypeOK
  <2>2. caida = "no"
    <3>1. CASE caida # "no"
      <4>1. UNCHANGED aMaster
        BY <3>1 DEF Next, PasoDelMaster, pasoMaster, PasoDeWorker, pasoWorker, pierdeMaster,
           PasoDeQC, pasoQC, cicloQC, registrarQuery, gestionarOrdenMaestro, masterCerro,
           caeQC, canales, vars
      <4>2. aMaster'[w] = Tail(aMaster[w]) /\ aMaster'[w] = aMaster[w]
        BY <2>1, <4>1 DEF TypeOK, CanalesTypeOK
      <4>3. Len(Tail(aMaster[w])) # Len(aMaster[w])
        BY <2>1
      <4> QED BY <4>2, <4>3
    <3> QED BY <3>1
  <2>3. 1 \in DOMAIN aMaster[w] /\ Head(aMaster[w]) = aMaster[w][1]
    BY <2>1
  <2>4. Head(aMaster[w]).query \in Saldadas(w)
    BY <2>2, <2>3 DEF IDeudas, Deudas
  <2> QED BY <2>1, <2>4 DEF Saldadas, terminadasAhora
<1> QED BY <1>1, IDeudasInvariante, TipoCorrecto, PTL DEF Spec, CaidaTardia

-----------------------------------------------------------------------------
(* When the master cannot die.  FIFO, the sleep(1) long enough, no process  *)
(* killed or signalled, no flush refused: a turn is then told as LEER,      *)
(* LEER, ..., one of FINALIZAR and ERROR, FIN_CICLO, in that order.         *)

SinMolestias ==
  /\ Algoritmo = "FIFO" /\ SleepAlcanza /\ "flush" \notin Fallas
  /\ WorkersQueCaen = {} /\ WorkersConSenial = {} /\ QCsQueCaen = {}

\* Nothing about a query follows the message that ends it.
AvisoUltimo(s) ==
  \A i, j \in DOMAIN s : i < j /\ s[i].tipo \in Avisos => s[j].tipo \notin DeQuery

\* w is not going to run another instruction of the query it has.
Terminando(w) ==
  /\ fase[w] # "ejecutando"
  /\ fase[w] \in {"checkeando", "gestionando"} => es_error_o_end[w]

Charla(w) ==
  /\ ~ HayTipo(aMaster[w], {"NO_FINALICE", "FINALICE", "FINALIZAR_WORKER"})
  /\ AvisoUltimo(aMaster[w])
  /\ HayTipo(aMaster[w], Avisos) => Terminando(w)
  /\ query_actual[w] = NULL =>
       ~ HayTipo(aMaster[w], DeQuery) /\ aWorker[w] = <<>> /\ Terminando(w)

\* w is up, and registers before its preemption socket does.
Presente(w) ==
  /\ ~ debo_morir[w] /\ w \notin caidos /\ hilo_worker[w] # "huerfano"
  /\ "WORKER_DESALOJO" \in altas[w] => w \in ToSet(lista_workers)
  /\ fase[w] = "inicio" => altas[w] = {}
  /\ fase[w] = "sleep" => "WORKER" \in altas[w] \/ w \in ToSet(lista_workers)

\* A query control closes its socket when it has been told FINALIZAR.
SoloTerminadas == \A q \in Queries : q \in caidos => estado_qc[q] = "terminado"

Vivo ==
  /\ caida = "no" /\ SoloTerminadas
  /\ \A w \in Workers : Charla(w) /\ Presente(w)

Base == TypeOK /\ SinDesalojos /\ IFin /\ IVez

\* The rest of a conversation, and its next message.
LEMMA CharlaLeida ==
  ASSUME NEW s \in Seq(Respuesta), s # <<>>, AvisoUltimo(s)
  PROVE  /\ AvisoUltimo(Tail(s))
         /\ Head(s).tipo \in Avisos => HayTipo(s, Avisos) /\ ~ HayTipo(Tail(s), DeQuery)
         /\ \A T : Head(s).tipo \in T => HayTipo(s, T)
         /\ \A T : HayTipo(Tail(s), T) => HayTipo(s, T)
<1> DEFINE t == Tail(s)
<1>1. /\ \A i \in DOMAIN t : i \in Nat \ {0} /\ i + 1 \in DOMAIN s /\ t[i] = s[i + 1]
      /\ 1 \in DOMAIN s /\ Head(s) = s[1]
  OBVIOUS
<1> HIDE DEF t
<1>2. AvisoUltimo(t)
  BY <1>1 DEF AvisoUltimo
<1>3. ASSUME Head(s).tipo \in Avisos PROVE ~ HayTipo(t, DeQuery)
  <2>1. \A i \in DOMAIN t : 1 < i + 1 /\ t[i].tipo \notin DeQuery
    BY <1>1, <1>3 DEF AvisoUltimo
  <2> QED BY <2>1 DEF HayTipo
<1>4. /\ \A T : Head(s).tipo \in T => HayTipo(s, T)
      /\ \A T : HayTipo(t, T) => HayTipo(s, T)
  BY <1>1 DEF HayTipo
<1> QED BY <1>2, <1>3, <1>4 DEF t

LEMMA CharlaEscrita ==
  ASSUME NEW s \in Seq(Respuesta), NEW m \in Respuesta, AvisoUltimo(s),
         m.tipo \in DeQuery => ~ HayTipo(s, Avisos)
  PROVE  /\ AvisoUltimo(Append(s, m))
         /\ \A T : HayTipo(Append(s, m), T) <=> HayTipo(s, T) \/ m.tipo \in T
<1> DEFINE u == Append(s, m)
<1>1. /\ \A i \in DOMAIN s : i \in DOMAIN u /\ u[i] = s[i] /\ i <= Len(s) /\ i \in Nat
      /\ Len(s) + 1 \in DOMAIN u /\ u[Len(s) + 1] = m
      /\ \A i \in DOMAIN u : i \in Nat /\ (i \in DOMAIN s \/ i = Len(s) + 1)
      /\ Len(s) \in Nat
  OBVIOUS
<1> HIDE DEF u
<1>2. AvisoUltimo(u)
  <2> SUFFICES ASSUME NEW i \in DOMAIN u, NEW j \in DOMAIN u, i < j,
                      u[i].tipo \in Avisos, u[j].tipo \in DeQuery
               PROVE  FALSE
    BY DEF AvisoUltimo
  <2>1. i \in DOMAIN s
    BY <1>1
  <2>2. CASE j \in DOMAIN s
    BY <1>1, <2>1, <2>2 DEF AvisoUltimo
  <2>3. CASE j = Len(s) + 1
    BY <1>1, <2>1, <2>3 DEF HayTipo
  <2> QED BY <1>1, <2>2, <2>3
<1>3. \A T : HayTipo(u, T) <=> HayTipo(s, T) \/ m.tipo \in T
  BY <1>1 DEF HayTipo
<1> QED BY <1>2, <1>3 DEF u

LEMMA MismaCharla ==
  ASSUME NEW w \in Workers, Charla(w), aWorker'[w] = aWorker[w], aMaster'[w] = aMaster[w],
         fase'[w] = fase[w], es_error_o_end'[w] = es_error_o_end[w],
         query_actual'[w] = query_actual[w]
  PROVE  Charla(w)'
<1>1. Terminando(w)' <=> Terminando(w)
  BY DEF Terminando
<1> QED BY <1>1 DEF Charla

\* Writing to a worker, or to the query control of a query that runs.
LEMMA EscribeSinSIGPIPE ==
  ASSUME Base, Vivo
  PROVE  /\ \A w \in Workers : enviarMensajito({w}) => caida' = "no"
         /\ \A w \in Workers : query_actual[w] # NULL /\ enviarMensajito({query_actual[w]})
                                => caida' = "no"
<1>1. \A x : x \notin caidos /\ enviarMensajito({x}) => caida' = "no"
  BY DEF enviarMensajito
<1>2. ASSUME NEW w \in Workers PROVE w \notin caidos
  BY DEF Vivo, Presente
<1>3. ASSUME NEW w \in Workers, query_actual[w] # NULL PROVE query_actual[w] \notin caidos
  <2>1. query_actual[w] \in Queries
    BY <1>3 DEF Base, TypeOK, MasterTypeOK
  <2>2. ~ finalizada(query_actual[w])
    BY <2>1 DEF Base, IFin, FinLibre, Vivo, OcupadasAhora, Ocupadas
  <2> QED BY <2>1, <2>2 DEF Vivo, SoloTerminadas, finalizada
<1> QED BY <1>1, <1>2, <1>3

LEMMA asignarCharla ==
  ASSUME TypeOK, NEW w \in Workers, NEW q \in Queries, asignarQueryAWorker(w, q),
         UNCHANGED workerVars, ~ enTurno(w), ~ HayTipo(aMaster'[w], DelTurno),
         ~ HayTipo(aMaster'[w], {"NO_FINALICE", "FINALICE", "FINALIZAR_WORKER"})
  PROVE  Charla(w)'
<1>1. query_actual'[w] = q /\ q # NULL
  BY NullAssumption DEF asignarQueryAWorker, TypeOK, MasterTypeOK
<1>2. /\ ~ HayTipo(aMaster'[w], Avisos) /\ AvisoUltimo(aMaster'[w])
  BY DEF HayTipo, DelTurno, DeQuery, Avisos, AvisoUltimo
<1> QED BY <1>1, <1>2 DEF Charla

LEMMA enviarPorWorkerCharla ==
  ASSUME Base, Vivo, NEW w \in Workers, intentarEnviarPorWorker(w),
         UNCHANGED workerVars, aWorker[w] = <<>>, ~ enTurno(w),
         ~ HayTipo(aMaster'[w], DelTurno),
         ~ HayTipo(aMaster'[w], {"NO_FINALICE", "FINALICE", "FINALIZAR_WORKER"})
  PROVE  /\ Charla(w)' /\ caida' = "no"
         /\ \A v \in Workers : v # w =>
              aWorker'[v] = aWorker[v] /\ query_actual'[v] = query_actual[v]
<1>0. /\ TypeOK /\ lista_ready \in Seq(Queries)
      /\ aWorker \in [Workers -> Seq(Asignacion)]
      /\ query_actual \in [Workers -> Queries \cup {NULL}]
  BY DEF Base, TypeOK, CanalesTypeOK, MasterTypeOK
<1>1. CASE lista_ready # <<>>
  <2>1. PICK r \in ParaDespachar(lista_ready) : asignarQueryAWorker(w, Head(r))
    BY <1>1 DEF intentarEnviarPorWorker
  <2>2. Head(r) \in Queries
    BY <1>0, <1>1, ReadyOrdenada
  <2>3. Charla(w)'
    BY <1>0, <2>1, <2>2, asignarCharla
  <2>4. caida' = "no"
    BY <2>1, EscribeSinSIGPIPE DEF asignarQueryAWorker
  <2> QED BY <1>0, <2>1, <2>3, <2>4 DEF asignarQueryAWorker
<1>2. CASE lista_ready = <<>>
  <2>1. /\ query_actual' = [query_actual EXCEPT ![w] = NULL]
        /\ UNCHANGED <<aWorker, caida>>
    BY <1>2 DEF intentarEnviarPorWorker
  <2>2. UNCHANGED fase /\ Terminando(w)'
    BY DEF workerVars, Terminando, enTurno
  <2>3. /\ ~ HayTipo(aMaster'[w], Avisos) /\ AvisoUltimo(aMaster'[w])
        /\ ~ HayTipo(aMaster'[w], DeQuery)
    BY DEF HayTipo, DelTurno, DeQuery, Avisos, AvisoUltimo
  <2>4. Charla(w)'
    BY <2>1, <2>2, <2>3 DEF Charla
  <2> QED BY <1>0, <2>1, <2>4 DEF Vivo
<1> QED BY <1>1, <1>2

LEMMA MismoPresente ==
  ASSUME NEW w \in Workers, Presente(w), UNCHANGED <<workerVars, caidos, altas>>,
         hilo_worker'[w] # "huerfano", ToSet(lista_workers) \subseteq ToSet(lista_workers')
  PROVE  Presente(w)'
BY DEF Presente, workerVars

LEMMA hiloDelWorkerVivo ==
  ASSUME Base, Vivo, NEW w \in Workers, hiloDelWorker(w), UNCHANGED <<workerVars, estado_qc>>
  PROVE  Vivo'
<1>0. /\ TypeOK /\ Vez(w) /\ Charla(w) /\ Presente(w) /\ caida = "no"
      /\ altas \in [Workers -> SUBSET Handshake]
      /\ aWorker \in [Workers -> Seq(Asignacion)]
      /\ aMaster \in [Workers -> Seq(Respuesta)]
      /\ lista_workers \in Seq(Workers)
      /\ query_actual \in [Workers -> Queries \cup {NULL}]
      /\ hilo_worker \in [Workers -> {"no", "atiende", "huerfano", "fin"}]
      /\ UNCHANGED <<fase, es_error_o_end, debo_morir>>
  BY DEF Base, IVez, Vivo, TypeOK, CanalesTypeOK, MasterTypeOK, workerVars
<1>1. UNCHANGED caidos => SoloTerminadas'
  BY DEF Vivo, SoloTerminadas
<1>2. ASSUME Charla(w)', \A v \in Workers : Presente(v)', caida' = "no", UNCHANGED caidos,
             \A v \in Workers : v # w =>
               /\ aWorker'[v] = aWorker[v] /\ aMaster'[v] = aMaster[v]
               /\ query_actual'[v] = query_actual[v]
      PROVE  Vivo'
  <2>1. ASSUME NEW v \in Workers, v # w PROVE Charla(v)'
    BY <1>0, <1>2, <2>1, MismaCharla DEF Vivo
  <2> QED BY <1>1, <1>2, <2>1 DEF Vivo
<1>3. ASSUME UNCHANGED <<caidos, altas, hilo_worker, lista_workers>>
      PROVE  \A v \in Workers : Presente(v)'
  BY <1>3, MismoPresente DEF Vivo, Presente
<1>4. ASSUME aMaster[w] # <<>>, aMaster' = [aMaster EXCEPT ![w] = Tail(@)]
      PROVE  /\ aMaster'[w] = Tail(aMaster[w]) /\ AvisoUltimo(aMaster'[w])
             /\ Head(aMaster[w]).tipo \in Avisos =>
                  HayTipo(aMaster[w], Avisos) /\ ~ HayTipo(aMaster'[w], DeQuery)
             /\ \A T : Head(aMaster[w]).tipo \in T => HayTipo(aMaster[w], T)
             /\ \A T : HayTipo(aMaster'[w], T) => HayTipo(aMaster[w], T)
             /\ \A v \in Workers : v # w => aMaster'[v] = aMaster[v]
  BY <1>0, <1>4, CharlaLeida DEF Charla
<1>5. CASE gestionarWorkerIndividual(w)
  <2>1. /\ "WORKER" \in altas[w] /\ UNCHANGED <<aMaster, caidos>>
        /\ altas' = [altas EXCEPT ![w] = @ \ {"WORKER"}]
        /\ hilo_worker' = [hilo_worker EXCEPT ![w] = "atiende"]
        /\ lista_workers' = Append(lista_workers, w)
        /\ intentarEnviarPorWorker(w)
    BY <1>5 DEF gestionarWorkerIndividual
  <2>2. SinVez(w)
    BY <1>0, <2>1 DEF Vez, Inactivo
  <2>3. ~ HayTipo(aMaster'[w], {"NO_FINALICE", "FINALICE", "FINALIZAR_WORKER"})
    BY <1>0, <2>1 DEF Charla
  <2>4. /\ Charla(w)' /\ caida' = "no"
        /\ \A v \in Workers : v # w =>
             aWorker'[v] = aWorker[v] /\ query_actual'[v] = query_actual[v]
    BY <2>1, <2>2, <2>3, enviarPorWorkerCharla DEF SinVez
  <2>5. ToSet(lista_workers') = ToSet(lista_workers) \cup {w}
    BY <1>0, <2>1, AgregarAlFinal
  <2>6. ASSUME NEW v \in Workers PROVE Presente(v)'
    BY <1>0, <2>1, <2>5 DEF Vivo, Presente
  <2> QED BY <1>2, <2>1, <2>4, <2>6
<1>6. CASE atenderFinCiclo(w)
  <2>1. /\ aMaster[w] # <<>> /\ Head(aMaster[w]).tipo = "FIN_CICLO"
        /\ aMaster' = [aMaster EXCEPT ![w] = Tail(@)]
        /\ UNCHANGED <<caidos, altas, hilo_worker, lista_workers>>
        /\ intentarEnviarPorWorker(w)
    BY <1>6 DEF atenderFinCiclo, atiende, recibirMensajito
  <2>2. HayTipo(aMaster[w], Fines) /\ ~ HayTipo(Tail(aMaster[w]), DelTurno)
    BY <1>0, <2>1, ColaLeida DEF Vez, UnaVez, Fines
  <2>3. HayTipo(aMaster[w], DelTurno)
    BY <2>2 DEF HayTipo, DelTurno
  <2>4. aWorker[w] = <<>> /\ ~ enTurno(w)
    BY <1>0, <2>2, <2>3 DEF Vez, UnaVez
  <2>5. ~ HayTipo(aMaster'[w], {"NO_FINALICE", "FINALICE", "FINALIZAR_WORKER"})
    BY <1>0, <1>4, <2>1 DEF Charla
  <2>6. ~ HayTipo(aMaster'[w], DelTurno)
    BY <1>4, <2>1, <2>2
  <2>7. /\ Charla(w)' /\ caida' = "no"
        /\ \A v \in Workers : v # w =>
             aWorker'[v] = aWorker[v] /\ query_actual'[v] = query_actual[v]
    BY <2>1, <2>4, <2>5, <2>6, enviarPorWorkerCharla
  <2> QED BY <1>2, <1>3, <1>4, <2>1, <2>7
<1>7. CASE atenderLeer(w)
  <2>1. /\ aMaster[w] # <<>> /\ aMaster' = [aMaster EXCEPT ![w] = Tail(@)]
        /\ query_actual[w] # NULL /\ enviarMensajito({query_actual[w]})
        /\ UNCHANGED <<caidos, altas, hilo_worker, lista_workers, aWorker, query_actual>>
    BY <1>7 DEF atenderLeer, atiende, recibirMensajito, masterVars
  <2>2. caida' = "no"
    BY <2>1, EscribeSinSIGPIPE
  <2>3. Charla(w)'
    BY <1>0, <1>4, <2>1 DEF Charla, Terminando
  <2> QED BY <1>2, <1>3, <1>4, <2>1, <2>2, <2>3
<1>8. CASE atenderFinalizar(w)
  <2>1. /\ aMaster[w] # <<>> /\ aMaster' = [aMaster EXCEPT ![w] = Tail(@)]
        /\ Head(aMaster[w]).tipo \in Avisos
        /\ query_actual[w] # NULL /\ enviarMensajito({query_actual[w]})
        /\ query_actual' = [query_actual EXCEPT ![w] = NULL]
        /\ UNCHANGED <<caidos, altas, hilo_worker, lista_workers, aWorker>>
    BY <1>8 DEF atenderFinalizar, notificarFin, atiende, recibirMensajito, Avisos
  <2>2. caida' = "no"
    BY <2>1, EscribeSinSIGPIPE
  <2>3. /\ Terminando(w) /\ ~ HayTipo(aMaster'[w], DeQuery)
        /\ HayTipo(aMaster[w], DelTurno)
    <3>1. Head(aMaster[w]).tipo \in DelTurno
      BY <2>1 DEF DelTurno, DeQuery, Avisos
    <3> QED BY <1>0, <1>4, <2>1, <3>1 DEF Charla
  <2>4. aWorker[w] = <<>>
    BY <1>0, <2>3 DEF Vez, UnaVez
  <2>5. Charla(w)'
    BY <1>0, <1>4, <2>1, <2>3, <2>4 DEF Charla, Terminando
  <2> QED BY <1>0, <1>2, <1>3, <1>4, <2>1, <2>2, <2>5
<1>9. CASE \/ atenderDesalojar(w) \/ atenderFinalizarWorker(w) \/ queryPendienteNula(w)
           \/ queryActualNula(w)
  <2>1. aMaster[w] # <<>> /\ aMaster' = [aMaster EXCEPT ![w] = Tail(@)]
    BY <1>9 DEF atenderDesalojar, atenderFinalizarWorker, queryPendienteNula, queryActualNula,
       atiende, recibirMensajito
  <2>2. \/ Head(aMaster[w]).tipo \in {"NO_FINALICE", "FINALICE", "FINALIZAR_WORKER"}
        \/ Head(aMaster[w]).tipo \in DeQuery /\ query_actual[w] = NULL
    BY <1>9 DEF atenderDesalojar, atenderFinalizarWorker, queryPendienteNula, queryActualNula,
       atiende, recibirMensajito, DeQuery
  <2> QED BY <1>0, <1>4, <2>1, <2>2 DEF Charla
<1>10. CASE desconexionWorker(w) \/ workerLiberado(w)
  BY <1>0, <1>10 DEF desconexionWorker, workerLiberado, Presente
<1> QED BY <1>5, <1>6, <1>7, <1>8, <1>9, <1>10 DEF hiloDelWorker

LEMMA gestionarQueryVivo ==
  ASSUME Algoritmo = "FIFO", Base, Vivo, NEW q \in Queries, gestionarQueryIndividual(q),
         UNCHANGED <<workerVars, estado_qc>>
  PROVE  Vivo'
<1>0. /\ TypeOK /\ caida = "no" /\ entrarFIFO(q)
      /\ UNCHANGED <<altas, aMaster, caidos, lista_workers, hilo_worker>>
      /\ UNCHANGED <<fase, es_error_o_end>>
      /\ aWorker \in [Workers -> Seq(Asignacion)]
      /\ query_actual \in [Workers -> Queries \cup {NULL}]
  BY DEF gestionarQueryIndividual, entrarPrioridades, Base, Vivo, TypeOK, CanalesTypeOK,
     MasterTypeOK, workerVars
<1>1. SoloTerminadas' /\ \A v \in Workers : Presente(v)'
  BY <1>0, MismoPresente DEF Vivo, SoloTerminadas, Presente
<1>2. CASE UNCHANGED <<aWorker, query_actual, caida>>
  BY <1>0, <1>1, <1>2, MismaCharla DEF Vivo
<1>3. ASSUME NEW w \in WorkerLibre, asignarQueryAWorker(w, q) PROVE Vivo'
  <2>1. w \in Workers /\ esta_libre[w]
    BY <1>0, <1>3, Elegidos DEF TypeOK, WorkerLibre
  <2>2. SinVez(w) /\ Charla(w)
    BY <2>1 DEF Base, IVez, Vez, Inactivo, Vivo
  <2>3. Charla(w)'
    BY <1>0, <1>3, <2>1, <2>2, asignarCharla DEF SinVez, Charla
  <2>4. ASSUME NEW v \in Workers, v # w PROVE Charla(v)'
    BY <1>0, <1>3, <2>1, <2>4, MismaCharla DEF asignarQueryAWorker, Vivo
  <2>5. caida' = "no"
    BY <1>3, <2>1, EscribeSinSIGPIPE DEF asignarQueryAWorker
  <2> QED BY <1>1, <2>3, <2>4, <2>5 DEF Vivo
<1> QED BY <1>0, <1>2, <1>3 DEF entrarFIFO, SinAsignar

LEMMA PasoDelMasterVivo ==
  ASSUME Algoritmo = "FIFO", Base, Vivo, PasoDelMaster
  PROVE  Vivo'
<1>0. UNCHANGED <<workerVars, estado_qc>> /\ TypeOK
  BY DEF PasoDelMaster, pasoMaster, Base
<1>1. ASSUME NEW q \in Queries, hiloDelQuery(q) PROVE Vivo'
  <2>1. CASE crearQuery(q) \/ incrementarQuid(q)
    <3>1. UNCHANGED <<altas, aWorker, aMaster, caidos, caida, lista_workers, query_actual,
                      hilo_worker>>
      BY <2>1 DEF crearQuery, incrementarQuid, workerStruct, canales
    <3> QED BY <1>0, <3>1 DEF Vivo, SoloTerminadas, Charla, Presente, Terminando, workerVars
  <2>2. CASE gestionarQueryIndividual(q)
    BY <1>0, <2>2, gestionarQueryVivo
  <2> QED BY <1>1, <2>1, <2>2 DEF hiloDelQuery
<1>2. ASSUME NEW q \in Queries, hiloDeAging(q) PROVE FALSE
  BY <1>2 DEF hiloDeAging, realizarAgingIndividual, Base, SinDesalojos
<1>3. ASSUME NEW w \in Workers, hiloDelWorker(w) PROVE Vivo'
  BY <1>0, <1>3, hiloDelWorkerVivo
<1>4. ASSUME NEW w \in Workers, hiloDesalojoDelWorker(w) PROVE Vivo'
  <2>1. /\ "WORKER_DESALOJO" \in altas[w]
        /\ altas' = [altas EXCEPT ![w] = @ \ {"WORKER_DESALOJO"}]
        /\ w \in ToSet(lista_workers) => UNCHANGED caida
        /\ UNCHANGED <<aWorker, aMaster, caidos, lista_workers, query_actual, hilo_worker>>
    BY <1>4 DEF hiloDesalojoDelWorker, recibirIdWorkerDesalojo, workerStruct
  <2>2. UNCHANGED caida
    BY <2>1 DEF Vivo, Presente
  <2>3. \A v \in Workers : Charla(v)'
    BY <1>0, <2>1, MismaCharla DEF Vivo, workerVars
  <2>4. ASSUME NEW v \in Workers PROVE Presente(v)'
    BY <1>0, <2>1 DEF Vivo, Presente, workerVars, TypeOK, CanalesTypeOK
  <2> QED BY <1>0, <2>1, <2>2, <2>3, <2>4 DEF Vivo, SoloTerminadas
<1> QED BY <1>1, <1>2, <1>3, <1>4 DEF PasoDelMaster, pasoMaster, MasterNext

\* What a worker does to its conversation when it sends nothing.
LEMMA CallaVivo ==
  ASSUME Base, Vivo, NEW w \in Workers, UNCHANGED <<masterVars, caida, estado_qc, caidos>>,
         \A v \in Workers : v # w =>
           /\ aWorker'[v] = aWorker[v] /\ aMaster'[v] = aMaster[v] /\ fase'[v] = fase[v]
           /\ es_error_o_end'[v] = es_error_o_end[v] /\ altas'[v] = altas[v]
           /\ debo_morir'[v] = debo_morir[v],
         Charla(w)', Presente(w)'
  PROVE  Vivo'
<1>1. UNCHANGED <<query_actual, hilo_worker, lista_workers>>
  BY DEF masterVars
<1>2. ASSUME NEW v \in Workers, v # w PROVE Charla(v)' /\ Presente(v)'
  <2>1. Charla(v)'
    BY <1>1, <1>2, MismaCharla DEF Vivo
  <2> QED BY <1>1, <1>2, <2>1 DEF Vivo, Presente
<1> QED BY <1>2 DEF Vivo, SoloTerminadas

LEMMA responderUno ==
  ASSUME TypeOK, NEW w \in Workers, NEW x \in TipoRespuesta, responder(w, <<x>>)
  PROVE  \E m \in Respuesta : m.tipo = x /\ aMaster'[w] = Append(aMaster[w], m)
<1> DEFINE m == [tipo |-> x, query |-> en_curso[w], pc |-> pc_query[w]]
           t == [i \in 1 .. Len(<<x>>) |->
                   [tipo |-> <<x>>[i], query |-> en_curso[w], pc |-> pc_query[w]]]
<1>0. aMaster \in [Workers -> Seq(Respuesta)]
  BY DEF TypeOK, CanalesTypeOK
<1>1. m \in Respuesta /\ m.tipo = x
  BY DEF Respuesta, TypeOK, WorkerTypeOK
<1>2. t = <<m>>
  <2>1. Len(<<x>>) = 1 /\ <<x>>[1] = x
    OBVIOUS
  <2>2. t = [i \in 1 .. 1 |-> m]
    BY <2>1
  <2> HIDE DEF m, t
  <2> QED BY <2>2
<1>3. aMaster'[w] = aMaster[w] \o t
  BY <1>0 DEF responder
<1> HIDE DEF m, t
<1> QED BY <1>0, <1>1, <1>2, <1>3

LEMMA ExecuteVivo ==
  ASSUME SinMolestias, Base, Vivo, NEW w \in Workers, Execute(w), UNCHANGED query_actual
  PROVE  /\ Charla(w)'
         /\ \A v \in Workers : v # w =>
              aMaster'[v] = aMaster[v] /\ es_error_o_end'[v] = es_error_o_end[v]
<1>0. /\ TypeOK /\ Charla(w) /\ fase[w] = "ejecutando" /\ fase'[w] = "checkeando"
      /\ UNCHANGED <<aWorker, en_curso>>
      /\ aMaster[w] \in Seq(Respuesta)
      /\ es_error_o_end \in [Workers -> BOOLEAN]
      /\ \A v \in Workers : v # w => aMaster'[v] = aMaster[v]
  BY ExecuteEnvia DEF Base, Vivo, TypeOK, CanalesTypeOK, WorkerTypeOK
<1>1. ~ HayTipo(aMaster[w], Avisos) /\ query_actual[w] # NULL
  BY <1>0 DEF Charla, Terminando
<1>2. /\ \/ responder(w, <<>>)
         \/ responder(w, <<"LEER">>)
         \/ /\ responder(w, <<"ERROR">>) \/ responder(w, <<"FINALIZAR">>)
            /\ es_error_o_end' = [es_error_o_end EXCEPT ![w] = TRUE]
      /\ \E b \in BOOLEAN : es_error_o_end' = [es_error_o_end EXCEPT ![w] = b]
  BY DEF Execute, ejecutarCommit, sigue, finaliza, SinMolestias
<1>3. ASSUME NEW x \in {"LEER", "ERROR", "FINALIZAR"}, responder(w, <<x>>)
      PROVE  \E m \in Respuesta : m.tipo = x /\ aMaster'[w] = Append(aMaster[w], m)
  BY <1>0, <1>3, responderUno DEF TipoRespuesta
<1>4. CASE responder(w, <<>>)
  <2>1. aMaster'[w] = aMaster[w]
    <3>1. <<>> \in Seq(TipoRespuesta) /\ Len(<<>>) = 0
      OBVIOUS
    <3>2. PICK t \in Seq(Respuesta) : aMaster'[w] = aMaster[w] \o t /\ Len(t) = 0
      BY <1>0, <1>4, <3>1, responderDe
    <3> QED BY <1>0, <3>2
  <2> QED BY <1>0, <1>1, <1>2, <2>1 DEF Charla, Base, TypeOK, MasterTypeOK
<1>5. ASSUME NEW x \in {"LEER", "ERROR", "FINALIZAR"}, responder(w, <<x>>),
             x \in Avisos => es_error_o_end'[w]
      PROVE  Charla(w)'
  <2>1. PICK m \in Respuesta : m.tipo = x /\ aMaster'[w] = Append(aMaster[w], m)
    BY <1>3, <1>5
  <2>2. /\ AvisoUltimo(aMaster'[w])
        /\ \A T : HayTipo(aMaster'[w], T) <=> HayTipo(aMaster[w], T) \/ x \in T
    BY <1>0, <1>1, <2>1, CharlaEscrita DEF Charla
  <2>3. ~ HayTipo(aMaster'[w], {"NO_FINALICE", "FINALICE", "FINALIZAR_WORKER"})
    BY <1>0, <2>2 DEF Charla
  <2>4. HayTipo(aMaster'[w], Avisos) => Terminando(w)'
    BY <1>0, <1>1, <1>5, <2>2 DEF Terminando
  <2>5. query_actual'[w] # NULL
    BY <1>1
  <2> QED BY <2>2, <2>3, <2>4, <2>5 DEF Charla
<1> QED BY <1>0, <1>2, <1>4, <1>5 DEF Avisos

LEMMA gestionarVivo ==
  ASSUME SinMolestias, Base, Vivo, NEW w \in Workers, gestionarCheckInterrupt(w),
         UNCHANGED query_actual
  PROVE  /\ Charla(w)'
         /\ \A v \in Workers : v # w => aMaster'[v] = aMaster[v]
<1>0. /\ TypeOK /\ Charla(w) /\ Vez(w) /\ fase[w] = "gestionando" /\ fase'[w] = "limpiando"
      /\ UNCHANGED <<aWorker, es_error_o_end>>
      /\ aMaster[w] \in Seq(Respuesta)
      /\ \A v \in Workers : v # w => aMaster'[v] = aMaster[v]
  BY gestionarEnvia DEF Base, IVez, Vivo, TypeOK, CanalesTypeOK, gestionarCheckInterrupt
<1>1. responder(w, <<"FIN_CICLO">>)
  BY DEF gestionarCheckInterrupt, Base, SinDesalojos
<1>2. PICK m \in Respuesta : m.tipo = "FIN_CICLO" /\ aMaster'[w] = Append(aMaster[w], m)
  BY <1>0, <1>1, responderUno DEF TipoRespuesta
<1>3. /\ AvisoUltimo(aMaster'[w])
      /\ \A T : HayTipo(aMaster'[w], T) <=> HayTipo(aMaster[w], T) \/ "FIN_CICLO" \in T
  BY <1>0, <1>2, CharlaEscrita DEF Charla, DeQuery
<1>4. Terminando(w)'
  BY <1>0 DEF Terminando
<1> QED BY <1>0, <1>3, <1>4 DEF Charla, DeQuery

LEMMA PasoDeWorkerVivo ==
  ASSUME SinMolestias, Base, Vivo, NEW w \in Workers, PasoDeWorker(w)
  PROVE  Vivo'
<1>0. /\ UNCHANGED <<masterVars, caida, estado_qc>>
      /\ UNCHANGED <<query_actual, hilo_worker, lista_workers>>
      /\ TypeOK /\ Charla(w) /\ Presente(w) /\ Vez(w) /\ caida = "no"
      /\ \/ cicloWorker(w) \/ hiloDesalojo(w) \/ manejador_senial(w) \/ caeWorker(w)
         \/ pierdeMaster(w)
      /\ altas \in [Workers -> SUBSET Handshake]
      /\ aWorker \in [Workers -> Seq(Asignacion)]
      /\ aMaster \in [Workers -> Seq(Respuesta)]
      /\ fase \in [Workers -> Fase]
      /\ es_error_o_end \in [Workers -> BOOLEAN]
  BY DEF PasoDeWorker, pasoWorker, masterVars, Base, IVez, Vivo, TypeOK, CanalesTypeOK,
     WorkerTypeOK
<1>1. CASE conexionMaster(w) /\ UNCHANGED caidos
  <2>1. /\ fase[w] = "inicio" /\ fase' = [fase EXCEPT ![w] = "sleep"]
        /\ altas' = [altas EXCEPT ![w] = @ \cup {"WORKER"}]
        /\ UNCHANGED <<aWorker, aMaster, es_error_o_end, debo_morir>>
    BY <1>1 DEF conexionMaster, pasaA
  <2>2. Charla(w)'
    BY <1>0, <2>1 DEF Charla, Terminando
  <2>3. Presente(w)'
    BY <1>0, <1>1, <2>1 DEF Presente
  <2> QED BY <1>0, <1>1, <2>1, <2>2, <2>3, CallaVivo
<1>2. CASE conexionMasterDesalojo(w)
  <2>1. /\ fase[w] = "sleep" /\ fase' = [fase EXCEPT ![w] = "esperando"]
        /\ altas' = [altas EXCEPT ![w] = @ \cup {"WORKER_DESALOJO"}]
        /\ w \in ToSet(lista_workers)
        /\ UNCHANGED <<aWorker, aMaster, es_error_o_end, debo_morir, caidos>>
    BY <1>0, <1>2 DEF conexionMasterDesalojo, whileNoDeboMorir, pasaA, Presente, SinMolestias
  <2>2. Charla(w)'
    BY <1>0, <2>1 DEF Charla, Terminando
  <2>3. Presente(w)'
    BY <1>0, <2>1 DEF Presente
  <2> QED BY <1>0, <2>1, <2>2, <2>3, CallaVivo
<1>3. CASE limpiar(w)
  <2>1. /\ fase[w] = "limpiando" /\ fase' = [fase EXCEPT ![w] = "esperando"]
        /\ UNCHANGED <<altas, aWorker, aMaster, es_error_o_end, debo_morir, caidos>>
    BY <1>0, <1>3 DEF limpiar, whileNoDeboMorir, pasaA, Presente, otrosCanales
  <2>2. Charla(w)'
    BY <1>0, <2>1 DEF Charla, Terminando
  <2>3. Presente(w)'
    BY <1>0, <2>1 DEF Presente
  <2> QED BY <1>0, <2>1, <2>2, <2>3, CallaVivo
<1>4. CASE esperandoQuery(w) /\ UNCHANGED caidos
  <2>1. /\ fase' = [fase EXCEPT ![w] = "ejecutando"] /\ aWorker[w] # <<>>
        /\ aWorker' = [aWorker EXCEPT ![w] = Tail(@)]
        /\ UNCHANGED <<altas, aMaster, es_error_o_end, debo_morir>>
    BY <1>4 DEF esperandoQuery, pasaA
  <2>2. query_actual[w] # NULL /\ ~ HayTipo(aMaster[w], DelTurno)
    BY <1>0, <2>1 DEF Charla, Vez, UnaVez
  <2>3. ~ HayTipo(aMaster[w], Avisos)
    BY <2>2 DEF HayTipo, DelTurno, DeQuery, Avisos
  <2>4. Charla(w)'
    BY <1>0, <2>1, <2>2, <2>3 DEF Charla
  <2>5. Presente(w)'
    BY <1>0, <1>4, <2>1 DEF Presente
  <2> QED BY <1>0, <1>4, <2>1, <2>4, <2>5, CallaVivo
<1>5. CASE Execute(w) /\ UNCHANGED caidos
  <2>1. /\ fase' = [fase EXCEPT ![w] = "checkeando"]
        /\ UNCHANGED <<altas, aWorker, debo_morir>>
    BY <1>5 DEF Execute, pasaA, otrosCanales
  <2>2. /\ Charla(w)'
        /\ \A v \in Workers : v # w =>
             aMaster'[v] = aMaster[v] /\ es_error_o_end'[v] = es_error_o_end[v]
    BY <1>0, <1>5, ExecuteVivo
  <2>3. Presente(w)'
    BY <1>0, <1>5, <2>1 DEF Presente
  <2> QED BY <1>0, <1>5, <2>1, <2>2, <2>3, CallaVivo
<1>6. CASE checkInterrupt(w) /\ UNCHANGED caidos
  <2>1. /\ fase[w] = "checkeando"
        /\ fase' = [fase EXCEPT ![w] = IF es_error_o_end[w] THEN "gestionando" ELSE "ejecutando"]
        /\ UNCHANGED <<altas, aWorker, aMaster, es_error_o_end, debo_morir>>
    BY <1>6 DEF checkInterrupt, pasaA, SinEnviar, canales, Base, SinDesalojos
  <2>2. Charla(w)'
    BY <1>0, <2>1 DEF Charla, Terminando
  <2>3. Presente(w)'
    BY <1>0, <1>6, <2>1 DEF Presente
  <2> QED BY <1>0, <1>6, <2>1, <2>2, <2>3, CallaVivo
<1>7. CASE gestionarCheckInterrupt(w) /\ UNCHANGED caidos
  <2>1. /\ fase' = [fase EXCEPT ![w] = "limpiando"]
        /\ UNCHANGED <<altas, aWorker, es_error_o_end, debo_morir>>
    BY <1>7 DEF gestionarCheckInterrupt, pasaA, otrosCanales
  <2>2. Charla(w)' /\ \A v \in Workers : v # w => aMaster'[v] = aMaster[v]
    BY <1>0, <1>7, gestionarVivo
  <2>3. Presente(w)'
    BY <1>0, <1>7, <2>1 DEF Presente
  <2> QED BY <1>0, <1>7, <2>1, <2>2, <2>3, CallaVivo
<1>8. CASE hiloDesalojo(w) \/ manejador_senial(w) \/ caeWorker(w) \/ pierdeMaster(w)
  BY <1>0, <1>8 DEF hiloDesalojo, manejador_senial, caeWorker, pierdeMaster, Base,
     SinDesalojos, SinMolestias, Presente
<1> QED BY <1>0, <1>1, <1>2, <1>3, <1>4, <1>5, <1>6, <1>7, <1>8 DEF cicloWorker

LEMMA PasoDeQCVivo ==
  ASSUME SinMolestias, Base, Vivo, NEW q \in Queries, PasoDeQC(q)
  PROVE  Vivo'
<1>0. /\ UNCHANGED <<masterVars, caida, workerVars>>
      /\ cicloQC(q) \/ caeQC(q)
      /\ estado_qc \in [Queries -> {"nuevo", "esperando", "terminado", "muerto"}]
      /\ caida = "no" /\ SoloTerminadas
  BY DEF PasoDeQC, pasoQC, Base, TypeOK, QCTypeOK, Vivo
<1>1. /\ UNCHANGED <<altas, aWorker, aMaster>>
      /\ \/ /\ UNCHANGED caidos
            /\ \/ UNCHANGED estado_qc
               \/ estado_qc[q] = "nuevo" /\ estado_qc' = [estado_qc EXCEPT ![q] = "esperando"]
         \/ /\ caidos' = caidos \cup {q}
            /\ estado_qc' = [estado_qc EXCEPT ![q] = "terminado"]
  BY <1>0 DEF cicloQC, caeQC, registrarQuery, gestionarOrdenMaestro, masterCerro, qcPasaA,
     canales, SinMolestias
<1>2. SoloTerminadas'
  BY <1>0, <1>1 DEF SoloTerminadas
<1>3. ASSUME NEW w \in Workers PROVE Charla(w)' /\ Presente(w)'
  <2>1. Charla(w) /\ Presente(w) /\ w # q
    BY ProcesosDistintos DEF Vivo
  <2>2. UNCHANGED <<fase, es_error_o_end, debo_morir, query_actual, hilo_worker, lista_workers>>
    BY <1>0 DEF masterVars, workerVars
  <2>3. Charla(w)'
    BY <1>1, <2>1, <2>2, MismaCharla
  <2>4. w \notin caidos'
    BY <1>1, <2>1 DEF Presente
  <2>5. Presente(w)'
    BY <1>1, <2>1, <2>2, <2>4 DEF Presente
  <2> QED BY <2>3, <2>5
<1> QED BY <1>0, <1>2, <1>3 DEF Vivo

\* MasterVivo: under FIFO, with no kill, no signal and no refused flush, no
\* interleaving of the master's threads, the workers and the query controls
\* makes a handler dereference a null query or a freed worker, write to a
\* closed socket or exit: there are any number of workers and queries, and
\* storage may refuse any operation.
THEOREM MasterVivoSiempre ==
  ASSUME SinMolestias PROVE Spec => []MasterVivo
<1>1. Init => Vivo
  BY ProcesosDistintos DEF Init, CanalesInit, MasterInit, WorkerInit, Vivo, SoloTerminadas, Charla,
     Presente, Terminando, AvisoUltimo, HayTipo
<1>2. SinDesalojos /\ TypeOK /\ IFin /\ IVez /\ Vivo /\ [Next]_vars => Vivo'
  <2> SUFFICES ASSUME Base, Vivo, [Next]_vars PROVE Vivo'
    BY DEF Base
  <2>1. CASE PasoDelMaster
    BY <2>1, PasoDelMasterVivo DEF SinMolestias
  <2>2. CASE \E w \in Workers : PasoDeWorker(w)
    BY <2>2, PasoDeWorkerVivo
  <2>3. CASE \E q \in Queries : PasoDeQC(q)
    BY <2>3, PasoDeQCVivo
  <2>4. CASE UNCHANGED vars
    BY <2>4 DEF vars, canales, masterVars, workerVars, Vivo, SoloTerminadas, Charla,
       Presente, Terminando
  <2> QED BY <2>1, <2>2, <2>3, <2>4 DEF Next
<1>3. Vivo => MasterVivo
  BY DEF Vivo, MasterVivo
<1>4. Algoritmo = "FIFO"
  BY DEF SinMolestias
<1>5. Spec => []IFifo
  BY <1>4, IFifoInvariante
<1>6. IFifo => SinDesalojos
  BY DEF IFifo
<1> QED BY <1>1, <1>2, <1>3, <1>5, <1>6, TipoCorrecto, IFinInvariante, IVezInvariante, PTL DEF Spec

-----------------------------------------------------------------------------
(* What the scheduler may do under PRIORIDADES.                            *)

LEMMA PrimeroElMenor ==
  ASSUME NEW s \in Seq(Queries), NEW p \in [Queries -> Nat], NEW r \in Ordenaciones(s, p),
         r # <<>>
  PROVE  \A q \in ToSet(r) : p[Head(r)] <= p[q]
<1>1. r \in Seq(Queries)
  BY Ordenar
<1>2. \A i, j \in 1 .. Len(s) : i < j => p[r[i]] <= p[r[j]]
  BY DEF Ordenaciones
<1>3. DOMAIN r = 1 .. Len(s)
  BY DEF Ordenaciones
<1>4. Head(r) = r[1] /\ 1 \in DOMAIN r
  BY <1>1
<1> SUFFICES ASSUME NEW q \in ToSet(r) PROVE p[Head(r)] <= p[q]
  OBVIOUS
<1>5. PICK j \in DOMAIN r : q = r[j]
  BY DEF ToSet
<1>6. r[j] \in Queries /\ p[r[j]] \in Nat
  BY <1>1
<1>7. CASE j = 1
  BY <1>4, <1>5, <1>6, <1>7
<1>8. CASE j # 1
  <2>1. 1 \in 1 .. Len(s) /\ j \in 1 .. Len(s) /\ 1 < j
    BY <1>3, <1>4, <1>5, <1>8
  <2> QED BY <1>2, <1>4, <1>5, <2>1
<1> QED BY <1>7, <1>8

\* The steps of one process as seen by the others and by the scheduler.
NoDespacha == \A w \in Workers : query_actual'[w] \in {query_actual[w], query_pendiente[w], NULL}

Despachado(w) ==
  query_actual'[w] \notin {query_actual[w], query_pendiente[w], NULL} =>
    \A q \in ToSet(lista_ready') : prioridad[q] >= prioridad[query_actual'[w]]

LEMMA despacharPorPrioridad ==
  ASSUME TypeOK, NEW s \in Seq(Queries), NEW r \in Ordenaciones(s, prioridad), r # <<>>,
         NEW w \in Workers, asignarQueryAWorker(w, Head(r)), lista_ready' = Tail(r)
  PROVE  \A v \in Workers : Despachado(v)
<1>0. /\ query_actual \in [Workers -> Queries \cup {NULL}]
      /\ prioridad \in [Queries -> Nat] /\ r \in Seq(Queries)
  BY Ordenar DEF TypeOK, MasterTypeOK
<1>1. /\ query_actual'[w] = Head(r)
      /\ \A v \in Workers : v # w => query_actual'[v] = query_actual[v]
  BY <1>0 DEF asignarQueryAWorker
<1>2. ToSet(Tail(r)) \subseteq ToSet(r) /\ Head(r) \in Queries /\ ToSet(r) \subseteq Queries
  BY <1>0, SacarPrimero, ElementosTipo
<1>3. \A q \in ToSet(r) : prioridad[Head(r)] <= prioridad[q]
  BY <1>0, PrimeroElMenor
<1>4. \A q \in ToSet(lista_ready') : prioridad[q] >= prioridad[query_actual'[w]]
  BY <1>0, <1>1, <1>2, <1>3
<1> QED BY <1>1, <1>4 DEF Despachado

LEMMA PasoDelMasterDespacha ==
  ASSUME Algoritmo = "PRIORIDADES", TypeOK, PasoDelMaster
  PROVE  \A w \in Workers : Despachado(w)
<1>0. /\ query_actual \in [Workers -> Queries \cup {NULL}]
      /\ query_pendiente \in [Workers -> Queries \cup {NULL}]
      /\ lista_ready \in Seq(Queries)
  BY DEF TypeOK, MasterTypeOK
<1>1. ASSUME NoDespacha PROVE \A w \in Workers : Despachado(w)
  BY <1>1 DEF NoDespacha, Despachado
<1>2. ASSUME UNCHANGED query_actual PROVE NoDespacha
  BY <1>2 DEF NoDespacha
<1>3. ASSUME NEW w \in Workers, intentarEnviarPorWorker(w)
      PROVE  \A v \in Workers : Despachado(v)
  <2>1. CASE lista_ready # <<>>
    <3>1. PICK r \in Ordenaciones(lista_ready, prioridad) :
            lista_ready' = Tail(r) /\ asignarQueryAWorker(w, Head(r))
      BY <1>3, <2>1 DEF intentarEnviarPorWorker, ParaDespachar
    <3>2. r # <<>>
      BY <1>0, <2>1, Ordenar
    <3> QED BY <1>0, <3>1, <3>2, despacharPorPrioridad
  <2>2. CASE lista_ready = <<>>
    <3>1. query_actual' = [query_actual EXCEPT ![w] = NULL]
      BY <1>3, <2>2 DEF intentarEnviarPorWorker
    <3> QED BY <1>0, <1>1, <3>1 DEF NoDespacha
  <2> QED BY <2>1, <2>2
<1>4. ASSUME NEW q \in Queries, hiloDelQuery(q) PROVE \A w \in Workers : Despachado(w)
  <2>1. CASE crearQuery(q) \/ incrementarQuid(q)
    BY <1>1, <1>2, <2>1 DEF crearQuery, incrementarQuid, workerStruct
  <2>2. CASE gestionarQueryIndividual(q)
    <3>1. PICK r \in Ordenaciones(Append(lista_ready, q), prioridad) :
            \/ SinAsignar
            \/ /\ \E w \in WorkerLibre : asignarQueryAWorker(w, Head(r))
               /\ lista_ready' = Tail(r)
      BY <2>2 DEF gestionarQueryIndividual, entrarFIFO, entrarPrioridades
    <3>2. Append(lista_ready, q) \in Seq(Queries) /\ Append(lista_ready, q) # <<>>
      BY <1>0, AgregarAlFinal
    <3>4. r # <<>>
      BY <3>1, <3>2, Ordenar
    <3>3. WorkerLibre \subseteq Workers
      BY Elegidos DEF TypeOK
    <3> QED BY <1>1, <1>2, <3>1, <3>2, <3>3, <3>4, despacharPorPrioridad DEF SinAsignar
  <2> QED BY <1>4, <2>1, <2>2 DEF hiloDelQuery
<1>5. ASSUME NEW q \in Queries, hiloDeAging(q) PROVE \A w \in Workers : Despachado(w)
  BY <1>1, <1>2, <1>5 DEF hiloDeAging, realizarAgingIndividual
<1>6. ASSUME NEW w \in Workers, hiloDelWorker(w) PROVE \A v \in Workers : Despachado(v)
  <2>1. CASE gestionarWorkerIndividual(w) \/ atenderFinCiclo(w)
    BY <1>3, <2>1 DEF gestionarWorkerIndividual, atenderFinCiclo
  <2>2. CASE atenderDesalojar(w)
    <3>1. query_actual' = [query_actual EXCEPT ![w] = query_pendiente[w]]
      BY <2>2 DEF atenderDesalojar, asignarQueryAWorker
    <3> QED BY <1>0, <1>1, <3>1 DEF NoDespacha
  <2>3. CASE atenderFinalizar(w) \/ atenderFinalizarWorker(w) \/ desconexionWorker(w)
    <3>1. query_actual' = [query_actual EXCEPT ![w] = NULL]
      BY <2>3 DEF atenderFinalizar, atenderFinalizarWorker, desconexionWorker, quitarWorker
    <3> QED BY <1>0, <1>1, <3>1 DEF NoDespacha
  <2>4. CASE \/ atenderLeer(w) \/ queryActualNula(w) \/ queryPendienteNula(w)
             \/ workerLiberado(w)
    BY <1>1, <1>2, <2>4 DEF atenderLeer, queryActualNula, queryPendienteNula,
       workerLiberado, masterVars
  <2> QED BY <1>6, <2>1, <2>2, <2>3, <2>4 DEF hiloDelWorker
<1>7. ASSUME NEW w \in Workers, hiloDesalojoDelWorker(w)
      PROVE  \A v \in Workers : Despachado(v)
  BY <1>1, <1>2, <1>7 DEF hiloDesalojoDelWorker, recibirIdWorkerDesalojo, workerStruct
<1> QED BY <1>4, <1>5, <1>6, <1>7 DEF PasoDelMaster, pasoMaster, MasterNext

\* Only the master schedules.
LEMMA SoloElMaster ==
  ASSUME [Next]_vars
  PROVE  PasoDelMaster \/ UNCHANGED masterVars
BY DEF Next, PasoDeWorker, pasoWorker, PasoDeQC, pasoQC, vars

\* DespachoPorPrioridad: under PRIORIDADES a query taken from READY leaves
\* nothing with a smaller number behind.
THEOREM DespachoPorPrioridadSiempre ==
  ASSUME Algoritmo = "PRIORIDADES" PROVE Spec => DespachoPorPrioridad
<1>1. TypeOK /\ [Next]_vars => [\A w \in Workers : Despachado(w)]_vars
  <2> SUFFICES ASSUME TypeOK, [Next]_vars PROVE \A w \in Workers : Despachado(w)
    OBVIOUS
  <2>1. CASE UNCHANGED masterVars
    BY <2>1 DEF masterVars, Despachado
  <2> QED BY <2>1, SoloElMaster, PasoDelMasterDespacha
<1> QED BY <1>1, TipoCorrecto, PTL DEF Spec, DespachoPorPrioridad, Despachado

-----------------------------------------------------------------------------
(* Preemptions asked for.                                                  *)

LibreSinQuery == \A w \in Workers : esta_libre[w] => query_actual[w] = NULL

Justo(w) ==
  query_pendiente'[w] \notin {query_pendiente[w], NULL} =>
    /\ query_pendiente[w] = NULL /\ query_actual[w] # NULL
    /\ prioridad'[query_pendiente'[w]] < prioridad'[query_actual[w]]
    /\ \A v \in ToSet(lista_workers) :
         query_actual[v] # NULL /\ query_pendiente[v] = NULL =>
           prioridad[query_actual[v]] <= prioridad[query_actual[w]]

LEMMA MenosPrioritario ==
  ASSUME TypeOK, LibreSinQuery, NEW p \in [Queries -> Nat], NEW w \in WorkerConMenorPrioridad(p)
  PROVE  \A v \in ToSet(lista_workers) :
           query_actual[v] # NULL /\ query_pendiente[v] = NULL =>
             p[query_actual[v]] <= p[query_actual[w]]
<1> DEFINE corren == {i \in 1 .. Len(lista_workers) :
                        /\ ~ esta_libre[lista_workers[i]]
                        /\ query_actual[lista_workers[i]] # NULL
                        /\ query_pendiente[lista_workers[i]] = NULL}
           prio(i) == p[query_actual[lista_workers[i]]]
<1>0. /\ lista_workers \in Seq(Workers)
      /\ query_actual \in [Workers -> Queries \cup {NULL}]
  BY DEF TypeOK, MasterTypeOK
<1>1. PICK k \in corren : /\ w = lista_workers[k]
                          /\ \A j \in corren : prio(k) > prio(j) \/ (prio(k) = prio(j) /\ k <= j)
  BY DEF WorkerConMenorPrioridad
<1>2. \A j \in corren : prio(j) \in Nat
  BY <1>0
<1>3. \A j \in corren : prio(j) <= prio(k)
  BY <1>1, <1>2
<1>4. ASSUME NEW v \in ToSet(lista_workers), query_actual[v] # NULL, query_pendiente[v] = NULL
      PROVE  \E j \in corren : v = lista_workers[j]
  <2>1. PICK j \in DOMAIN lista_workers : v = lista_workers[j]
    BY DEF ToSet
  <2>2. v \in Workers /\ j \in 1 .. Len(lista_workers)
    BY <1>0, <2>1
  <2> QED BY <1>4, <2>1, <2>2 DEF LibreSinQuery
<1> QED BY <1>1, <1>3, <1>4

LEMMA desalojarJusto ==
  ASSUME TypeOK, LibreSinQuery, NEW s \in Seq(Queries), NEW p \in [Queries -> Nat],
         NEW r \in Ordenaciones(s, p), NEW q \in ToSet(r), intentarDesalojar(q, r, p),
         prioridad' = p,
         \A v \in Workers : query_actual[v] # NULL =>
           p[query_actual[v]] = prioridad[query_actual[v]]
  PROVE  \A w \in Workers : Justo(w)
<1>0. /\ query_pendiente \in [Workers -> Queries \cup {NULL}]
      /\ query_actual \in [Workers -> Queries \cup {NULL}]
      /\ lista_workers \in Seq(Workers) /\ r \in Seq(Queries)
      /\ ToSet(lista_workers) \subseteq Workers /\ ToSet(r) \subseteq Queries
  BY Ordenar, ElementosTipo DEF TypeOK, MasterTypeOK
<1>1. CASE UNCHANGED query_pendiente
  BY <1>1 DEF Justo
<1>2. ASSUME NEW w \in WorkerConMenorPrioridad(p), p[query_actual[w]] > p[q],
             query_pendiente' = [query_pendiente EXCEPT ![w] = Head(r)]
      PROVE  \A v \in Workers : Justo(v)
  <2>1. w \in Workers /\ query_actual[w] # NULL /\ query_pendiente[w] = NULL
    BY Elegidos DEF TypeOK
  <2>2. /\ query_pendiente'[w] = Head(r)
        /\ \A v \in Workers : v # w => query_pendiente'[v] = query_pendiente[v]
    BY <1>0, <1>2, <2>1
  <2>3. r # <<>>
    BY DEF ToSet
  <2>4. /\ Head(r) \in Queries /\ p[Head(r)] <= p[q] /\ q \in Queries
        /\ query_actual[w] \in Queries
    <3>1. Head(r) \in Queries
      BY <1>0, <2>3, SacarPrimero
    <3>2. p[Head(r)] <= p[q]
      BY <2>3, PrimeroElMenor
    <3>3. q \in Queries /\ query_actual[w] \in Queries
      BY <1>0, <2>1
    <3> QED BY <3>1, <3>2, <3>3
  <2>5. p[Head(r)] \in Nat /\ p[q] \in Nat /\ p[query_actual[w]] \in Nat
    BY <2>4
  <2>6. prioridad'[query_pendiente'[w]] < prioridad'[query_actual[w]]
    BY <1>2, <2>2, <2>4, <2>5
  <2>7. \A v \in ToSet(lista_workers) :
          query_actual[v] # NULL /\ query_pendiente[v] = NULL =>
            prioridad[query_actual[v]] <= prioridad[query_actual[w]]
    BY <1>0, <2>1, MenosPrioritario
  <2>8. Justo(w)
    BY <2>1, <2>6, <2>7 DEF Justo
  <2> QED BY <2>2, <2>8 DEF Justo
<1> QED BY <1>1, <1>2 DEF intentarDesalojar, realizarDesalojo, SinDesalojar

LEMMA PasoDelMasterJusto ==
  ASSUME IUnaCopia, LibreSinQuery, PasoDelMaster
  PROVE  \A w \in Workers : Justo(w)
<1>0. /\ TypeOK /\ UnaCopia
      /\ query_pendiente \in [Workers -> Queries \cup {NULL}]
      /\ prioridad \in [Queries -> Nat] /\ lista_ready \in Seq(Queries)
  BY DEF IUnaCopia, TypeOK, MasterTypeOK
<1>1. ASSUME \A w \in Workers : query_pendiente'[w] \in {query_pendiente[w], NULL}
      PROVE  \A w \in Workers : Justo(w)
  BY <1>1 DEF Justo
<1>2. ASSUME NEW q \in Queries, hiloDelQuery(q) PROVE \A w \in Workers : Justo(w)
  <2>1. CASE crearQuery(q) \/ incrementarQuid(q)
    BY <1>1, <2>1 DEF crearQuery, incrementarQuid, workerStruct
  <2>2. CASE gestionarQueryIndividual(q)
    <3>1. /\ UNCHANGED prioridad
          /\ \/ UNCHANGED query_pendiente
             \/ \E r \in Ordenaciones(Append(lista_ready, q), prioridad) :
                  intentarDesalojar(q, r, prioridad)
      BY <2>2 DEF gestionarQueryIndividual, queryStruct, entrarFIFO, entrarPrioridades, SinDesalojar
    <3>2. /\ Append(lista_ready, q) \in Seq(Queries)
          /\ \A r \in Ordenaciones(Append(lista_ready, q), prioridad) : q \in ToSet(r)
      <4>1. Append(lista_ready, q) \in Seq(Queries) /\ q \in ToSet(Append(lista_ready, q))
        BY <1>0, AgregarAlFinal
      <4> QED BY <4>1, Ordenar
    <3> QED BY <1>0, <1>1, <3>1, <3>2, desalojarJusto
  <2> QED BY <1>2, <2>1, <2>2 DEF hiloDelQuery
<1>3. ASSUME NEW q \in Queries, hiloDeAging(q) PROVE \A w \in Workers : Justo(w)
  <2>1. CASE UNCHANGED query_pendiente
    BY <1>1, <2>1
  <2>2. ASSUME NEW g \in EnReady(q), NEW r \in Ordenaciones(lista_ready, prioridad'),
               prioridad' = [prioridad EXCEPT ![g] = @ - 1], prioridad[g] > 0,
               intentarDesalojar(g, r, prioridad')
        PROVE  \A w \in Workers : Justo(w)
    <3>1. g \in ToSet(lista_ready) /\ g \in Queries
      BY <1>0, Elegidos, ElementosTipo DEF TypeOK
    <3>2. prioridad' \in [Queries -> Nat]
      BY <1>0, <2>2, <3>1
    <3>3. g \in ToSet(r)
      BY <1>0, <3>1, Ordenar
    <3>4. \A v \in Workers : query_actual[v] # NULL =>
            prioridad'[query_actual[v]] = prioridad[query_actual[v]]
      BY <1>0, <2>2, <3>1 DEF UnaCopia, TypeOK, MasterTypeOK
    <3>5. \A p : p = prioridad' => p \in [Queries -> Nat] /\ r \in Ordenaciones(lista_ready, p)
                                   /\ intentarDesalojar(g, r, p)
      BY <2>2, <3>2
    <3> QED BY <1>0, <3>2, <3>3, <3>4, <3>5, desalojarJusto, <2>2
  <2> QED BY <1>3, <2>1, <2>2 DEF hiloDeAging, realizarAgingIndividual
<1>4. ASSUME NEW w \in Workers, hiloDelWorker(w) PROVE \A v \in Workers : Justo(v)
  <2>1. \/ UNCHANGED query_pendiente
        \/ query_pendiente' = [query_pendiente EXCEPT ![w] = NULL]
    BY <1>4 DEF hiloDelWorker, gestionarWorkerIndividual, atenderFinCiclo,
       intentarEnviarPorWorker, atenderDesalojar, atenderFinalizar, atenderFinalizarWorker,
       desconexionWorker, quitarWorker, atenderLeer, queryActualNula, queryPendienteNula,
       workerLiberado, masterVars
  <2> QED BY <1>0, <1>1, <2>1
<1>5. ASSUME NEW w \in Workers, hiloDesalojoDelWorker(w) PROVE \A v \in Workers : Justo(v)
  BY <1>1, <1>5 DEF hiloDesalojoDelWorker, recibirIdWorkerDesalojo, workerStruct
<1> QED BY <1>2, <1>3, <1>4, <1>5 DEF PasoDelMaster, pasoMaster, MasterNext

LEMMA PasoDelMasterLibre ==
  ASSUME TypeOK, LibreSinQuery, PasoDelMaster
  PROVE  LibreSinQuery'
<1>0. /\ query_actual \in [Workers -> Queries \cup {NULL}]
      /\ esta_libre \in [Workers -> BOOLEAN]
  BY DEF TypeOK, MasterTypeOK
<1>1. ASSUME NEW w \in Workers, NEW b \in BOOLEAN, NEW x,
             esta_libre' = [esta_libre EXCEPT ![w] = b],
             query_actual' = [query_actual EXCEPT ![w] = x], b => x = NULL
      PROVE  LibreSinQuery'
  BY <1>0, <1>1 DEF LibreSinQuery
<1>2. ASSUME UNCHANGED <<esta_libre, query_actual>> PROVE LibreSinQuery'
  BY <1>2 DEF LibreSinQuery
<1>3. ASSUME NEW w \in Workers, NEW q, asignarQueryAWorker(w, q) PROVE LibreSinQuery'
  BY <1>1, <1>3 DEF asignarQueryAWorker
<1>4. ASSUME NEW w \in Workers, intentarEnviarPorWorker(w) PROVE LibreSinQuery'
  BY <1>1, <1>3, <1>4 DEF intentarEnviarPorWorker
<1>5. ASSUME NEW q \in Queries, hiloDelQuery(q) PROVE LibreSinQuery'
  <2>1. CASE crearQuery(q) \/ incrementarQuid(q)
    BY <1>2, <2>1 DEF crearQuery, incrementarQuid, workerStruct
  <2>2. CASE gestionarQueryIndividual(q)
    <3>1. \/ SinAsignar
          \/ \E w \in WorkerLibre : \E g : asignarQueryAWorker(w, g)
      BY <2>2 DEF gestionarQueryIndividual, entrarFIFO, entrarPrioridades
    <3>2. WorkerLibre \subseteq Workers
      BY Elegidos DEF TypeOK
    <3> QED BY <1>2, <1>3, <3>1, <3>2 DEF SinAsignar
  <2> QED BY <1>5, <2>1, <2>2 DEF hiloDelQuery
<1>6. ASSUME NEW q \in Queries, hiloDeAging(q) PROVE LibreSinQuery'
  BY <1>2, <1>6 DEF hiloDeAging, realizarAgingIndividual
<1>7. ASSUME NEW w \in Workers, hiloDelWorker(w) PROVE LibreSinQuery'
  <2>1. CASE gestionarWorkerIndividual(w) \/ atenderFinCiclo(w)
    BY <1>4, <2>1 DEF gestionarWorkerIndividual, atenderFinCiclo
  <2>2. CASE atenderDesalojar(w)
    BY <1>3, <2>2 DEF atenderDesalojar
  <2>3. CASE atenderFinalizar(w)
    BY <1>0, <2>3 DEF atenderFinalizar, LibreSinQuery
  <2>4. CASE atenderFinalizarWorker(w) \/ desconexionWorker(w)
    BY <1>1, <2>4 DEF atenderFinalizarWorker, desconexionWorker, quitarWorker
  <2>5. CASE \/ atenderLeer(w) \/ queryActualNula(w) \/ queryPendienteNula(w)
             \/ workerLiberado(w)
    BY <1>2, <2>5 DEF atenderLeer, queryActualNula, queryPendienteNula, workerLiberado,
       masterVars
  <2> QED BY <1>7, <2>1, <2>2, <2>3, <2>4, <2>5 DEF hiloDelWorker
<1>8. ASSUME NEW w \in Workers, hiloDesalojoDelWorker(w) PROVE LibreSinQuery'
  BY <1>2, <1>8 DEF hiloDesalojoDelWorker, recibirIdWorkerDesalojo, workerStruct
<1> QED BY <1>5, <1>6, <1>7, <1>8 DEF PasoDelMaster, pasoMaster, MasterNext

\* PedidoJustificado: a preemption is asked only of a busy worker nobody else
\* waits for, in favour of a query with a smaller number than the one it
\* runs, and none of those it could have been asked of runs a larger one;
\* also when aging, which changes the numbers, is who asks.
THEOREM PedidoJustificadoSiempre == Spec => PedidoJustificado
<1>1. Init => LibreSinQuery
  BY DEF Init, MasterInit, LibreSinQuery
<1>2. TypeOK /\ LibreSinQuery /\ [Next]_vars => LibreSinQuery'
  <2> SUFFICES ASSUME TypeOK, LibreSinQuery, [Next]_vars PROVE LibreSinQuery'
    OBVIOUS
  <2>1. CASE UNCHANGED masterVars
    BY <2>1 DEF masterVars, LibreSinQuery
  <2> QED BY <2>1, SoloElMaster, PasoDelMasterLibre
<1>3. IUnaCopia /\ LibreSinQuery /\ [Next]_vars => [\A w \in Workers : Justo(w)]_vars
  <2> SUFFICES ASSUME IUnaCopia, LibreSinQuery, [Next]_vars PROVE \A w \in Workers : Justo(w)
    OBVIOUS
  <2>1. CASE UNCHANGED masterVars
    BY <2>1 DEF masterVars, Justo
  <2> QED BY <2>1, SoloElMaster, PasoDelMasterJusto
<1> QED BY <1>1, <1>2, <1>3, TipoCorrecto, IUnaCopiaInvariante, PTL
        DEF Spec, PedidoJustificado, Justo

=============================================================================
