# Master of Files in TLA+

Models, TLC instances and TLAPS proofs of the four processes in this
repository: a **master** that schedules queries on **workers**, the **query
controls** that submit them, and a **storage** that keeps versioned files
(File:Tags) as shared blocks.

## 1. Inventory

| component | state it keeps | operations | talks to |
|---|---|---|---|
| master (`master/src`) | `lista_ready`, `lista_workers`, `struct Worker` (free, running, pending), `struct Query` (number, pc, quid), `quid_global` | arrival of a query or worker, six worker messages, disconnection, aging | query controls and workers, one thread per connection, two mutexes |
| worker, control (`worker/src/main.c`, `helpers-worker.c`, `ciclo_instruccion.c`) | current query and pc, `es_error_o_end`, `hubo_interrupcion`, `debo_morir` | take a query, run an instruction, look at the flag, report; a preemption thread; signals | master (two sockets), storage |
| worker, page cache (`memoria_interna.c`) | page tables, frames, bitmap, LRU list, CLOCK-M pointer | read, write, page fault, replace, flush | storage |
| query control (`query_control/src`) | nothing but its place in `main` | register, print, end | master |
| storage (`storage/src`) | files and tags, logical blocks (pointer, hard link, `BLOCKS`), bitmap, block contents, `blocks_hash_index` | CREATE, TRUNCATE, TAG, COMMIT, WRITE, READ, DELETE, restart | workers, one thread each, `mutex_files` |
| utils | none | `enviarMensajito`, `recibirMensajito` | all |

What is hard, and what makes each part correct:

- *Scheduling.* Orders, answers and disconnections cross on the wire; messages
  name no query; three structures hold `Query*` and are moved by arrival
  threads, aging threads and worker threads. Correct means: a query is in one
  place, it is charged only with its own messages, it resumes where it
  stopped, it ends once, it is never lost, and a number decides who runs.
- *Storage.* The same fact is kept in several records (pointer, link, `BLOCKS`;
  bitmap and link counts; hash index and contents) that different functions
  update. Correct means: nobody can tell that blocks are shared.
- *Failure.* Workers and query controls die, requests, write-backs and flushes
  are refused, the disk fills up, storage dies inside a request and restarts,
  null pointers are met.

- *Page cache.* Pages, frames, use bits and times, the hand of CLOCK-M and
  dirty bits are updated by different functions, while an instruction that
  spans pages evicts its own. Correct means: no query can tell there is a
  cache, and what was written reaches storage.

`PROJECT.json` lists every hazard at its line.

## 2. Modules

| module | models | state and actions |
|---|---|---|
| `Protocolo` | `utils/helpers.c` | one FIFO queue per stream; end of stream = membership of `caidos`; why the master ended = `caida` |
| `Master` | `master/src` | the C structures under their own names; one action per handler, each under the mutexes the handler holds. `crearQuery` and `incrementarQuid` are two actions because `quid_global` is read outside its mutex |
| `WorkerCiclo` | worker control | `fase` is the place in `main()`; one action per blocking call or test, so `hiloDesalojo` can run between any two |
| `QueryControl` | `query_control/src` | `estado_qc` |
| `Planificacion` | composition of the four, `Spec`, `FairSpec`, properties | |
| `ColaDeQueries` | abstract specification: what scheduling by FIFO promises | one queue, what each worker runs, what is over |
| `TagsIndependientes` | abstract specification: what storage promises | `archivos`: name -> state and blocks |
| `Storage` | `storage/src`, refinement of the former | one action per request (`mutex_files` is held throughout), one per place where a killed process leaves a request half done, `RECONSTRUCCION` for a restart |
| `MemoriaInterna` | `memoria_interna.c` and the `ejecutar*` functions | tables, frames, LRU and CLOCK-M under their own names; one action from a storage request to the next; the store is `TagsIndependientes` |
| `MCPlanificacion`, `MCStorage`, `MCMemoria` | instances | |
| `Planificacion_proofs`, `PlanificacionFIFO_proofs`, `PlanificacionTurnos_proofs`, `PlanificacionMaster_proofs`, `MemoriaInterna_proofs`, `MemoriaVista_proofs`, `Storage_proofs`, `StorageSano_proofs` | theorems | each extends the one before it of its component |

How they fit together:

    ColaDeQueries  <-- Planificacion (FIFO) = Master + WorkerCiclo + QueryControl
                                                          ^ ContratoConCiclo
    TagsIndependientes  <-- MemoriaInterna (for its own queries)
            ^                     | uses as its store
            +---- Storage    TagsIndependientes

`<--` is a refinement, checked as a PROPERTY. `WorkerCiclo` reduces an
instruction to what it sends the master and returns; `MemoriaInterna` has the
instruction itself, and `ContratoConCiclo` says its outcomes are those.
`MemoriaInterna` leaves storage to `TagsIndependientes`, and `Storage`
implements that under the workloads `CargaSana` admits (checked in `fs_sano`,
proved in `StorageSano_proofs`).

Operators marked *Mutant* are wrong versions of the operator below them; they
are used by no specification. Each shows that a property notices such a bug.

Choices a reader should know of:

- A handler that dereferences a null or freed pointer sets `caida` and leaves
  the rest: the process is gone. `enviarMensajito` to a closed peer may or may
  not end the master, since nothing ignores SIGPIPE and whether it is raised
  depends on when the reset arrives.
- `list_sort` gets a strict comparator and gives equal numbers any order, so
  `Ordenaciones` is a set.
- A `Respuesta` carries the query the worker was running. The wire does not;
  no guard reads it, only `Atribucion` does. `ejecutadas` is likewise a
  history variable for `SinReejecucion`.
- A storage request that is refused changes nothing and is a stutter.
- `realizarTAG` copies `BLOCKS`, not the logical blocks; `RECONSTRUCCION` keeps
  links whose file exists; `ferConLaMexicana` and `realizarWRITE` have the
  disjuncts where the process dies on a null pointer (`caido`).
- A killed storage stops between two system calls; `config_save` and the
  `fwrite` of a block are taken to be one, and what was written stays (there is
  no power failure).
- `last_used_ms` is kept as an order, `usada_antes`: every access is preceded
  by a delay of at least 5 ms in every configuration, so no two times are equal.
- A block travels as a C string. `aBloque` cuts a page at its first NUL when it
  goes to storage, and `recibidos` lets the bytes after it be anything when it
  comes back, since `memcpy` takes a whole page from a shorter string.
- `list_remove(-1)` and `string_split` are of the commons library and are
  modelled from their use: the first answers NULL, which `ejecutarDelete`
  dereferences when the File:Tag has no table.

## 3. Runs

| run | instance | what it shows |
|---|---|---|
| `fifo_vida` | FIFO, 2 workers, 2 queries, refusals, nobody killed | `MasterVivo`: no interleaving makes the master dereference a null query; `TodasTerminan` under `FairSpec` |
| `fifo_fallas` | FIFO, one worker killed, one signalled, requests and flushes refused | types; `NingunaQueryPerdida`, `Atribucion`, `FinDefinitivo`, `TrabajoConservado`; the refinement `PorOrdenDeLlegada`; `CaidaTardia`: which messages a null `query_actual` can end the master on |
| `prio_desalojo` | PRIORIDADES with aging, up to 2 workers and 3 queries, four processes in all | `UnaCopia`, `Atribucion`, `SinReejecucion` when queries migrate; `DespachoPorPrioridad`, `PedidoJustificado`; `CaidaPorOlvido`: `prepararNuevaQuery` meets a null `query_pendiente` only after a query was forgotten |
| `prio_fallas` | 1 worker killed or signalled, refused requests and flushes, unknown instruction, late handshake, killed query control | `UnaCopia`, `Atribucion`, `FinDefinitivo` as long as the master lives |
| `prio_motivo` | 1 worker, 3 queries | **violated** `MotivoPrioridad` |
| `prio_terminan` | 1 worker, 2 queries, `FairSpec` | **violated** `TodasTerminan` |
| `fs_sano` | 3 names in 2 files, 4 blocks of 2 bytes, contents that may be zeros, three workloads: no TAG nor restart; TAG, full disk and restarts but no DELETE nor cut; deletes and restarts | `BitmapExacto`, `IndiceFiel`, `Sellado`, `UnSoloBloque` and the refinement `Independientes` |
| `fs_todo` | 2 names, 3 blocks of 2 bytes, four workloads: every request; every request but TAG, on initial_file:BASE too; deaths with copies; deaths, restarts and deletes without copies | `SinFuga`, `Aislamiento` (a request changes what is read of the File:Tag it names and of no other): what holds whatever was asked before; `CaidaLocal`: what a death may cost |
| `fs_commit` | copies and deletes | **violated** `CommitConserva` |
| `mem_solo` | a worker alone with its files, 2 pages each, 2 frames of 2 bytes, LRU and CLOCK-M | `MarcosBien`, `TablasBien`, `ClockMClasico`; `LecturaCorrecta`, `EscrituraCompleta`, `Persistido`, `SinPerdida`, `Transparente`; the refinement `VistaIndependiente` |
| `mem_todo` | every instruction, one frame, another worker that writes, commits and deletes | `ContratoConCiclo`, `SinPerdida` and, under `FairSpec`, `Termina` |
| `mem_delete` | 2 frames and a DELETE | **violated** `MarcosRecuperables` |

Violations are behaviours of the code:

- `prio_terminan`: the victim of a preemption has already sent FINALIZAR and
  FIN_CICLO. FIN_CICLO finds READY empty and forgets `query_pendiente`
  (`helpers-master.c:485`); that query is in no structure any more.
  The next order that removes somebody there finds `query_pendiente` NULL and
  ends the master (`helpers-master.c:676`): `CaidaPorOlvido`.
- `prio_motivo`: the victim ends, the worker gets another query, the order
  arrives and removes that one, although its number is no larger.
- `fs_commit`: COMMIT q of f:v1 indexes its block; f:v2 copies it and f:v1 is
  deleted, so f:v2 is the only holder and WRITE changes the block in place;
  the next COMMIT of the old content is moved to that block.
- `mem_delete`: `ejecutarDelete` drops the table and leaves its frames taken.
  The comment there (`ciclo_instruccion.c:515`) trusts replacements to clean
  them, but replacements look only at tables: the frames are lost.

They limit what can be claimed: under PRIORIDADES there is no
`NingunaQueryPerdida`, and `Independientes` is claimed only for the workloads
`CargaSana` admits. `Aislamiento`, `SinFuga` and `CaidaLocal` are
conditional on the state being sound for that reason. `NingunaQueryPerdida`
is claimed of programs without an unknown instruction, which ends a query
without a word to the master (`ciclo_instruccion.c:274`).

`CHECK_DEADLOCK FALSE`: a system whose query controls are all done waits for
connections; a storage at the bounds, or dead, has nothing to do; a worker
whose process died does nothing.

**Bounds.** Two workers and two queries are enough for a query to migrate, for
an arrival to race a report, and for a message to be charged to the wrong
query; three queries on one worker are needed for one to run, one to wait for
the preemption and one to be in READY. `CuatroConectados` lets `prio_desalojo`
have both kinds without the product of the two. Programs have at most two
instructions: the one a run is about, after which the query can be preempted,
and the end. Priorities 0..2 let aging overtake.

`CantBloques`, `MaxBLOCKS` (the length of `BLOCKS`, which the code never cuts)
and `Tamanios` bound storage. Four blocks, one of them always block 0, are
enough in `fs_sano` for two tags with a block each, sharing, copy on write,
dedup and a full disk; three suffice in `fs_todo`, whose properties are about
one step. A block is two bytes in both and sizes, 0, 1 and 4 or 0 and 3, are
not all multiples of it. In `fs_sano` a file that grows from 0 to 1 to 4 gets
one block and a TRUNCATE to 0 asks for two, which ends the process. A WRITE of
`fs_sano` may carry zeros, the content of block 0. The process itself rounds the bitmap to bytes
(`cant / 8`), so a real one has at least eight blocks; the model's are fewer
and otherwise the same. The deaths of `fs_todo` come with copies or with
deletes, not with both: that pair already breaks storage with no death
(`fs_commit`).

In `MemoriaInterna` two pages per name and two frames (`mem_solo`) make a WRITE
of a page and a half evict its own first page; one frame (`mem_todo`) makes
every fault replace, and a single DELETE leave no frame at all, so that there
is no victim. One character besides NUL tells written from unwritten. In
`mem_solo` nobody uses TAG or TRUNCATE to less: storage copies and cuts
what was flushed, not what the cache holds, and the worker neither
flushes nor drops pages for them, so the cache is visible then. initial_file:BASE is not
deleted, and TRUNCATE of a COMMITED tag is left to `Storage`.

Symmetry is over interchangeable values (contents, tags of one file, workers)
and used only in runs without liveness.

**Fairness.** `Justicia` is weak fairness of each thread: the kernel schedules
every runnable thread, no thread of this code polls for a condition that comes
and goes, and mutexes are held for one bounded handler. Kills and signals are
never due. In `MemoriaInterna` the instruction loop is one process that blocks
only on storage's answers: weak fairness of its steps, none of starting another
instruction, of a preemption or of the other workers.

## 4. Proofs

`Planificacion_proofs`, for every number of workers and queries, every
program, both algorithms, any priorities and any failures the constants allow
(assumptions: `NullAssumption`, `ConfigMaster`, `ProgramaAssumption`,
`EntornoAssumption`, `QCAssumption`):

- `TipoCorrecto`: `Spec => []TypeOK`.
- `UnaCopiaSiempre`: `Spec => []UnaCopia`. `UnaCopia` is not inductive. A query
  enters READY or a worker when its own thread reaches `gestionarQueryIndividual`,
  so the invariant adds that what the structures hold has passed it
  (`hilo_query = "gestionada"`), and that a worker outside `lista_workers`
  holds nothing. The list helpers are lemmas (tails, appends and sorted
  orders of a duplicate-free sequence).
- `FinDefinitivoSiempre`: `Spec => []FinDefinitivo`, from `UnaCopia`: the handler that sends
  FINALIZAR clears the only pointer to the query.

`PlanificacionFIFO_proofs`, under the hypothesis `Algoritmo = "FIFO"`:

- `TrabajoConservadoSiempre`. With FIFO nothing is pending, ordered out or
  aged (`SinDesalojos`), so a free worker in `lista_workers` is always found;
  that one exists with the smallest index is the well-foundedness of the
  naturals (`MenorNatural`).
- `ImplementaCola`: `Spec => PorOrdenDeLlegada`, with the further hypothesis
  `SinInvalidas` (no program holds an instruction the worker does not know).
  The hard step is Despacha: FIN_CICLO overwrites `query_actual`, so the
  worker must by then hold nothing. The invariant `Turnos` follows the turn of
  a worker through three places, of which it is in one at most: the query on
  its way in `aWorker`, the loop of `main()`, the one FIN_CICLO in `aMaster`,
  preceded there by the FINALIZAR or ERROR that ended the query unless it was
  handled. With it every step of the system is a step of `ColaDeQueries` or
  changes nothing it sees, and the end of the master is `TerminaElMaster`.
- `NingunaQueryPerdidaSiempre`, from the same lemmas: the queue loses nothing
  and a query becomes "gestionada" by arriving in it.

`PlanificacionTurnos_proofs`, under both algorithms, with any preemptions,
kills, signals and unknown instructions, and no hypothesis:

- `AtribucionSiempre`: `Spec => []Atribucion`. Messages do not say which query
  they are about. The invariant `IVez` says why none is ever charged to
  another: from the moment a worker gets a query until FIN_CICLO, or the
  NO_FINALICE or FINALICE that answers DESALOJAR, is handled, the turn is in one
  place at most (the query on its way, the loop of `main()`, or the message
  that ends the turn, after which nothing about it follows), and `query_actual`, when it is not NULL, is the query of that turn.
- `SinReejecucionSiempre`: `Spec => []SinReejecucion`, from `IVez`, `UnaCopia`
  and the inductive `Avance`: whoever carries a query at the time (the message
  that starts it, the loop, the NO_FINALICE that returns it) carries the number
  of instructions run; there is one carrier at most (`UnDuenio`); and a query
  in READY, or pending, has no carrier and its own `pc` is that number
  (`SueltaAlDia`). The single carrier is what a preemption, which moves the
  number back to the master through a message, could break.

`PlanificacionMaster_proofs`:

- `CaidaTardiaSiempre`: `Spec => CaidaTardia`, for `Algoritmo = "FIFO"` and
  `SinInvalidas`. The invariant `IDeudas`: all that a worker has received, runs
  or has reported is about the query the master believes it runs, about one
  already over, or about none.
- `MasterVivoSiempre`: `Spec => []MasterVivo`, under `SinMolestias`: FIFO, the
  pause that follows the worker's first connection is long enough, no flush is
  refused, nobody is killed or signalled. These are the hypotheses of `fifo_vida`;
  where they fail the master may end (`fifo_fallas`, `prio_fallas`). The invariant `Vivo` adds to `IVez`
  what each handler dereferences: while `query_actual` is NULL no message about
  a query is on its way and the worker will send none (`Charla`); a worker is in
  `lista_workers` before its preemption socket registers (`Presente`); a query
  control closes its socket only when told FINALIZAR (`SoloTerminadas`).
- `DespachoPorPrioridadSiempre` (for `Algoritmo = "PRIORIDADES"`) and
  `PedidoJustificadoSiempre`: the action properties of PRIORIDADES. DESALOJAR and
  lost workers append to READY unsorted and aging changes the numbers, so no
  invariant says that READY is sorted: what holds is that each decision sorts
  before it takes the head (`Ordenaciones`), with the numbers as they are after
  the step. That no worker passed over runs a larger number needs
  `LibreSinQuery`: the search skips the workers marked free, which run nothing.

They use one more assumption, `ProcesosDistintos`: no process is both a worker
and a query control.

`MemoriaInterna_proofs`, for any names, pages, frames, page size, strings,
both algorithms, any instructions and any other workers (assumptions
`MemoriaAssumption` and `DireccionesAssumption`, which only says that addresses
stay below the bound on pages):

- `MemoriaTipoSiempre`, `MarcosBienSiempre`, `TablasBienSiempre`,
  `ContratoSiempre` from the inductive `IInv`: types, `Curso` (what the local
  variables of an instruction are at each `paso`: without it nothing says that
  the page a fault brought is absent until it gets its frame),
  `MarcosBien` and `TablasBien`. `TablasBien` is needed because the loops that
  choose and flush pages go through the tables: a resident page outside them
  would keep its frame and never be a victim.
- `SinPerdidaSiempre`: the action property `SinPerdida`, from `IInv`.
- `ClockMClasicoSiempre`: `Spec => []ClockMClasico`, from `IInv`. From the hand
  on, the resident pages are in one total order (`OrdenDeVuelta`), so a turn
  stops at the first of the class it looks for, or meets them all
  (`VueltaDeAguja`); the second turn leaves every `bit_uso` clear, and the last
  two therefore look for the two classes the first two did not find.

`MemoriaVista_proofs`, what the queries of a worker see through its cache:

- `TransparenteSiempre`, `PersistidoSiempre`, `EscrituraCompletaSiempre`,
  `LecturaCorrectaSiempre`, under `SoloCrecen`: no TRUNCATE makes a File:Tag
  shorter. It leaves the pages it cuts in the cache, dirty or not, and a later
  TRUNCATE to more brings them back into sight. Other workers may write, commit
  and delete the names in `Compartidos`; the four properties are about the rest.
- `VistaIndependienteSiempre`, under `Solo`: also with no name shared and no
  TAG, which copies what storage has and not what the cache holds. `mem_solo`
  satisfies `Solo`.
- The invariants they need besides `IInv`: `IRespaldo`, every resident page of an
  own File:Tag has its block in storage, and a clean one has its bytes (with it,
  evicting a clean page shows the same bytes); `Traida`, between the answer of
  storage and the frame it goes to, the block is still what the absent page
  has; `Flusheada`, a FLUSH that no block was refused leaves nothing dirty in its scope;
  `AccesoBien`, for READ and WRITE: the bytes done so far belong to blocks the
  File:Tag has and agree with what is seen, also those of pages the same
  instruction has evicted since. The copies stop at a NUL in the page, so the
  agreement of a READ is only up to the first NUL.
- `EscrituraCompleta` has the same limit on the way out. `escribirEnStorage`
  sends a page with `%s` (`memoria_interna.c:830`): a byte written behind a NUL of its
  page, as any byte of a fresh page but its first, is lost once the page has
  been written back, although the WRITE ended well. So what is proved of a WRITE that
  ends well is, byte by byte, that it is in its page as long as the page stays
  in memory, and that it is seen, wherever it is, if no NUL precedes it in its
  page (`alcanzable`). That the other bytes are lost is what the code does, and no text
  of the repository denies it.

`Storage_proofs`, for any names, any number of blocks, any block size, sizes
and contents and **every** workload, restarts and deaths included (assumption:
`StorageAssumption`). The inductive invariant `Base` says that the lists of
every tag stay in step and name blocks of the disk, and that a tag's file is
known. Its three lemmas per kind of step are the account of the requests that
every other theorem uses: `PedidoSobre(n)`, what a request about n may change;
`Arranque`, what a start makes of a disk; and what each death leaves.

- `TipoStorage`: `Spec => []StorageTypeOK`.
- `NadaReservadoDeMas`: `Spec => SinFuga`. A request is a sequence of moves of
  one logical block; each frees the old block exactly when its last link goes.
- `CaidasLocales`: `Spec => CaidaLocal`. A start reads a File:Tag through
  `BLOCKS` (`Leera`), and no step of `reapuntarBloque` saves in it a block with
  another content but a WRITE's; in a COMMIT the induction on its turns also
  needs that the index told the truth before it (`IndexandoSinCosto`).
- `TagsAislados`: `Spec => Aislamiento`: what is read of a File:Tag changes
  only by a request that names it, for a TAG the copy and not its origin. A block of another tag that is written
  in place would have two links besides its own file, which is the test of
  `realizarWRITE`.

`StorageSano_proofs`, under the hypothesis `CargaSana(usos)`: no TRUNCATE of a
COMMITED tag, no death, nothing on initial_file:BASE, not TAG together with
DELETE, and no TRUNCATE to less together with TAG or a restart. The three
workloads of `fs_sano` satisfy it (`SanasAssumption`). The exclusions are what
the code gets wrong or leaves undone: `fs_commit` is TAG with DELETE; a
TRUNCATE of a COMMITED tag leaves its hashes behind; TAG and a restart trust
the `BLOCKS` a TRUNCATE to less never cuts; deaths are `CaidaLocal`.

- The inductive invariant `Sano` adds to `Base`: the bitmap is exact; pointers
  are links; a hash names a block with its content (`Fieles`) that a COMMITED
  tag links to (`Sellados`). `IndiceFiel` alone is not inductive: WRITE changes
  in place a block with one holder, and what keeps such a block out of the
  index is that its holders, one of them COMMITED, are either several (copy on
  write) or not writable. Without TAG no two WORK_IN_PROGRESS tags share a
  block other than block 0 (`SinCopia`), so that DELETE, which forgets the
  hash of the blocks it frees, leaves no stale one; without TRUNCATE to less
  `BLOCKS` agrees with the pointers (`MismosBLOCKS`), which TAG copies and a
  restart reads; block 0 holds zeros and stays linked (`ConInicial`).
- `BitmapSiempreExacto`, `IndiceSiempreFiel`, `IndiceSiempreSellado` and
  `SiempreUnSoloBloque` are its consequences.
- `FileTagsIndependientes`: `Spec /\ CargaSana(usos) => Independientes`. Each
  request, the restart and the loss of the process on a full disk is a step of
  `TagsIndependientes` or changes nothing that is read, one lemma for each.
- `CommitNoCambiaNada`: COMMIT keeps every content, on those workloads.

Only model-checked: liveness (`TodasTerminan`, `Termina`), which is out of the
prover's reach, `CaidaPorOlvido`, and the four runs that expect a violation.

## 5. Not modelled

- The connection threads of storage (`recursosHumanos` passes the address of a
  variable it reuses), and a power failure that undoes completed writes.
- Agreement between the caches of two workers: the code has none and promises
  none. Other workers' writes appear in `mem_todo` only as a disturbance.
- Short reads: a stream is a queue of whole messages.
- A query file that cannot be opened ends the worker before its first
  instruction: `crearListaDeInstrucciones` returns NULL and its caller uses it as a
  list. For the master that
  is a worker that is killed there, which `WorkersQueCaen` has.
- `Atribucion` is about the messages of a query. FINALIZAR_WORKER, the
  good-bye of a signalled worker, is about the worker: it may leave idle, and be
  handled when the master has just given it a query.
- What a reused descriptor reads after FINALIZAR_WORKER: the master is taken
  to end there.
- Requests that change initial_file:BASE (`"INICIAL"`) are in `Storage` and only
  in a workload of `fs_todo` without TAG: deleting it frees block 0, to which
  every new logical block is linked, and no text says what should follow.
- Socket set-up, configuration, logs, and functions never called (`hiloAging`,
  `intentarPlanificarDesdeReady`, `intentarEnviarQueryAExecute`,
  `buscarVictimaDesalojable`, `atenderQueryControl`, `crearTagNoFlush`).

## 6. Plan

1. *Done*: the scheduling system, storage with its abstract specification and
   its deaths, the page cache, and the abstract queue that FIFO implements.
2. *Done*: the theorems of section 4.
3. *Done*: for `Storage` its type invariant, `SinFuga`, `Aislamiento` and, on
   sane workloads, the exact bitmap and the refinement.
4. *Done*: the messages of a worker (`Atribucion`, `SinReejecucion`), what ends
   the master (`CaidaTardia`, `MasterVivo`) and the decisions of PRIORIDADES.
5. *Done*: what the queries of a worker see through its cache (`Transparente`,
   `Persistido`, `EscrituraCompleta`, `LecturaCorrecta`, `VistaIndependiente`),
   `ClockMClasico`, and `CaidaLocal`.
6. Next: `NingunaQueryPerdida` and `PorOrdenDeLlegada` with unknown instructions,
   as far as the code allows; the conditions of `MasterVivo` one by one.
