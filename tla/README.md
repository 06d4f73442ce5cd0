# Verification of the lock_benchmarking locks

This directory holds TLA+ specifications of the locks of `lock_benchmarking`,
the configurations that model-check them with TLC, and proofs checked by TLAPS.
The repository is the code behind queue delegation locking: mutual exclusion and
reader-writer locks in which a thread that finds the lock taken hands its
critical section to the thread that holds it. Paths below are relative to the
repository (`src/lock/...` is `src/src/lock/...` in `PROJECT.json`).

- [The system](#the-system)
- [What makes the code hard](#what-makes-the-code-hard)
- [The modules and the code](#the-modules-and-the-code)
- [What the models abstract](#what-the-models-abstract)
- [The runs](#the-runs)
- [Fairness](#fairness)
- [What the code gets wrong](#what-the-code-gets-wrong)
- [What is proved](#what-is-proved)
- [What is not modelled](#what-is-not-modelled)
- [Plan](#plan)

## The system

| component | source | state | operations | correct when |
|---|---|---|---|---|
| delegation queue `DRMWQueue` | `src/datastructures/dr_multi_writers_queue.h` | `elementCount`, `closed`, one slot per element (`request`, `data`, `responseLocation`) | initialize, offer, flush, reset | an accepted element is read once; nothing is accepted outside an opening |
| TATAS lock | `src/lock/tatas_lock.{c,h}` | `lockFlag` | lock, try, unlock, is_locked | one holder |
| queue-delegation lock `AgnosticDXLock` | `src/lock/agnostic_dx_lock.{c,h}` | a lock word, a delegation queue, a default writer | delegate, delegate and wait, lock, unlock | operations run once, in order, exclusively; what a thread delegated has run before it enters its own critical section |
| read indicator `ReaderGroupsNZI` | `src/datastructures/reader_groups_nzi.h` | one counter per reader group | arrive, depart, wait until empty | no reader is missed |
| multi-reader QD lock `AgnosticRDXLock` | `src/lock/agnostic_rdx_lock.{c,h}` | the above and `writeBarrier` | as the QD lock, and read_lock, read_unlock | readers exclude writers; impatient readers get in; the barrier falls |
| MCS lock | `src/lock/mcs_lock.{c,h}` | `endOfQueue`, a node per thread | lock, try, unlock, is_locked | first come first served; the return value says whether it was handed over |
| ticket lock, array ticket lock | `src/lock/ticket_lock.*`, `aticket_lock.*` | two counters; two counters and an array of spin locations | lock, unlock, is_locked | first come first served |
| cohort lock | `src/lock/cohort_lock.{c,h}` | a global array ticket lock, for each NUMA node a ticket lock, `numberOfHandOvers`, `needToTakeGlobalLock` | lock, try, unlock | one holder over all nodes; a hand-over has a taker; no starvation |
| writer-preference lock `WPRWLock` | `src/lock/wprw_lock.{c,h}` | a lock (MCS or cohort), a read indicator, `writeBarrier` | lock, unlock, read_lock, read_unlock | as the multi-reader lock, also when the lock passes from writer to writer |
| NUMA ingress-egress indicator | `src/datastructures/numa_ingress_egress_nzi.h` | two counters per node | arrive, depart, wait | as the reader groups |
| hierarchical lock `RHQDLock` | `src/lock/rhqd_lock.{c,h}` | a queue and a TATAS lock per node, one MCS lock | as the multi-reader QD lock | as the multi-reader QD lock, although threads migrate between nodes |
| `MWQueue`, `OptiMWQueue` | `src/datastructures/multi_writers_queue.*`, `opti_multi_writers_queue.*` | a count, a closed mark, slots | offer, flush, reset | as the delegation queue |
| delayed-writes locks | `src/lock/simple_delayed_writers_lock.*`, `all_equal_rdx_lock.*`, `tts_rdx_lock.*` | an MCS queue whose nodes carry a write queue, or a flag and a queue | write, lock, read_lock | as the multi-reader QD lock |
| flat-combining locks | `src/lock/flat_comb_rdx_lock.*`, `agnostic_fdx_lock.*`, `synch_algorithms/flat_comb.h` | a request per thread, a list of active threads | write, lock, read_lock; do_op | every request is run once |
| QD and HQD locks of the benchmark | `src/datastructures_bench/synch_algorithms/{qdlock,qdlockp,qdlock_futex,qdlock_nostarve,hqdlock,hqdlock_nostarve}.h`, `qdlock.c` | copies of the queue, each with its own closing protocol | delegate, delegate and wait | as the QD lock |
| CC-Synch, H-Synch, Oyama, CLH | `synch_algorithms/{ccsynch,hsynch,oyama,clh}.h` | a list of requests | apply, delegate | every request is served once |
| the benchmark's heap | `src/datastructures_bench/datastructures_bench.c` | a pairing heap under one of these locks | enqueue, dequeue | answers are those of a heap used by one thread at a time |
| byte-queue QD lock | `src/new_rep/` | a byte buffer of entries | delegate | as the QD lock |
| mutexes of `qd_library` | `qd_library/locks/` | a futex word; a queue of nodes with a flag in the tail pointer; a ticket pair with a flag | lock, try_lock, try_lock_or_wait, unlock, is_locked | one holder; nobody sleeps for ever; first come first served where it queues |
| delegation locks of `qd_library` | `qd_library/{qdlock_base,qdlock,mrqdlock,hqdlock}.hpp`, `queues/` | C++ templates: a mutex, one of three queues, a read indicator | delegate_n, delegate_f, lock, unlock, rlock, runlock | as the QD lock |
| C++ RDX lock | `src/lock/rdx.hpp` and its glue | an array of functions and its count | as the QD lock | as the QD lock |
| lock-free priority queue | `src/datastructures_bench/PR/` | a skip list | | code of another project, compared against |
| tests | `src/tests/` | | | their assertions are properties here |
| benchmarks, data structures, scripts | `src/benchmark/`, `src/datastructures_bench/`, `*.py` | | | measurement |

How they interact: all communication is through shared memory, by plain loads
and stores and by the atomic operations of `src/utils/smp_utils.h`. A
delegation lock is compiled against a mutual exclusion lock through the macros
`LOCK_*` (`AgnosticDXLock` and `AgnosticRDXLock` over TATAS, `WPRWLock` over MCS
or cohort) and against a read indicator through `NZI_*`; `qd_library` does the
same with templates. Sleeping goes through the futex system call. The only callback is the
delegated function itself, which a helper calls from `drmvqueue_flush`.

A delegated write goes through the code like this. `adxlock_write_with_response`
looks at the lock word. If it wins the lock it opens the queue
(`drmvqueue_reset_fully_read`), runs its own operation, flushes the queue,
and releases. Otherwise it offers the operation: it checks `closed`, claims a
slot by `fetch_and_add` on `elementCount`, writes the slot's data and then its
`request`, which publishes it. The flusher reads slot after slot, waits for
a claimed one that is not yet published, and, when it has read all that it
knows of, exchanges the count for `CAPACITY + 1`: what the exchange returns
tells whether somebody claimed a slot in between.

## What makes the code hard

The full list, each at its line, is under `hazards` in `PROJECT.json`. In short:

- An offer is spread over five accesses, the flush over four per slot and the
  reset over two; nothing but their order keeps an accepted operation from
  being lost, run twice, or run with another's data. `closed` may be read long
  before the claim, in an earlier opening of the queue.
- A late offer sets `closed` although a later opening of the queue has begun.
  This is harmless (offers of that opening fail and are repeated), and the models
  include it.
- Readers and writers see each other through two words each, in opposite order,
  and the reader groups are inspected one after the other.
- Locks are passed on: an MCS or cohort successor enters without looking at
  what the predecessor looked at.
- Liveness: helpers that serve clients who never stop, blocking callers that
  wait for another thread's flush, readers against a stream of writers, nodes
  against each other in the cohort lock.
- Limits: the full queue, the hand-over limit, tickets that wrap, counters that
  failed offers push on.
- There are some twenty copies of the same protocol, and they differ in small
  ways: who sets the closed flag, whether the exchange is clamped, whether the
  queue is opened before or after the readers are waited for.
- Mutexes that sleep: a wake-up is lost if the state a sleeper leaves behind is
  overwritten by the next arrival.

## The modules and the code

A *library* module holds the steps of a component with the control points to
come from and go to as parameters, and no specification; a *client* module
composes libraries, adds `Init`, `Next` and the properties. One action is one
access to shared memory (or one atomic instruction); a thread's place in the
code is `pc[t]`. Where the repository has several copies of one protocol a
*family* module has the actions once and a record per copy (a *build*) with what
the copies do differently; the program is built with one of them, chosen
in `Init`. `map` in `PROJECT.json` gives a record the lines of its copy and an
action the lines of one of the copies it stands for.

| module | kind | stands for |
|---|---|---|
| `Control` | library | `pc` and `Move` |
| `TATASLock` | library | the lock word: look, test-and-set, release |
| `DRMWQueue` | library | offer (`OfferSeesClosed/Open`, `OfferClaims/Overflows`, `OfferCloses`, `OfferWritesData`, `OfferPublishes`), flush (`FlushStarts`, `FlushReads`, `FlushClears`, `FlushRereads`, `FlushSwaps`, `FlushReturns`), reset (`ResetCount`, `ResetClosed`) |
| `DXLock` | library | what `AgnosticDXLock` and `AgnosticRDXLock` have in common: the lock word, the queue, delegating and helping; the invariants `LocalsOK`, `SlotsOK`, `KindsOK` of both |
| `DXLockHistory` | library | the history `accepted`, `log` of such a lock and how it relates to the queue |
| `QDLock` | client | `AgnosticDXLock` over TATAS with endless clients: `adxlock_delegate`, `adxlock_write_with_response_block`, `adxlock_write_read_lock/unlock` |
| `QDLockHistory` | client | `QDLock` with bounded clients and the history |
| `Delegation` | abstract | what a delegation lock promises |
| `ReaderGroupsNZI` | library | arrive, depart, one inspection of a group |
| `PatientReader` | library | the reader's protocol and the write barrier, the same code in `agnostic_rdx_lock.c`, `wprw_lock.c` and `rhqd_lock.h` |
| `MRQDLock`, `MRQDLockHistory` | client | `AgnosticRDXLock` over TATAS and reader groups, endless and bounded clients |
| `MCSLock` | library | the MCS queue |
| `FutexLock`, `MCSFutexLock`, `TicketFutexLock` | library | the mutexes of `qd_library` (and the futex lock of `qdlock_futex.h`) |
| `Sleepers` | library | the kinds of calls, `FUTEX_WAIT` and `FUTEX_WAKE` |
| `Mutexes` | client | threads that lock, try or try-or-wait one of six mutexes; the history `arrivals` is the order in which they drew a place |
| `FIFOLock` | abstract | what a fair queue lock promises |
| `WPRWLock` | client | `WPRWLock` over the MCS lock and reader groups |
| `TicketLock`, `ATicketLock` | library | the two ticket locks |
| `CohortLock` | client | the cohort lock |
| `DelegationLocks` | family | the QD, HQD, multi-reader and byte-queue locks: a call is a sequence of labels (`code[t]`), a queue a record of how an offer is refused and a flush closes; mutexes and read indicators are atomic |
| `NodeLocks` | family | adds the locks whose threads queue or post at nodes of their own: `sdw`, `aer`, `fcrdx`, `afdx` |
| `IngressEgressNZI` | client | the TTS lock of `DelegationLocks` over the other read indicator, load by load |
| `HeapClients` | library | the threads of the benchmark, the heap and its operations |
| `CLHLock`, `CCSynch`, `OyamaLock`, `FlatCombining` | library | the benchmark's algorithms (`CCSynch` has H-Synch too, with a list per cluster and a CLH lock over the clusters) |
| `Combining` | client | the heap under one of these algorithms |
| `SharedHeap` | abstract | what the benchmark expects of its heap |
| `DXLockProofs` | proofs | lemmas about the steps the two queue-delegation locks share |
| `QDLockProofs` | proofs | theorems about `QDLock` and `QDLockHistory` |
| `MRQDLockProofs` | proofs | theorems about `MRQDLock` and `MRQDLockHistory` |
| `WPRWLockProofs`, `CohortLockProofs`, `MutexesProofs`, `CombiningProofs` | proofs | theorems about `WPRWLock`, `CohortLock`, `Mutexes` and `Combining` |
| `NodeLocksProofs` | proofs | theorems about the family: all builds of `DelegationLocks` and `NodeLocks` |
| `MC...` | TLC | a client module with the symmetry set or the sets of kinds and nodes a run uses; the runs that need none check the client module itself, with an `MC....cfg` |

`Delegation` has one variable per client (`idle`, `called`, `accepted`,
`holding`, `inside`, `reading`, `released`) and the two sequences. `accepted`
grows when the lock takes responsibility for an operation: a helper wins the
lock word, or an offer claims a slot. `Execute` appends the next accepted
operation to `log`, and only when no client holds the lock or reads. `Acquire`
and `StartRead` need `log = accepted`: a thread that enters sees everything
accepted before. `QDLockHistory` and `MRQDLockHistory` implement it under the
mapping `status <- StatusOf(t)`, the other variables being their own.
`Mutexes` implements `FIFOLock` with its fairness for the queue locks: the order
of entry is the order in which places were drawn, and whoever has one gets in.

`SharedHeap` has the argument of the call each thread is in, its operations that
have not run, the heap as a bag, and the answer its last operation found. It runs
a thread's operations in the order of its calls, each once. `detaches` says
whether an enqueue may return before its operation has run (Oyama's lock). `Combining`
implements it for each build under the identity but for `returned`: CC-Synch and H-Synch
return a value shifted by two.

Definitions named with the comment "Mutant" are deliberate faults: each is a
plausible bug of the definition that follows it, no specification uses it, and
`mutants` in `PROJECT.json` says which property of which run finds it.

## What the models abstract

- **Memory.** The models are sequentially consistent. The code is built for
  x86 and SPARC TSO; wherever a store must be seen before a later load of the same
  thread (set the lock word, then inspect the readers; arrive, then look at
  the lock word; claim, then read) an atomic instruction stands between them, so
  that store buffers do not add behaviour to what is modelled.
- **Steps that are merged.** A slot's `data` and `responseLocation` are written
  one after the other before `request`, and read only after it: they are one
  value. The flusher's loads of `request` and of the data, and the call of the
  function, are one step: until the flusher clears `request`, nobody else writes
  that slot. MCS: `get_and_set_node_ptr` repeats a compare-and-swap until it
  succeeds and is one exchange; the store that clears the node's own `next`
  belongs to it. Cohort: `needToTakeGlobalLock` and `numberOfHandOvers` are
  touched only by the holder of the node's lock and are read and written with
  the decision they belong to.
- **Components checked elsewhere.** In `DelegationLocks` and `NodeLocks` taking a
  mutex, handing an MCS queue on and looking whether all readers are out are one
  step each: `Mutexes`, `MCSLock`, `ReaderGroupsNZI` and `IngressEgressNZI` have
  them step by step. In the flat-combining locks the combiner takes a request
  and runs it in one step. Cleaning the combine list may remove any nodes but
  the first: how long a node was unused is left open.
- **Choices of the preprocessor** that leave the protocol alone are taken together:
  `ACTIVATE_NO_CONTENTION_OPT` (set in `SConscript.py`) is both on and off;
  of the alternatives in the headers of the benchmark, `NEWOFFER` and `CAS_FLUSH`
  are modelled, which the headers define.
- **Messages** of the byte queues have a size in units of the size field.
- **Operations** are records (thread, number of the call, whether an answer is
  wanted): enough to tell which ran, how often, in which order. The function
  itself runs in one step.
- **Clients** call without end in the specifications without history, so
  that no property depends on somebody stopping; their call numbers repeat
  modulo `MaxCalls`. With history each makes `MaxCalls` calls.
- **Locals** out of scope are reset to a fixed value, so that states that differ
  only in dead locals are one.
- **Yielding** (`sched_yield`, `thread_yield`, the counters that decide when) is
  left out: it is scheduling.
- **NUMA nodes.** Without `PINNING` a thread asks for its node at each call; the
  model chooses one nondeterministically at each call, which includes pinned
  threads.

Bounds that stand for constants of the code:

| constant | code | runs | why it is enough |
|---|---|---|---|
| `CAPACITY` | 4048 | 1, 2 | with 1 the first claim fills the queue and every opening reuses the slot; with 2 the flush ends both by its end and by its exchange |
| `OFFER_TRIES` | 7 | 1, 2 | only whether another try follows matters |
| `NUMBER_OF_READER_GROUPS` | number of cores | 2 | the inspection is not atomic, and threads share a group |
| `KindsOf` | none | `MixedKinds`, `AllKinds` | in the run with three threads every two kinds of calls meet, with a third thread beside them; only three equal writers do not |
| `READ_PATIENCE_LIMIT` | 130000 | 0, 1 | the limit is reached at the first or second look |
| `MAXIMUM_NUMBER_OF_HAND_OVERS` | 64 | 1 | hand-overs happen and reach the limit |
| `ARRAY_SIZE` | number of cores | 1, 2 | with 1 all waiters share an element, with 2 they are spread over elements |
| `TicketRange`, `ATicketRange` | 2^32, 2^31 | 4, 4 or 6 | more than the number of tickets out at once: equal tickets are equal modulo the range |
| capacities in `DelegationLocks` | 4048 or 4096 entries; 4096, 16384 or 262139 bytes | 2 entries; 4 or 5 units | an offer fits, fits exactly or does not fit, also behind an entry of another size |
| `Nodes`, `Clusters` | NUMA nodes | 2 | a thread migrates and leaves an operation behind |
| `MaxItems` | none | 1, 2 | the heap is empty, and has several values to choose from in the order they came |
| `HelpBound`, `ScanBound` | 4096 | 2 | a combiner reaches its limit with requests left |
| `RingSize` | 4096 | 2 | contexts are reused |
| `TicketLimit` | 2^32 | 4 | more than the tickets out at once |
| `OneBlocks` | none | one blocking call, the last of its thread | it can follow a delegation of the same thread to a slot that is reused; blocking calls without bound are in `qd_live` |
| `MaxArrivals` | none | 4 | a second reader comes and goes during a look |
| `MaxCalls` | none | 1 to 3 | a slot or a node is reused; an early call's remains meet a later call |

## The runs

| run | module | threads | shows |
|---|---|---|---|
| `qd_live` | `QDLock` | 2 | `HolderGetsOut` and `AcceptedReturns` against clients that never stop, blocking calls among them |
| `qd_history` | `MCQDLockHistory` | 3 with 2 calls, symmetric | `TypeOK`; `MutualExclusion`; `UnlockedQueueIsSealed` (a free lock has a sealed, empty queue); `QueueInv` (the part of the inductive invariant that is about the queue); `RunInOrder` (once each, in the order of acceptance); `AllAcceptedHaveRun` when the lock is free; `OwnDelegationsPrecede` in a critical section and with an answer; `ImplementsDelegation` |
| `mr` | `MCMRQDLock` | 3 in 2 groups; all read, one also delegates, one also enters critical sections, one does both | `MutualExclusion`; `ReadersExcludeWriters`; `BarrierCountsImpatient`; `QuiescentIsClean` (nobody counted in, the barrier down, the queue closed and empty); `ImpatientReaderGetsIn` and `BarrierFalls` against clients that never stop |
| `mr_history` | `MRQDLockHistory` | 2 with 3 calls | `OwnDelegationsPrecede` for readers too; `ImplementsDelegation` (nothing runs between the moment a reader has seen the lock free and its departure); `CallsReturn` |
| `cohort_safety` | `MCCohortLock` | 3 on 2 nodes, symmetric | `TypeOK`; `MutualExclusion` over nodes; `HandOverHasTaker` |
| `cohort_live` | `MCCohortLock` | 3 on 2 nodes | `EveryoneGetsIn` |
| `wprw` | `WPRWLock` | 3 in 2 groups | `WritersExcludeAll`, `QueuedWriterGetsIn`, `ImpatientReaderGetsIn` |
| `mutexes` | `Mutexes` | 3 | `MutualExclusion` (and `is_locked` says so); `PassReachesWaiter`; `NobodySleepsForEver`; `ImplementsFIFOLock` with fairness; for `mcs_lock.c`, the four mutexes of `qd_library` and `flock_*` |
| `delegation` | `MCDelegationLocks` | 3 on 2 nodes, symmetric | for eighteen builds: `MutualExclusion` over nodes; `FreeLockOwesNothing`; `OwnOperationsInOrder`; `FlushStaysInside`; `ReadersExcludeWriters`; no deadlock |
| `combining` | `MCCombining` | 3, symmetric | without H-Synch: `OneCombiner`; `IssuedHaveRun` (the benchmark's own check); `ImplementsSharedHeap` |
| `combining_live` | `MCCombining` | 2 | with H-Synch: `WaitersAreServed`; `OneCombiner` |
| `ingress_egress` | `IngressEgressNZI` | 3 | a violation of `ReadersExcludeWriters`, see below |

Symmetry is used only in runs without liveness; the clients are
interchangeable there. The reader-writer runs use numbered threads because a
thread's number chooses its group. Deadlock is checked in all runs but
`ingress_egress`, whose readers stop at `MaxArrivals`; in the history
modules the action `Finished` stutters when every client has made its calls.
`hqdlock_nostarve` has a record in `DelegationLocks` and is in no run: but for its
mutex, which is atomic there, it is `hqdlock`. The record of H-Synch is left
out of the run with three threads for its size; with two threads, one or both in a
cluster, it is in `combining_live`; that it implements the heap is proved. In
`qd_history` the constraint `OneBlocks` admits one blocking call, as the last of
its thread: that is where an answer could overtake what the thread delegated before.

Some properties have exceptions, written into them, where the code does what the
property excludes; the next section but one lists them.

Some properties one might expect do not hold and are not claimed. In the QD lock a
particular thread may be overtaken for ever: TATAS is not fair, and an
offer may fail each time. In the multi-reader lock a reader that has not yet
raised the barrier may be overtaken for ever: `readPatience` counts only the looks
in the waiting loop (`agnostic_rdx_lock.c:112`), so that a reader which finds
the lock free in the loop and taken after its arrival each time makes no progress
towards the barrier. With Oyama's lock an insertion can fail for ever, and the
holder can be kept busy for ever; `WaitersAreServed` is stated of those who are in
its list. Nothing in the repository promises otherwise.

## Fairness

`WF(Step(t))` for each thread: a thread in the middle of a call is scheduled
again and again, and critical sections, reads and delegated functions end. It is
what a preemptive operating system gives to a spinning thread, and what the code
supports by yielding in its long loops. Strong fairness is not assumed: a
TATAS acquisition that stays contended is not guaranteed. The action `Call` has no
fairness: nobody has to call, and an accepted operation must run although its
client never comes back. A thread that sleeps in the kernel has no step until it is
woken, so that fairness does not hide a lost wake-up.

## What the code gets wrong

Met while modelling; one is a run, the others are exceptions of a property or
notes of a hazard.

- **A reader is missed** (`ingress_egress`). `nienzi_wait_unil_empty` loads a
  node's `ingress` and then its `egress` (`numa_ingress_egress_nzi.h:63`). Reader A
  is inside; the writer loads ingress 1; reader B arrives and departs, which makes
  egress 1; the writer loads that and enters while A reads. The assertion of
  `test_rdx_lock.c:190` fails in this state. Loading `egress` first would be
  right.
- **The left-over mark** (`new_rep/qd_queues/qd_queue.h:121`). A message that does
  not fit leaves a mark that ends the flush and is never cleared. With messages
  of several sizes a later opening puts entries behind an old mark, and a flush
  ends there: accepted operations never run, contrary to the assertion on the
  counter in `test_qd_queue.c`. Checking `MCDelegationLocks` with
  `Builds = {"newrep_variable"}` shows it as a violation of `FreeLockOwesNothing`.
- **The exchange that is not clamped** (`qdlockp.h:308`). Failed offers push the count
  past the capacity; if the closing exchange returns it, the flush runs into the bytes
  behind the array and waits there for ever (`FlushIsStuck`).
- **`ttsalock_initialize` does not set `writeBarrier`** (`tts_rdx_lock.c:18`), and
  `ttsalock_create` takes memory from `malloc`: with a non-zero value
  no writer ever gets past the barrier (`BarrierIsStuck`).
- **`try_lock_or_wait` of the ticket futex lock** sleeps on a state that it loaded
  before the lock was released (`ticket_futex_lock.hpp:91`): it sleeps until somebody
  else unlocks, perhaps for ever.
- **The forced lock of the nostarve headers** passes the address of the whole lock
  to a function that expects the mutex in it (`qdlock_nostarve.h:538`,
  `hqdlock_nostarve.h:583`). The models have the other paths of these headers only.
- **A short operation in `buffer_queue`** (`buffer_queue.hpp:122`): the flush does not look at
  the last four bytes of the buffer, where an operation of less than a size field's
  length that is the last to fit ends.

## What is proved

Every theorem holds for any set of threads and any value of the constants that
the named assumptions allow. `Spec` is the specification whose clients never
stop calling; `HSpec` adds the history and a number of calls for each client.
Each inductive invariant was first checked with TLC as an invariant of the run of its
module, except that of Oyama's lock, which speaks of functions on the natural numbers
that TLC cannot enumerate: there the properties it implies were checked.

| module | theorem | statement |
|---|---|---|
| `QDLockProofs` | `TypeCorrect` | `Spec => []TypeOK`; in particular no slot outside the array is claimed or read |
| | `Exclusion` | `Spec => []MutualExclusion` |
| | `SlotsAreAccounted` | `Spec => []QueueInv` |
| | `SealedWhenFree` | `Spec => []UnlockedQueueIsSealed` |
| | `RunsInOrder` | `HSpec => []RunInOrder` |
| | `NothingLeftBehind` | `HSpec => []AllAcceptedHaveRun` |
| | `SeesItsDelegations` | `HSpec => []OwnDelegationsPrecede` |
| | `AcceptsOnce` | `HSpec => []HistoryInv`, of which `AcceptedOnce` is the part that makes "once" mean something: a call is accepted at most once, and not before it is made |
| | `Implements` | `HSpec => ImplementsDelegation` |
| `MRQDLockProofs` | `TypeCorrect` | `Spec => []TypeOK` |
| | `Exclusion` | `Spec => []MutualExclusion` |
| | `ReadersAndWriters` | `Spec => []ReadersExcludeWriters` |
| | `BarrierCounted` | `Spec => []BarrierCountsImpatient` |
| | `Quiescence` | `Spec => []QuiescentIsClean` |
| | `RunsInOrder`, `NothingLeftBehind`, `SeesItsDelegations`, `Implements` | as for the QD lock, with readers |
| `WPRWLockProofs` | `TypeCorrect` | `Spec => []TypeOK` |
| | `Exclusion` | `Spec => []WritersExcludeAll` |
| `CohortLockProofs` | `TypeCorrect` | `Spec => []TypeOK` |
| | `Exclusion` | `Spec => []MutualExclusion` |
| | `TakerExists` | `Spec => []HandOverHasTaker` |
| `MutexesProofs` | `Invariant` | `Spec => []IInv` |
| | `TypeCorrect` | `Spec => []TypeOK` |
| | `Exclusion` | `Spec => []MutualExclusion` |
| | `HandOverReachesWaiter` | `Spec => []PassReachesWaiter` |
| | `NoLostWakeUp` | `Spec => []NobodySleepsForEver` |
| | `Implements` | `Spec => Promise!Spec`: the queue locks implement `FIFOLock` without its fairness |
| `CombiningProofs` | `Invariant` | `Spec => []IInv` |
| | `Exclusion` | `Spec => []OneCombiner` |
| | `NothingLeftBehind` | `Spec => []IssuedHaveRun` |
| | `Implements` | `Spec => ImplementsSharedHeap`, for each of the six builds |
| `NodeLocksProofs` | `Invariant` | `NodeSpec => []IInv` |
| | `Exclusion` | `NodeSpec => []MutualExclusion` |
| | `ReaderExclusion` | `NodeSpec => []ReadersExcludeWriters` |
| | `StaysInside` | `NodeSpec => []FlushStaysInside` |
| | `NothingIsOwed` | `NodeSpec => []FreeLockOwesNothing`, if `"newrep_variable" \notin Builds` |
| | `OwnOrder` | `NodeSpec => []OwnOperationsInOrder`, if `"newrep_variable" \notin Builds` |

`DXLockProofs` holds lemmas for two of these, and the lemmas about the readers stand both
in `MRQDLockProofs` and in `WPRWLockProofs`, whose specifications cannot be extended together. What a step of
each specification does to the variables of a component is a lemma, too
(`StepIsDXStep`, `StepOfReaders`, `MCSLockSteps`), so that a component's
invariant is proved once and not for every lock that uses it.

### The assumptions

| assumptions | what they say | why the code satisfies them |
|---|---|---|
| `CapacityAssumption`, `OfferTriesAssumption`, `MaxCallsAssumption` | the array, the tries and the clients' calls are not none | the code's constants are 4048 and 7; calls are a bound of the model |
| `NoOpAssumption`, `NullAssumption` | the mark of an empty slot is not an operation, `NULL` is not a thread or a thread's node | pointers |
| `KindsAssumption` (one in each module) | threads make only calls the model has | |
| `GroupsAssumption`, `ThreadsAssumption` | there is a reader group, threads are numbered | `NUMBER_OF_READER_GROUPS` is the number of cores; the thread identifier chooses the group |
| `PatienceAssumption`, `HandOversAssumption` | the limits are natural numbers | 130000 and 64 |
| `NodeTicketsAssumption` | more tickets than threads in a node's lock | 2^32 |
| `ArraySizeAssumption` | the number of threads is finite and the tickets suffice: their range is a multiple of `ARRAY_SIZE` and exceeds threads and elements together | 2^31; it is a multiple of `ARRAY_SIZE` if that is a power of two, see below |
| `TicketLimitAssumption` | some ticket can be drawn | a bound of the model: it ends before `ticket` wraps |
| `DequeueAssumption` | `DEQUEUE` is less than any answer, also as flat combining writes it | it is `INT_MIN` |
| `NodesAssumption`, `ClustersAssumption`, `FlagsAssumption` | nodes of threads, nodes of lists, contexts and the marks `NULL`, `FREE`, `LOCKED` are different things; there is a list | addresses of objects, and 0 and 1 |
| `RingAssumption`, `HelpAssumption` | a ring has a context, a combiner helps at least once | 4096 |
| `BuildsAssumption` | builds are among those of the module | |

In the array ticket lock a ticket that wraps to 0 must not meet an old ticket in
the same element. If the range is not a multiple of `ARRAY_SIZE` the element after the
wrap is another than the next one; the code then goes wrong after 2^31
acquisitions anyway, as the index becomes negative (hazard at `aticket_lock.c:40`).

### The queue-delegation locks

`MutualExclusion` is inductive with the types of `pc` and `lockWord` alone: a step
either leaves its thread on the same side of `HolderLabels` and the lock word alone, or
takes a free lock, or releases it. `UnlockedQueueIsSealed` is not inductive: to
know that the queue is empty when the lock is released one must know what the
flush has done. The invariant is

    IInv == TypeOK /\ MutualExclusion /\ LocalsOK /\ SlotsOK /\ KindsOK

`SlotsOK` says: as long as nobody is between the first step of a reset and the end
of a flush the queue is sealed (count past the end, no request, no claim);
and while thread `h` is there, the slots with a request or a claim lie between
the flusher's `current` and the limit, which is the count until the flusher has
fixed the end and the flusher's end afterwards; a claimed slot belongs to one
offer. The exchange of the count is the step where this could fail: it succeeds
as an end only because what it returns, not what was loaded before, becomes
the limit. The reset opens the queue with nothing in it because it was sealed;
`FlushReturns` leaves it sealed because the limit equals `current`. `DXStep` in
`DXLockProofs` lists what a step of either lock can be to the queue: neutral,
taking or releasing the lock, and one for each action that touches count, slots, claims or the
flusher's locals.

The history properties follow from `HistoryInv`. `Owed` is what makes
`RunInOrder` inductive: the operations that are accepted and have not run are the
holder's own, if it came to help, and then those in the slots from the first that has not
run, in the order of `accepted` (`Start`, `Ran` and `Limit` give the place in
`accepted` of each slot; a claimed slot that is not yet written has its place
reserved). `OwnHaveRun` says why a thread sees its delegations: it enters only with
`log = accepted`, and while it is inside it delegates nothing. `AcceptedOnce` makes
it impossible that "each once" is met by accepting a call twice. It also says that a
thread's operations are accepted in the order of its calls; a thread with its answer
(`ResponsesOK`: the operation of this call has run) has therefore nothing left to run.

`Implements` maps each step. Winning the lock word in order to help, and claiming a
slot, is `Accept`; running an operation is `Execute`; the other steps are `Call`,
`Acquire`, `Enter`, `Release`, `StartRead`, `Return` or a stutter. That `Execute`
is allowed needs `Owed` (the operation that runs is the next accepted one) and
exclusion (nobody holds the lock or reads); `Acquire` and `StartRead` need `log = accepted`.

### The multi-reader lock and the writer-preference lock

A counter of the read indicator is the cardinality of the set of threads that
have arrived there, and the barrier that of those that have raised it (`CountsOK`; the
sets are finite as part of the invariant, the set of threads need not be). The
writer's walk over the groups is not atomic. `WaitIsProgress` says
what it has achieved so far: a reader inside belongs to a group the walk has not
passed. A reader that arrives behind the walk finds the lock word set and departs. So
the walk ends with nobody inside.

In `WPRWLock` a writer may get the lock from another and not look at the readers.
`NoReadersPast` therefore speaks of each writer that need not look any more
(`Past`): one behind its walk, and one whose node has been unlocked by such a writer.
That the lock is given to one writer at a time is the invariant of the MCS queue,
`\E q \in Seq(Threads) : QueueIs(q)`. The sequence is not a variable: the nodes of the
threads in `q` are linked but for those that have not stored the link yet,
the first is or may go inside, the last is what `endOfQueue` names. `Unlock` with no
successor in sight may find, at its compare-and-swap, that a thread is linking itself; that
thread is the second of `q`, and the holder waits for it.

### The cohort lock

Each node has a queue of tickets, a sequence again, whose head may go inside; the
heads of those nodes which have not been handed the global lock wait for it
in a sequence `w` in the order of their tickets. Tickets are numbers modulo a range, and
the lemmas on remainders are about exactly this: two tickets at distance less than
the range differ (`ModSame`), and the element a ticket selects is the remainder of the
true ticket (`ModOfMod`). `SpinAreasOK` says which old tickets the elements may
still show. A thread that finds its ticket in its element is the first in `w` because of it.
`OneOwner` says that at most one thread is at a label of the holder or one node has the
lock in hand between two of its threads. `HandOverHasTaker`: a node keeps the
lock only if its local queue has a second thread, and that one cannot leave the queue.

### The mutexes

`IInv` in `Mutexes` has a part for each family.

The futex locks: the word is free exactly if nobody is inside, and while
somebody sleeps the word says so or somebody is about to wake one (`FutexOK`).

`mcs_lock.c` and the two MCS locks of the C++ library have the same queue, and
their steps are seven *node steps* over the *stage* of a thread (`Stage`): stay,
swap, link, enter, look, empty, pass. The queue of nodes (`NodeQueueIs`)
and that it is what the history `arrivals` lists (`ArrivalsAre`) are proved for
the node steps, and then each action is shown to be one. What is particular to the
sleeping one is `NodeSleepersOK`: who will wake each sleeper. A thread asleep in `lock` with
a locked node has marked the node, so that its predecessor will wake it; with an
unlocked one somebody is about to. A thread asleep in `try_lock_or_wait` has left its flag
in the tail pointer. The compare-and-swap with which `lock` queues keeps that flag, and
the one with which `unlock` empties the queue wakes whoever left it: these are the steps
where a wake-up could be lost.

The ticket lock: the threads with a place hold the tickets from `serving` on, in the
order of `arrivals`; sleepers have left a flag in `serving` or somebody wakes
all (`TicketSleepersOK`). The exception of `NobodySleepsForEver`, `try_lock_or_wait` on
a state loaded too early, is where no such invariant holds.

The refinement of `FIFOLock` is part of the same lemmas: each shows that its step
is one of `Promise` or a stutter. `FIFOLock` lets only the first of its queue leave,
so that `arrivals` is a queue and not only an order of entry.

### The combining locks

`IInv` in `CombiningProofs` has a part about the clients and the heap and a part for
each algorithm.

Each step of a thread is shown to be a `ClientStep`: a call, the run of the *oldest* pending operation
of some thread, a return after its operations have run (or before, where the build lets an enqueue do so) with
the answer of its own dequeue, or a step that the clients cannot see. These four are
what `SharedHeap` allows, and the three theorems follow. What an algorithm has to
know for it is whose operation a node, a slot or a context holds, that it is
that thread's oldest, and that the answer it takes away is to its own operation. That
a dequeue finds the smallest value needs that a set of numbers has a least
element, which is where the order on the natural numbers being well-founded is used.

- **CLH** (`CLHOK`). Nodes change owners: a thread leaves its own behind and takes that
  of its predecessor. No two threads have the same node or predecessor, and of two threads
  in the queue at least one has a locked predecessor.
- **CC-Synch, H-Synch** (`SynchOK`). Each node is the tail of a list or belongs to one thread, whether
  posted or spare (`NodesOK`). A thread is listed from the exchange of the tail until
  its operation has run and it no longer needs its node as a place in the list; the node it links
  to is locked and has no other predecessor (`ListOK`). The head of a list is its one
  node that is not locked or has a combiner (`CombinersOK`): with one list there is
  one, so that there is one combiner; with several the CLH lock over the clusters
  sees to it. A combiner that reaches its limit hands the role to the next node by unlocking it.
- **Oyama** (`OyamaOK`). Every context inserted gets a position, the threads' operations
  are numbered, and both numberings are existentially quantified: at any time the positions from `lo` to `a` are those the
  holder is reversing, from `a` to `b` its batch in the order in which it will
  run, from `b` to `hi` the list at the lock word, newest first. `OwedOK` says that the operations from
  position `s` on (that is `lo`, or one more while the context of the last one run is given back) are
  exactly the pending operations of all threads, in the order of the calls of each. So
  the context at `s` holds the oldest operation of its thread. A context
  cannot be listed twice, for it is not free until it has been given back.
- **Flat combining** (`FlatOK`). A request is in its slot and has not run, or has run and
  its answer is in the slot, or it is the one the combiner has run and not yet answered. A thread that
  leaves by way of its own round finds its slot answered, since its request is either
  behind it or in what is left of its scan.

### The family of delegation locks

Here the code of a thread is data: `code[t]` is what is left of its call, and the builds differ
in tables of such sequences. So the invariant is about sequences of labels. `Pair(c, a, r)` says
that in `c` each `a`, which takes something, has an `r` behind it that releases it and that there is one
`r`; `Holds(c, a, r)`, that the `r` is left and the `a` is not: then the thread holds it.
`MutexTables` and `LinedTables` show for each build that its table keeps these rules. The steps are then
proved once for all builds: a step either drops the head of the sequence, or puts a label in front of it that
takes nothing, or chooses another sequence of the table when nothing is held.

- `MutexOK`, the builds over mutexes: who holds a mutex, the global lock or the flag by its
  code is its owner, and what is done inside (`Guarded`) stands between taking and releasing the outermost
  of them (`Gate`). A thread past its gate that has no `readers` left has seen the indicator empty
  (`Past`), and a reader goes on to read only if it has found the gate free after it arrived.
- `LinedOK`, the builds where threads queue or post at nodes of their own (`sdw`, `aer`, `fcrdx`, `afdx`): the threads in
  `line` are exactly those that have the way out of it left but not the way in; all but the first
  have their `turn` to wait for and the readers after it; if the first has waited for the readers
  nobody reads. In `aer` a reader may also spin at the node it found at the tail. It
  reads without being in the indicator, and `SpinnersOK` says why it may: the thread of that node has
  closed it to further readers (`disable`), and has not left the line, since it still has to wait for
  those that spin (`spinners`).
- `FlushStaysInside` needs none of this: `todo` is a count cut off at the size of the array, whatever the
  count has grown to. It needs the bounds of each build's queue (`QueueTables`).

What becomes of delegated operations rests on `QInv`, one invariant for all ways of closing a queue. It is
proved from `QueueFacts`, inequalities between the capacity, the count a flush closes at,
the sizes of the operations and the indices that may be marked, which each build's tables meet
(`QueueFactsHold`) except those of `newrep_variable`: there entries of several sizes lie behind marks that stay.

- A thread *serves* a queue while its code has a flush left. Each entry, and each slot that is claimed and not
  yet filled, is `Reached`: it lies below the count and below what the server's flush reads,
  and if the flush has made its last load (`stop`), below what that load said (`EntriesOK`, `WritesOK`). Entries
  that have not run are also `Ahead` of the flush.
- Entries and claims do not overlap (`EntriesApart`, `EntriesWritesApart`, `WritesApart`), so that a flush that adds the
  size of one entry comes to the next and not into the middle of another.
- A queue that nobody serves `Refuses`: no offer fits behind its count (`UnservedOK`). This is the one place
  where exchange, compare-and-swap, flag and count had to be brought to one form. A mark that ends a flush lies
  where no operation fits any more (`MarksOK`).

With nobody to serve it a queue has no entry and no claim, which is `FreeLockOwesNothing`. The order of a
thread's own operations is inductive on top of this; in each case whoever serves a queue has no entry of
its own in it (`NotInOwn`).

- Over a mutex (`MutexOwn`) whoever serves a queue holds the outermost lock of the build, so that only one queue is
  served at a time. A thread that runs its own operation holds that lock: what it
  owed elsewhere has no server and has therefore been run. A thread that delegates owes only to the queue
  that is served, which is the one it delegates to. A reader has found the lock free after it arrived (`NoneOwed`).
- In the line (`LinedOwn`) what a thread owes is at the node it stands at, or delegates to, or at nodes
  before that one (`OwedInLine`). When it has its turn there is none before it, and one that spins at a node
  goes on when the flush there is over.
- In the builds that post (`PostedOK`) a thread owes at most the request in its own slot, and as long
  as that is there its call waits for the answer.

The capacities of the queues are part of the tables (2 to 5 entries): unlike the set of threads
and of nodes, they are fixed in these proofs.

### What stays with TLC

- Liveness, which is out of the prover's reach: `qd_live`, `cohort_live`,
  `combining_live`, `CallsReturn`, `ImpatientReaderGetsIn`, `BarrierFalls`,
  `QueuedWriterGetsIn`, and the fairness of `FIFOLock` in `ImplementsFIFOLock`.
- The build `newrep_variable`, in which `FreeLockOwesNothing` is false ("What the code gets
  wrong"). The two theorems about the queues leave it out; those about exclusion
  and the bounds of a flush hold for it, too.
- `IngressEgressNZI`, where the property is violated.

## What is not modelled

`components` in `PROJECT.json` gives the reason for each part.

- The benchmarks' driver, their sequential data structures, the profiling and
  build scripts have no behaviour of the locks; `thread_identifier.c` is a
  counter, and the models take the identifiers as given. `PR/` is code of
  another project with a model of its own.
- `rdx.hpp` is an earlier C++ form of the multi-reader QD lock, `cohortlock.h` of the
  benchmark a copy of `src/lock/cohort_lock.c`, `qdlock.h.backup` an older
  `qdlock.h`. The condition variable, the locked queue and the pthreads
  wrapper of `qd_library` are in no program.
- `WPRWLock` over the cohort lock, whose `isWriteLocked` is two loads: the model
  is over MCS.
- Several locks at once: the thread-local nodes of the delayed-writes, all-equal
  and cohort locks are shared by all locks of their kind.
- Overflow: the array ticket lock's index is computed from an `int`, which becomes
  negative after 2^31 acquisitions (`aticket_lock.c:40`), and the count of
  `qdlock.h` grows by one with every failed offer to a full queue. The models'
  counters do not get there.
- Moved results, futures and the tables of function pointers in `buffer_queue`.
- Crashes: nothing is persisted, and a thread that dies in a lock keeps it.

## Plan

Modelled and checked: the QD and multi-reader QD locks with their refinements; the
MCS, ticket and cohort locks; the writer-preference lock; the mutexes that
sleep; the family of delegation locks; the ingress-egress indicator; the combining
locks. Proved: the safety part of all of these but the indicator and, of the
family, the queue of `newrep_variable`.

Left, in this order:

1. `WPRWLock` over `CohortLock`; `RHQDLock` with the steps of its MCS lock and read
   indicator; nested locks with shared nodes.
2. The queues of the family with their capacities as constants; so far these are part of the tables.
