------------------------------- MODULE PageRun -------------------------------
(***************************************************************************)
(* The per-page phase of hankpdf.compress(), from the first submitted page *)
(* to the returned bytes.  The parent submits one job per selected page to *)
(* an executor, consumes the futures and merges the pages in ascending     *)
(* order.  In a process pool the workers share an abort event with an RSS  *)
(* watchdog thread of the parent, and may die; HANKPDF_POOL=thread runs    *)
(* the pages on threads of the parent; the serial path runs them one by    *)
(* one on a single thread.                                                 *)
(*                                                                         *)
(* A job is known by its slot, its position in `winputs`.  The steps of a  *)
(* worker on a page are delimited by its cooperative abort checks.         *)
(***************************************************************************)
EXTENDS Naturals, Sequences

CONSTANTS
  Selected,   (* `_selected_indices`: ascending 0-based page indices       *)
  Verbatim,   (* slots whose page the gate did not find MRC-worthy         *)
  Workers,    (* worker processes (or threads) the executor may start      *)
  Modes,      (* executors to consider, a subset of ModeKinds              *)
  BootWarns,  (* whether _init_worker may leave a boot warning             *)
  None        (* stands for "no worker" and for "no bytes yet"             *)

(***************************************************************************)
(* "capped": process pool with mem_cap > 0; "uncapped": process pool with  *)
(* max_worker_memory_mb = 0, hence neither cap nor watchdog; "thread":     *)
(* HANKPDF_POOL=thread; "serial": the path without a pool.                 *)
(***************************************************************************)
ModeKinds == {"capped", "uncapped", "thread", "serial"}

Slots == 1..Len(Selected)
Pages == {Selected[k] : k \in Slots}

(* A pool is used from _PARALLEL_MIN_PAGES pages on; the indices come from *)
(* sorted() or range(), so they ascend.                                    *)
ParallelMinPages == 4

ASSUME RunAssumption ==
  /\ Selected \in Seq(Nat)
  /\ Len(Selected) >= 1
  /\ \A i, j \in Slots : i < j => Selected[i] < Selected[j]
  /\ Verbatim \subseteq Slots
  /\ Modes \subseteq ModeKinds
  /\ Len(Selected) < ParallelMinPages => Modes \subseteq {"serial"}
  /\ BootWarns \subseteq BOOLEAN
  /\ None \notin Workers
  /\ None \notin Nat

Errors == {"MemoryCapExceededError", "CompressError", "BrokenProcessPool",
           "PerPageTimeoutError", "TotalTimeoutError"}

FailedStates == {"capError", "pageError", "memoryError", "otherError", "broken"}
DoneStates == {"returned", "cancelled"} \union FailedStates
FutureStates == {"new", "queued", "running"} \union DoneStates
ExitCodes == {"killed", "crashed", "terminated", "exited"}

VARIABLES
  mode,       (* which executor this run uses                              *)
  parent,     (* control point of the parent in compress()                 *)
  error,      (* exception in flight or raised, "none" if there is none    *)
  fut,        (* state of each slot's future                               *)
  rides,      (* worker whose boot warning the slot's result carries       *)
  consumed,   (* slots yielded by as_completed and merged by the parent    *)
  merged,     (* page_pdfs_by_index: whose bytes each page index holds     *)
  reported,   (* boot warnings in warnings_list, counted per worker        *)
  output,     (* pages of the returned PDF                                 *)
  laggards,   (* slots PerPageTimeoutError names as still pending          *)
  table,      (* executor._processes is a dict; shutdown() makes it None   *)
  broken,     (* the executor is marked broken                             *)
  wpc,        (* control point of each worker                              *)
  job,        (* slot of the job a worker holds, None if it holds none     *)
  exit,       (* exit code of each worker process, "running" if none       *)
  bootWarn,   (* _init_worker stashed a boot warning                       *)
  drained,    (* _WORKER_BOOT_WARNINGS_DRAINED                             *)
  over,       (* the worker's RSS is above mem_cap                         *)
  abort,      (* the shared abort event is set                             *)
  watchdog,   (* "off", "polling", "stopped" or "died"                     *)
  anyCap,     (* _WatchdogState.any_cap_exceeded                           *)
  seen,       (* _WatchdogState.exitcodes                                  *)
  capHit,     (* history: some worker ran into its memory cap              *)
  late        (* history: results each worker returned after the abort     *)

runVars    == <<consumed, merged, reported, output, laggards>>
workerVars == <<wpc, job, exit, bootWarn, drained, over>>
watchVars  == <<abort, watchdog, anyCap, seen>>
vars == <<mode, parent, error, fut, rides, runVars, table, broken, workerVars,
          watchVars, capHit, late>>

Init ==
  /\ mode \in Modes
  /\ parent = "submit"
  /\ error = "none"
  /\ fut = [k \in Slots |-> "new"]
  /\ rides = [k \in Slots |-> None]
  /\ consumed = {}
  /\ merged = [p \in Pages |-> None]
  /\ reported = [w \in Workers |-> 0]
  /\ output = <<>>
  /\ laggards = {}
  /\ table = TRUE
  /\ broken = FALSE
  /\ wpc = [w \in Workers |-> "down"]
  /\ job = [w \in Workers |-> None]
  /\ exit = [w \in Workers |-> "running"]
  /\ bootWarn = [w \in Workers |-> FALSE]
  /\ drained = [w \in Workers |-> FALSE]
  /\ over = [w \in Workers |-> FALSE]
  /\ abort = FALSE
  /\ watchdog = IF mode = "capped" THEN "polling" ELSE "off"
  /\ anyCap = FALSE
  /\ seen = [w \in Workers |-> "unset"]
  /\ capHit = FALSE
  /\ late = [w \in Workers |-> 0]

Process == mode \in {"capped", "uncapped"}
Running == parent # "done"
Busy(w) == wpc[w] \in {"start", "work", "leaving"}

(* Once a process pool has been left, what its workers still do reaches     *)
(* nobody; the threads of a thread pool are still joined.                   *)
Observed == parent \in {"submit", "collect"} \/ (Running /\ ~Process)
Alive(w) == wpc[w] # "down" /\ exit[w] = "running"

-----------------------------------------------------------------------------
(* Executor: worker start, death and the manager thread (concurrent.futures)*)

(* A worker is spawned on demand, one only on the serial path, and in a     *)
(* process pool runs _init_worker, which leaves a boot warning when the     *)
(* platform rejects the memory cap.                                         *)
BootWorker(w) ==
  /\ mode = "serial" => \A v \in Workers : wpc[v] = "down"
  /\ parent \in {"submit", "collect"}
  /\ table /\ ~broken
  /\ wpc[w] = "down"
  /\ \E k \in Slots : fut[k] = "queued"
  /\ wpc' = [wpc EXCEPT ![w] = "idle"]
  /\ \E warn \in IF mode = "capped" THEN BootWarns ELSE {FALSE} :
       bootWarn' = [bootWarn EXCEPT ![w] = warn]
  /\ UNCHANGED <<mode, parent, error, fut, rides, runVars, table, broken, job,
                 exit, drained, over, watchVars, capHit, late>>

(* Jobs are handed out in submission order. *)
TakeJob(w) ==
  /\ Observed
  /\ wpc[w] = "idle"
  /\ ~broken
  /\ \E k \in Slots :
       /\ fut[k] = "queued"
       /\ \A j \in Slots : j < k => fut[j] # "queued"
       /\ fut' = [fut EXCEPT ![k] = "running"]
       /\ job' = [job EXCEPT ![w] = k]
  /\ wpc' = [wpc EXCEPT ![w] = "start"]
  /\ UNCHANGED <<mode, parent, error, rides, runVars, table, broken, exit,
                 bootWarn, drained, over, watchVars, capHit, late>>

(* A worker process dies: the kernel kills it for its memory, or native    *)
(* code crashes.                                                           *)
Die(w, code) ==
  /\ Observed /\ Process
  /\ exit' = [exit EXCEPT ![w] = code]
  /\ wpc' = [wpc EXCEPT ![w] = "gone"]
  /\ job' = [job EXCEPT ![w] = None]
  /\ over' = [over EXCEPT ![w] = FALSE]
  /\ UNCHANGED <<mode, parent, error, fut, rides, runVars, table, broken,
                 bootWarn, drained, watchVars, late>>

KernelKill(w) == wpc[w] = "work" /\ Die(w, "killed") /\ capHit' = TRUE
Crash(w)      == wpc[w] = "work" /\ Die(w, "crashed") /\ UNCHANGED capHit

(* The executor's manager thread notices a dead worker: every submitted    *)
(* future that is not done gets BrokenProcessPool.                         *)
BreakPool ==
  /\ Observed
  /\ table /\ ~broken
  /\ \E w \in Workers : exit[w] \in {"killed", "crashed"}
  /\ broken' = TRUE
  /\ fut' = [k \in Slots |-> IF fut[k] \in {"queued", "running"}
                             THEN "broken" ELSE fut[k]]
  /\ UNCHANGED <<mode, parent, error, rides, runVars, table, workerVars,
                 watchVars, capHit, late>>

(* ... and then terminates the remaining workers. *)
TerminateWorker(w) ==
  /\ Running
  /\ broken
  /\ Alive(w)
  /\ exit' = [exit EXCEPT ![w] = "terminated"]
  /\ wpc' = [wpc EXCEPT ![w] = "gone"]
  /\ job' = [job EXCEPT ![w] = None]
  /\ over' = [over EXCEPT ![w] = FALSE]
  /\ UNCHANGED <<mode, parent, error, fut, rides, runVars, table, broken,
                 bootWarn, drained, watchVars, capHit, late>>

-----------------------------------------------------------------------------
(* Worker: _process_single_page, cut at its check_abort() calls             *)

(* The future of w's job takes its final state, unless the manager already *)
(* broke it, and w is free again.                                          *)
Resolve(w, state) ==
  /\ fut' = [fut EXCEPT ![job[w]] = IF @ = "running" THEN state ELSE @]
  /\ wpc' = [wpc EXCEPT ![w] = "idle"]
  /\ job' = [job EXCEPT ![w] = None]
  /\ over' = [over EXCEPT ![w] = FALSE]

(* check_abort(): the shared event is only ever set in a capped pool. *)
NoEntryCheck(w) == abort /\ job[w] \notin Verbatim
AbortSeen(w) == abort

(* The per-worker flag that keeps boot warnings to the first page. *)
DrainNotRecorded(w) == drained[w]
AfterDrain(w) == TRUE

(* Entry: check_abort(), then drain the boot warnings.  A verbatim page has *)
(* no further check and returns its input slice at once.                    *)
EnterPage(w) ==
  /\ Observed
  /\ wpc[w] = "start"
  /\ ~AbortSeen(w)
  /\ rides' = [rides EXCEPT ![job[w]] = IF bootWarn[w] /\ ~drained[w]
                                        THEN w ELSE None]
  /\ drained' = [drained EXCEPT ![w] = AfterDrain(w)]
  /\ wpc' = [wpc EXCEPT ![w] = IF job[w] \in Verbatim THEN "leaving" ELSE "work"]
  /\ UNCHANGED <<mode, parent, error, fut, runVars, table, broken, job, exit,
                 bootWarn, over, watchVars, capHit, late>>

(* The last check_abort() lets the result through. *)
PassLastCheck(w) ==
  /\ Observed
  /\ wpc[w] = "work"
  /\ ~abort
  /\ wpc' = [wpc EXCEPT ![w] = "leaving"]
  /\ UNCHANGED <<mode, parent, error, fut, rides, runVars, table, broken, job,
                 exit, bootWarn, drained, over, watchVars, capHit, late>>

(* Any check_abort() on the way raises MemoryCapExceededError. *)
AbortPage(w) ==
  /\ Observed
  /\ \/ wpc[w] = "start" /\ AbortSeen(w)
     \/ wpc[w] = "work" /\ abort
  /\ Resolve(w, "capError")
  /\ UNCHANGED <<mode, parent, error, rides, runVars, table, broken, exit,
                 bootWarn, drained, watchVars, capHit, late>>

(* The page fails with a CompressError or an AssertionError ("pageError")  *)
(* or with any other exception ("otherError").                             *)
FailPage(w) ==
  /\ Observed
  /\ wpc[w] = "work"
  /\ \E state \in {"pageError", "otherError"} : Resolve(w, state)
  /\ UNCHANGED <<mode, parent, error, rides, runVars, table, broken, exit,
                 bootWarn, drained, watchVars, capHit, late>>

(* RLIMIT_AS refuses an allocation: the page raises MemoryError. *)
FailAllocation(w) ==
  /\ Observed
  /\ mode = "capped"
  /\ wpc[w] = "work"
  /\ Resolve(w, "memoryError")
  /\ capHit' = TRUE
  /\ UNCHANGED <<mode, parent, error, rides, runVars, table, broken, exit,
                 bootWarn, drained, watchVars, late>>

(* The result reaches the parent's future. *)
ReturnPage(w) ==
  /\ Observed
  /\ wpc[w] = "leaving"
  /\ Resolve(w, "returned")
  /\ late' = [late EXCEPT ![w] = IF abort THEN @ + 1 ELSE @]
  /\ UNCHANGED <<mode, parent, error, rides, runVars, table, broken, exit,
                 bootWarn, drained, watchVars, capHit>>

(* The raster work of a page pushes the worker's RSS over the cap. *)
ExceedCap(w) ==
  /\ Observed
  /\ mode = "capped"
  /\ wpc[w] = "work" /\ ~over[w]
  /\ over' = [over EXCEPT ![w] = TRUE]
  /\ capHit' = TRUE
  /\ UNCHANGED <<mode, parent, error, fut, rides, runVars, table, broken, wpc,
                 job, exit, bootWarn, drained, watchVars, late>>

-----------------------------------------------------------------------------
(* Watchdog: _start_rss_watchdog's loop, one worker per step                *)

(* A recorded exit code is kept: the placeholder the loop may overwrite is *)
(* never stored, since no entry leaves the process table one by one.       *)
PollWorker(w) ==
  /\ Running
  /\ watchdog = "polling"
  /\ table
  /\ wpc[w] # "down"
  /\ seen' = [seen EXCEPT ![w] = IF @ = "unset" /\ exit[w] # "running"
                                 THEN exit[w] ELSE @]
  /\ abort' = (abort \/ over[w])
  /\ anyCap' = (anyCap \/ over[w])
  /\ UNCHANGED <<mode, parent, error, fut, rides, runVars, table, broken,
                 workerVars, watchdog, capHit, late>>

(* After shutdown() the process table is None, and copying it raises. *)
PollWithoutTable ==
  /\ Running
  /\ watchdog = "polling"
  /\ ~table
  /\ watchdog' = "died"
  /\ UNCHANGED <<mode, parent, error, fut, rides, runVars, table, broken,
                 workerVars, abort, anyCap, seen, capHit, late>>

-----------------------------------------------------------------------------
(* Parent: compress() from the first submit to the returned bytes           *)

(* Raise e out of the collection loop.  Every handler there first calls     *)
(* ex.shutdown(wait=False, cancel_futures=True); a job already handed to a  *)
(* worker runs on, but nobody reads its future.                             *)
ShutdownAndRaise(e) ==
  /\ error' = e
  /\ parent' = "finally"
  /\ table' = FALSE
  /\ fut' = [k \in Slots |-> IF fut[k] = "queued" THEN "cancelled" ELSE fut[k]]

(* ex.submit() for the next slot; the serial path waits for it before the   *)
(* next.                                                                    *)
SubmitPage ==
  /\ parent = "submit"
  /\ ~broken
  /\ \E k \in Slots :
       /\ fut[k] = "new"
       /\ \A j \in Slots : j < k => fut[j] # "new"
       /\ fut' = [fut EXCEPT ![k] = "queued"]
       /\ parent' = IF mode = "serial" \/ k = Len(Selected) THEN "collect"
                                                           ELSE "submit"
  /\ UNCHANGED <<mode, error, rides, runVars, table, broken, workerVars,
                 watchVars, capHit, late>>

(* ex.submit() on a broken executor raises; no handler encloses it. *)
SubmitToBrokenPool ==
  /\ parent = "submit"
  /\ broken
  /\ error' = "BrokenProcessPool"
  /\ parent' = "finally"
  /\ UNCHANGED <<mode, fut, rides, runVars, table, broken, workerVars,
                 watchVars, capHit, late>>

(* _merge_result stores a result under the page index it carries. *)
KeyByFirstFree(k) ==
  CHOOSE p \in Pages : merged[p] = None /\ \A q \in Pages : merged[q] = None => p <= q
MergeKey(k) == Selected[k]

CollectResult(k) ==
  /\ parent = "collect"
  /\ k \notin consumed
  /\ fut[k] = "returned"
  /\ consumed' = consumed \union {k}
  /\ merged' = [merged EXCEPT ![MergeKey(k)] = Selected[k]]
  /\ reported' = [w \in Workers |-> IF rides[k] = w THEN reported[w] + 1
                                    ELSE reported[w]]
  /\ parent' = IF mode = "serial" /\ k # Len(Selected) THEN "submit" ELSE parent
  /\ UNCHANGED <<mode, error, fut, rides, output, laggards, table,
                 broken, workerVars, watchVars, capHit, late>>

(* fut.result() raises what the page raised: CompressErrors and assertion  *)
(* failures as they are, anything else wrapped in CompressError.           *)
CollectFailure(k) ==
  /\ parent = "collect"
  /\ k \notin consumed
  /\ \/ fut[k] = "capError" /\ ShutdownAndRaise("MemoryCapExceededError")
     \/ fut[k] \in {"pageError", "memoryError", "otherError"}
        /\ ShutdownAndRaise("CompressError")
  /\ UNCHANGED <<mode, rides, runVars, broken, workerVars, watchVars, capHit, late>>

(* The exit codes known after the handler has drained the process table. *)
NoDrain == seen
DrainUnchecked ==
  [w \in Workers |-> IF wpc[w] # "down" THEN exit[w] ELSE seen[w]]
DrainExitCodes ==
  [w \in Workers |-> IF exit[w] # "running" THEN exit[w] ELSE seen[w]]

(* _classify_worker_death over the codes in `codes`. *)
AnyDeathIsCap(codes) == anyCap \/ \E w \in Workers : codes[w] # "unset"
DiedOfCap(codes) == anyCap \/ \E w \in Workers : codes[w] = "killed"

CollectBroken(k) ==
  /\ parent = "collect"
  /\ k \notin consumed
  /\ fut[k] = "broken"
  /\ seen' = DrainExitCodes
  /\ IF DiedOfCap(DrainExitCodes)
     THEN ShutdownAndRaise("MemoryCapExceededError")
     ELSE ShutdownAndRaise("BrokenProcessPool")
  /\ UNCHANGED <<mode, rides, runVars, broken, workerVars, abort, watchdog,
                 anyCap, capHit, late>>

(* as_completed() finds its budget spent while some future is not yet       *)
(* yielded.  The handler cancels what is queued and then lists what is not  *)
(* done: a process pool's manager thread cancels while the list is made, a  *)
(* thread pool has cancelled before.  On the serial path future.result()    *)
(* gives up on the one page submitted.                                      *)
Pending == {k \in Slots : fut[k] \in {"queued", "running"}}
NotCancellable == {k \in Slots : fut[k] = "running"}
Listed ==
  CASE mode = "serial" -> {Pending}
    [] mode = "thread" -> {NotCancellable}
    [] OTHER -> {l \in SUBSET Pending : NotCancellable \subseteq l}

TimeOutPages ==
  /\ parent = "collect"
  /\ consumed # Slots
  /\ mode = "serial" => Pending # {}
  /\ laggards' \in Listed
  /\ ShutdownAndRaise("PerPageTimeoutError")
  /\ UNCHANGED <<mode, rides, consumed, merged, reported, output, broken,
                 workerVars, watchVars, capHit, late>>

(* as_completed() is exhausted. *)
SomeYielded == consumed # {}
AllYielded == consumed = Slots

EndCollection ==
  /\ parent = "collect"
  /\ AllYielded
  /\ parent' = "finally"
  /\ UNCHANGED <<mode, error, fut, rides, runVars, table, broken, workerVars,
                 watchVars, capHit, late>>

(* The finally block stops the watchdog before the executor is torn down. *)
WatchdogLeftRunning == watchdog
StoppedWatchdog == IF watchdog = "polling" THEN "stopped" ELSE watchdog

StopWatchdog ==
  /\ parent = "finally"
  /\ watchdog' = StoppedWatchdog
  /\ parent' = "exit"
  /\ UNCHANGED <<mode, error, fut, rides, runVars, table, broken, workerVars,
                 abort, anyCap, seen, capHit, late>>

(* Executor.__exit__ is shutdown(wait=True).  A process pool that was shut  *)
(* down before no longer knows its manager thread and does not wait; a      *)
(* thread pool, the one-thread pool of the serial path included, always     *)
(* joins its threads.                                                       *)
ExitJoinsWorkers == \A w \in Workers : ~Busy(w)
ExitReady == (Process /\ ~table) \/ \A w \in Workers : ~Busy(w)

LeaveExecutor ==
  /\ parent = "exit"
  /\ ExitReady
  /\ parent' = IF error = "none" THEN "merge" ELSE "done"
  /\ table' = FALSE
  /\ exit' = [w \in Workers |-> IF wpc[w] = "idle" THEN "exited" ELSE exit[w]]
  /\ wpc' = [w \in Workers |-> IF wpc[w] = "idle" THEN "gone" ELSE wpc[w]]
  /\ UNCHANGED <<mode, error, fut, rides, runVars, broken, job, bootWarn,
                 drained, over, watchVars, capHit, late>>

(* Both total-timeout checks passed: merge in ascending order, return. *)
MergePages ==
  /\ parent = "merge"
  /\ output' = [k \in Slots |-> merged[Selected[k]]]
  /\ parent' = "done"
  /\ UNCHANGED <<mode, error, fut, rides, consumed, merged, reported, laggards,
                 table, broken, workerVars, watchVars, capHit, late>>

(* _check_total_timeout("per-page") or ("merge") raises. *)
TimeOutRun ==
  /\ parent = "merge"
  /\ error' = "TotalTimeoutError"
  /\ parent' = "done"
  /\ UNCHANGED <<mode, fut, rides, runVars, table, broken, workerVars,
                 watchVars, capHit, late>>

(* compress() has returned or raised. *)
Finished == ~Running /\ UNCHANGED vars

-----------------------------------------------------------------------------

WorkerStep(w) ==
  \/ BootWorker(w)
  \/ TakeJob(w)
  \/ EnterPage(w)
  \/ PassLastCheck(w)
  \/ AbortPage(w)
  \/ FailPage(w)
  \/ FailAllocation(w)
  \/ ReturnPage(w)
  \/ ExceedCap(w)
  \/ KernelKill(w)
  \/ Crash(w)

CollectStep ==
  \E k \in Slots : CollectResult(k) \/ CollectFailure(k) \/ CollectBroken(k)

ParentStep ==
  \/ SubmitPage
  \/ SubmitToBrokenPool
  \/ CollectStep
  \/ EndCollection
  \/ StopWatchdog
  \/ LeaveExecutor
  \/ MergePages

Next ==
  \/ \E w \in Workers : WorkerStep(w) \/ TerminateWorker(w) \/ PollWorker(w)
  \/ PollWithoutTable
  \/ BreakPool
  \/ ParentStep
  \/ TimeOutPages
  \/ TimeOutRun
  \/ Finished

Spec == Init /\ [][Next]_vars

(* The parent and the clock of as_completed() make progress, and so does   *)
(* the executor's manager thread.  Nothing is assumed of the workers: a    *)
(* page may hang for ever in native code.                                  *)
FairSpec ==
  /\ Spec
  /\ WF_vars(ParentStep)
  /\ WF_vars(TimeOutPages)
  /\ WF_vars(BreakPool)
  /\ \A w \in Workers : WF_vars(TerminateWorker(w))

-----------------------------------------------------------------------------
(* Properties                                                               *)

Outcome == IF Running THEN "running" ELSE IF error = "none" THEN "ok" ELSE error

(* Every variable holds a value of its kind. *)
TypeOK ==
  /\ mode \in Modes
  /\ parent \in {"submit", "collect", "finally", "exit", "merge", "done"}
  /\ error \in Errors \union {"none"}
  /\ fut \in [Slots -> FutureStates]
  /\ rides \in [Slots -> Workers \union {None}]
  /\ consumed \subseteq Slots
  /\ merged \in [Pages -> Pages \union {None}]
  /\ reported \in [Workers -> Nat]
  /\ output \in Seq(Pages \union {None})
  /\ laggards \subseteq Slots
  /\ table \in BOOLEAN
  /\ broken \in BOOLEAN
  /\ wpc \in [Workers -> {"down", "idle", "start", "work", "leaving", "gone"}]
  /\ job \in [Workers -> Slots \union {None}]
  /\ exit \in [Workers -> ExitCodes \union {"running"}]
  /\ bootWarn \in [Workers -> BOOLEAN]
  /\ drained \in [Workers -> BOOLEAN]
  /\ over \in [Workers -> BOOLEAN]
  /\ abort \in BOOLEAN
  /\ watchdog \in {"off", "polling", "stopped", "died"}
  /\ anyCap \in BOOLEAN
  /\ seen \in [Workers -> ExitCodes \union {"unset"}]
  /\ capHit \in BOOLEAN
  /\ late \in [Workers -> Nat]

(* A run that returns delivers each selected page once, in ascending order, *)
(* built from that page's own input, whatever order the pages completed in  *)
(* (_merge_result and the merge loop of compress()).                        *)
OutputFaithful == Outcome = "ok" => output = Selected

(* A run reports MemoryCapExceededError only if some worker really ran into *)
(* its cap: neither the abort event, shared by all workers, nor the exit    *)
(* codes of workers the executor terminated make a page failure, a crash or *)
(* a timeout look like memory pressure.                                     *)
CapBlameJustified == error = "MemoryCapExceededError" => capHit

(* A kernel kill that the collection loop sees as a broken pool is never    *)
(* reported as a plain BrokenProcessPool, even when the worker died faster  *)
(* than the watchdog polls (the drain in the except branch).                *)
KernelKillClassified ==
  [][ (parent = "collect" /\ error' = "BrokenProcessPool")
        => \A w \in Workers : exit[w] # "killed" ]_vars

(* The report of a returning run carries the boot warning of each worker    *)
(* that finished a page exactly once, however many pages it processed       *)
(* (_WORKER_BOOT_WARNINGS_DRAINED).                                         *)
BootWarningOnce ==
  Outcome = "ok" =>
    \A w \in Workers :
      /\ reported[w] <= 1
      /\ bootWarn[w] /\ drained[w] => reported[w] = 1

(* After the watchdog has set the shared event, a worker hands over at most *)
(* the one page that had already passed its last check: the pool drains     *)
(* instead of working through the queue (check_abort at the page entry).    *)
AbortDrains == \A w \in Workers : late[w] <= 1

(* The watchdog thread dies only in a run that already failed, so no        *)
(* report of a returning run carries W-WATCHDOG-DIED by accident of the     *)
(* teardown order.                                                          *)
WatchdogOutlivesRun == watchdog = "died" => error # "none"

(* compress() returns or raises even if every page hangs: the timeout fires *)
(* and the process pool is left without joining the hung workers.           *)
Returns == <>(parent = "done")

(* exceptions.py on MemoryCapExceededError: a worker that ran into the      *)
(* memory cap surfaces as this exception, so that callers can tell memory   *)
(* pressure from a crash.  Here: a pool that broke under a kernel kill with *)
(* no crash beside it is not reported as BrokenProcessPool.                 *)
KernelKillSurfaces ==
  error = "BrokenProcessPool" => \E w \in Workers : exit[w] = "crashed"

(* The pool implements the page batch the caller is promised. *)
Batch == INSTANCE PageBatch WITH
           Selections <- {Selected},
           selected <- Selected,
           collected <- {Selected[k] : k \in consumed},
           outcome <- Outcome
ImplementsBatch == Batch!Spec
=============================================================================
