--------------------------- MODULE PageRunProofs ---------------------------
(***************************************************************************)
(* Theorems about PageRun, for every selection of pages, every set of      *)
(* workers and every executor.  Each invariance proof has one step per     *)
(* action; the invariants are strengthened below to inductive ones.        *)
(***************************************************************************)
EXTENDS PageRun, TLAPS

(* Each page index belongs to one slot: the indices ascend. *)
LEMMA SlotsDistinct ==
  ASSUME NEW i \in Slots, NEW j \in Slots, Selected[i] = Selected[j]
  PROVE  i = j
BY RunAssumption DEF Slots

(* What RunAssumption says of slots and page indices. *)
LEMMA SelectedTypes ==
  /\ Len(Selected) \in Nat
  /\ 1 \in Slots /\ Slots \subseteq Nat
  /\ \A k \in Slots : Selected[k] \in Pages /\ Selected[k] \in Nat
  /\ None \notin Pages
BY RunAssumption DEF Slots, Pages

(* Resolving a future keeps the types of what it writes. *)
LEMMA ResolveTypes ==
  ASSUME TypeOK, NEW w \in Workers, NEW state \in FutureStates, Resolve(w, state)
  PROVE  /\ fut' \in [Slots -> FutureStates]
         /\ wpc' \in [Workers -> {"down", "idle", "start", "work", "leaving", "gone"}]
         /\ job' \in [Workers -> Slots \union {None}]
         /\ over' \in [Workers -> BOOLEAN]
<1>1. fut' \in [Slots -> FutureStates]
  <2>1. CASE job[w] \in Slots
    BY <2>1 DEF TypeOK, Resolve
  <2>2. CASE job[w] \notin Slots
    BY <2>2 DEF TypeOK, Resolve
  <2> QED
    BY <2>1, <2>2
<1> QED
  BY <1>1 DEF TypeOK, Resolve

(* The states in which the model leaves a future. *)
LEMMA EndStates ==
  {"returned", "capError", "pageError", "memoryError", "otherError", "broken",
   "cancelled", "queued", "running"} \subseteq FutureStates
BY DEF FutureStates, DoneStates, FailedStates

(* Every variable keeps a value of its kind (PageRun!TypeOK). *)
THEOREM TypeCorrect == Spec => []TypeOK
<1> USE DEF runVars, workerVars, watchVars
<1>1. Init => TypeOK
  <2> SUFFICES ASSUME Init PROVE TypeOK
    OBVIOUS
  <2>1. watchdog \in {"off", "polling", "stopped", "died"}
    BY DEF Init
  <2>2. fut \in [Slots -> FutureStates] /\ output \in Seq(Pages \union {None})
    BY DEF Init, FutureStates
  <2>3. /\ rides \in [Slots -> Workers \union {None}]
        /\ merged \in [Pages -> Pages \union {None}]
        /\ job \in [Workers -> Slots \union {None}]
    BY DEF Init
  <2> QED
    BY <2>1, <2>2, <2>3 DEF Init, TypeOK
<1>2. TypeOK /\ [Next]_vars => TypeOK'
  <2> SUFFICES ASSUME TypeOK, [Next]_vars PROVE TypeOK'
    OBVIOUS
  <2>1. ASSUME NEW w \in Workers, BootWorker(w) PROVE TypeOK'
    <3>1. PICK warn \in BOOLEAN : bootWarn' = [bootWarn EXCEPT ![w] = warn]
      BY <2>1, RunAssumption DEF BootWorker
    <3>2. bootWarn' \in [Workers -> BOOLEAN]
      BY <3>1 DEF TypeOK
    <3> QED
      BY <3>2, <2>1 DEF TypeOK, BootWorker
  <2>2. ASSUME NEW w \in Workers, TakeJob(w) PROVE TypeOK'
    <3>1. fut' \in [Slots -> FutureStates] /\ job' \in [Workers -> Slots \union {None}]
      BY <2>2, EndStates DEF TypeOK, TakeJob
    <3> QED
      BY <3>1, <2>2 DEF TypeOK, TakeJob
  <2>3. ASSUME NEW w \in Workers, EnterPage(w) PROVE TypeOK'
    <3>1. rides' \in [Slots -> Workers \union {None}]
      BY <2>3 DEF TypeOK, EnterPage
    <3>2. drained' \in [Workers -> BOOLEAN]
      BY <2>3 DEF TypeOK, EnterPage, AfterDrain
    <3>3. wpc' \in [Workers -> {"down", "idle", "start", "work", "leaving", "gone"}]
      BY <2>3 DEF TypeOK, EnterPage
    <3> QED
      BY <2>3, <3>1, <3>2, <3>3 DEF TypeOK, EnterPage, runVars, watchVars
  <2>4. ASSUME NEW w \in Workers, PassLastCheck(w) PROVE TypeOK'
    BY <2>4 DEF PassLastCheck, TypeOK
  <2>5. ASSUME NEW w \in Workers, AbortPage(w) PROVE TypeOK'
    <3>1. Resolve(w, "capError")
      BY <2>5 DEF AbortPage
    <3> QED
      BY <3>1, <2>5, ResolveTypes, EndStates DEF TypeOK, AbortPage
  <2>6. ASSUME NEW w \in Workers, FailPage(w) PROVE TypeOK'
    <3>1. PICK state \in {"pageError", "otherError"} : Resolve(w, state)
      BY <2>6 DEF FailPage
    <3> QED
      BY <3>1, <2>6, ResolveTypes, EndStates DEF TypeOK, FailPage
  <2>7. ASSUME NEW w \in Workers, FailAllocation(w) PROVE TypeOK'
    <3>1. Resolve(w, "memoryError")
      BY <2>7 DEF FailAllocation
    <3> QED
      BY <3>1, <2>7, ResolveTypes, EndStates DEF TypeOK, FailAllocation
  <2>8. ASSUME NEW w \in Workers, ReturnPage(w) PROVE TypeOK'
    <3>1. Resolve(w, "returned")
      BY <2>8 DEF ReturnPage
    <3> QED
      BY <3>1, <2>8, ResolveTypes, EndStates DEF TypeOK, ReturnPage
  <2>9. ASSUME NEW w \in Workers, ExceedCap(w) PROVE TypeOK'
    BY <2>9 DEF ExceedCap, TypeOK
  <2>10. ASSUME NEW w \in Workers, KernelKill(w) PROVE TypeOK'
    BY <2>10 DEF KernelKill, Die, ExitCodes, TypeOK
  <2>11. ASSUME NEW w \in Workers, Crash(w) PROVE TypeOK'
    BY <2>11 DEF Crash, Die, ExitCodes, TypeOK
  <2>12. ASSUME NEW w \in Workers, TerminateWorker(w) PROVE TypeOK'
    BY <2>12 DEF TerminateWorker, ExitCodes, TypeOK
  <2>13. ASSUME NEW w \in Workers, PollWorker(w) PROVE TypeOK'
    BY <2>13 DEF TypeOK, PollWorker
  <2>14. ASSUME NEW k \in Slots, CollectResult(k) PROVE TypeOK'
    <3>1. merged' \in [Pages -> Pages \union {None}]
      BY <2>14, SelectedTypes DEF TypeOK, CollectResult, MergeKey
    <3> QED
      BY <3>1, <2>14 DEF TypeOK, CollectResult
  <2>15. ASSUME NEW k \in Slots, CollectFailure(k) PROVE TypeOK'
    <3>1. fut' \in [Slots -> FutureStates]
      BY <2>15, EndStates DEF TypeOK, CollectFailure, ShutdownAndRaise
    <3>2. error' \in Errors /\ parent' = "finally" /\ table' = FALSE
      BY <2>15 DEF CollectFailure, ShutdownAndRaise, Errors
    <3> QED
      BY <3>1, <3>2, <2>15 DEF TypeOK, CollectFailure
  <2>16. ASSUME NEW k \in Slots, CollectBroken(k) PROVE TypeOK'
    <3>1. fut' \in [Slots -> FutureStates]
      BY <2>16, EndStates DEF TypeOK, CollectBroken, ShutdownAndRaise
    <3>2. error' \in Errors /\ parent' = "finally" /\ table' = FALSE
      BY <2>16 DEF CollectBroken, ShutdownAndRaise, Errors
    <3>3. seen' \in [Workers -> ExitCodes \union {"unset"}]
      BY <2>16 DEF TypeOK, CollectBroken, DrainExitCodes
    <3> QED
      BY <3>1, <3>2, <3>3, <2>16 DEF TypeOK, CollectBroken
  <2>17. CASE PollWithoutTable
    BY <2>17 DEF PollWithoutTable, TypeOK
  <2>18. CASE BreakPool
    <3>1. fut' \in [Slots -> FutureStates]
      BY <2>18, EndStates DEF TypeOK, BreakPool
    <3> QED
      BY <3>1, <2>18 DEF TypeOK, BreakPool
  <2>19. CASE SubmitPage
    <3>1. fut' \in [Slots -> FutureStates]
      BY <2>19, EndStates DEF TypeOK, SubmitPage
    <3> QED
      BY <3>1, <2>19 DEF TypeOK, SubmitPage
  <2>20. CASE SubmitToBrokenPool
    BY <2>20 DEF SubmitToBrokenPool, Errors, TypeOK
  <2>21. CASE EndCollection
    BY <2>21 DEF EndCollection, TypeOK
  <2>22. CASE StopWatchdog
    BY <2>22 DEF TypeOK, StopWatchdog, StoppedWatchdog
  <2>23. CASE LeaveExecutor
    BY <2>23 DEF TypeOK, LeaveExecutor, ExitCodes
  <2>24. CASE MergePages
    <3>1. \A k \in 1..Len(Selected) : merged[Selected[k]] \in Pages \union {None}
      BY SelectedTypes DEF TypeOK, Slots
    <3>2. output' = [k \in 1..Len(Selected) |-> merged[Selected[k]]]
      BY <2>24 DEF MergePages, Slots
    <3>3. output' \in Seq(Pages \union {None})
      BY <3>1, <3>2, SelectedTypes
    <3> QED
      BY <3>3, <2>24 DEF TypeOK, MergePages
  <2>25. CASE TimeOutPages
    <3>1. fut' \in [Slots -> FutureStates]
      BY <2>25, EndStates DEF TypeOK, TimeOutPages, ShutdownAndRaise
    <3>2. error' \in Errors /\ parent' = "finally" /\ table' = FALSE
      BY <2>25 DEF TimeOutPages, ShutdownAndRaise, Errors
    <3>3. laggards' \subseteq Slots
      BY <2>25 DEF TimeOutPages, Listed, NotCancellable, Pending
    <3> QED
      BY <3>1, <3>2, <3>3, <2>25 DEF TypeOK, TimeOutPages
  <2>26. CASE TimeOutRun
    BY <2>26 DEF TimeOutRun, Errors, TypeOK
  <2>27. CASE UNCHANGED vars
    BY <2>27 DEF vars, TypeOK
  <2> QED
    BY <2>1, <2>2, <2>3, <2>4, <2>5, <2>6, <2>7, <2>8, <2>9, <2>10, <2>11, <2>12, <2>13, <2>14,
       <2>15, <2>16, <2>17, <2>18, <2>19, <2>20, <2>21, <2>22, <2>23, <2>24, <2>25, <2>26, <2>27
    DEF Next, WorkerStep, CollectStep, ParentStep, Finished
<1> QED
  BY <1>1, <1>2, PTL DEF Spec

-----------------------------------------------------------------------------
(* Memory blame.  capHit only ever turns TRUE, and whatever makes the       *)
(* parent speak of memory - the event, the watchdog's flag, an exit code, a *)
(* page that saw the event - appears only after it has.                     *)

CapEvidence ==
  /\ abort \/ anyCap => capHit
  /\ \A w \in Workers : over[w] \/ exit[w] = "killed" \/ seen[w] = "killed" => capHit
  /\ \A k \in Slots : fut[k] = "capError" => capHit
  /\ error = "MemoryCapExceededError" => capHit

(* Nothing speaks of memory before a worker ran into its cap. *)
THEOREM CapEvidenceSound == Spec => []CapEvidence
<1> USE DEF runVars, workerVars, watchVars
<1>1. Init => CapEvidence
  BY DEF Init, CapEvidence
<1>2. TypeOK /\ CapEvidence /\ [Next]_vars => CapEvidence'
  <2> SUFFICES ASSUME TypeOK, CapEvidence, [Next]_vars PROVE CapEvidence'
    OBVIOUS
  <2>1. ASSUME NEW w \in Workers, BootWorker(w) PROVE CapEvidence'
    BY <2>1 DEF BootWorker, TypeOK, CapEvidence
  <2>2. ASSUME NEW w \in Workers, TakeJob(w) PROVE CapEvidence'
    BY <2>2 DEF TakeJob, TypeOK, CapEvidence
  <2>3. ASSUME NEW w \in Workers, EnterPage(w) PROVE CapEvidence'
    BY <2>3 DEF EnterPage, TypeOK, CapEvidence
  <2>4. ASSUME NEW w \in Workers, PassLastCheck(w) PROVE CapEvidence'
    BY <2>4 DEF PassLastCheck, TypeOK, CapEvidence
  <2>5. ASSUME NEW w \in Workers, AbortPage(w) PROVE CapEvidence'
    <3>1. abort
      BY <2>5 DEF AbortPage, AbortSeen
    <3> QED
      BY <3>1, <2>5 DEF TypeOK, CapEvidence, AbortPage, Resolve
  <2>6. ASSUME NEW w \in Workers, FailPage(w) PROVE CapEvidence'
    BY <2>6 DEF FailPage, Resolve, TypeOK, CapEvidence
  <2>7. ASSUME NEW w \in Workers, FailAllocation(w) PROVE CapEvidence'
    BY <2>7 DEF FailAllocation, Resolve, TypeOK, CapEvidence
  <2>8. ASSUME NEW w \in Workers, ReturnPage(w) PROVE CapEvidence'
    BY <2>8 DEF ReturnPage, Resolve, TypeOK, CapEvidence
  <2>9. ASSUME NEW w \in Workers, ExceedCap(w) PROVE CapEvidence'
    BY <2>9 DEF ExceedCap, TypeOK, CapEvidence
  <2>10. ASSUME NEW w \in Workers, KernelKill(w) PROVE CapEvidence'
    BY <2>10 DEF KernelKill, Die, TypeOK, CapEvidence
  <2>11. ASSUME NEW w \in Workers, Crash(w) PROVE CapEvidence'
    BY <2>11 DEF Crash, Die, TypeOK, CapEvidence
  <2>12. ASSUME NEW w \in Workers, TerminateWorker(w) PROVE CapEvidence'
    BY <2>12 DEF TerminateWorker, TypeOK, CapEvidence
  <2>13. ASSUME NEW w \in Workers, PollWorker(w) PROVE CapEvidence'
    BY <2>13 DEF PollWorker, TypeOK, CapEvidence
  <2>14. ASSUME NEW k \in Slots, CollectResult(k) PROVE CapEvidence'
    BY <2>14 DEF CollectResult, TypeOK, CapEvidence
  <2>15. ASSUME NEW k \in Slots, CollectFailure(k) PROVE CapEvidence'
    <3>1. error' = "MemoryCapExceededError" => fut[k] = "capError"
      BY <2>15 DEF CollectFailure, ShutdownAndRaise
    <3>2. UNCHANGED <<abort, anyCap, over, exit, seen, capHit>>
      BY <2>15 DEF CollectFailure
    <3>3. \A k1 \in Slots : fut'[k1] = "capError" => fut[k1] = "capError"
      BY <2>15 DEF CollectFailure, ShutdownAndRaise
    <3> QED
      BY <3>1, <3>2, <3>3 DEF CapEvidence
  <2>16. ASSUME NEW k \in Slots, CollectBroken(k) PROVE CapEvidence'
    <3>1. \A w \in Workers : DrainExitCodes[w] = "killed" => capHit
      BY DEF DrainExitCodes, CapEvidence
    <3>2. DiedOfCap(DrainExitCodes) => capHit
      BY <3>1 DEF DiedOfCap, CapEvidence
    <3>3. error' = "MemoryCapExceededError" => capHit
      BY <3>2, <2>16 DEF CollectBroken, ShutdownAndRaise
    <3>4. seen' = DrainExitCodes /\ UNCHANGED <<abort, anyCap, over, exit, capHit>>
      BY <2>16 DEF CollectBroken
    <3>5. \A k1 \in Slots : fut'[k1] = "capError" => fut[k1] = "capError"
      BY <2>16 DEF CollectBroken, ShutdownAndRaise
    <3> QED
      BY <3>1, <3>3, <3>4, <3>5 DEF CapEvidence
  <2>17. CASE PollWithoutTable
    BY <2>17 DEF PollWithoutTable, TypeOK, CapEvidence
  <2>18. CASE BreakPool
    BY <2>18 DEF BreakPool, TypeOK, CapEvidence
  <2>19. CASE SubmitPage
    BY <2>19 DEF SubmitPage, TypeOK, CapEvidence
  <2>20. CASE SubmitToBrokenPool
    BY <2>20 DEF SubmitToBrokenPool, TypeOK, CapEvidence
  <2>21. CASE EndCollection
    BY <2>21 DEF EndCollection, TypeOK, CapEvidence
  <2>22. CASE StopWatchdog
    BY <2>22 DEF StopWatchdog, TypeOK, CapEvidence
  <2>23. CASE LeaveExecutor
    BY <2>23 DEF LeaveExecutor, TypeOK, CapEvidence
  <2>24. CASE MergePages
    BY <2>24 DEF MergePages, TypeOK, CapEvidence
  <2>25. CASE TimeOutPages
    BY <2>25 DEF TimeOutPages, ShutdownAndRaise, TypeOK, CapEvidence
  <2>26. CASE TimeOutRun
    BY <2>26 DEF TimeOutRun, TypeOK, CapEvidence
  <2>27. CASE UNCHANGED vars
    BY <2>27 DEF vars, TypeOK, CapEvidence
  <2> QED
    BY <2>1, <2>2, <2>3, <2>4, <2>5, <2>6, <2>7, <2>8, <2>9, <2>10, <2>11, <2>12, <2>13, <2>14,
       <2>15, <2>16, <2>17, <2>18, <2>19, <2>20, <2>21, <2>22, <2>23, <2>24, <2>25, <2>26, <2>27
    DEF Next, WorkerStep, CollectStep, ParentStep, Finished
<1> QED
  BY <1>1, <1>2, TypeCorrect, PTL DEF Spec

(* No run blames the memory cap unless a worker ran into it                 *)
(* (PageRun!CapBlameJustified).                                             *)
THEOREM CapBlameIsJustified == Spec => []CapBlameJustified
<1>1. CapEvidence => CapBlameJustified
  BY DEF CapEvidence, CapBlameJustified
<1> QED
  BY <1>1, CapEvidenceSound, PTL

-----------------------------------------------------------------------------
(* Draining after the abort event.  A worker that has handed over a page    *)
(* since the event was set is past it: it can only be idle, at the entry of *)
(* a page, where check_abort() stops it, or gone.                           *)

LateOnce ==
  \A w \in Workers :
    \/ late[w] = 0
    \/ late[w] = 1 /\ abort /\ wpc[w] \notin {"work", "leaving"}

(* At most one late page per worker, and none still on its way after it. *)
THEOREM LateOnceHolds == Spec => []LateOnce
<1> USE DEF runVars, workerVars, watchVars
<1>1. Init => LateOnce
  BY DEF Init, LateOnce
<1>2. TypeOK /\ LateOnce /\ [Next]_vars => LateOnce'
  <2> SUFFICES ASSUME TypeOK, LateOnce, [Next]_vars PROVE LateOnce'
    OBVIOUS
  <2>1. ASSUME NEW w \in Workers, BootWorker(w) PROVE LateOnce'
    BY <2>1 DEF BootWorker, TypeOK, LateOnce
  <2>2. ASSUME NEW w \in Workers, TakeJob(w) PROVE LateOnce'
    BY <2>2 DEF TakeJob, TypeOK, LateOnce
  <2>3. ASSUME NEW w \in Workers, EnterPage(w) PROVE LateOnce'
    BY <2>3 DEF EnterPage, AbortSeen, TypeOK, LateOnce
  <2>4. ASSUME NEW w \in Workers, PassLastCheck(w) PROVE LateOnce'
    BY <2>4 DEF PassLastCheck, TypeOK, LateOnce
  <2>5. ASSUME NEW w \in Workers, AbortPage(w) PROVE LateOnce'
    BY <2>5 DEF AbortPage, Resolve, TypeOK, LateOnce
  <2>6. ASSUME NEW w \in Workers, FailPage(w) PROVE LateOnce'
    BY <2>6 DEF FailPage, Resolve, TypeOK, LateOnce
  <2>7. ASSUME NEW w \in Workers, FailAllocation(w) PROVE LateOnce'
    BY <2>7 DEF FailAllocation, Resolve, TypeOK, LateOnce
  <2>8. ASSUME NEW w \in Workers, ReturnPage(w) PROVE LateOnce'
    BY <2>8 DEF ReturnPage, Resolve, TypeOK, LateOnce
  <2>9. ASSUME NEW w \in Workers, ExceedCap(w) PROVE LateOnce'
    BY <2>9 DEF ExceedCap, TypeOK, LateOnce
  <2>10. ASSUME NEW w \in Workers, KernelKill(w) PROVE LateOnce'
    BY <2>10 DEF KernelKill, Die, TypeOK, LateOnce
  <2>11. ASSUME NEW w \in Workers, Crash(w) PROVE LateOnce'
    BY <2>11 DEF Crash, Die, TypeOK, LateOnce
  <2>12. ASSUME NEW w \in Workers, TerminateWorker(w) PROVE LateOnce'
    BY <2>12 DEF TerminateWorker, TypeOK, LateOnce
  <2>13. ASSUME NEW w \in Workers, PollWorker(w) PROVE LateOnce'
    BY <2>13 DEF PollWorker, TypeOK, LateOnce
  <2>14. ASSUME NEW k \in Slots, CollectResult(k) PROVE LateOnce'
    BY <2>14 DEF CollectResult, TypeOK, LateOnce
  <2>15. ASSUME NEW k \in Slots, CollectFailure(k) PROVE LateOnce'
    BY <2>15 DEF CollectFailure, ShutdownAndRaise, TypeOK, LateOnce
  <2>16. ASSUME NEW k \in Slots, CollectBroken(k) PROVE LateOnce'
    BY <2>16 DEF CollectBroken, ShutdownAndRaise, TypeOK, LateOnce
  <2>17. CASE PollWithoutTable
    BY <2>17 DEF PollWithoutTable, TypeOK, LateOnce
  <2>18. CASE BreakPool
    BY <2>18 DEF BreakPool, TypeOK, LateOnce
  <2>19. CASE SubmitPage
    BY <2>19 DEF SubmitPage, TypeOK, LateOnce
  <2>20. CASE SubmitToBrokenPool
    BY <2>20 DEF SubmitToBrokenPool, TypeOK, LateOnce
  <2>21. CASE EndCollection
    BY <2>21 DEF EndCollection, TypeOK, LateOnce
  <2>22. CASE StopWatchdog
    BY <2>22 DEF StopWatchdog, TypeOK, LateOnce
  <2>23. CASE LeaveExecutor
    BY <2>23 DEF LeaveExecutor, TypeOK, LateOnce
  <2>24. CASE MergePages
    BY <2>24 DEF MergePages, TypeOK, LateOnce
  <2>25. CASE TimeOutPages
    BY <2>25 DEF TimeOutPages, ShutdownAndRaise, TypeOK, LateOnce
  <2>26. CASE TimeOutRun
    BY <2>26 DEF TimeOutRun, TypeOK, LateOnce
  <2>27. CASE UNCHANGED vars
    BY <2>27 DEF vars, TypeOK, LateOnce
  <2> QED
    BY <2>1, <2>2, <2>3, <2>4, <2>5, <2>6, <2>7, <2>8, <2>9, <2>10, <2>11, <2>12, <2>13, <2>14,
       <2>15, <2>16, <2>17, <2>18, <2>19, <2>20, <2>21, <2>22, <2>23, <2>24, <2>25, <2>26, <2>27
    DEF Next, WorkerStep, CollectStep, ParentStep, Finished
<1> QED
  BY <1>1, <1>2, TypeCorrect, PTL DEF Spec

(* The pool drains after the event (PageRun!AbortDrains). *)
THEOREM PoolDrains == Spec => []AbortDrains
<1>1. LateOnce => AbortDrains
  BY DEF LateOnce, AbortDrains
<1> QED
  BY <1>1, LateOnceHolds, PTL

-----------------------------------------------------------------------------
(* The watchdog.  The process table disappears only in a run that has       *)
(* failed, or after the watchdog was stopped.                               *)

WatchdogOrder ==
  /\ parent \in {"exit", "merge", "done"} => watchdog # "polling"
  /\ ~table => error # "none" \/ parent \in {"merge", "done"}
  /\ watchdog = "died" => error # "none"

(* The order of the teardown protects the watchdog of a successful run. *)
THEOREM WatchdogOrderHolds == Spec => []WatchdogOrder
<1> USE DEF runVars, workerVars, watchVars
<1>1. Init => WatchdogOrder
  BY DEF Init, WatchdogOrder
<1>2. TypeOK /\ WatchdogOrder /\ [Next]_vars => WatchdogOrder'
  <2> SUFFICES ASSUME TypeOK, WatchdogOrder, [Next]_vars PROVE WatchdogOrder'
    OBVIOUS
  <2>1. ASSUME NEW w \in Workers, BootWorker(w) PROVE WatchdogOrder'
    BY <2>1 DEF BootWorker, TypeOK, WatchdogOrder
  <2>2. ASSUME NEW w \in Workers, TakeJob(w) PROVE WatchdogOrder'
    BY <2>2 DEF TakeJob, TypeOK, WatchdogOrder
  <2>3. ASSUME NEW w \in Workers, EnterPage(w) PROVE WatchdogOrder'
    BY <2>3 DEF EnterPage, TypeOK, WatchdogOrder
  <2>4. ASSUME NEW w \in Workers, PassLastCheck(w) PROVE WatchdogOrder'
    BY <2>4 DEF PassLastCheck, TypeOK, WatchdogOrder
  <2>5. ASSUME NEW w \in Workers, AbortPage(w) PROVE WatchdogOrder'
    BY <2>5 DEF AbortPage, Resolve, TypeOK, WatchdogOrder
  <2>6. ASSUME NEW w \in Workers, FailPage(w) PROVE WatchdogOrder'
    BY <2>6 DEF FailPage, Resolve, TypeOK, WatchdogOrder
  <2>7. ASSUME NEW w \in Workers, FailAllocation(w) PROVE WatchdogOrder'
    BY <2>7 DEF FailAllocation, Resolve, TypeOK, WatchdogOrder
  <2>8. ASSUME NEW w \in Workers, ReturnPage(w) PROVE WatchdogOrder'
    BY <2>8 DEF ReturnPage, Resolve, TypeOK, WatchdogOrder
  <2>9. ASSUME NEW w \in Workers, ExceedCap(w) PROVE WatchdogOrder'
    BY <2>9 DEF ExceedCap, TypeOK, WatchdogOrder
  <2>10. ASSUME NEW w \in Workers, KernelKill(w) PROVE WatchdogOrder'
    BY <2>10 DEF KernelKill, Die, TypeOK, WatchdogOrder
  <2>11. ASSUME NEW w \in Workers, Crash(w) PROVE WatchdogOrder'
    BY <2>11 DEF Crash, Die, TypeOK, WatchdogOrder
  <2>12. ASSUME NEW w \in Workers, TerminateWorker(w) PROVE WatchdogOrder'
    BY <2>12 DEF TerminateWorker, TypeOK, WatchdogOrder
  <2>13. ASSUME NEW w \in Workers, PollWorker(w) PROVE WatchdogOrder'
    BY <2>13 DEF PollWorker, TypeOK, WatchdogOrder
  <2>14. ASSUME NEW k \in Slots, CollectResult(k) PROVE WatchdogOrder'
    BY <2>14 DEF CollectResult, TypeOK, WatchdogOrder
  <2>15. ASSUME NEW k \in Slots, CollectFailure(k) PROVE WatchdogOrder'
    BY <2>15 DEF CollectFailure, ShutdownAndRaise, TypeOK, WatchdogOrder
  <2>16. ASSUME NEW k \in Slots, CollectBroken(k) PROVE WatchdogOrder'
    BY <2>16 DEF CollectBroken, ShutdownAndRaise, DiedOfCap, TypeOK, WatchdogOrder
  <2>17. CASE PollWithoutTable
    BY <2>17 DEF PollWithoutTable, Running, TypeOK, WatchdogOrder
  <2>18. CASE BreakPool
    BY <2>18 DEF BreakPool, TypeOK, WatchdogOrder
  <2>19. CASE SubmitPage
    BY <2>19 DEF SubmitPage, TypeOK, WatchdogOrder
  <2>20. CASE SubmitToBrokenPool
    BY <2>20 DEF SubmitToBrokenPool, TypeOK, WatchdogOrder
  <2>21. CASE EndCollection
    BY <2>21 DEF EndCollection, TypeOK, WatchdogOrder
  <2>22. CASE StopWatchdog
    BY <2>22 DEF StopWatchdog, StoppedWatchdog, TypeOK, WatchdogOrder
  <2>23. CASE LeaveExecutor
    BY <2>23 DEF LeaveExecutor, TypeOK, WatchdogOrder
  <2>24. CASE MergePages
    BY <2>24 DEF MergePages, TypeOK, WatchdogOrder
  <2>25. CASE TimeOutPages
    BY <2>25 DEF TimeOutPages, ShutdownAndRaise, TypeOK, WatchdogOrder
  <2>26. CASE TimeOutRun
    BY <2>26 DEF TimeOutRun, TypeOK, WatchdogOrder
  <2>27. CASE UNCHANGED vars
    BY <2>27 DEF vars, TypeOK, WatchdogOrder
  <2> QED
    BY <2>1, <2>2, <2>3, <2>4, <2>5, <2>6, <2>7, <2>8, <2>9, <2>10, <2>11, <2>12, <2>13, <2>14,
       <2>15, <2>16, <2>17, <2>18, <2>19, <2>20, <2>21, <2>22, <2>23, <2>24, <2>25, <2>26, <2>27
    DEF Next, WorkerStep, CollectStep, ParentStep, Finished
<1> QED
  BY <1>1, <1>2, TypeCorrect, PTL DEF Spec

(* The watchdog dies only in a run that already failed                      *)
(* (PageRun!WatchdogOutlivesRun).                                           *)
THEOREM WatchdogSurvives == Spec => []WatchdogOutlivesRun
<1>1. WatchdogOrder => WatchdogOutlivesRun
  BY DEF WatchdogOrder, WatchdogOutlivesRun
<1> QED
  BY <1>1, WatchdogOrderHolds, PTL

-----------------------------------------------------------------------------
(* What is delivered.  The collection loop stores each page under its own   *)
(* index, leaves without an error only when every future was consumed, and  *)
(* no error is pending while it runs.                                       *)

MergedOnce ==
  \A k \in Slots : merged[Selected[k]] = IF k \in consumed THEN Selected[k] ELSE None

ErrorsRaised == parent \in {"submit", "collect", "merge"} => error = "none"

AllCollected ==
  parent \in {"finally", "exit", "merge", "done"} /\ error = "none" => consumed = Slots

Delivered ==
  output = IF parent = "done" /\ error = "none" THEN Selected ELSE <<>>

RunInv == MergedOnce /\ ErrorsRaised /\ AllCollected /\ Delivered

(* The bookkeeping of the collection loop is consistent in every state. *)
THEOREM RunInvHolds == Spec => []RunInv
<1> USE DEF runVars, workerVars, watchVars
<1>1. Init => RunInv
  <2> SUFFICES ASSUME Init PROVE RunInv
    OBVIOUS
  <2>1. MergedOnce
    BY SelectedTypes DEF Init, MergedOnce
  <2> QED
    BY <2>1 DEF Init, RunInv, ErrorsRaised, AllCollected, Delivered
<1>2. TypeOK /\ RunInv /\ [Next]_vars => RunInv'
  <2> SUFFICES ASSUME TypeOK, RunInv, [Next]_vars PROVE RunInv'
    OBVIOUS
  <2>1. ASSUME NEW w \in Workers, BootWorker(w) PROVE RunInv'
    BY <2>1 DEF BootWorker, TypeOK, RunInv, MergedOnce, ErrorsRaised, AllCollected, Delivered
  <2>2. ASSUME NEW w \in Workers, TakeJob(w) PROVE RunInv'
    BY <2>2 DEF TakeJob, TypeOK, RunInv, MergedOnce, ErrorsRaised, AllCollected, Delivered
  <2>3. ASSUME NEW w \in Workers, EnterPage(w) PROVE RunInv'
    BY <2>3 DEF EnterPage, TypeOK, RunInv, MergedOnce, ErrorsRaised, AllCollected, Delivered
  <2>4. ASSUME NEW w \in Workers, PassLastCheck(w) PROVE RunInv'
    BY <2>4 DEF PassLastCheck, TypeOK, RunInv, MergedOnce, ErrorsRaised, AllCollected, Delivered
  <2>5. ASSUME NEW w \in Workers, AbortPage(w) PROVE RunInv'
    BY <2>5 DEF AbortPage, Resolve, TypeOK, RunInv, MergedOnce, ErrorsRaised, AllCollected,
       Delivered
  <2>6. ASSUME NEW w \in Workers, FailPage(w) PROVE RunInv'
    BY <2>6 DEF FailPage, Resolve, TypeOK, RunInv, MergedOnce, ErrorsRaised, AllCollected, Delivered
  <2>7. ASSUME NEW w \in Workers, FailAllocation(w) PROVE RunInv'
    BY <2>7 DEF FailAllocation, Resolve, TypeOK, RunInv, MergedOnce, ErrorsRaised,
       AllCollected, Delivered
  <2>8. ASSUME NEW w \in Workers, ReturnPage(w) PROVE RunInv'
    BY <2>8 DEF ReturnPage, Resolve, TypeOK, RunInv, MergedOnce, ErrorsRaised, AllCollected,
       Delivered
  <2>9. ASSUME NEW w \in Workers, ExceedCap(w) PROVE RunInv'
    BY <2>9 DEF ExceedCap, TypeOK, RunInv, MergedOnce, ErrorsRaised, AllCollected, Delivered
  <2>10. ASSUME NEW w \in Workers, KernelKill(w) PROVE RunInv'
    BY <2>10 DEF KernelKill, Die, TypeOK, RunInv, MergedOnce, ErrorsRaised, AllCollected, Delivered
  <2>11. ASSUME NEW w \in Workers, Crash(w) PROVE RunInv'
    BY <2>11 DEF Crash, Die, TypeOK, RunInv, MergedOnce, ErrorsRaised, AllCollected, Delivered
  <2>12. ASSUME NEW w \in Workers, TerminateWorker(w) PROVE RunInv'
    BY <2>12 DEF TerminateWorker, TypeOK, RunInv, MergedOnce, ErrorsRaised, AllCollected, Delivered
  <2>13. ASSUME NEW w \in Workers, PollWorker(w) PROVE RunInv'
    BY <2>13 DEF PollWorker, TypeOK, RunInv, MergedOnce, ErrorsRaised, AllCollected, Delivered
  <2>14. ASSUME NEW k \in Slots, CollectResult(k) PROVE RunInv'
    <3>1. MergedOnce'
      <4>1. \A j \in Slots : Selected[j] \in Pages /\ (Selected[j] = Selected[k] => j = k)
        BY SelectedTypes, SlotsDistinct
      <4>2. /\ merged' = [merged EXCEPT ![Selected[k]] = Selected[k]]
            /\ consumed' = consumed \union {k}
        BY <2>14 DEF CollectResult, MergeKey
      <4> QED
        BY <4>1, <4>2 DEF TypeOK, RunInv, MergedOnce
    <3>2. parent' \in {"submit", "collect"} /\ parent = "collect"
      BY <2>14 DEF CollectResult
    <3>3. (ErrorsRaised /\ AllCollected /\ Delivered)'
      BY <3>2, <2>14 DEF CollectResult, RunInv, ErrorsRaised, AllCollected, Delivered
    <3> QED
      BY <3>1, <3>3 DEF RunInv
  <2>15. ASSUME NEW k \in Slots, CollectFailure(k) PROVE RunInv'
    BY <2>15 DEF CollectFailure, ShutdownAndRaise, TypeOK, RunInv, MergedOnce, ErrorsRaised,
       AllCollected, Delivered
  <2>16. ASSUME NEW k \in Slots, CollectBroken(k) PROVE RunInv'
    <3>1. parent = "collect" /\ parent' = "finally" /\ error' # "none"
      BY <2>16 DEF CollectBroken, ShutdownAndRaise
    <3>2. UNCHANGED <<consumed, merged, output>>
      BY <2>16 DEF CollectBroken
    <3> QED
      BY <3>1, <3>2 DEF RunInv, MergedOnce, ErrorsRaised, AllCollected, Delivered
  <2>17. CASE PollWithoutTable
    BY <2>17 DEF PollWithoutTable, TypeOK, RunInv, MergedOnce, ErrorsRaised, AllCollected, Delivered
  <2>18. CASE BreakPool
    BY <2>18 DEF BreakPool, TypeOK, RunInv, MergedOnce, ErrorsRaised, AllCollected, Delivered
  <2>19. CASE SubmitPage
    BY <2>19 DEF SubmitPage, TypeOK, RunInv, MergedOnce, ErrorsRaised, AllCollected, Delivered
  <2>20. CASE SubmitToBrokenPool
    BY <2>20 DEF SubmitToBrokenPool, TypeOK, RunInv, MergedOnce, ErrorsRaised, AllCollected,
       Delivered
  <2>21. CASE EndCollection
    BY <2>21 DEF EndCollection, AllYielded, TypeOK, RunInv, MergedOnce, ErrorsRaised,
       AllCollected, Delivered
  <2>22. CASE StopWatchdog
    BY <2>22 DEF StopWatchdog, TypeOK, RunInv, MergedOnce, ErrorsRaised, AllCollected, Delivered
  <2>23. CASE LeaveExecutor
    BY <2>23 DEF LeaveExecutor, TypeOK, RunInv, MergedOnce, ErrorsRaised, AllCollected, Delivered
  <2>24. CASE MergePages
    <3>1. consumed = Slots /\ error = "none"
      BY <2>24 DEF MergePages, RunInv, ErrorsRaised, AllCollected
    <3>2. output' = Selected
      <4>1. \A k \in Slots : merged[Selected[k]] = Selected[k]
        BY <3>1 DEF RunInv, MergedOnce
      <4>2. output' = [k \in Slots |-> Selected[k]]
        BY <4>1, <2>24 DEF MergePages
      <4>3. Selected = [k \in Slots |-> Selected[k]]
        BY RunAssumption DEF Slots
      <4> QED
        BY <4>2, <4>3
    <3> QED
      BY <3>1, <3>2, <2>24 DEF MergePages, RunInv, MergedOnce, ErrorsRaised, AllCollected, Delivered
  <2>25. CASE TimeOutPages
    BY <2>25 DEF TimeOutPages, ShutdownAndRaise, TypeOK, RunInv, MergedOnce, ErrorsRaised,
       AllCollected, Delivered
  <2>26. CASE TimeOutRun
    BY <2>26 DEF TimeOutRun, TypeOK, RunInv, MergedOnce, ErrorsRaised, AllCollected, Delivered
  <2>27. CASE UNCHANGED vars
    BY <2>27 DEF vars, TypeOK, RunInv, MergedOnce, ErrorsRaised, AllCollected, Delivered
  <2> QED
    BY <2>1, <2>2, <2>3, <2>4, <2>5, <2>6, <2>7, <2>8, <2>9, <2>10, <2>11, <2>12, <2>13, <2>14,
       <2>15, <2>16, <2>17, <2>18, <2>19, <2>20, <2>21, <2>22, <2>23, <2>24, <2>25, <2>26, <2>27
    DEF Next, WorkerStep, CollectStep, ParentStep, Finished
<1> QED
  BY <1>1, <1>2, TypeCorrect, PTL DEF Spec

(* A returned output holds each selected page once, in order, from its own  *)
(* bytes (PageRun!OutputFaithful).                                          *)
THEOREM OutputIsFaithful == Spec => []OutputFaithful
<1>1. TypeOK /\ RunInv => OutputFaithful
  <2> "ok" \notin Errors
    BY DEF Errors
  <2> QED
    BY DEF TypeOK, RunInv, Delivered, OutputFaithful, Outcome, Running
<1> QED
  BY <1>1, TypeCorrect, RunInvHolds, PTL

(* A kernel kill that reaches the collection loop is classified             *)
(* (PageRun!KernelKillClassified).                                          *)
THEOREM KillIsClassified == Spec => KernelKillClassified
<1> DEFINE A == parent = "collect" /\ error' = "BrokenProcessPool"
                  => \A w \in Workers : exit[w] # "killed"
<1>1. RunInv /\ [Next]_vars => A
  <2> SUFFICES ASSUME RunInv, [Next]_vars, parent = "collect", error' = "BrokenProcessPool",
                      NEW v \in Workers, exit[v] = "killed"
               PROVE  FALSE
    OBVIOUS
  <2> USE DEF runVars, workerVars, watchVars
  <2>0. error # "BrokenProcessPool"
    BY DEF RunInv, ErrorsRaised
  <2>1. ASSUME NEW w \in Workers, BootWorker(w) PROVE FALSE
    BY <2>1, <2>0 DEF BootWorker
  <2>2. ASSUME NEW w \in Workers, TakeJob(w) PROVE FALSE
    BY <2>2, <2>0 DEF TakeJob
  <2>3. ASSUME NEW w \in Workers, EnterPage(w) PROVE FALSE
    BY <2>3, <2>0 DEF EnterPage
  <2>4. ASSUME NEW w \in Workers, PassLastCheck(w) PROVE FALSE
    BY <2>4, <2>0 DEF PassLastCheck
  <2>5. ASSUME NEW w \in Workers, AbortPage(w) PROVE FALSE
    BY <2>5, <2>0 DEF AbortPage, Resolve
  <2>6. ASSUME NEW w \in Workers, FailPage(w) PROVE FALSE
    BY <2>6, <2>0 DEF FailPage, Resolve
  <2>7. ASSUME NEW w \in Workers, FailAllocation(w) PROVE FALSE
    BY <2>7, <2>0 DEF FailAllocation, Resolve
  <2>8. ASSUME NEW w \in Workers, ReturnPage(w) PROVE FALSE
    BY <2>8, <2>0 DEF ReturnPage, Resolve
  <2>9. ASSUME NEW w \in Workers, ExceedCap(w) PROVE FALSE
    BY <2>9, <2>0 DEF ExceedCap
  <2>10. ASSUME NEW w \in Workers, KernelKill(w) PROVE FALSE
    BY <2>10, <2>0 DEF KernelKill, Die
  <2>11. ASSUME NEW w \in Workers, Crash(w) PROVE FALSE
    BY <2>11, <2>0 DEF Crash, Die
  <2>12. ASSUME NEW w \in Workers, TerminateWorker(w) PROVE FALSE
    BY <2>12, <2>0 DEF TerminateWorker
  <2>13. ASSUME NEW w \in Workers, PollWorker(w) PROVE FALSE
    BY <2>13, <2>0 DEF PollWorker
  <2>14. ASSUME NEW k \in Slots, CollectResult(k) PROVE FALSE
    BY <2>14, <2>0 DEF CollectResult
  <2>15. ASSUME NEW k \in Slots, CollectFailure(k) PROVE FALSE
    BY <2>15, <2>0 DEF CollectFailure, ShutdownAndRaise
  <2>16. ASSUME NEW k \in Slots, CollectBroken(k) PROVE FALSE
    <3>1. ~DiedOfCap(DrainExitCodes)
      BY <2>16 DEF CollectBroken, ShutdownAndRaise
    <3>2. DrainExitCodes[v] = "killed"
      BY DEF DrainExitCodes
    <3> QED
      BY <3>1, <3>2 DEF DiedOfCap
  <2>17. CASE PollWithoutTable
    BY <2>17, <2>0 DEF PollWithoutTable
  <2>18. CASE BreakPool
    BY <2>18, <2>0 DEF BreakPool
  <2>19. CASE SubmitPage
    BY <2>19, <2>0 DEF SubmitPage
  <2>20. CASE SubmitToBrokenPool
    BY <2>20, <2>0 DEF SubmitToBrokenPool
  <2>21. CASE EndCollection
    BY <2>21, <2>0 DEF EndCollection
  <2>22. CASE StopWatchdog
    BY <2>22, <2>0 DEF StopWatchdog
  <2>23. CASE LeaveExecutor
    BY <2>23, <2>0 DEF LeaveExecutor
  <2>24. CASE MergePages
    BY <2>24, <2>0 DEF MergePages
  <2>25. CASE TimeOutPages
    BY <2>25, <2>0 DEF TimeOutPages, ShutdownAndRaise
  <2>26. CASE TimeOutRun
    BY <2>26, <2>0 DEF TimeOutRun
  <2>27. CASE UNCHANGED vars
    BY <2>27, <2>0 DEF vars
  <2> QED
    BY <2>1, <2>2, <2>3, <2>4, <2>5, <2>6, <2>7, <2>8, <2>9, <2>10, <2>11, <2>12, <2>13, <2>14,
       <2>15, <2>16, <2>17, <2>18, <2>19, <2>20, <2>21, <2>22, <2>23, <2>24, <2>25, <2>26, <2>27
    DEF Next, WorkerStep, CollectStep, ParentStep, Finished
<1>2. RunInv /\ [Next]_vars => [A]_vars
  BY <1>1
<1> QED
  BY <1>2, RunInvHolds, PTL DEF Spec, KernelKillClassified

-----------------------------------------------------------------------------
(* A broken pool.  A worker that died on its own belongs to a process pool  *)
(* and stays dead, the pool broke because of one, and while the parent is   *)
(* still submitting to a pool the last slot is new.                         *)

Last == Len(Selected)

DeathKnown ==
  /\ \A w \in Workers : exit[w] # "running" => wpc[w] = "gone"
  /\ \A w \in Workers : exit[w] \in {"killed", "crashed"} => Process
  /\ broken => \E w \in Workers : exit[w] \in {"killed", "crashed"}
  /\ \A k \in Slots : fut[k] = "broken" => broken
  /\ parent = "submit" /\ Process => fut[Last] = "new"

KillHidden ==
  error = "BrokenProcessPool" => (\E w \in Workers : exit[w] = "crashed") \/ fut[Last] = "new"

BlameInv == DeathKnown /\ KillHidden

(* BrokenProcessPool tells of a crash, except in one place: ex.submit()     *)
(* before the last page was submitted, which is how KernelKillSurfaces      *)
(* fails.  Once the collection loop runs, exceptions.py's promise about     *)
(* MemoryCapExceededError holds (compress() from the submit loop on).       *)
THEOREM KillHiddenOnlyAtSubmit ==
  Spec => [](error = "BrokenProcessPool" =>
               \/ \E w \in Workers : exit[w] = "crashed"
               \/ \E k \in Slots : fut[k] = "new")
<1> USE DEF runVars, workerVars, watchVars
<1>0. Last \in Slots
  BY RunAssumption DEF Last, Slots
<1>1. Init => BlameInv
  BY <1>0 DEF Init, BlameInv, DeathKnown, KillHidden, Process
<1>2. TypeOK /\ RunInv /\ BlameInv /\ [Next]_vars => BlameInv'
  <2> SUFFICES ASSUME TypeOK, RunInv, BlameInv, [Next]_vars PROVE BlameInv'
    OBVIOUS
  <2>0. Last \in Slots /\ (parent \in {"submit", "collect"} => error = "none")
    BY <1>0 DEF RunInv, ErrorsRaised
  <2>1. ASSUME NEW w \in Workers, BootWorker(w) PROVE BlameInv'
    BY <2>0, <2>1 DEF BootWorker, TypeOK, BlameInv, DeathKnown, KillHidden, Process
  <2>2. ASSUME NEW w \in Workers, TakeJob(w) PROVE BlameInv'
    BY <2>0, <2>2 DEF TakeJob, TypeOK, BlameInv, DeathKnown, KillHidden, Process
  <2>3. ASSUME NEW w \in Workers, EnterPage(w) PROVE BlameInv'
    BY <2>0, <2>3 DEF EnterPage, TypeOK, BlameInv, DeathKnown, KillHidden, Process
  <2>4. ASSUME NEW w \in Workers, PassLastCheck(w) PROVE BlameInv'
    BY <2>0, <2>4 DEF PassLastCheck, TypeOK, BlameInv, DeathKnown, KillHidden, Process
  <2>5. ASSUME NEW w \in Workers, AbortPage(w) PROVE BlameInv'
    BY <2>0, <2>5 DEF AbortPage, Resolve, TypeOK, BlameInv, DeathKnown, KillHidden, Process
  <2>6. ASSUME NEW w \in Workers, FailPage(w) PROVE BlameInv'
    BY <2>0, <2>6 DEF FailPage, Resolve, TypeOK, BlameInv, DeathKnown, KillHidden, Process
  <2>7. ASSUME NEW w \in Workers, FailAllocation(w) PROVE BlameInv'
    BY <2>0, <2>7 DEF FailAllocation, Resolve, TypeOK, BlameInv, DeathKnown, KillHidden, Process
  <2>8. ASSUME NEW w \in Workers, ReturnPage(w) PROVE BlameInv'
    BY <2>0, <2>8 DEF ReturnPage, Resolve, TypeOK, BlameInv, DeathKnown, KillHidden, Process
  <2>9. ASSUME NEW w \in Workers, ExceedCap(w) PROVE BlameInv'
    BY <2>0, <2>9 DEF ExceedCap, TypeOK, BlameInv, DeathKnown, KillHidden, Process
  <2>10. ASSUME NEW w \in Workers, KernelKill(w) PROVE BlameInv'
    BY <2>0, <2>10 DEF KernelKill, Die, TypeOK, BlameInv, DeathKnown, KillHidden, Process
  <2>11. ASSUME NEW w \in Workers, Crash(w) PROVE BlameInv'
    BY <2>0, <2>11 DEF Crash, Die, TypeOK, BlameInv, DeathKnown, KillHidden, Process
  <2>12. ASSUME NEW w \in Workers, TerminateWorker(w) PROVE BlameInv'
    <3>1. \A v \in Workers : exit[v] \in {"killed", "crashed"} => exit'[v] = exit[v]
      BY <2>12 DEF TerminateWorker, Alive, TypeOK
    <3>2. \A v \in Workers : exit'[v] \in {"killed", "crashed"} => exit[v] = exit'[v]
      BY <2>12 DEF TerminateWorker, TypeOK
    <3>3. \A v \in Workers : exit'[v] # "running" => wpc'[v] = "gone"
      BY <2>12 DEF TerminateWorker, TypeOK, BlameInv, DeathKnown
    <3>4. UNCHANGED <<mode, parent, error, fut, broken>>
      BY <2>12 DEF TerminateWorker
    <3> QED
      BY <3>1, <3>2, <3>3, <3>4 DEF BlameInv, DeathKnown, KillHidden, Process
  <2>13. ASSUME NEW w \in Workers, PollWorker(w) PROVE BlameInv'
    BY <2>0, <2>13 DEF PollWorker, TypeOK, BlameInv, DeathKnown, KillHidden, Process
  <2>14. ASSUME NEW k \in Slots, CollectResult(k) PROVE BlameInv'
    BY <2>0, <2>14 DEF CollectResult, TypeOK, BlameInv, DeathKnown, KillHidden, Process
  <2>15. ASSUME NEW k \in Slots, CollectFailure(k) PROVE BlameInv'
    BY <2>0, <2>15 DEF CollectFailure, ShutdownAndRaise, TypeOK, BlameInv, DeathKnown,
       KillHidden, Process
  <2>16. ASSUME NEW k \in Slots, CollectBroken(k) PROVE BlameInv'
    <3>1. parent = "collect" /\ fut[k] = "broken" /\ parent' = "finally"
          /\ UNCHANGED <<mode, broken, exit, wpc>>
      BY <2>16 DEF CollectBroken, ShutdownAndRaise
    <3>2. \A j \in Slots : fut'[j] = "broken" => fut[j] = "broken"
      BY <2>16 DEF CollectBroken, ShutdownAndRaise, TypeOK
    <3>3. \E w \in Workers : exit[w] \in {"killed", "crashed"}
      BY <3>1 DEF BlameInv, DeathKnown
    <3>4. error' = "BrokenProcessPool" => \A w \in Workers : DrainExitCodes[w] # "killed"
      BY <2>16 DEF CollectBroken, ShutdownAndRaise, DiedOfCap
    <3>5. error' = "BrokenProcessPool" => \A w \in Workers : exit[w] # "killed"
      BY <3>4 DEF DrainExitCodes
    <3>6. KillHidden'
      BY <3>1, <3>3, <3>5 DEF KillHidden
    <3> QED
      BY <3>1, <3>2, <3>6 DEF BlameInv, DeathKnown, Process
  <2>17. CASE PollWithoutTable
    BY <2>0, <2>17 DEF PollWithoutTable, TypeOK, BlameInv, DeathKnown, KillHidden, Process
  <2>18. CASE BreakPool
    BY <2>0, <2>18 DEF BreakPool, TypeOK, BlameInv, DeathKnown, KillHidden, Process
  <2>19. CASE SubmitPage
    <3>1. parent = "submit" /\ ~broken /\ UNCHANGED <<mode, error, broken, exit, wpc>>
      BY <2>19 DEF SubmitPage
    <3>2. PICK k \in Slots : /\ fut[k] = "new"
                             /\ fut' = [fut EXCEPT ![k] = "queued"]
                             /\ parent' = IF mode = "serial" \/ k = Last THEN "collect" ELSE "submit"
      BY <2>19 DEF SubmitPage, Last
    <3>3. \A j \in Slots : fut'[j] = "broken" => fut[j] = "broken"
      BY <3>2 DEF TypeOK
    <3>4. parent' = "submit" /\ Process => fut'[Last] = "new"
      BY <2>0, <3>1, <3>2 DEF TypeOK, BlameInv, DeathKnown, Process
    <3>5. KillHidden'
      BY <2>0, <3>1 DEF KillHidden
    <3> QED
      BY <3>1, <3>3, <3>4, <3>5 DEF BlameInv, DeathKnown, Process
  <2>20. CASE SubmitToBrokenPool
    BY <2>0, <2>20 DEF SubmitToBrokenPool, TypeOK, BlameInv, DeathKnown, KillHidden, Process
  <2>21. CASE EndCollection
    BY <2>0, <2>21 DEF EndCollection, TypeOK, BlameInv, DeathKnown, KillHidden, Process
  <2>22. CASE StopWatchdog
    BY <2>0, <2>22 DEF StopWatchdog, TypeOK, BlameInv, DeathKnown, KillHidden, Process
  <2>23. CASE LeaveExecutor
    BY <2>0, <2>23 DEF LeaveExecutor, TypeOK, BlameInv, DeathKnown, KillHidden, Process
  <2>24. CASE MergePages
    BY <2>0, <2>24 DEF MergePages, TypeOK, BlameInv, DeathKnown, KillHidden, Process
  <2>25. CASE TimeOutPages
    BY <2>0, <2>25 DEF TimeOutPages, ShutdownAndRaise, TypeOK, BlameInv, DeathKnown,
       KillHidden, Process
  <2>26. CASE TimeOutRun
    BY <2>0, <2>26 DEF TimeOutRun, TypeOK, BlameInv, DeathKnown, KillHidden, Process
  <2>27. CASE UNCHANGED vars
    BY <2>0, <2>27 DEF vars, TypeOK, BlameInv, DeathKnown, KillHidden, Process
  <2> QED
    BY <2>1, <2>2, <2>3, <2>4, <2>5, <2>6, <2>7, <2>8, <2>9, <2>10, <2>11, <2>12, <2>13, <2>14,
       <2>15, <2>16, <2>17, <2>18, <2>19, <2>20, <2>21, <2>22, <2>23, <2>24, <2>25, <2>26, <2>27
    DEF Next, WorkerStep, CollectStep, ParentStep, Finished
<1>3. BlameInv => (error = "BrokenProcessPool" =>
                     \/ \E w \in Workers : exit[w] = "crashed"
                     \/ \E k \in Slots : fut[k] = "new")
  BY <1>0 DEF BlameInv, KillHidden
<1> QED
  BY <1>1, <1>2, <1>3, TypeCorrect, RunInvHolds, PTL DEF Spec

-----------------------------------------------------------------------------
(* Boot warnings.  A busy worker's slot is its own and still open, and      *)
(* nothing rides on a slot before a worker has entered its page.            *)

HeldSlots ==
  /\ \A w \in Workers : Busy(w) => job[w] \in Slots /\ fut[job[w]] \in {"running", "broken"}
  /\ \A v, w \in Workers : Busy(v) /\ Busy(w) /\ job[v] = job[w] => v = w
  /\ \A w \in Workers : wpc[w] = "start" => rides[job[w]] = None
  /\ \A k \in Slots : fut[k] \in {"new", "queued"} => rides[k] = None

(* A worker's warning rides on one slot, from the first page it enters on.  *)
Riders ==
  /\ \A w \in Workers : wpc[w] = "down" => ~drained[w]
  /\ \A k \in Slots, w \in Workers : rides[k] = w => bootWarn[w] /\ drained[w]
  /\ \A w \in Workers : bootWarn[w] /\ drained[w] => \E k \in Slots : rides[k] = w
  /\ \A j, k \in Slots, w \in Workers : rides[j] = w /\ rides[k] = w => j = k

(* It is reported with the slot it rides on.                                *)
Reported ==
  /\ \A k \in consumed : fut[k] = "returned"
  /\ \A w \in Workers : reported[w] = IF \E k \in consumed : rides[k] = w THEN 1 ELSE 0

BootInv == HeldSlots /\ Riders /\ Reported

(* Steps of the parent, the watchdog and the executor, and those a worker   *)
(* takes on its page or dies by: no slot is entered, returned or consumed.  *)
LEMMA BootInvKept ==
  ASSUME TypeOK, BootInv, UNCHANGED <<rides, consumed, reported, bootWarn, drained>>,
         \A w \in Workers : /\ Busy(w)' => Busy(w) /\ job'[w] = job[w]
                            /\ wpc'[w] = "start" => wpc[w] = "start"
                            /\ wpc'[w] = "down" => wpc[w] = "down",
         \A k \in Slots : /\ fut[k] \in {"running", "broken"} => fut'[k] \in {"running", "broken"}
                          /\ fut'[k] \in {"new", "queued"} => fut[k] \in {"new", "queued"}
                          /\ fut[k] = "returned" => fut'[k] = "returned"
  PROVE  BootInv'
<1>1. HeldSlots'
  BY DEF BootInv, HeldSlots, Busy
<1>2. Riders'
  BY DEF BootInv, Riders
<1>3. Reported'
  BY DEF BootInv, Reported, TypeOK
<1>. QED BY <1>1, <1>2, <1>3 DEF BootInv

(* A worker that resolves its future lets go of a slot nobody else holds.   *)
LEMMA BootInvResolved ==
  ASSUME TypeOK, BootInv, NEW w \in Workers, NEW state \in DoneStates, Busy(w),
         Resolve(w, state), UNCHANGED <<rides, consumed, reported, bootWarn, drained>>
  PROVE  BootInv'
<1>1. /\ wpc'[w] = "idle"
      /\ \A v \in Workers : v # w => wpc'[v] = wpc[v] /\ job'[v] = job[v]
  BY DEF TypeOK, Resolve
<1>2. /\ job[w] \in Slots /\ fut[job[w]] \in {"running", "broken"}
      /\ \A v \in Workers : v # w /\ Busy(v) => job[v] # job[w]
  BY DEF BootInv, HeldSlots
<1>3. /\ fut'[job[w]] \in DoneStates
      /\ \A k \in Slots : k # job[w] => fut'[k] = fut[k]
  BY <1>2 DEF TypeOK, Resolve, DoneStates, FailedStates
<1>4. \A v \in Workers : Busy(v)' => v # w /\ Busy(v)
  BY <1>1 DEF Busy
<1>5. HeldSlots'
  <2>1. \A v \in Workers : Busy(v)' => job'[v] \in Slots /\ fut'[job'[v]] \in {"running", "broken"}
    BY <1>1, <1>2, <1>3, <1>4 DEF BootInv, HeldSlots
  <2>2. \A u, v \in Workers : Busy(u)' /\ Busy(v)' /\ job'[u] = job'[v] => u = v
    BY <1>1, <1>4 DEF BootInv, HeldSlots
  <2>3. \A v \in Workers : wpc'[v] = "start" => rides'[job'[v]] = None
    BY <1>1 DEF BootInv, HeldSlots
  <2>4. \A k \in Slots : fut'[k] \in {"new", "queued"} => rides'[k] = None
    BY <1>3 DEF BootInv, HeldSlots, DoneStates, FailedStates
  <2>. QED BY <2>1, <2>2, <2>3, <2>4 DEF HeldSlots, Busy
<1>6. Riders'
  BY <1>1 DEF BootInv, Riders
<1>7. Reported'
  BY <1>2, <1>3 DEF BootInv, Reported, TypeOK
<1>. QED BY <1>5, <1>6, <1>7 DEF BootInv

(* A worker that boots has entered no page yet.                             *)
LEMMA BootInvBooted ==
  ASSUME TypeOK, BootInv, NEW w \in Workers, BootWorker(w)
  PROVE  BootInv'
<1> USE DEF runVars, workerVars, watchVars
<1>1. /\ UNCHANGED <<fut, rides, consumed, reported, job, drained>>
      /\ wpc[w] = "down" /\ wpc'[w] = "idle" /\ ~drained[w]
      /\ \A v \in Workers : v # w => wpc'[v] = wpc[v] /\ bootWarn'[v] = bootWarn[v]
  BY DEF BootWorker, TypeOK, BootInv, Riders
<1>2. HeldSlots'
  BY <1>1 DEF BootInv, HeldSlots, Busy
<1>3. Riders'
  BY <1>1 DEF BootInv, Riders
<1>4. Reported'
  BY <1>1 DEF BootInv, Reported
<1>. QED BY <1>2, <1>3, <1>4 DEF BootInv

(* A queued slot is in nobody's hands and carries nothing.                  *)
LEMMA BootInvTaken ==
  ASSUME TypeOK, BootInv, NEW w \in Workers, TakeJob(w)
  PROVE  BootInv'
<1> USE DEF runVars, workerVars, watchVars
<1>1. PICK k \in Slots : /\ fut[k] = "queued"
                         /\ fut' = [fut EXCEPT ![k] = "running"]
                         /\ job' = [job EXCEPT ![w] = k]
  BY DEF TakeJob
<1>2. /\ UNCHANGED <<rides, consumed, reported, bootWarn, drained>>
      /\ wpc[w] = "idle" /\ wpc'[w] = "start" /\ job'[w] = k /\ fut'[k] = "running"
      /\ \A v \in Workers : v # w => wpc'[v] = wpc[v] /\ job'[v] = job[v]
      /\ \A j \in Slots : j # k => fut'[j] = fut[j]
  BY <1>1 DEF TakeJob, TypeOK
<1>3. \A v \in Workers : v # w /\ Busy(v) => job[v] # k
  BY <1>1 DEF BootInv, HeldSlots
<1>4. HeldSlots'
  <2>1. \A v \in Workers : Busy(v)' => v = w \/ Busy(v)
    BY <1>2 DEF Busy
  <2>2. \A v \in Workers : Busy(v)' => job'[v] \in Slots /\ fut'[job'[v]] \in {"running", "broken"}
    BY <1>2, <1>3, <2>1 DEF BootInv, HeldSlots
  <2>3. \A u, v \in Workers : Busy(u)' /\ Busy(v)' /\ job'[u] = job'[v] => u = v
    BY <1>2, <1>3, <2>1 DEF BootInv, HeldSlots
  <2>4. \A v \in Workers : wpc'[v] = "start" => rides'[job'[v]] = None
    BY <1>1, <1>2 DEF BootInv, HeldSlots
  <2>5. \A j \in Slots : fut'[j] \in {"new", "queued"} => rides'[j] = None
    BY <1>2 DEF BootInv, HeldSlots
  <2>. QED BY <2>2, <2>3, <2>4, <2>5 DEF HeldSlots, Busy
<1>5. Riders'
  BY <1>2 DEF BootInv, Riders
<1>6. Reported'
  BY <1>1, <1>2 DEF BootInv, Reported, TypeOK
<1>. QED BY <1>4, <1>5, <1>6 DEF BootInv

(* The first page a worker enters takes its warning along.                  *)
LEMMA BootInvEntered ==
  ASSUME TypeOK, BootInv, NEW w \in Workers, EnterPage(w)
  PROVE  BootInv'
<1> USE DEF runVars, workerVars, watchVars
<1>. DEFINE s == job[w]
            rider == IF bootWarn[w] /\ ~drained[w] THEN w ELSE None
<1>1. /\ UNCHANGED <<fut, job, consumed, reported, bootWarn>>
      /\ wpc[w] = "start" /\ wpc'[w] \in {"leaving", "work"} /\ drained'[w]
      /\ \A v \in Workers : v # w => wpc'[v] = wpc[v] /\ drained'[v] = drained[v]
  BY DEF EnterPage, AfterDrain, TypeOK
<1>2. /\ s \in Slots /\ fut[s] \in {"running", "broken"} /\ rides[s] = None
      /\ \A v \in Workers : v # w /\ Busy(v) => job[v] # s
  BY <1>1 DEF BootInv, HeldSlots, Busy
<1>3. /\ rides'[s] = rider
      /\ \A k \in Slots : k # s => rides'[k] = rides[k]
  BY <1>2 DEF EnterPage, TypeOK
<1>4. HeldSlots'
  <2>1. \A v \in Workers : Busy(v)' => Busy(v)
    BY <1>1 DEF Busy
  <2>2. \A v \in Workers : wpc'[v] = "start" => v # w /\ Busy(v) /\ wpc[v] = "start"
    BY <1>1 DEF Busy
  <2>3. \A v \in Workers : wpc'[v] = "start" => rides'[job'[v]] = None
    BY <1>1, <1>2, <1>3, <2>2 DEF BootInv, HeldSlots
  <2>4. \A k \in Slots : fut'[k] \in {"new", "queued"} => rides'[k] = None
    BY <1>1, <1>2, <1>3 DEF BootInv, HeldSlots
  <2>5. \A v \in Workers : Busy(v)' => job'[v] \in Slots /\ fut'[job'[v]] \in {"running", "broken"}
    BY <1>1, <2>1 DEF BootInv, HeldSlots
  <2>6. \A u, v \in Workers : Busy(u)' /\ Busy(v)' /\ job'[u] = job'[v] => u = v
    BY <1>1, <2>1 DEF BootInv, HeldSlots
  <2>. QED BY <2>3, <2>4, <2>5, <2>6 DEF HeldSlots, Busy
<1>. HIDE DEF s
<1>5. \A v \in Workers : None # v
  BY RunAssumption
<1>6. Riders'
  <2>1. \A v \in Workers : wpc'[v] = "down" => ~drained'[v]
    BY <1>1 DEF BootInv, Riders
  <2>2. \A k \in Slots, v \in Workers : rides'[k] = v => bootWarn'[v] /\ drained'[v]
    BY <1>1, <1>2, <1>3, <1>5 DEF BootInv, Riders
  <2>3. \A v \in Workers : bootWarn'[v] /\ drained'[v] => \E k \in Slots : rides'[k] = v
    <3>1. \A v \in Workers, k \in Slots : rides[k] = v => rides'[k] = v
      BY <1>2, <1>3, <1>5
    <3>2. CASE drained[w] \/ ~bootWarn[w]
      BY <1>1, <3>1, <3>2 DEF BootInv, Riders
    <3>3. CASE bootWarn[w] /\ ~drained[w]
      BY <1>1, <1>2, <1>3, <3>1, <3>3 DEF BootInv, Riders
    <3>. QED BY <3>2, <3>3
  <2>4. \A j, k \in Slots, v \in Workers : rides'[j] = v /\ rides'[k] = v => j = k
    BY <1>2, <1>3, <1>5 DEF BootInv, Riders
  <2>. QED BY <2>1, <2>2, <2>3, <2>4 DEF Riders
<1>7. Reported'
  <2>1. s \notin consumed /\ consumed \subseteq Slots
    BY <1>2 DEF BootInv, Reported, TypeOK
  <2>2. \A k \in consumed : rides'[k] = rides[k]
    BY <1>3, <2>1
  <2>. QED BY <1>1, <2>2 DEF BootInv, Reported
<1>. QED BY <1>4, <1>6, <1>7 DEF BootInv

(* A collected result is counted for the worker whose warning it carries.   *)
LEMMA BootInvCollected ==
  ASSUME TypeOK, BootInv, NEW k \in Slots, CollectResult(k)
  PROVE  BootInv'
<1> USE DEF runVars, workerVars, watchVars
<1>1. /\ UNCHANGED <<fut, rides, wpc, job, bootWarn, drained>>
      /\ k \notin consumed /\ fut[k] = "returned" /\ consumed' = consumed \union {k}
      /\ reported' = [w \in Workers |-> IF rides[k] = w THEN reported[w] + 1 ELSE reported[w]]
  BY DEF CollectResult
<1>2. HeldSlots' /\ Riders'
  BY <1>1 DEF BootInv, HeldSlots, Riders, Busy
<1>3. Reported'
  <2>1. \A j \in consumed' : fut'[j] = "returned"
    BY <1>1 DEF BootInv, Reported
  <2>2. ASSUME NEW w \in Workers
        PROVE  reported'[w] = IF \E j \in consumed' : rides'[j] = w THEN 1 ELSE 0
    <3>1. CASE rides[k] = w
      <4>1. ~ \E j \in consumed : rides[j] = w
        BY <1>1, <3>1 DEF BootInv, Riders, TypeOK
      <4>2. reported[w] = 0
        BY <4>1 DEF BootInv, Reported
      <4>. QED BY <1>1, <3>1, <4>2
    <3>2. CASE rides[k] # w
      BY <1>1, <3>2 DEF BootInv, Reported
    <3>. QED BY <3>1, <3>2
  <2>. QED BY <2>1, <2>2 DEF Reported
<1>. QED BY <1>2, <1>3 DEF BootInv

(* Warnings stay with their slots in every state (_init_worker,             *)
(* _process_single_page and _merge_result).                                 *)
THEOREM BootInvHolds == Spec => []BootInv
<1> USE DEF runVars, workerVars, watchVars
<1>1. Init => BootInv
  <2> SUFFICES ASSUME Init PROVE BootInv
    OBVIOUS
  <2>1. \A w \in Workers : None # w
    BY RunAssumption
  <2> QED
    BY <2>1 DEF Init, BootInv, HeldSlots, Riders, Reported, Busy
<1>2. TypeOK /\ BootInv /\ [Next]_vars => BootInv'
  <2> SUFFICES ASSUME TypeOK, BootInv, [Next]_vars PROVE BootInv'
    OBVIOUS
  <2>. USE DEF Busy
  <2>1. ASSUME NEW w \in Workers, BootWorker(w) PROVE BootInv'
    BY <2>1, BootInvBooted
  <2>2. ASSUME NEW w \in Workers, TakeJob(w) PROVE BootInv'
    BY <2>2, BootInvTaken
  <2>3. ASSUME NEW w \in Workers, EnterPage(w) PROVE BootInv'
    BY <2>3, BootInvEntered
  <2>4. ASSUME NEW w \in Workers, PassLastCheck(w) PROVE BootInv'
    BY <2>4, BootInvKept DEF PassLastCheck, TypeOK
  <2>5. ASSUME NEW w \in Workers, AbortPage(w) PROVE BootInv'
    <3>1. "capError" \in DoneStates /\ Busy(w) /\ Resolve(w, "capError")
      BY <2>5 DEF AbortPage, DoneStates, FailedStates
    <3> QED
      BY <2>5, <3>1, BootInvResolved DEF AbortPage
  <2>6. ASSUME NEW w \in Workers, FailPage(w) PROVE BootInv'
    <3>1. PICK state \in {"pageError", "otherError"} : Resolve(w, state)
      BY <2>6 DEF FailPage
    <3>2. state \in DoneStates /\ Busy(w)
      BY <2>6 DEF FailPage, DoneStates, FailedStates
    <3> QED
      BY <2>6, <3>1, <3>2, BootInvResolved DEF FailPage
  <2>7. ASSUME NEW w \in Workers, FailAllocation(w) PROVE BootInv'
    <3>1. "memoryError" \in DoneStates /\ Busy(w) /\ Resolve(w, "memoryError")
      BY <2>7 DEF FailAllocation, DoneStates, FailedStates
    <3> QED
      BY <2>7, <3>1, BootInvResolved DEF FailAllocation
  <2>8. ASSUME NEW w \in Workers, ReturnPage(w) PROVE BootInv'
    <3>1. "returned" \in DoneStates /\ Busy(w) /\ Resolve(w, "returned")
      BY <2>8 DEF ReturnPage, DoneStates
    <3> QED
      BY <2>8, <3>1, BootInvResolved DEF ReturnPage
  <2>9. ASSUME NEW w \in Workers, ExceedCap(w) PROVE BootInv'
    BY <2>9, BootInvKept DEF ExceedCap
  <2>10. ASSUME NEW w \in Workers, KernelKill(w) PROVE BootInv'
    BY <2>10, BootInvKept DEF KernelKill, Die, TypeOK
  <2>11. ASSUME NEW w \in Workers, Crash(w) PROVE BootInv'
    BY <2>11, BootInvKept DEF Crash, Die, TypeOK
  <2>12. ASSUME NEW w \in Workers, TerminateWorker(w) PROVE BootInv'
    BY <2>12, BootInvKept DEF TerminateWorker, TypeOK
  <2>13. ASSUME NEW w \in Workers, PollWorker(w) PROVE BootInv'
    BY <2>13, BootInvKept DEF PollWorker
  <2>14. ASSUME NEW k \in Slots, CollectResult(k) PROVE BootInv'
    BY <2>14, BootInvCollected
  <2>15. ASSUME NEW k \in Slots, CollectFailure(k) PROVE BootInv'
    BY <2>15, BootInvKept DEF CollectFailure, ShutdownAndRaise
  <2>16. ASSUME NEW k \in Slots, CollectBroken(k) PROVE BootInv'
    BY <2>16, BootInvKept DEF CollectBroken, ShutdownAndRaise
  <2>17. CASE PollWithoutTable
    BY <2>17, BootInvKept DEF PollWithoutTable
  <2>18. CASE BreakPool
    BY <2>18, BootInvKept DEF BreakPool
  <2>19. CASE SubmitPage
    BY <2>19, BootInvKept DEF SubmitPage, TypeOK
  <2>20. CASE SubmitToBrokenPool
    BY <2>20, BootInvKept DEF SubmitToBrokenPool
  <2>21. CASE EndCollection
    BY <2>21, BootInvKept DEF EndCollection
  <2>22. CASE StopWatchdog
    BY <2>22, BootInvKept DEF StopWatchdog
  <2>23. CASE LeaveExecutor
    BY <2>23, BootInvKept DEF LeaveExecutor
  <2>24. CASE MergePages
    BY <2>24, BootInvKept DEF MergePages
  <2>25. CASE TimeOutPages
    BY <2>25, BootInvKept DEF TimeOutPages, ShutdownAndRaise
  <2>26. CASE TimeOutRun
    BY <2>26, BootInvKept DEF TimeOutRun
  <2>27. CASE UNCHANGED vars
    BY <2>27, BootInvKept DEF vars
  <2> QED
    BY <2>1, <2>2, <2>3, <2>4, <2>5, <2>6, <2>7, <2>8, <2>9, <2>10, <2>11, <2>12, <2>13, <2>14,
       <2>15, <2>16, <2>17, <2>18, <2>19, <2>20, <2>21, <2>22, <2>23, <2>24, <2>25, <2>26, <2>27
    DEF Next, WorkerStep, CollectStep, ParentStep, Finished
<1> QED
  BY <1>1, <1>2, TypeCorrect, PTL DEF Spec

(* A returning run reports each worker's boot warning once                  *)
(* (PageRun!BootWarningOnce).                                               *)
THEOREM BootWarnedOnce == Spec => []BootWarningOnce
<1>1. TypeOK /\ RunInv /\ BootInv => BootWarningOnce
  <2> SUFFICES ASSUME TypeOK, RunInv, BootInv, Outcome = "ok", NEW w \in Workers
               PROVE  /\ reported[w] <= 1
                      /\ bootWarn[w] /\ drained[w] => reported[w] = 1
    BY DEF BootWarningOnce
  <2>1. consumed = Slots
    <3>. "ok" \notin Errors
      BY DEF Errors
    <3>. QED BY DEF TypeOK, RunInv, AllCollected, Outcome, Running
  <2>2. reported[w] = IF \E k \in consumed : rides[k] = w THEN 1 ELSE 0
    BY DEF BootInv, Reported
  <2> QED
    BY <2>1, <2>2 DEF BootInv, Riders
<1> QED
  BY <1>1, TypeCorrect, RunInvHolds, BootInvHolds, PTL

-----------------------------------------------------------------------------
(* The pages a timeout names were not consumed, and no later step consumes  *)
(* them.                                                                    *)

LateNamed == \A k \in laggards : k \notin consumed /\ error = "PerPageTimeoutError"

(* PerPageTimeoutError names no page whose result the parent had, whatever  *)
(* completed while as_completed() was giving up; and no other error names   *)
(* any (`pending` in the handler of the collection loop).                   *)
THEOREM LaggardsHadNoResult ==
  Spec => [](\A k \in laggards :
               error = "PerPageTimeoutError" /\ merged[Selected[k]] = None)
<1> USE DEF runVars, workerVars, watchVars
<1>1. Init => LateNamed
  BY DEF Init, LateNamed
<1>2. TypeOK /\ RunInv /\ BootInv /\ LateNamed /\ [Next]_vars => LateNamed'
  <2> SUFFICES ASSUME TypeOK, RunInv, BootInv, LateNamed, [Next]_vars PROVE LateNamed'
    OBVIOUS
  <2>0. parent \in {"submit", "collect", "merge"} => error = "none"
    BY DEF RunInv, ErrorsRaised
  <2>1. ASSUME NEW w \in Workers, BootWorker(w) PROVE LateNamed'
    BY <2>0, <2>1 DEF BootWorker, LateNamed
  <2>2. ASSUME NEW w \in Workers, TakeJob(w) PROVE LateNamed'
    BY <2>0, <2>2 DEF TakeJob, LateNamed
  <2>3. ASSUME NEW w \in Workers, EnterPage(w) PROVE LateNamed'
    BY <2>0, <2>3 DEF EnterPage, LateNamed
  <2>4. ASSUME NEW w \in Workers, PassLastCheck(w) PROVE LateNamed'
    BY <2>0, <2>4 DEF PassLastCheck, LateNamed
  <2>5. ASSUME NEW w \in Workers, AbortPage(w) PROVE LateNamed'
    BY <2>0, <2>5 DEF AbortPage, Resolve, LateNamed
  <2>6. ASSUME NEW w \in Workers, FailPage(w) PROVE LateNamed'
    BY <2>0, <2>6 DEF FailPage, Resolve, LateNamed
  <2>7. ASSUME NEW w \in Workers, FailAllocation(w) PROVE LateNamed'
    BY <2>0, <2>7 DEF FailAllocation, Resolve, LateNamed
  <2>8. ASSUME NEW w \in Workers, ReturnPage(w) PROVE LateNamed'
    BY <2>0, <2>8 DEF ReturnPage, Resolve, LateNamed
  <2>9. ASSUME NEW w \in Workers, ExceedCap(w) PROVE LateNamed'
    BY <2>0, <2>9 DEF ExceedCap, LateNamed
  <2>10. ASSUME NEW w \in Workers, KernelKill(w) PROVE LateNamed'
    BY <2>0, <2>10 DEF KernelKill, Die, LateNamed
  <2>11. ASSUME NEW w \in Workers, Crash(w) PROVE LateNamed'
    BY <2>0, <2>11 DEF Crash, Die, LateNamed
  <2>12. ASSUME NEW w \in Workers, TerminateWorker(w) PROVE LateNamed'
    BY <2>0, <2>12 DEF TerminateWorker, LateNamed
  <2>13. ASSUME NEW w \in Workers, PollWorker(w) PROVE LateNamed'
    BY <2>0, <2>13 DEF PollWorker, LateNamed
  <2>14. ASSUME NEW k \in Slots, CollectResult(k) PROVE LateNamed'
    BY <2>0, <2>14 DEF CollectResult, LateNamed
  <2>15. ASSUME NEW k \in Slots, CollectFailure(k) PROVE LateNamed'
    BY <2>0, <2>15 DEF CollectFailure, ShutdownAndRaise, LateNamed
  <2>16. ASSUME NEW k \in Slots, CollectBroken(k) PROVE LateNamed'
    BY <2>0, <2>16 DEF CollectBroken, ShutdownAndRaise, LateNamed
  <2>17. CASE PollWithoutTable
    BY <2>0, <2>17 DEF PollWithoutTable, LateNamed
  <2>18. CASE BreakPool
    BY <2>0, <2>18 DEF BreakPool, LateNamed
  <2>19. CASE SubmitPage
    BY <2>0, <2>19 DEF SubmitPage, LateNamed
  <2>20. CASE SubmitToBrokenPool
    BY <2>0, <2>20 DEF SubmitToBrokenPool, LateNamed
  <2>21. CASE EndCollection
    BY <2>0, <2>21 DEF EndCollection, LateNamed
  <2>22. CASE StopWatchdog
    BY <2>0, <2>22 DEF StopWatchdog, LateNamed
  <2>23. CASE LeaveExecutor
    BY <2>0, <2>23 DEF LeaveExecutor, LateNamed
  <2>24. CASE MergePages
    BY <2>0, <2>24 DEF MergePages, LateNamed
  <2>25. CASE TimeOutPages
    <3>1. laggards' \subseteq {k \in Slots : fut[k] \in {"queued", "running"}}
          /\ consumed' = consumed /\ error' = "PerPageTimeoutError"
      BY <2>25 DEF TimeOutPages, ShutdownAndRaise, Listed, NotCancellable, Pending
    <3>2. \A k \in consumed : fut[k] = "returned"
      BY DEF BootInv, Reported
    <3> QED
      BY <3>1, <3>2 DEF LateNamed
  <2>26. CASE TimeOutRun
    BY <2>0, <2>26 DEF TimeOutRun, LateNamed
  <2>27. CASE UNCHANGED vars
    BY <2>0, <2>27 DEF vars, LateNamed
  <2> QED
    BY <2>1, <2>2, <2>3, <2>4, <2>5, <2>6, <2>7, <2>8, <2>9, <2>10, <2>11, <2>12, <2>13, <2>14,
       <2>15, <2>16, <2>17, <2>18, <2>19, <2>20, <2>21, <2>22, <2>23, <2>24, <2>25, <2>26, <2>27
    DEF Next, WorkerStep, CollectStep, ParentStep, Finished
<1>3. TypeOK /\ RunInv /\ LateNamed =>
        \A k \in laggards : error = "PerPageTimeoutError" /\ merged[Selected[k]] = None
  BY DEF TypeOK, RunInv, MergedOnce, LateNamed
<1> QED
  BY <1>1, <1>2, <1>3, TypeCorrect, RunInvHolds, BootInvHolds, PTL DEF Spec

-----------------------------------------------------------------------------
(* Refinement: the run implements PageBatch.  CollectResult is Collect,     *)
(* MergePages is Finish, an exception leaving the executor or the final     *)
(* timeout check is Fail, and every other step leaves the batch alone.      *)

(* Steps that touch neither the outcome, the output nor the consumed slots. *)
LEMMA Stutters ==
  ASSUME parent # "done", parent' # "done", UNCHANGED <<consumed, output>>
  PROVE  UNCHANGED Batch!vars
BY DEF Batch!vars, Outcome, Running

(* PageRun implements PageBatch (PageRun!ImplementsBatch). *)
THEOREM Implements == Spec => ImplementsBatch
<1> USE DEF runVars, workerVars, watchVars
<1>1. Init => Batch!Init
  BY DEF Init, Batch!Init, Outcome, Running
<1>2. TypeOK /\ RunInv /\ RunInv' /\ [Next]_vars => [Batch!Next]_(Batch!vars)
  <2> SUFFICES ASSUME TypeOK, RunInv, RunInv', [Next]_vars
               PROVE  Batch!Next \/ UNCHANGED Batch!vars
    OBVIOUS
  <2>1. ASSUME NEW w \in Workers, BootWorker(w) PROVE Batch!Next \/ UNCHANGED Batch!vars
    BY <2>1 DEF BootWorker, Observed, Running, Process, Batch!vars, Outcome
  <2>2. ASSUME NEW w \in Workers, TakeJob(w) PROVE Batch!Next \/ UNCHANGED Batch!vars
    BY <2>2 DEF TakeJob, Observed, Running, Process, Batch!vars, Outcome
  <2>3. ASSUME NEW w \in Workers, EnterPage(w) PROVE Batch!Next \/ UNCHANGED Batch!vars
    BY <2>3 DEF EnterPage, Observed, Running, Process, Batch!vars, Outcome
  <2>4. ASSUME NEW w \in Workers, PassLastCheck(w) PROVE Batch!Next \/ UNCHANGED Batch!vars
    BY <2>4 DEF PassLastCheck, Observed, Running, Process, Batch!vars, Outcome
  <2>5. ASSUME NEW w \in Workers, AbortPage(w) PROVE Batch!Next \/ UNCHANGED Batch!vars
    BY <2>5 DEF AbortPage, Resolve, Observed, Running, Process, Batch!vars, Outcome
  <2>6. ASSUME NEW w \in Workers, FailPage(w) PROVE Batch!Next \/ UNCHANGED Batch!vars
    BY <2>6 DEF FailPage, Resolve, Observed, Running, Process, Batch!vars, Outcome
  <2>7. ASSUME NEW w \in Workers, FailAllocation(w) PROVE Batch!Next \/ UNCHANGED Batch!vars
    BY <2>7 DEF FailAllocation, Resolve, Observed, Running, Process, Batch!vars, Outcome
  <2>8. ASSUME NEW w \in Workers, ReturnPage(w) PROVE Batch!Next \/ UNCHANGED Batch!vars
    BY <2>8 DEF ReturnPage, Resolve, Observed, Running, Process, Batch!vars, Outcome
  <2>9. ASSUME NEW w \in Workers, ExceedCap(w) PROVE Batch!Next \/ UNCHANGED Batch!vars
    BY <2>9 DEF ExceedCap, Observed, Running, Process, Batch!vars, Outcome
  <2>10. ASSUME NEW w \in Workers, KernelKill(w) PROVE Batch!Next \/ UNCHANGED Batch!vars
    BY <2>10 DEF KernelKill, Die, Observed, Running, Process, Batch!vars, Outcome
  <2>11. ASSUME NEW w \in Workers, Crash(w) PROVE Batch!Next \/ UNCHANGED Batch!vars
    BY <2>11 DEF Crash, Die, Observed, Running, Process, Batch!vars, Outcome
  <2>12. ASSUME NEW w \in Workers, TerminateWorker(w) PROVE Batch!Next \/ UNCHANGED Batch!vars
    BY <2>12 DEF TerminateWorker, Observed, Running, Process, Batch!vars, Outcome
  <2>13. ASSUME NEW w \in Workers, PollWorker(w) PROVE Batch!Next \/ UNCHANGED Batch!vars
    BY <2>13 DEF PollWorker, Observed, Running, Process, Batch!vars, Outcome
  <2>14. ASSUME NEW k \in Slots, CollectResult(k) PROVE Batch!Next \/ UNCHANGED Batch!vars
    <3>1. parent = "collect" /\ parent' # "done" /\ k \notin consumed
      BY <2>14 DEF CollectResult
    <3>2. consumed' = consumed \union {k} /\ output' = output /\ error' = error
      BY <2>14 DEF CollectResult
    <3>3. Selected[k] \in Batch!Pages
      BY DEF Batch!Pages, Slots
    <3>4. Selected[k] \notin {Selected[j] : j \in consumed}
      BY <3>1, SlotsDistinct DEF TypeOK
    <3>5. {Selected[j] : j \in consumed'} = {Selected[j] : j \in consumed} \union {Selected[k]}
      BY <3>2
    <3>6. Outcome = "running" /\ Outcome' = "running"
      BY <3>1 DEF Outcome, Running
    <3>7. Batch!Collect(Selected[k])
      BY <3>2, <3>4, <3>5, <3>6 DEF Batch!Collect
    <3> QED
      BY <3>3, <3>7 DEF Batch!Next
  <2>15. ASSUME NEW k \in Slots, CollectFailure(k) PROVE Batch!Next \/ UNCHANGED Batch!vars
    BY <2>15, Stutters DEF CollectFailure, ShutdownAndRaise
  <2>16. ASSUME NEW k \in Slots, CollectBroken(k) PROVE Batch!Next \/ UNCHANGED Batch!vars
    BY <2>16, Stutters DEF CollectBroken, ShutdownAndRaise
  <2>17. CASE PollWithoutTable
    BY <2>17 DEF PollWithoutTable, Observed, Running, Process, Batch!vars, Outcome
  <2>18. CASE BreakPool
    BY <2>18 DEF BreakPool, Observed, Running, Process, Batch!vars, Outcome
  <2>19. CASE SubmitPage
    BY <2>19, Stutters DEF SubmitPage
  <2>20. CASE SubmitToBrokenPool
    BY <2>20, Stutters DEF SubmitToBrokenPool
  <2>21. CASE EndCollection
    BY <2>21, Stutters DEF EndCollection
  <2>22. CASE StopWatchdog
    BY <2>22, Stutters DEF StopWatchdog
  <2>23. CASE LeaveExecutor
    <3>1. CASE error = "none"
      BY <3>1, <2>23, Stutters DEF LeaveExecutor
    <3>2. CASE error # "none"
      <4>1. Outcome = "running" /\ Outcome' = error /\ UNCHANGED <<consumed, output>>
        BY <3>2, <2>23 DEF LeaveExecutor, Outcome, Running
      <4>2. error \in Errors
        BY <3>2 DEF TypeOK
      <4> QED
        BY <4>1, <4>2 DEF Batch!Next, Batch!Fail
    <3> QED
      BY <3>1, <3>2
  <2>24. CASE MergePages
    <3>1. consumed = Slots /\ error = "none" /\ error' = "none"
      BY <2>24 DEF MergePages, RunInv, ErrorsRaised, AllCollected
    <3>2. output' = Selected
      BY <3>1, <2>24 DEF MergePages, RunInv, Delivered
    <3>3. Outcome = "running" /\ Outcome' = "ok" /\ UNCHANGED consumed
      BY <3>1, <2>24 DEF MergePages, Outcome, Running
    <3>4. {Selected[j] : j \in consumed} = Batch!Pages
      BY <3>1 DEF Batch!Pages, Slots
    <3> QED
      BY <3>2, <3>3, <3>4 DEF Batch!Next, Batch!Finish
  <2>25. CASE TimeOutPages
    BY <2>25, Stutters DEF TimeOutPages, ShutdownAndRaise
  <2>26. CASE TimeOutRun
    <3>1. Outcome = "running" /\ Outcome' = "TotalTimeoutError" /\ UNCHANGED <<consumed, output>>
      BY <2>26 DEF TimeOutRun, Outcome, Running
    <3> QED
      BY <3>1 DEF Batch!Next, Batch!Fail, Errors
  <2>27. CASE UNCHANGED vars
    BY <2>27 DEF vars, Batch!vars, Outcome, Running
  <2> QED
    BY <2>1, <2>2, <2>3, <2>4, <2>5, <2>6, <2>7, <2>8, <2>9, <2>10, <2>11, <2>12, <2>13, <2>14,
       <2>15, <2>16, <2>17, <2>18, <2>19, <2>20, <2>21, <2>22, <2>23, <2>24, <2>25, <2>26, <2>27
    DEF Next, WorkerStep, CollectStep, ParentStep, Finished
<1> QED
  BY <1>1, <1>2, TypeCorrect, RunInvHolds, PTL DEF Spec, ImplementsBatch, Batch!Spec
=============================================================================
