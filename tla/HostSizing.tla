------------------------------ MODULE HostSizing ------------------------------
(***************************************************************************)
(* How compress() chooses an executor, its workers and the memory each may *)
(* take.  The cap is computed twice from the memory then available: before *)
(* anything else, for the workers asked for, and when the pool is started, *)
(* for the workers that the selected pages need.                           *)
(***************************************************************************)
EXTENDS Naturals

CONSTANTS
  MiB,           (* bytes of the unit of max_worker_memory_mb              *)
  MinCap,        (* least cap a worker is started with (256 MB)            *)
  FloorBytes,    (* _FLOOR_BYTES                                           *)
  HardCeiling,   (* _HARD_CEILING_BYTES                                    *)
  Inflation,     (* _INFLATION_FACTOR                                      *)
  Unset,         (* max_worker_memory_mb = None                            *)
  Unreadable     (* psutil cannot tell the available memory                *)

ASSUME SizingAssumption ==
  /\ MiB \in Nat \ {0}
  /\ MinCap \in Nat \ {0}
  /\ FloorBytes \in Nat \ {0}
  /\ HardCeiling \in Nat \ {0}
  /\ Inflation \in Nat
  /\ Unset \notin Nat
  /\ Unreadable \notin Nat

(* What a call brings along: the size of its input, its selected pages,     *)
(* max_workers, max_worker_memory_mb, the processors of the host (4 if they *)
(* cannot be counted), and whether HANKPDF_POOL=thread.                     *)
Calls == [size : Nat, pages : Nat, workers : Nat, memory : Nat \union {Unset},
          cpus : Nat \ {0}, thread : BOOLEAN]
Readings == Nat \union {Unreadable}

Lesser(a, b) == IF a <= b THEN a ELSE b
Greater(a, b) == IF a <= b THEN b ELSE a

AutoWorkerReserve == 1
PoolFromPages == 4

(* _requested_worker_count: as many as asked for, 0 leaving a processor     *)
(* to the host.                                                             *)
RequestedWorkers(c) ==
  IF c.workers > 0 THEN c.workers
  ELSE IF c.cpus > AutoWorkerReserve THEN c.cpus - AutoWorkerReserve ELSE 1

(* _resolve_worker_count: no more than there are pages. *)
ResolvedWorkers(c) ==
  IF c.workers = 1 THEN 1 ELSE Lesser(RequestedWorkers(c), c.pages)

(* _compute_worker_mem_cap.  What the caller sets replaces floor, inflation *)
(* and ceiling, but not the share of the host; 0 switches the cap off.      *)
PerWorker(c) ==
  IF c.memory # Unset THEN c.memory * MiB
  ELSE Lesser(Greater(FloorBytes, Inflation * c.size), HardCeiling)

(* int(available * 0.7), taken exactly, and an equal share of it.           *)
Budget(available) == (7 * available) \div 10
Share(available, n) == Budget(available) \div Greater(1, n)

MemCap(c, n, available) ==
  IF c.memory = 0 THEN 0
  ELSE IF available = Unreadable THEN PerWorker(c)
  ELSE Lesser(PerWorker(c), Share(available, n))

EntryCap(c, available) == MemCap(c, RequestedWorkers(c), available)
PoolCap(c, available) == MemCap(c, ResolvedWorkers(c), available)

(* HostResourceError.  A cap of 0 is taken for one that was switched off.   *)
TooLittle(cap) == cap > 0 /\ cap < MinCap

UsesPool(c) == ResolvedWorkers(c) > 1 /\ c.pages >= PoolFromPages

(* What comes of a call that reads `first` at entry and `second` when it    *)
(* starts the pool.                                                         *)
Sized(c, first, second) ==
  CASE ~c.thread /\ TooLittle(EntryCap(c, first)) -> "refused"
    [] c.thread -> IF UsesPool(c) THEN "thread" ELSE "serial"
    [] OTHER -> IF ~UsesPool(c) THEN "serial"
                ELSE IF TooLittle(PoolCap(c, second)) THEN "refused"
                ELSE IF PoolCap(c, second) = 0 THEN "uncapped" ELSE "capped"
=============================================================================
