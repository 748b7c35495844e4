-------------------------- MODULE HostSizingProofs --------------------------
(***************************************************************************)
(* What HostSizing promises the host and the caller, for any figures: the  *)
(* capped workers of a pool share its budget, a call that was admitted is  *)
(* not refused later unless memory shrank, and a pool without a cap was    *)
(* asked for - but for a host that has not a byte for each worker.         *)
(***************************************************************************)
EXTENDS HostSizing, TLAPS

(* Whole shares: n of them fit, and n larger ones do not. *)
LEMMA Division ==
  ASSUME NEW a \in Nat, NEW n \in Nat \ {0}
  PROVE  a \div n \in Nat /\ n * (a \div n) <= a /\ a < n * (a \div n) + n
OBVIOUS

LEMMA ProductsGrow ==
  ASSUME NEW s \in Nat, NEW t \in Nat, NEW n \in Nat, NEW m \in Nat, s <= t, n <= m
  PROVE  n * s \in Nat /\ m * t \in Nat /\ n * s <= m * t
OBVIOUS

LEMMA OneMore == ASSUME NEW n \in Nat, NEW s \in Nat PROVE n * s \in Nat /\ n * (s + 1) = n * s + n
OBVIOUS

(* More memory for no more workers makes no smaller shares. *)
LEMMA BudgetGrows ==
  ASSUME NEW a \in Nat, NEW b \in Nat, a <= b
  PROVE  Budget(a) \in Nat /\ Budget(b) \in Nat /\ Budget(a) <= Budget(b)
BY DEF Budget

LEMMA ShareGrows ==
  ASSUME NEW a \in Nat, NEW b \in Nat, a <= b, NEW n \in Nat, NEW m \in Nat, n <= m
  PROVE  Share(a, m) \in Nat /\ Share(b, n) \in Nat /\ Share(a, m) <= Share(b, n)
<1>. DEFINE p == Greater(1, n)
            q == Greater(1, m)
            s == Budget(a) \div q
            t == Budget(b) \div p
<1>1. p \in Nat \ {0} /\ q \in Nat \ {0} /\ p <= q
  BY DEF Greater
<1>2. Budget(a) \in Nat /\ Budget(b) \in Nat /\ Budget(a) <= Budget(b)
  BY BudgetGrows
<1>. HIDE DEF p, q
<1>3. s \in Nat /\ q * s <= Budget(a) /\ t \in Nat /\ Budget(b) < p * t + p
  BY <1>1, <1>2, Division
<1>. HIDE DEF s, t
<1>4. s <= t
  <2>. SUFFICES ASSUME t + 1 <= s PROVE FALSE
    BY <1>3
  <2>1. q * s \in Nat /\ p * (t + 1) <= q * s
    BY <1>1, <1>3, ProductsGrow
  <2>2. p * t \in Nat /\ p * (t + 1) = p * t + p
    BY <1>1, <1>3, OneMore
  <2>3. p * t + p <= Budget(a) /\ Budget(b) < p * t + p
    <3>. HIDE DEF p
    <3>1. p * t + p <= q * s
      BY <2>1, <2>2
    <3>. QED BY <1>1, <1>2, <1>3, <2>1, <2>2, <3>1
  <2>. QED BY <1>1, <1>2, <2>2, <2>3
<1>. QED BY <1>3, <1>4 DEF Share, p, q, s, t

(* Worker counts, and what a worker may take by itself. *)
LEMMA Counts ==
  ASSUME NEW c \in Calls
  PROVE  /\ RequestedWorkers(c) \in Nat \ {0}
         /\ ResolvedWorkers(c) \in Nat
         /\ ResolvedWorkers(c) <= RequestedWorkers(c)
BY DEF Calls, RequestedWorkers, ResolvedWorkers, Lesser, AutoWorkerReserve

LEMMA OwnNeeds ==
  ASSUME NEW c \in Calls, c.memory # 0
  PROVE  PerWorker(c) \in Nat \ {0}
<1>1. CASE c.memory # Unset
  <2>1. c.memory \in Nat \ {0} /\ MiB \in Nat \ {0}
    BY <1>1, SizingAssumption DEF Calls, SizingAssumption
  <2>2. c.memory * MiB \in Nat \ {0}
    BY <2>1
  <2>. QED BY <1>1, <2>2 DEF PerWorker
<1>2. CASE c.memory = Unset
  <2>1. c.size \in Nat /\ Inflation * c.size \in Nat
    BY SizingAssumption DEF Calls, SizingAssumption
  <2>. QED BY <1>2, <2>1, SizingAssumption DEF PerWorker, SizingAssumption, Lesser, Greater
<1>. QED BY <1>1, <1>2

-----------------------------------------------------------------------------
(* The workers of a capped pool, all at their caps, stay within 70% of the  *)
(* memory that was available when it was started (the aggregate envelope    *)
(* of _compute_worker_mem_cap), and each has the minimum.                   *)
THEOREM CapsShareHost ==
  ASSUME NEW c \in Calls, NEW first \in Readings, NEW second \in Nat,
         Sized(c, first, second) = "capped"
  PROVE  /\ PoolCap(c, second) >= MinCap
         /\ ResolvedWorkers(c) * PoolCap(c, second) <= Budget(second)
<1>. DEFINE n == ResolvedWorkers(c)
            share == Budget(second) \div n
            cap == PoolCap(c, second)
<1>1. n \in Nat /\ n > 1 /\ ~TooLittle(cap) /\ cap # 0
  BY Counts DEF Sized, UsesPool
<1>2. Budget(second) \in Nat
  BY BudgetGrows
<1>. HIDE DEF n
<1>3. share \in Nat /\ n * share <= Budget(second)
  BY <1>1, <1>2, Division
<1>4. c.memory # 0 /\ second # Unreadable
  BY <1>1, SizingAssumption DEF PoolCap, MemCap, SizingAssumption
<1>5. Share(second, n) = share
  BY <1>1 DEF Share, Greater
<1>6. cap = Lesser(PerWorker(c), share)
  BY <1>4, <1>5 DEF PoolCap, MemCap, n
<1>7. PerWorker(c) \in Nat \ {0}
  BY <1>4, OwnNeeds
<1>. HIDE DEF share, cap
<1>8. cap \in Nat /\ cap <= share
  BY <1>3, <1>6, <1>7 DEF Lesser
<1>9. n * cap <= n * share /\ n * cap \in Nat /\ n * share \in Nat
  BY <1>1, <1>3, <1>8, ProductsGrow
<1>10. cap >= MinCap
  BY <1>1, <1>8, SizingAssumption DEF TooLittle, SizingAssumption
<1>11. n * cap <= Budget(second)
  BY <1>2, <1>3, <1>9
<1>. QED BY <1>10, <1>11 DEF n, cap

(* A call that was admitted with its minimum is not refused when the pool   *)
(* is started unless the memory available has shrunk in between, although   *)
(* the cap is computed again from another number of workers.                *)
THEOREM AdmittedStaysAdmitted ==
  ASSUME NEW c \in Calls, NEW first \in Nat, NEW second \in Nat, first <= second,
         EntryCap(c, first) >= MinCap
  PROVE  /\ PoolCap(c, second) >= EntryCap(c, first)
         /\ Sized(c, first, second) # "refused"
<1>1. /\ first # Unreadable /\ second # Unreadable
      /\ MinCap \in Nat \ {0}
  BY SizingAssumption DEF SizingAssumption
<1>2. c.memory # 0
  BY <1>1 DEF EntryCap, MemCap
<1>3. PerWorker(c) \in Nat \ {0}
  BY <1>2, OwnNeeds
<1>4. /\ Share(first, RequestedWorkers(c)) \in Nat
      /\ Share(second, ResolvedWorkers(c)) \in Nat
      /\ Share(first, RequestedWorkers(c)) <= Share(second, ResolvedWorkers(c))
  BY Counts, ShareGrows
<1>5. /\ EntryCap(c, first) = Lesser(PerWorker(c), Share(first, RequestedWorkers(c)))
      /\ PoolCap(c, second) = Lesser(PerWorker(c), Share(second, ResolvedWorkers(c)))
  BY <1>1, <1>2 DEF EntryCap, PoolCap, MemCap
<1>6. /\ EntryCap(c, first) \in Nat /\ PoolCap(c, second) \in Nat
      /\ EntryCap(c, first) <= PoolCap(c, second)
  BY <1>3, <1>4, <1>5 DEF Lesser
<1>7. ~TooLittle(EntryCap(c, first)) /\ ~TooLittle(PoolCap(c, second))
  BY <1>1, <1>6 DEF TooLittle
<1>. QED BY <1>6, <1>7 DEF Sized

(* A process pool runs without a cap only where the caller switched it off  *)
(* or the host's budget has not a byte for each worker.                     *)
THEOREM UncappedMeansOff ==
  ASSUME NEW c \in Calls, NEW first \in Readings, NEW second \in Readings,
         Sized(c, first, second) = "uncapped"
  PROVE  \/ c.memory = 0
         \/ second \in Nat /\ Budget(second) < ResolvedWorkers(c)
<1>. SUFFICES ASSUME c.memory # 0
     PROVE  second \in Nat /\ Budget(second) < ResolvedWorkers(c)
  OBVIOUS
<1>. DEFINE n == ResolvedWorkers(c)
            share == Budget(second) \div n
<1>1. n \in Nat /\ n > 1 /\ PoolCap(c, second) = 0
  BY Counts DEF Sized, UsesPool
<1>2. PerWorker(c) \in Nat \ {0}
  BY OwnNeeds
<1>3. second \in Nat /\ second # Unreadable
  BY <1>1, <1>2 DEF PoolCap, MemCap, Readings
<1>4. Budget(second) \in Nat
  BY <1>3, BudgetGrows
<1>. HIDE DEF n
<1>5. share \in Nat /\ Budget(second) < n * share + n
  <2>1. n \in Nat \ {0}
    BY <1>1
  <2>. QED BY <1>4, <2>1, Division
<1>6. Share(second, n) = share
  BY <1>1 DEF Share, Greater
<1>7. Lesser(PerWorker(c), share) = 0
  BY <1>1, <1>3, <1>6 DEF PoolCap, MemCap, n
<1>. HIDE DEF share
<1>8. share = 0
  BY <1>2, <1>5, <1>7 DEF Lesser
<1>9. Budget(second) < n
  BY <1>1, <1>5, <1>8
<1>. QED BY <1>3, <1>9 DEF n
=============================================================================
