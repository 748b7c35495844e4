------------------------------ MODULE MCPageRun ------------------------------
(* Model values and bounds for checking PageRun and the sizing before it.   *)
EXTENDS PageRun, HostSizing, TLC

(* Four pages, the least a pool is used for, whose indices are not their    *)
(* positions; the third page is copied verbatim.                            *)
MCSelected == <<1, 2, 4, 7>>
MCVerbatim == {3}

(* Workers are interchangeable; used in the run without liveness only.      *)
MCSymmetry == Permutations(Workers)

(* Calls and readings around every bound of the sizing.                     *)
MCCalls ==
  [size : {0, 3, 9}, pages : {1, 4}, workers : {0, 1, 2, 5}, memory : {0, 1, 3, 9, Unset},
   cpus : {1, 4}, thread : BOOLEAN]
MCReadings == {0, 1, 3, 10, 14, 40, Unreadable}

(* The executors a call of these pages may be given. *)
MCModes ==
  {Sized(c, first, second) : c \in {d \in MCCalls : d.pages = Len(Selected)},
                             first \in MCReadings, second \in MCReadings} \ {"refused"}

(* What HostSizingProofs proves for all figures, evaluated on these; and    *)
(* every executor is given to some call.                                    *)
ASSUME MCSizing ==
  /\ MCModes = ModeKinds /\ Modes \subseteq MCModes
  /\ \A c \in MCCalls, first \in MCReadings, second \in MCReadings :
       /\ Sized(c, first, second) = "capped" =>
            /\ PoolCap(c, second) >= MinCap
            /\ second = Unreadable \/ ResolvedWorkers(c) * PoolCap(c, second) <= Budget(second)
       /\ Sized(c, first, second) = "uncapped" =>
            c.memory = 0 \/ (second # Unreadable /\ Budget(second) < ResolvedWorkers(c))
       /\ first # Unreadable /\ second # Unreadable /\ EntryCap(c, first) >= MinCap =>
            second < first \/ Sized(c, first, second) # "refused"
=============================================================================
