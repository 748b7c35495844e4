----------------------------- MODULE PageBatch -----------------------------
(***************************************************************************)
(* What the per-page phase of hankpdf.compress() promises its caller,      *)
(* whatever pool runs the pages: pages are collected one by one in any     *)
(* order, and then either one output is delivered that holds every         *)
(* selected page, once, in ascending order, or one error is raised and no  *)
(* output is delivered.  PageRun implements it.                            *)
(***************************************************************************)
EXTENDS Naturals, Sequences

CONSTANTS
  Selections, (* the ascending sequences of page indices one may select    *)
  Errors      (* the exceptions the phase may raise                        *)

VARIABLES
  selected,   (* the run's selection, `_selected_indices`                  *)
  collected,  (* pages whose result the parent has merged                  *)
  outcome,    (* "running", "ok" or the exception raised                   *)
  output      (* pages of the delivered PDF, in order                      *)

vars == <<selected, collected, outcome, output>>

Pages == {selected[k] : k \in 1..Len(selected)}

Init ==
  /\ selected \in Selections
  /\ collected = {}
  /\ outcome = "running"
  /\ output = <<>>

(* A page result arrives; completion order is free. *)
Collect(p) ==
  /\ outcome = "running"
  /\ p \notin collected
  /\ collected' = collected \union {p}
  /\ UNCHANGED <<selected, outcome, output>>

(* Delivery needs every selected page. *)
Finish ==
  /\ outcome = "running"
  /\ collected = Pages
  /\ outcome' = "ok"
  /\ output' = selected
  /\ UNCHANGED <<selected, collected>>

(* An error delivers nothing, however many pages were already collected. *)
Fail ==
  /\ outcome = "running"
  /\ outcome' \in Errors
  /\ UNCHANGED <<selected, collected, output>>

Next ==
  \/ \E p \in Pages : Collect(p)
  \/ Finish
  \/ Fail

Spec == Init /\ [][Next]_vars
=============================================================================
