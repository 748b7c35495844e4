--------------------------- MODULE CompressProofs ---------------------------
(***************************************************************************)
(* Proofs about Compress, for documents of any number of pages.  The       *)
(* inductive invariant says what the policy has established for every run  *)
(* past it (Admitted), that the selection and the flags fit the document   *)
(* (SelectedInside, FlagsAreGated), what _merge_result has recorded about  *)
(* the collected pages (Accounted, MergedCollected), and what the report   *)
(* is made from (ReportExact, InputReport).                                *)
(***************************************************************************)
EXTENDS Compress, TLAPS

EarlyPhases == {"arguments", "triage", "select", "policy", "floor", "gate", "setup"}
LatePhases == {"setup", "pages", "ratio", "verdict"}

(* What holds of a document the policy has let through. *)
Consented ==
  /\ ~Locked
  /\ doc.sig = "certified" => opts.allowCert
  /\ doc.sig = "signed" => opts.allow /\ ~opts.preserve

(* A run past the policy, or with a trace of the pages, or returned other   *)
(* than as a preserved signature, has consent.                              *)
Admitted ==
  \/ phase \in {"floor", "gate", "setup", "pages", "ratio", "verdict"}
  \/ collected # {} \/ merged # <<>>
  \/ Returned /\ report.sigState # "passthrough-preserved"
  => Consented

SelectedInside ==
  phase \in {"policy", "floor", "gate", "setup", "pages", "ratio", "verdict"} =>
    \A k \in DOMAIN selected : selected[k] \in 0..MaxPages /\ selected[k] < Pages

FlagsAreGated == phase \in LatePhases => flags = Gated

(* A collected page was made as its flag and the verifier ask; the failing  *)
(* ones are listed, each once.                                              *)
CheckedOrNot(i) ==
  /\ opts.verify => result[i] \in {"pass", "fail"}
  /\ ~opts.verify => result[i] \in {"verbatim", "unchecked"}
Accounted ==
  /\ collected \subseteq Indices(MaxPages)
  /\ \A i \in collected : CheckedOrNot(i)
  /\ \A i \in collected : result[i] = "fail" => \E k \in 1..Len(failing) : failing[k] = i
  /\ \A k \in 1..Len(failing) : failing[k] \in collected
  /\ \A j, k \in 1..Len(failing) : failing[j] = failing[k] => j = k

(* The merged document holds exactly the collected pages. *)
MergedCollected ==
  phase \in {"ratio", "verdict"} \/ Rewritten => Delivered = collected

(* Before the pages nothing has been collected. *)
Untouched == phase \in EarlyPhases => collected = {} /\ merged = <<>>

(* A report of a rewritten document is made of the aggregated results. *)
ReportExact ==
  Rewritten =>
    /\ report.verifier = VerifierStatus
    /\ report.failing = failing
    /\ report.verbatim = VerbatimPages
    /\ report.sigState = SignatureState
    /\ report.invalidated <=> SignatureState # "none"
    /\ VerifierStatus = "fail" => DriftTolerated

(* A returned input is never reported as verified. *)
InputReport ==
  /\ Returned => phase = "done"
  /\ Returned /\ report.output = "input" => report.verifier = "skipped"
  /\ Returned => report.output \in {"input", "merged"}

RunInv ==
  /\ Admitted
  /\ SelectedInside
  /\ FlagsAreGated
  /\ Accounted
  /\ MergedCollected
  /\ Untouched
  /\ ReportExact
  /\ InputReport
  /\ InterlockHolds

-----------------------------------------------------------------------------
(* Facts about documents, options and the gate. *)

LEMMA DocumentPages ==
  ASSUME NEW d \in Documents
  PROVE  d.pages \in Nat /\ d.pages <= MaxPages /\ d.sig \in Signatures
<1>1. CASE \E n \in 0..MaxPages :
               d \in [kind : {"plain", "encrypted"}, pages : {n}, sig : Signatures,
                      scores : Scores(n)]
  BY <1>1, CompressAssumption DEF CompressAssumption
<1>2. CASE d \in [kind : {"corrupt", "deep"}, pages : {0}, sig : {"none"}, scores : {<<>>}]
  BY <1>2, CompressAssumption DEF CompressAssumption, Signatures
<1>. QED BY <1>1, <1>2 DEF Documents

LEMMA PagesBounded == ASSUME TypeOK PROVE Pages \in Nat /\ Pages <= MaxPages
BY DocumentPages, CompressAssumption DEF TypeOK, Pages, CompressAssumption

(* The gate gives one boolean per page triage counted. *)
LEMMA GatedTyped ==
  ASSUME TypeOK
  PROVE  Gated \in Seq(BOOLEAN) /\ Len(Gated) = Pages
<1>1. Pages \in Nat
  BY PagesBounded
<1>2. /\ [k \in 1..Pages |-> TRUE] \in Seq(BOOLEAN)
      /\ Len([k \in 1..Pages |-> TRUE]) = Pages
  <2>. DEFINE n == Pages
  <2>1. n \in Nat
    BY <1>1
  <2>. HIDE DEF n
  <2>2. [k \in 1..n |-> TRUE] \in Seq(BOOLEAN) /\ Len([k \in 1..n |-> TRUE]) = n
    BY <2>1
  <2>. QED BY <2>2 DEF n
<1>3. /\ [k \in 1..Pages |-> k > Len(doc.scores) \/ doc.scores[k]] \in Seq(BOOLEAN)
      /\ Len([k \in 1..Pages |-> k > Len(doc.scores) \/ doc.scores[k]]) = Pages
  <2>. DEFINE n == Pages
              P(k) == k > Len(doc.scores) \/ doc.scores[k]
  <2>1. n \in Nat /\ \A k \in 1..n : P(k) \in BOOLEAN
    BY <1>1
  <2>. HIDE DEF n, P
  <2>2. [k \in 1..n |-> P(k)] \in Seq(BOOLEAN) /\ Len([k \in 1..n |-> P(k)]) = n
    BY <2>1
  <2>. QED BY <2>2 DEF n, P
<1>. QED BY <1>2, <1>3 DEF Gated

(* With the verifier on, every page is flagged: the interlock. *)
LEMMA VerifierFlagsAll ==
  ASSUME TypeOK, opts.verify, NEW k \in 1..Pages
  PROVE  Gated[k] = TRUE
BY DEF Gated, FullPipeline

(* All pages are a selection. *)
LEMMA AllPagesSelected ==
  ASSUME NEW n \in 0..MaxPages
  PROVE  [k \in 1..n |-> k - 1] \in Selections
<1>. DEFINE s == [k \in 1..n |-> k - 1]
<1>1. s \in [1..n -> Indices(MaxPages)]
  BY CompressAssumption DEF Indices, CompressAssumption
<1>2. Ascending(s)
  BY CompressAssumption DEF Ascending, CompressAssumption
<1>. QED BY <1>1, <1>2 DEF Selections

LEMMA SelectionTyped ==
  ASSUME NEW s \in Selections
  PROVE  /\ s \in Seq(Indices(MaxPages))
         /\ Len(s) \in Nat /\ DOMAIN s = 1..Len(s)
         /\ \A k \in 1..Len(s) : s[k] \in 0..MaxPages /\ s[k] < MaxPages
<1>1. PICK n \in 0..MaxPages : s \in [1..n -> Indices(MaxPages)]
  BY DEF Selections
<1>2. n \in Nat
  BY <1>1, CompressAssumption DEF CompressAssumption
<1>3. s \in Seq(Indices(MaxPages)) /\ Len(s) = n
  BY <1>1, <1>2
<1>. QED BY <1>1, <1>2, <1>3 DEF Indices

LEMMA EmptySelected == <<>> \in Selections
<1>1. <<>> \in [1..0 -> Indices(MaxPages)] /\ Ascending(<<>>)
  BY DEF Ascending
<1>. QED BY <1>1, CompressAssumption DEF Selections, CompressAssumption

(* The two kinds of report are reports. *)
LEMMA ReturnedInputTyped ==
  ASSUME NEW s \in {"none", "passthrough-preserved"}, ReturnInput(s)
  PROVE  /\ report' \in Reports /\ phase' = "done" /\ ending' = "returned"
         /\ report'.output = "input" /\ report'.verifier = "skipped" /\ report'.sigState = s
<1>. DEFINE r == [output |-> "input", exitCode |-> 2, sigState |-> s,
                  invalidated |-> FALSE, verifier |-> "skipped",
                  failing |-> <<>>, verbatim |-> {}]
<1>1. r \in Reports
  BY DEF Reports
<1>. QED BY <1>1 DEF ReturnInput

LEMMA RewrittenReportTyped ==
  ASSUME TypeOK,
         report' = [output |-> "merged", exitCode |-> 0, sigState |-> SignatureState,
                    invalidated |-> SignatureState # "none", verifier |-> VerifierStatus,
                    failing |-> failing, verbatim |-> VerbatimPages]
  PROVE  report' \in Reports
<1>1. /\ SignatureState \in {"none", "passthrough-preserved", "invalidated-allowed",
                             "certified-invalidated-allowed"}
      /\ VerifierStatus \in {"skipped", "pass", "fail"}
  BY DEF SignatureState, VerifierStatus
<1>2. (SignatureState # "none") \in BOOLEAN
  OBVIOUS
<1>3. failing \in Seq(Indices(MaxPages)) /\ VerbatimPages \in SUBSET Indices(MaxPages)
  BY DEF TypeOK, VerbatimPages
<1>. QED BY <1>1, <1>2, <1>3 DEF Reports

-----------------------------------------------------------------------------
(* Type correctness. *)

(* Every variable of a call keeps a value of its kind, and the gate and the *)
(* page phase always see one flag per page.                                 *)
THEOREM TypeCorrect == Spec => []TypeOK
<1>1. Init => TypeOK
  BY EmptySelected DEF Init, TypeOK
<1>2. TypeOK /\ [Next]_vars => TypeOK'
  <2>. SUFFICES ASSUME TypeOK, [Next]_vars PROVE TypeOK'
    OBVIOUS
  <2>1. CASE CheckArguments
    BY <2>1 DEF CheckArguments, TypeOK, Goto, Raise, pageVars, RaisedErrors, Refusals, Pages, Locked
  <2>2. CASE Triage
    BY <2>2 DEF Triage, TypeOK, Goto, Raise, pageVars, RaisedErrors, Refusals, Pages, Locked
  <2>3. CASE SelectPages
    BY <2>3, AllPagesSelected, PagesBounded
       DEF SelectPages, TypeOK, Goto, Raise, pageVars, RaisedErrors, PageErrors, Pages,
           Locked
  <2>4. CASE EnforcePolicy
    BY <2>4, ReturnedInputTyped
       DEF EnforcePolicy, TypeOK, Goto, Raise, pageVars, RaisedErrors, Refusals,
         Pages, Locked
  <2>5. CASE ApplySizeFloor
    BY <2>5, ReturnedInputTyped
       DEF ApplySizeFloor, TypeOK, Goto, Raise, pageVars, RaisedErrors, PageErrors,
         Pages, Locked
  <2>6. CASE RunGate
    BY <2>6, GatedTyped, ReturnedInputTyped DEF RunGate, TypeOK, Goto, pageVars, Pages, Locked
  <2>13. CASE SetUpPages
    BY <2>13 DEF SetUpPages, TypeOK, Goto, Raise, pageVars, RaisedErrors, Refusals, Pages, Locked
  <2>7. ASSUME NEW i \in Indices(MaxPages), i \in Batch!Pages, CollectPage(i) PROVE TypeOK'
    BY <2>7
       DEF CollectPage, TypeOK, Goto, Raise, RaisedErrors, PageErrors, Pages, Locked,
           PageResults, FailingWith, Batch!Fail, Batch!Collect
  <2>8. CASE FailPages
    BY <2>8 DEF FailPages, TypeOK, Raise, RaisedErrors, PageErrors, Pages, Locked, Batch!Fail
  <2>9. CASE MergePages
    BY <2>9 DEF MergePages, TypeOK, Goto, Pages, Locked, Batch!Finish
  <2>10. CASE ApplyRatioFloor
    BY <2>10, ReturnedInputTyped
       DEF ApplyRatioFloor, TypeOK, Goto, Raise, pageVars, RaisedErrors, PageErrors,
         Pages, Locked
  <2>11. CASE Finish
    BY <2>11, RewrittenReportTyped DEF Finish, TypeOK, Raise, pageVars, RaisedErrors, Pages, Locked
  <2>12. CASE UNCHANGED vars
    BY <2>12 DEF vars, pageVars, TypeOK, Pages, Locked
  <2>. QED BY <2>1, <2>2, <2>3, <2>4, <2>5, <2>6, <2>7, <2>8, <2>9, <2>10, <2>11, <2>12, <2>13
    DEF Next
<1>. QED BY <1>1, <1>2, PTL DEF Spec
-----------------------------------------------------------------------------
(* The inductive invariant. *)

LEMMA InitRunInv == Init => RunInv
BY DEF Init, RunInv, Admitted, SelectedInside, FlagsAreGated, Accounted, CheckedOrNot,
       MergedCollected, Untouched, ReportExact, InputReport, InterlockHolds, Returned,
       Rewritten, EarlyPhases, LatePhases, Indices

(* A step that raises leaves everything but the phase and the ending. *)
LEMMA RaisingKeeps ==
  ASSUME TypeOK, RunInv, NEW e \in RaisedErrors, Raise(e),
         UNCHANGED <<doc, opts, selected, flags, pageVars>>
  PROVE  RunInv'
<1>1. ~Returned' /\ ~Rewritten'
  BY DEF Raise, Returned, Rewritten, RaisedErrors, PageErrors, Refusals
<1>2. Admitted' /\ SelectedInside' /\ FlagsAreGated'
  BY <1>1 DEF RunInv, Admitted, SelectedInside, FlagsAreGated, Raise, pageVars, Consented,
              Locked, Pages, LatePhases
<1>3. Accounted' /\ InterlockHolds'
  BY DEF RunInv, Accounted, CheckedOrNot, InterlockHolds, pageVars
<1>4. MergedCollected' /\ Untouched' /\ ReportExact' /\ InputReport'
  BY <1>1 DEF MergedCollected, Untouched, ReportExact, InputReport, Raise, EarlyPhases
<1>. QED BY <1>2, <1>3, <1>4 DEF RunInv

(* So does a step to the next phase, whose own obligations come from the    *)
(* caller.                                                                  *)
LEMMA AdvancingKeeps ==
  ASSUME TypeOK, RunInv, phase # "done",
         NEW p \in {"triage", "select", "floor", "gate", "pages", "verdict"}, Goto(p),
         UNCHANGED <<doc, opts, selected, flags, pageVars>>,
         p \in {"floor", "gate", "verdict"} => Consented /\ phase \in {"policy", "floor", "ratio"},
         p \in {"triage", "select", "floor", "gate"} => phase \in EarlyPhases,
         p = "pages" => phase = "setup",
         p = "verdict" => phase = "ratio"
  PROVE  RunInv'
<1>1. ~Returned /\ ~Returned' /\ ~Rewritten'
  BY DEF Goto, Returned, Rewritten, RunInv, InputReport
<1>2. Admitted'
  BY <1>1 DEF RunInv, Admitted, Goto, pageVars, Consented, Locked
<1>3. SelectedInside'
  BY DEF RunInv, SelectedInside, Goto, pageVars, Locked, Pages
<1>4. FlagsAreGated'
  BY DEF RunInv, FlagsAreGated, Goto, pageVars, LatePhases, Locked, Pages, Gated, FullPipeline
<1>5. Accounted' /\ InterlockHolds'
  BY DEF RunInv, Accounted, CheckedOrNot, InterlockHolds, pageVars
<1>6. MergedCollected' /\ Untouched' /\ ReportExact' /\ InputReport'
  BY <1>1 DEF RunInv, MergedCollected, Untouched, ReportExact, InputReport, Goto, EarlyPhases,
              pageVars, Delivered
<1>. QED BY <1>2, <1>3, <1>4, <1>5, <1>6 DEF RunInv

(* A step that gives the input back; as a preserved signature, or with      *)
(* consent.                                                                 *)
LEMMA ReturningKeeps ==
  ASSUME TypeOK, RunInv, NEW s \in {"none", "passthrough-preserved"}, ReturnInput(s),
         UNCHANGED <<doc, opts, selected, pageVars>>,
         s = "none" => Consented
  PROVE  RunInv'
<1>1. /\ Returned' /\ ~Rewritten' /\ phase' = "done"
      /\ report'.output = "input" /\ report'.verifier = "skipped" /\ report'.sigState = s
  BY ReturnedInputTyped DEF Returned, Rewritten
<1>2. Admitted'
  BY <1>1 DEF RunInv, Admitted, pageVars, Consented, Locked
<1>3. SelectedInside' /\ FlagsAreGated'
  BY <1>1 DEF SelectedInside, FlagsAreGated, LatePhases
<1>4. Accounted' /\ InterlockHolds'
  BY DEF RunInv, Accounted, CheckedOrNot, InterlockHolds, pageVars
<1>5. MergedCollected' /\ Untouched' /\ ReportExact' /\ InputReport'
  BY <1>1 DEF MergedCollected, Untouched, ReportExact, InputReport, EarlyPhases
<1>. QED BY <1>2, <1>3, <1>4, <1>5 DEF RunInv

LEMMA CheckArgumentsKeeps ==
  ASSUME TypeOK, RunInv, CheckArguments
  PROVE  RunInv'
BY RaisingKeeps, AdvancingKeeps DEF CheckArguments, EarlyPhases, RaisedErrors, Refusals

LEMMA TriageKeeps ==
  ASSUME TypeOK, RunInv, Triage
  PROVE  RunInv'
BY RaisingKeeps, AdvancingKeeps DEF Triage, EarlyPhases, RaisedErrors, Refusals

(* Either way of selecting picks pages of the document. *)
LEMMA SelectPagesKeeps ==
  ASSUME TypeOK, RunInv, SelectPages
  PROVE  RunInv'
<1>1. CASE Raise("CompressError") /\ UNCHANGED selected
  BY <1>1, RaisingKeeps DEF SelectPages, RaisedErrors, PageErrors
<1>2. CASE Goto("policy")
  <2>1. \A k \in DOMAIN selected' : selected'[k] \in 0..MaxPages /\ selected'[k] < Pages
    <3>1. CASE opts.only # None /\ \A p \in opts.only : p <= Pages
      <4>1. PICK s \in Selections :
              {s[k] : k \in DOMAIN s} = {p - 1 : p \in opts.only} /\ selected' = s
        BY <1>2, <3>1 DEF SelectPages, Goto, Raise
      <4>2. opts.only \in SUBSET (1..MaxPages)
        BY <3>1 DEF TypeOK, Options
      <4>3. ASSUME NEW k \in DOMAIN s PROVE s[k] \in 0..MaxPages /\ s[k] < Pages
        <5>1. PICK p \in opts.only : s[k] = p - 1
          BY <4>1, <4>3
        <5>2. p \in 1..MaxPages /\ p <= Pages
          BY <5>1, <4>2, <3>1
        <5>. QED BY <5>1, <5>2, PagesBounded, CompressAssumption DEF CompressAssumption
      <4>. QED BY <4>1, <4>3
    <3>2. CASE selected' = [k \in 1..Pages |-> k - 1]
      BY <3>2, PagesBounded, CompressAssumption DEF CompressAssumption
    <3>. QED BY <1>2, <3>1, <3>2 DEF SelectPages, Goto, Raise
  <2>2. ~Returned /\ ~Returned' /\ ~Rewritten'
    BY <1>2 DEF SelectPages, Goto, Returned, Rewritten, RunInv, InputReport
  <2>3. Admitted'
    BY <1>2, <2>2 DEF SelectPages, RunInv, Admitted, Goto, pageVars, Consented, Locked
  <2>4. SelectedInside'
    BY <1>2, <2>1 DEF SelectPages, SelectedInside, Pages, Locked
  <2>5. FlagsAreGated'
    BY <1>2 DEF FlagsAreGated, Goto, LatePhases
  <2>6. Accounted' /\ InterlockHolds'
    BY <1>2 DEF SelectPages, RunInv, Accounted, CheckedOrNot, InterlockHolds, pageVars
  <2>7. MergedCollected' /\ Untouched' /\ ReportExact' /\ InputReport'
    BY <1>2, <2>2 DEF SelectPages, RunInv, MergedCollected, Untouched, ReportExact, InputReport,
                      Goto, EarlyPhases, pageVars
  <2>. QED BY <2>3, <2>4, <2>5, <2>6, <2>7 DEF RunInv
<1>. QED BY <1>1, <1>2 DEF SelectPages

(* Passing all four refusals is consent. *)
LEMMA PolicyConsents ==
  ASSUME TypeOK, ~Locked,
         ~(NeedsPassword \/ CertifiedRefused \/ SignaturePreserved \/ SignedRefused)
  PROVE  Consented
BY DEF Consented, CertifiedRefused, SignaturePreserved, SignedRefused, Sig

LEMMA EnforcePolicyKeeps ==
  ASSUME TypeOK, RunInv, EnforcePolicy
  PROVE  RunInv'
BY RaisingKeeps, AdvancingKeeps, ReturningKeeps, PolicyConsents
   DEF EnforcePolicy, EarlyPhases, RaisedErrors, Refusals

LEMMA ApplySizeFloorKeeps ==
  ASSUME TypeOK, RunInv, ApplySizeFloor
  PROVE  RunInv'
<1>1. Consented
  BY DEF ApplySizeFloor, RunInv, Admitted
<1>. QED
  BY <1>1, RaisingKeeps, AdvancingKeeps, ReturningKeeps
     DEF ApplySizeFloor, EarlyPhases, RaisedErrors, PageErrors

LEMMA RunGateKeeps ==
  ASSUME TypeOK, RunInv, RunGate
  PROVE  RunInv'
<1>1. Consented
  BY DEF RunGate, RunInv, Admitted
<1>2. CASE ReturnInput("none")
  BY <1>1, <1>2, ReturningKeeps DEF RunGate
<1>3. CASE Goto("setup")
  <2>1. ~Returned /\ ~Returned' /\ ~Rewritten'
    BY <1>3 DEF RunGate, Goto, Returned, Rewritten, RunInv, InputReport
  <2>2. Admitted'
    BY <1>1 DEF RunGate, Admitted, Consented, Locked
  <2>3. SelectedInside'
    BY <1>3 DEF RunGate, RunInv, SelectedInside, Goto, Locked, Pages
  <2>4. FlagsAreGated'
    BY DEF RunGate, FlagsAreGated, Locked, Pages, Gated, FullPipeline
  <2>5. Accounted' /\ InterlockHolds'
    BY DEF RunGate, RunInv, Accounted, CheckedOrNot, InterlockHolds, pageVars
  <2>6. MergedCollected' /\ Untouched' /\ ReportExact' /\ InputReport'
    BY <1>3, <2>1 DEF RunGate, RunInv, MergedCollected, Untouched, ReportExact, InputReport,
                      Goto, EarlyPhases, pageVars
  <2>. QED BY <2>2, <2>3, <2>4, <2>5, <2>6 DEF RunInv
<1>. QED BY <1>2, <1>3 DEF RunGate
LEMMA SetUpPagesKeeps ==
  ASSUME TypeOK, RunInv, SetUpPages
  PROVE  RunInv'
BY RaisingKeeps, AdvancingKeeps DEF SetUpPages, RaisedErrors, Refusals

(* A flagged page is gated on; an unflagged one only without the verifier,  *)
(* so no page trips the assertion.                                          *)
LEMMA PageMade ==
  ASSUME TypeOK, RunInv, phase = "pages", NEW i \in Indices(MaxPages), i \in Batch!Pages,
         NEW r \in PageResults(i)
  PROVE  /\ r # "tripped"
         /\ opts.verify => r \in {"pass", "fail"}
         /\ ~opts.verify => r \in {"verbatim", "unchecked"}
<1>1. PICK k \in 1..Len(selected) : i = selected[k]
  BY DEF Batch!Pages
<1>2. k \in DOMAIN selected
  BY SelectionTyped DEF TypeOK
<1>3. i \in Nat /\ i < Pages
  BY <1>1, <1>2 DEF RunInv, SelectedInside
<1>4. i + 1 \in 1..Pages
  BY <1>3, PagesBounded
<1>5. opts.verify => flags[i + 1] = TRUE
  BY <1>4, VerifierFlagsAll DEF RunInv, FlagsAreGated, LatePhases
<1>6. opts.verify \in BOOLEAN
  BY DEF TypeOK, Options
<1>. QED BY <1>5, <1>6 DEF PageResults

LEMMA CollectPageKeeps ==
  ASSUME TypeOK, RunInv, NEW i \in Indices(MaxPages), i \in Batch!Pages, CollectPage(i)
  PROVE  RunInv'
<1>1. PICK r \in PageResults(i) :
        /\ result' = [result EXCEPT ![i] = r]
        /\ failing' = FailingWith(i, r)
        /\ IF r = "tripped"
           THEN Batch!Fail /\ batch' = "AssertionError" /\ Raise(batch')
           ELSE Batch!Collect(i) /\ Goto("pages")
  BY DEF CollectPage
<1>2. /\ r # "tripped"
      /\ opts.verify => r \in {"pass", "fail"}
      /\ ~opts.verify => r \in {"verbatim", "unchecked"}
  BY PageMade DEF CollectPage
<1>3. /\ collected' = collected \union {i} /\ i \notin collected
      /\ UNCHANGED <<doc, opts, flags, selected, merged, ending, report>>
      /\ phase = "pages" /\ phase' = "pages"
  BY <1>1, <1>2 DEF CollectPage, Batch!Collect, Goto
<1>4. ~Returned /\ ~Returned' /\ ~Rewritten'
  BY <1>3 DEF Returned, Rewritten, RunInv, InputReport
<1>5. Admitted'
  BY <1>3 DEF RunInv, Admitted, Consented, Locked
<1>6. SelectedInside' /\ FlagsAreGated'
  BY <1>3 DEF RunInv, SelectedInside, FlagsAreGated, Locked, Pages, Gated, FullPipeline
<1>7. /\ result'[i] = r
      /\ \A j \in Indices(MaxPages) : j # i => result'[j] = result[j]
  BY <1>1 DEF TypeOK
<1>8. collected' \subseteq Indices(MaxPages) /\ \A j \in collected' : CheckedOrNot(j)'
  BY <1>2, <1>3, <1>7 DEF RunInv, Accounted, CheckedOrNot
<1>9. /\ \A j \in collected' : result'[j] = "fail" => \E k \in 1..Len(failing') : failing'[k] = j
      /\ \A k \in 1..Len(failing') : failing'[k] \in collected'
      /\ \A j, k \in 1..Len(failing') : failing'[j] = failing'[k] => j = k
  <2>1. CASE r = "fail"
    <3>1. /\ failing \in Seq(Indices(MaxPages)) /\ failing' = Append(failing, i)
          /\ Len(failing) \in Nat
      BY <1>1, <2>1 DEF FailingWith, TypeOK
    <3>2. /\ Len(failing') = Len(failing) + 1 /\ failing'[Len(failing) + 1] = i
          /\ \A k \in 1..Len(failing) : failing'[k] = failing[k]
      BY <3>1
    <3>3. \A k \in 1..Len(failing') : k \in 1..Len(failing) \/ k = Len(failing) + 1
      BY <3>1, <3>2
    <3>4. \A k \in 1..Len(failing) : failing[k] \in collected /\ failing[k] # i
      BY <1>3 DEF RunInv, Accounted
    <3>5. \A k \in 1..Len(failing') : failing'[k] \in collected'
      BY <1>3, <3>2, <3>3, <3>4
    <3>6. \A j, k \in 1..Len(failing') : failing'[j] = failing'[k] => j = k
      BY <3>2, <3>3, <3>4 DEF RunInv, Accounted
    <3>7. Len(failing) + 1 \in 1..Len(failing') /\ 1..Len(failing) \subseteq 1..Len(failing')
      BY <3>1, <3>2
    <3>8. \A j \in collected : result[j] = "fail" => \E k \in 1..Len(failing) : failing[k] = j
      BY DEF RunInv, Accounted
    <3>9. \A j \in collected' : result'[j] = "fail" =>
             \E k \in 1..Len(failing') : failing'[k] = j
      BY <1>3, <1>7, <1>8, <3>2, <3>7, <3>8
    <3>. QED BY <3>5, <3>6, <3>9
  <2>2. CASE r # "fail"
    <3>1. failing' = failing
      BY <1>1, <2>2 DEF FailingWith
    <3>. QED BY <1>3, <1>7, <1>8, <2>2, <3>1 DEF RunInv, Accounted
  <2>. QED BY <2>1, <2>2
<1>10. Accounted'
  BY <1>8, <1>9 DEF Accounted
<1>11. InterlockHolds'
  BY <1>2, <1>7 DEF RunInv, InterlockHolds
<1>12. MergedCollected' /\ Untouched' /\ ReportExact' /\ InputReport'
  BY <1>3, <1>4 DEF MergedCollected, Untouched, ReportExact, InputReport, EarlyPhases
<1>. QED BY <1>5, <1>6, <1>10, <1>11, <1>12 DEF RunInv

(* A failed page phase delivers nothing. *)
LEMMA FailPagesKeeps ==
  ASSUME TypeOK, RunInv, FailPages
  PROVE  RunInv'
<1>1. /\ batch' \in PageErrors /\ Raise(batch')
      /\ UNCHANGED <<doc, opts, flags, selected, collected, merged, result, failing>>
  BY DEF FailPages, Batch!Fail
<1>2. ~Returned' /\ ~Rewritten' /\ phase' = "done"
  BY <1>1 DEF Raise, Returned, Rewritten, PageErrors
<1>3. Admitted' /\ SelectedInside' /\ FlagsAreGated'
  BY <1>1, <1>2 DEF RunInv, Admitted, SelectedInside, FlagsAreGated, Consented, Locked, LatePhases
<1>4. Accounted' /\ InterlockHolds'
  BY <1>1 DEF RunInv, Accounted, CheckedOrNot, InterlockHolds
<1>5. MergedCollected' /\ Untouched' /\ ReportExact' /\ InputReport'
  BY <1>2 DEF MergedCollected, Untouched, ReportExact, InputReport, EarlyPhases
<1>. QED BY <1>3, <1>4, <1>5 DEF RunInv

(* The merge delivers the selection, which is all collected. *)
LEMMA MergePagesKeeps ==
  ASSUME TypeOK, RunInv, MergePages
  PROVE  RunInv'
<1>1. /\ phase = "pages" /\ phase' = "ratio"
      /\ collected = Batch!Pages /\ merged' = selected
      /\ UNCHANGED <<doc, opts, flags, selected, collected, result, failing, ending, report>>
  BY DEF MergePages, Batch!Finish, Goto
<1>2. ~Returned /\ ~Returned' /\ ~Rewritten'
  BY <1>1 DEF Returned, Rewritten, RunInv, InputReport
<1>3. Admitted'
  BY <1>1 DEF RunInv, Admitted, Consented, Locked
<1>4. SelectedInside' /\ FlagsAreGated'
  BY <1>1 DEF RunInv, SelectedInside, FlagsAreGated, Locked, Pages, Gated, FullPipeline, LatePhases
<1>5. Accounted' /\ InterlockHolds'
  BY <1>1 DEF RunInv, Accounted, CheckedOrNot, InterlockHolds
<1>6. MergedCollected'
  BY <1>1 DEF MergedCollected, Delivered, Batch!Pages
<1>7. Untouched' /\ ReportExact' /\ InputReport'
  BY <1>1, <1>2 DEF Untouched, ReportExact, InputReport, EarlyPhases
<1>. QED BY <1>3, <1>4, <1>5, <1>6, <1>7 DEF RunInv

LEMMA ApplyRatioFloorKeeps ==
  ASSUME TypeOK, RunInv, ApplyRatioFloor
  PROVE  RunInv'
<1>1. Consented
  BY DEF ApplyRatioFloor, RunInv, Admitted
<1>. QED
  BY <1>1, RaisingKeeps, AdvancingKeeps, ReturningKeeps
     DEF ApplyRatioFloor, RaisedErrors, PageErrors

LEMMA FinishKeeps ==
  ASSUME TypeOK, RunInv, Finish
  PROVE  RunInv'
<1>1. CASE Raise("ContentDriftError")
  BY <1>1, RaisingKeeps DEF Finish, RaisedErrors
<1>2. CASE /\ phase' = "done" /\ ending' = "returned"
           /\ report' = [output |-> "merged", exitCode |-> 0, sigState |-> SignatureState,
                         invalidated |-> SignatureState # "none", verifier |-> VerifierStatus,
                         failing |-> failing, verbatim |-> VerbatimPages]
           /\ ~(VerifierStatus = "fail" /\ ~DriftTolerated)
  <2>1. phase = "verdict" /\ UNCHANGED <<doc, opts, selected, flags, pageVars>>
    BY DEF Finish
  <2>2. /\ report'.output = "merged" /\ report'.verifier = VerifierStatus
        /\ report'.failing = failing /\ report'.verbatim = VerbatimPages
        /\ report'.sigState = SignatureState
        /\ report'.invalidated <=> SignatureState # "none"
    BY <1>2
  <2>3. Admitted'
    BY <1>2, <2>1 DEF RunInv, Admitted, Consented, Locked
  <2>4. SelectedInside' /\ FlagsAreGated'
    BY <1>2 DEF SelectedInside, FlagsAreGated, LatePhases
  <2>5. Accounted' /\ InterlockHolds'
    BY <2>1 DEF RunInv, Accounted, CheckedOrNot, InterlockHolds, pageVars
  <2>6. MergedCollected' /\ Untouched'
    BY <1>2, <2>1 DEF RunInv, MergedCollected, Untouched, EarlyPhases, Delivered, pageVars
  <2>7. /\ VerifierStatus' = VerifierStatus /\ SignatureState' = SignatureState
        /\ VerbatimPages' = VerbatimPages /\ (DriftTolerated' <=> DriftTolerated)
    BY <2>1 DEF pageVars, VerifierStatus, SignatureState, VerbatimPages, DriftTolerated, Sig, Locked
  <2>8. ReportExact'
    BY <1>2, <2>1, <2>2, <2>7 DEF ReportExact, pageVars
  <2>9. InputReport'
    BY <1>2, <2>2 DEF InputReport
  <2>. QED BY <2>3, <2>4, <2>5, <2>6, <2>8, <2>9 DEF RunInv
<1>. QED BY <1>1, <1>2 DEF Finish

LEMMA StutterKeeps ==
  ASSUME RunInv, UNCHANGED vars
  PROVE  RunInv'
<1>1. Admitted' /\ SelectedInside' /\ FlagsAreGated'
  BY DEF vars, pageVars, RunInv, Admitted, SelectedInside, FlagsAreGated, Consented, Locked,
         Pages, Gated, FullPipeline, Returned
<1>2. Accounted' /\ InterlockHolds'
  BY DEF vars, pageVars, RunInv, Accounted, CheckedOrNot, InterlockHolds
<1>3. MergedCollected' /\ Untouched' /\ InputReport'
  BY DEF vars, pageVars, RunInv, MergedCollected, Untouched, InputReport, Returned, Rewritten,
         Delivered
<1>4. ReportExact'
  BY DEF vars, pageVars, RunInv, ReportExact, Returned, Rewritten, VerifierStatus,
         SignatureState, VerbatimPages, DriftTolerated, Sig, Locked
<1>. QED BY <1>1, <1>2, <1>3, <1>4 DEF RunInv

(* The invariant the properties of a call follow from. *)
THEOREM RunInvHolds == Spec => []RunInv
<1>1. TypeOK /\ RunInv /\ [Next]_vars => RunInv'
  BY CheckArgumentsKeeps, TriageKeeps, SelectPagesKeeps, EnforcePolicyKeeps, ApplySizeFloorKeeps,
     RunGateKeeps, SetUpPagesKeeps, CollectPageKeeps, FailPagesKeeps, MergePagesKeeps,
     ApplyRatioFloorKeeps, FinishKeeps, StutterKeeps
     DEF Next
<1>. QED BY <1>1, InitRunInv, TypeCorrect, PTL DEF Spec

-----------------------------------------------------------------------------
(* The properties. *)

(* No signed document is rewritten without the opt-in for its kind of       *)
(* signature, and a rewritten one is reported as invalidated.               *)
THEOREM ConsentHolds == Spec => []SignedRewriteConsented
<1>1. TypeOK /\ RunInv => SignedRewriteConsented
  <2>. SUFFICES ASSUME TypeOK, RunInv, Rewritten, doc.sig # "none"
                PROVE  /\ IF doc.sig = "certified" THEN opts.allowCert ELSE opts.allow
                       /\ report.invalidated /\ report.sigState # "none"
    BY DEF SignedRewriteConsented
  <2>1. Returned /\ report.output = "merged"
    BY DEF Rewritten
  <2>2. report.sigState = SignatureState /\ (report.invalidated <=> SignatureState # "none")
    BY DEF RunInv, ReportExact
  <2>3. SignatureState # "passthrough-preserved"
    BY DEF SignatureState
  <2>4. Consented
    BY <2>1, <2>2, <2>3 DEF RunInv, Admitted
  <2>5. doc.sig \in {"signed", "certified"} /\ Sig = doc.sig
    BY <2>4, DocumentPages DEF TypeOK, Signatures, Consented, Sig
  <2>6. SignatureState # "none"
    BY <2>4, <2>5 DEF Consented, SignatureState
  <2>. QED BY <2>2, <2>4, <2>5, <2>6 DEF Consented
<1>. QED BY <1>1, TypeCorrect, RunInvHolds, PTL

(* Under preserve_signatures no page of a signed document is ever touched.  *)
THEOREM PreservationHolds == Spec => []PreservedUntouched
<1>1. TypeOK /\ RunInv => PreservedUntouched
  <2>. SUFFICES ASSUME TypeOK, RunInv, opts.preserve, doc.sig = "signed"
                PROVE  /\ collected = {} /\ merged = <<>>
                       /\ Returned => report.output = "input"
                                       /\ report.sigState = "passthrough-preserved"
    BY DEF PreservedUntouched
  <2>1. ~Consented
    BY DEF Consented
  <2>2. collected = {} /\ merged = <<>> /\ (Returned => report.sigState = "passthrough-preserved")
    BY <2>1 DEF RunInv, Admitted
  <2>3. SignatureState # "passthrough-preserved"
    BY DEF SignatureState
  <2>4. Returned => report.output = "input"
    BY <2>2, <2>3 DEF RunInv, ReportExact, InputReport, Rewritten
  <2>. QED BY <2>2, <2>4
<1>. QED BY <1>1, TypeCorrect, RunInvHolds, PTL

(* A verdict "pass" speaks for every delivered page. *)
THEOREM VerdictHolds == Spec => []VerdictCoversOutput
<1>1. TypeOK /\ RunInv => VerdictCoversOutput
  <2>. SUFFICES ASSUME TypeOK, RunInv, Returned, report.verifier = "pass"
                PROVE  Rewritten /\ \A i \in Delivered : result[i] = "pass"
    BY DEF VerdictCoversOutput
  <2>1. Rewritten
    BY DEF RunInv, InputReport, Rewritten
  <2>2. opts.verify /\ failing = <<>>
    BY <2>1 DEF RunInv, ReportExact, VerifierStatus
  <2>3. Delivered = collected
    BY <2>1 DEF RunInv, MergedCollected
  <2>4. \A k \in 1..Len(failing) : FALSE
    BY <2>2
  <2>. QED BY <2>1, <2>2, <2>3, <2>4 DEF RunInv, Accounted, CheckedOrNot
<1>. QED BY <1>1, TypeCorrect, RunInvHolds, PTL

(* A delivered page that drifted was tolerated and is listed once. *)
THEOREM DriftHolds == Spec => []DriftListed
<1>1. TypeOK /\ RunInv => DriftListed
  <2>. SUFFICES ASSUME TypeOK, RunInv, Rewritten PROVE DriftListed
    BY DEF DriftListed
  <2>1. /\ Delivered = collected /\ report.failing = failing /\ report.verifier = VerifierStatus
        /\ VerifierStatus = "fail" => DriftTolerated
    BY DEF RunInv, MergedCollected, ReportExact
  <2>2. ASSUME NEW i \in Delivered, result[i] = "fail"
        PROVE  DriftTolerated /\ \E k \in 1..Len(failing) : failing[k] = i
    <3>1. PICK k \in 1..Len(failing) : failing[k] = i
      BY <2>1, <2>2 DEF RunInv, Accounted
    <3>2. failing # <<>>
      BY <3>1
    <3>3. opts.verify
      BY <2>1, <2>2 DEF RunInv, Accounted, CheckedOrNot, TypeOK, Options
    <3>. QED BY <2>1, <3>1, <3>2, <3>3 DEF VerifierStatus
  <2>. QED BY <2>1, <2>2 DEF DriftListed, RunInv, Accounted
<1>. QED BY <1>1, TypeCorrect, RunInvHolds, PTL

(* pages_skipped_verbatim is exactly the copied pages that were delivered.  *)
THEOREM VerbatimHolds == Spec => []VerbatimListed
<1>1. RunInv => VerbatimListed
  BY DEF RunInv, VerbatimListed, MergedCollected, ReportExact, VerbatimPages
<1>. QED BY <1>1, RunInvHolds, PTL

(* The assertion of the verbatim fast path is unreachable. *)
THEOREM InterlockAlwaysHolds == Spec => []InterlockHolds
<1>1. RunInv => InterlockHolds
  BY DEF RunInv
<1>. QED BY <1>1, RunInvHolds, PTL

-----------------------------------------------------------------------------
(* The selection.  From its phase on it is the pages asked for, pages are   *)
(* collected out of it only, and what is merged is all of it.               *)

AskedFor == IF opts.only = None THEN Indices(Pages) ELSE {p - 1 : p \in opts.only}
InRange == opts.only # None => opts.only # {} /\ \A p \in opts.only : p <= Pages
Picked == {selected[k] : k \in DOMAIN selected}

SelectedPhases == {"policy", "floor", "gate", "setup", "pages", "ratio", "verdict"}

SelectionInv ==
  /\ phase \in SelectedPhases => InRange /\ Picked = AskedFor
  /\ collected \subseteq AskedFor
  /\ phase \in {"ratio", "verdict"} \/ Rewritten => merged = selected /\ Picked = AskedFor

(* A step that picks, collects and merges nothing keeps the selection, as   *)
(* long as a rewritten document comes out of the verdict.                   *)
LEMMA SelectionKept ==
  ASSUME SelectionInv, UNCHANGED <<doc, opts, selected, collected, merged>>,
         phase' \in SelectedPhases => phase \in SelectedPhases,
         phase' \in {"ratio", "verdict"} => phase \in {"ratio", "verdict"},
         Rewritten' => phase = "verdict"
  PROVE  SelectionInv'
BY DEF SelectionInv, SelectedPhases, InRange, Picked, AskedFor, Pages, Locked

(* Both ways of selecting pick what was asked for.                          *)
LEMMA SelectionMade ==
  ASSUME TypeOK, RunInv, SelectionInv, SelectPages
  PROVE  SelectionInv'
<1>1. UNCHANGED <<doc, opts, collected, merged>> /\ phase = "select" /\ collected = {}
  BY DEF SelectPages, pageVars, RunInv, Untouched, EarlyPhases
<1>2. UNCHANGED <<AskedFor, Pages, InRange>>
  BY <1>1 DEF AskedFor, Pages, Locked, InRange
<1>3. ~Rewritten'
  BY <1>1 DEF SelectPages, Goto, Raise, Rewritten, Returned, RunInv, InputReport
<1>4. CASE phase' = "done"
  BY <1>1, <1>3, <1>4 DEF SelectionInv, SelectedPhases
<1>5. CASE /\ opts.only # None /\ opts.only # {} /\ \A p \in opts.only : p <= Pages
           /\ \E s \in Selections :
                {s[k] : k \in DOMAIN s} = {p - 1 : p \in opts.only} /\ selected' = s
           /\ phase' = "policy"
  <2>1. InRange' /\ Picked' = AskedFor'
    BY <1>2, <1>5 DEF InRange, Picked, AskedFor
  <2>. QED BY <1>1, <1>3, <1>5, <2>1 DEF SelectionInv
<1>6. CASE opts.only = None /\ selected' = [k \in 1..Pages |-> k - 1] /\ phase' = "policy"
  <2>1. Pages \in 0..MaxPages /\ MaxPages \in Nat
    BY PagesBounded, CompressAssumption DEF CompressAssumption
  <2>2. Picked' = {k - 1 : k \in 1..Pages}
    BY <1>6 DEF Picked
  <2>3. {k - 1 : k \in 1..Pages} = Indices(Pages)
    <3>1. ASSUME NEW i \in Indices(Pages) PROVE i + 1 \in 1..Pages /\ i = (i + 1) - 1
      BY <2>1 DEF Indices
    <3>2. ASSUME NEW k \in 1..Pages PROVE k - 1 \in Indices(Pages)
      BY <2>1 DEF Indices
    <3>. QED BY <3>1, <3>2
  <2>4. InRange' /\ Picked' = AskedFor'
    BY <1>2, <1>6, <2>2, <2>3 DEF InRange, AskedFor
  <2>. QED BY <1>1, <1>3, <1>6, <2>4 DEF SelectionInv
<1>. QED BY <1>4, <1>5, <1>6 DEF SelectPages, Goto, Raise

(* The selection is what only_pages asked for in every later phase          *)
(* (compress(), _selected_indices).                                         *)
THEOREM SelectionInvHolds == Spec => []SelectionInv
<1>1. Init => SelectionInv
  BY DEF Init, SelectionInv, SelectedPhases, Rewritten, Returned
<1>2. TypeOK /\ RunInv /\ SelectionInv /\ [Next]_vars => SelectionInv'
  <2>. SUFFICES ASSUME TypeOK, RunInv, SelectionInv, [Next]_vars PROVE SelectionInv'
    OBVIOUS
  <2>0. phase # "done" => ~Returned
    BY DEF RunInv, InputReport
  <2>1. CASE CheckArguments
    BY <2>0, <2>1, SelectionKept
       DEF CheckArguments, Goto, Raise, pageVars, SelectedPhases, Rewritten, Returned
  <2>2. CASE Triage
    BY <2>0, <2>2, SelectionKept
       DEF Triage, Goto, Raise, pageVars, SelectedPhases, Rewritten, Returned
  <2>3. CASE SelectPages
    BY <2>3, SelectionMade
  <2>4. CASE EnforcePolicy
    BY <2>0, <2>4, SelectionKept, ReturnedInputTyped
       DEF EnforcePolicy, Goto, Raise, pageVars, SelectedPhases, Rewritten, Returned
  <2>5. CASE ApplySizeFloor
    BY <2>0, <2>5, SelectionKept, ReturnedInputTyped
       DEF ApplySizeFloor, Goto, Raise, pageVars, SelectedPhases, Rewritten, Returned
  <2>6. CASE RunGate
    BY <2>0, <2>6, SelectionKept, ReturnedInputTyped
       DEF RunGate, Goto, pageVars, SelectedPhases, Rewritten, Returned
  <2>7. CASE SetUpPages
    BY <2>0, <2>7, SelectionKept
       DEF SetUpPages, Goto, Raise, pageVars, SelectedPhases, Rewritten, Returned
  <2>8. ASSUME NEW i \in Indices(MaxPages), i \in Batch!Pages, CollectPage(i) PROVE SelectionInv'
    <3>1. /\ phase = "pages" /\ phase' \in {"pages", "done"} /\ ~Rewritten'
          /\ UNCHANGED <<doc, opts, selected, merged>>
          /\ collected' \subseteq collected \union {i}
      BY <2>0, <2>8 DEF CollectPage, Goto, Raise, Batch!Collect, Batch!Fail, Rewritten, Returned,
                        PageErrors
    <3>2. DOMAIN selected = 1..Len(selected)
      BY SelectionTyped DEF TypeOK
    <3>3. i \in Picked
      BY <2>8, <3>2 DEF Batch!Pages, Picked
    <3>4. i \in AskedFor
      BY <3>1, <3>3 DEF SelectionInv, SelectedPhases
    <3>. QED
      BY <3>1, <3>4 DEF SelectionInv, SelectedPhases, InRange, Picked, AskedFor, Pages, Locked
  <2>9. CASE FailPages
    BY <2>9, SelectionKept
       DEF FailPages, Batch!Fail, Raise, SelectedPhases, Rewritten, Returned, PageErrors
  <2>10. CASE MergePages
    <3>1. /\ phase = "pages" /\ phase' = "ratio" /\ ~Rewritten'
          /\ UNCHANGED <<doc, opts, selected, collected>> /\ merged' = selected
      BY <2>0, <2>10 DEF MergePages, Goto, Batch!Finish, Rewritten, Returned
    <3>. QED
      BY <3>1 DEF SelectionInv, SelectedPhases, InRange, Picked, AskedFor, Pages, Locked
  <2>11. CASE ApplyRatioFloor
    BY <2>0, <2>11, SelectionKept, ReturnedInputTyped
       DEF ApplyRatioFloor, Goto, Raise, pageVars, SelectedPhases, Rewritten, Returned
  <2>12. CASE Finish
    BY <2>12, SelectionKept DEF Finish, Raise, pageVars, SelectedPhases
  <2>13. CASE UNCHANGED vars
    BY <2>13 DEF vars, pageVars, SelectionInv, SelectedPhases, InRange, Picked, AskedFor, Pages,
                 Locked, Rewritten, Returned
  <2>. QED BY <2>1, <2>2, <2>3, <2>4, <2>5, <2>6, <2>7, <2>8, <2>9, <2>10, <2>11, <2>12, <2>13
    DEF Next
<1>. QED BY <1>1, <1>2, TypeCorrect, RunInvHolds, PTL DEF Spec

(* only_pages, on every path that rewrites: no page outside the selection   *)
(* is processed, and the document delivered holds the selected pages, all   *)
(* of them and in order.  OnlySelectedPages fails therefore only where the  *)
(* input itself is returned (compress(), _selected_indices and the merge).  *)
THEOREM SelectionDelivered ==
  Spec => [](/\ collected \subseteq AskedFor
             /\ Rewritten => Delivered = AskedFor /\ Ascending(merged))
<1>1. TypeOK /\ SelectionInv =>
        /\ collected \subseteq AskedFor
        /\ Rewritten => Delivered = AskedFor /\ Ascending(merged)
  <2>. SUFFICES ASSUME TypeOK, SelectionInv, Rewritten
                PROVE  Delivered = AskedFor /\ Ascending(merged)
    BY DEF SelectionInv
  <2>1. merged \in Selections /\ merged = selected /\ Picked = AskedFor
    BY DEF TypeOK, SelectionInv
  <2>2. DOMAIN merged = 1..Len(merged)
    BY <2>1, SelectionTyped
  <2>3. Ascending(merged)
    BY <2>1 DEF Selections
  <2>. QED BY <2>1, <2>2, <2>3 DEF Delivered, Picked
<1>. QED BY <1>1, TypeCorrect, SelectionInvHolds, PTL

-----------------------------------------------------------------------------
(* What the command line assumes of compress().  CommandLine knows a call   *)
(* by a set of results for what triage shows of the document; here a call   *)
(* is put beside that set, for a document read within max_input_mb.         *)

Shown == [locked |-> Locked, pages |-> Pages, sig |-> Sig]

CLI == INSTANCE CommandLine WITH
         Cap <- 1, MaxCost <- 1,
         asked <- [output |-> "file", capped |-> FALSE, password |-> opts.password # "none",
                   preserve |-> opts.preserve, allow |-> opts.allow,
                   allowCert |-> opts.allowCert],
         large <- FALSE, only <- opts.only, doc <- Shown,
         pc <- "compress", exit <- None, cause <- "none", probed <- {}, format <- "pdf",
         result <- "none", files <- <<>>, listed <- <<>>,
         packing <- "idle", pages <- 0, total <- <<>>, page <- 0, chunks <- <<>>,
         current <- <<>>, size <- 0

(* CommandLine checks the environment from its own report.                  *)
AssumedResults == {"EnvironmentError"} \union CLI!CompressResults(Shown)

CallResult == IF Returned THEN report.output ELSE ending

ResultAssumed ==
  phase = "done" /\ opts.only # {} => CallResult \in AssumedResults

(* The range check of the selection is the one CommandLine makes.           *)
LEMMA RangeShown == ASSUME TypeOK, InRange PROVE ~CLI!OutOfRange(Shown)
<1>1. Pages \in Nat /\ Shown.pages = Pages
  BY PagesBounded DEF Shown
<1>2. opts.only # None => \A p \in opts.only : p \in Nat /\ p <= Pages
  BY CompressAssumption DEF InRange, TypeOK, Options, CompressAssumption
<1>. QED BY <1>1, <1>2 DEF CLI!OutOfRange

(* A document past the policy may end in any way a page phase can.          *)
LEMMA ConsentedProceeds ==
  ASSUME TypeOK, Consented, InRange,
         NEW r \in {"input", "merged"} \union CLI!PageErrors
  PROVE  r \in AssumedResults
<1>1. ~CLI!OutOfRange(Shown)
  BY RangeShown
<1>2. Sig = doc.sig /\ ~Locked /\ doc.sig \in {"none", "signed", "certified"}
  BY DocumentPages DEF TypeOK, Consented, Sig, Signatures
<1>3. "proceed" \in CLI!PolicyDecisions(Shown)
  BY <1>2 DEF CLI!PolicyDecisions, Shown, Consented
<1>4. r \in CLI!CompressResults(Shown)
  BY <1>1, <1>3 DEF CLI!CompressResults
<1>. QED BY <1>4 DEF AssumedResults

(* So may any document end in what comes before the policy.                 *)
LEMMA EarlyAssumed ==
  /\ \A r \in {"EnvironmentError", "NotImplementedError", "HostResourceError",
               "CorruptPDFError", "MaliciousPDFError"} : r \in AssumedResults
  /\ opts.only # None /\ (\E p \in opts.only : p > Pages) => "CompressError" \in AssumedResults
BY DEF AssumedResults, CLI!CompressResults, CLI!TriageErrors, CLI!OutOfRange, Shown

(* The policy decides as CommandLine says it does.                          *)
LEMMA PolicyAssumed ==
  ASSUME TypeOK, InRange, NEW p \in CLI!PolicyDecisions(Shown), p # "proceed"
  PROVE  (IF p = "preserve" THEN "input" ELSE p) \in AssumedResults
<1>1. ~CLI!OutOfRange(Shown)
  BY RangeShown
<1>2. CASE p = "preserve"
  BY <1>1, <1>2 DEF AssumedResults, CLI!CompressResults
<1>3. CASE p # "preserve"
  <2>1. CLI!CompressResults(Shown) =
          {"NotImplementedError", "HostResourceError"} \union CLI!TriageErrors
            \union UNION {CASE q = "preserve" -> {"input"}
                            [] q = "proceed" -> {"input", "merged"} \union CLI!PageErrors
                            [] OTHER -> {q} : q \in CLI!PolicyDecisions(Shown)}
    BY <1>1 DEF CLI!CompressResults
  <2>. QED BY <1>3, <2>1 DEF AssumedResults
<1>. QED BY <1>2, <1>3

(* It depends on the document and the options only, which never change.     *)
LEMMA AssumedKept == ASSUME UNCHANGED <<doc, opts>> PROVE UNCHANGED <<AssumedResults, Shown>>
<1>1. UNCHANGED Shown
  BY DEF Shown, Locked, Pages, Sig
<1>2. UNCHANGED <<CLI!OutOfRange(Shown), CLI!PolicyDecisions(Shown)>>
  BY <1>1 DEF CLI!OutOfRange, CLI!PolicyDecisions
<1>3. UNCHANGED CLI!CompressResults(Shown)
  BY <1>2 DEF CLI!CompressResults, CLI!TriageErrors, CLI!PageErrors
<1>. QED BY <1>1, <1>3 DEF AssumedResults

(* Ways to end a call.                                                      *)
LEMMA RaisedAssumed ==
  ASSUME NEW e, Raise(e), e # "returned", e \in AssumedResults, UNCHANGED <<doc, opts>>
  PROVE  ResultAssumed'
BY AssumedKept DEF Raise, ResultAssumed, CallResult, Returned

(* The same for an ending that returns the input. *)
LEMMA InputAssumed ==
  ASSUME NEW s, ReturnInput(s), "input" \in AssumedResults, UNCHANGED <<doc, opts>>
  PROVE  ResultAssumed'
BY AssumedKept DEF ReturnInput, ResultAssumed, CallResult, Returned

(* A call the policy ends has one of the results CommandLine expects of it. *)
LEMMA PolicyEnds ==
  ASSUME TypeOK, SelectionInv, EnforcePolicy, phase' = "done"
  PROVE  ResultAssumed'
<1>1. InRange /\ UNCHANGED <<doc, opts>>
  BY DEF EnforcePolicy, SelectionInv, SelectedPhases
<1>2. /\ Shown.locked = Locked /\ Shown.sig = Sig /\ Shown.pages = Pages
      /\ Locked => Sig = "none" /\ Pages = 0
  BY DEF Shown, Sig, Pages
<1>3. CASE NeedsPassword /\ Raise("EncryptedPDFError")
  <2>1. CLI!PolicyDecisions(Shown) = {"EncryptedPDFError"}
    BY <1>2, <1>3 DEF CLI!PolicyDecisions, NeedsPassword
  <2>. QED BY <1>1, <1>3, <2>1, PolicyAssumed, RaisedAssumed
<1>4. CASE CertifiedRefused /\ Raise("CertifiedSignatureError")
  <2>1. CLI!PolicyDecisions(Shown) = {"CertifiedSignatureError"}
    BY <1>2, <1>4 DEF CLI!PolicyDecisions, CertifiedRefused
  <2>. QED BY <1>1, <1>4, <2>1, PolicyAssumed, RaisedAssumed
<1>5. CASE SignaturePreserved /\ ReturnInput("passthrough-preserved")
  <2>1. CLI!PolicyDecisions(Shown) = {"preserve"}
    BY <1>2, <1>5 DEF CLI!PolicyDecisions, SignaturePreserved
  <2>. QED BY <1>1, <1>5, <2>1, PolicyAssumed, InputAssumed
<1>6. CASE SignedRefused /\ Raise("SignedPDFError")
  <2>1. CLI!PolicyDecisions(Shown) = {"SignedPDFError"}
    BY <1>2, <1>6 DEF CLI!PolicyDecisions, SignedRefused
  <2>. QED BY <1>1, <1>6, <2>1, PolicyAssumed, RaisedAssumed
<1>7. CASE ~(NeedsPassword \/ CertifiedRefused \/ SignaturePreserved \/ SignedRefused)
  <2>1. CASE Raise("OversizeError")
    <3>1. "OversizeError" \in CLI!PolicyDecisions(Shown)
      BY <1>2, <1>7 DEF CLI!PolicyDecisions, NeedsPassword, CertifiedRefused, SignaturePreserved,
                        SignedRefused
    <3>. QED BY <1>1, <2>1, <3>1, PolicyAssumed, RaisedAssumed
  <2>2. CASE Locked /\ Raise("CorruptPDFError")
    BY <1>1, <2>2, EarlyAssumed, RaisedAssumed
  <2>3. CASE Pages > 0 /\ Raise("DecompressionBombError")
    <3>1. "DecompressionBombError" \in CLI!PolicyDecisions(Shown)
      BY <1>2, <1>7, <2>3 DEF CLI!PolicyDecisions, NeedsPassword, CertifiedRefused,
                              SignaturePreserved, SignedRefused
    <3>. QED BY <1>1, <2>3, <3>1, PolicyAssumed, RaisedAssumed
  <2>. QED BY <1>7, <2>1, <2>2, <2>3 DEF EnforcePolicy, Goto
<1>. QED BY <1>3, <1>4, <1>5, <1>6, <1>7 DEF EnforcePolicy

(* Every way compress() can end is among the results CommandLine reckons    *)
(* with, for a document like the one triage shows: the two modules fit,     *)
(* and no error leaves compress() that the command line does not know       *)
(* (compress() and the except clauses of main()).                           *)
THEOREM ResultsAreAssumed ==
  Spec => [](phase = "done" /\ opts.only # {} =>
               Shown \in CLI!Documents /\ CallResult \in AssumedResults)
<1>1. Init => ResultAssumed
  BY DEF Init, ResultAssumed
<1>2. TypeOK /\ RunInv /\ SelectionInv /\ ResultAssumed /\ [Next]_vars => ResultAssumed'
  <2>. SUFFICES ASSUME TypeOK, RunInv, SelectionInv, ResultAssumed, [Next]_vars, phase' = "done"
                PROVE  ResultAssumed'
    BY DEF ResultAssumed
  <2>0. /\ phase \in {"floor", "gate", "setup", "pages", "ratio", "verdict"} => Consented
        /\ phase \in SelectedPhases => InRange
    BY DEF RunInv, Admitted, SelectionInv
  <2>1. CASE CheckArguments
    BY <2>1, EarlyAssumed, RaisedAssumed DEF CheckArguments, Goto
  <2>2. CASE Triage
    BY <2>2, EarlyAssumed, RaisedAssumed DEF Triage, Goto
  <2>3. CASE SelectPages
    <3>1. /\ opts.only # None /\ (opts.only = {} \/ \E p \in opts.only : p > Pages)
          /\ Raise("CompressError") /\ UNCHANGED <<doc, opts>>
      BY <2>3 DEF SelectPages, Goto
    <3>2. CASE opts.only = {}
      BY <3>1, <3>2 DEF ResultAssumed
    <3>. QED BY <3>1, <3>2, EarlyAssumed, RaisedAssumed
  <2>4. CASE EnforcePolicy
    BY <2>4, PolicyEnds
  <2>5. CASE ApplySizeFloor
    BY <2>0, <2>5, ConsentedProceeds, RaisedAssumed, InputAssumed
       DEF ApplySizeFloor, Goto, SelectedPhases, CLI!PageErrors
  <2>6. CASE RunGate
    BY <2>0, <2>6, ConsentedProceeds, InputAssumed
       DEF RunGate, Goto, SelectedPhases, CLI!PageErrors
  <2>7. CASE SetUpPages
    BY <2>0, <2>7, ConsentedProceeds, RaisedAssumed
       DEF SetUpPages, Goto, SelectedPhases, CLI!PageErrors
  <2>8. ASSUME NEW i \in Indices(MaxPages), i \in Batch!Pages, CollectPage(i)
        PROVE  ResultAssumed'
    BY <2>0, <2>8, ConsentedProceeds, RaisedAssumed
       DEF CollectPage, Goto, SelectedPhases, CLI!PageErrors
  <2>9. CASE FailPages
    <3>1. /\ phase = "pages" /\ batch' \in PageErrors /\ Raise(batch')
          /\ UNCHANGED <<doc, opts>>
      BY <2>9 DEF FailPages, Batch!Fail
    <3>2. batch' \in AssumedResults
      BY <2>0, <3>1, ConsentedProceeds DEF SelectedPhases, PageErrors, CLI!PageErrors
    <3>3. phase' = "done" /\ ending' = batch' /\ ending' # "returned"
      BY <3>1 DEF Raise, PageErrors
    <3>. QED BY <3>1, <3>2, <3>3, AssumedKept DEF ResultAssumed, CallResult, Returned
  <2>10. CASE MergePages
    BY <2>10 DEF MergePages, Goto
  <2>11. CASE ApplyRatioFloor
    BY <2>0, <2>11, ConsentedProceeds, RaisedAssumed, InputAssumed
       DEF ApplyRatioFloor, Goto, SelectedPhases, CLI!PageErrors
  <2>12. CASE Finish
    <3>1. phase = "verdict" /\ UNCHANGED <<doc, opts>>
      BY <2>12 DEF Finish
    <3>2. "ContentDriftError" \in AssumedResults /\ "merged" \in AssumedResults
      BY <2>0, <3>1, ConsentedProceeds DEF SelectedPhases, CLI!PageErrors
    <3>3. CASE Raise("ContentDriftError")
      BY <3>1, <3>2, <3>3, RaisedAssumed
    <3>4. CASE ending' = "returned" /\ report'.output = "merged"
      BY <3>1, <3>2, <3>4, AssumedKept DEF ResultAssumed, CallResult, Returned
    <3>. QED BY <2>12, <3>3, <3>4 DEF Finish
  <2>13. CASE UNCHANGED vars
    BY <2>13, AssumedKept DEF vars, ResultAssumed, CallResult, Returned
  <2>. QED BY <2>1, <2>2, <2>3, <2>4, <2>5, <2>6, <2>7, <2>8, <2>9, <2>10, <2>11, <2>12, <2>13
    DEF Next
<1>3. TypeOK => Shown \in CLI!Documents
  <2>. SUFFICES ASSUME TypeOK PROVE Shown \in CLI!Documents
    OBVIOUS
  <2>1. Pages \in 0..MaxPages /\ doc.sig \in {"none", "signed", "certified"}
    BY PagesBounded, DocumentPages DEF TypeOK, Signatures
  <2>2. CASE Locked
    BY <2>2 DEF Shown, Sig, Pages, CLI!Documents
  <2>3. CASE ~Locked
    <3>1. Locked = FALSE /\ Sig = doc.sig
      BY <2>3 DEF Locked, Sig
    <3>2. Shown = [locked |-> FALSE, pages |-> Pages, sig |-> doc.sig]
      BY <3>1 DEF Shown
    <3>3. Shown \in [locked : {FALSE}, pages : 0..MaxPages, sig : {"none", "signed", "certified"}]
      BY <2>1, <3>2
    <3>. QED BY <3>3 DEF CLI!Documents
  <2>. QED BY <2>2, <2>3
<1>. QED BY <1>1, <1>2, <1>3, TypeCorrect, RunInvHolds, SelectionInvHolds, PTL
         DEF Spec, ResultAssumed
=============================================================================
