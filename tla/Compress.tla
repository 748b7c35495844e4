------------------------------ MODULE Compress ------------------------------
(***************************************************************************)
(* One call of hankpdf.compress(): triage, the selection, the input        *)
(* policy, the size floor, the per-page gate, the pages, the ratio floor,  *)
(* the verifier's verdict and the report.  The pages are run by PageBatch, *)
(* which PageRun implements; what this module adds to a collected page is  *)
(* what _merge_result makes of its result.  Sizes, clocks and free memory  *)
(* are looked at once each, so their outcome is chosen where they are      *)
(* looked at.                                                              *)
(***************************************************************************)
EXTENDS Naturals, Sequences

CONSTANTS
  MaxPages,   (* bound: pages of a document                                *)
  ParallelMinPages, (* pages from which a pool is used (4 in the program)  *)
  None        (* stands for only_pages=None, and for no report yet         *)

ASSUME CompressAssumption == MaxPages \in Nat /\ ParallelMinPages \in Nat

Indices(n) == {i \in 0..MaxPages : i < n}          (* 0-based page indices *)

(* Documents: what triage and the gate can see.  The gate's score list may  *)
(* be a page short of triage's count.                                       *)
Signatures == {"none", "signed", "certified"}
Scores(n) == UNION {[1..k -> BOOLEAN] : k \in {m \in 0..n : m + 1 >= n}}
Documents ==
  (UNION {[kind : {"plain", "encrypted"}, pages : {n}, sig : Signatures, scores : Scores(n)] :
            n \in 0..MaxPages})
    \union [kind : {"corrupt", "deep"}, pages : {0}, sig : {"none"}, scores : {<<>>}]

(* Options, with only_pages; preserve_signatures excludes                   *)
(* allow_signed_invalidation.  `forced` is re_ocr or strip_text_layer.      *)
Options ==
  {o \in [only : {None} \union SUBSET (1..MaxPages),
          password : {"none", "right", "wrong"},
          preserve : BOOLEAN, allow : BOOLEAN, allowCert : BOOLEAN,
          verify : BOOLEAN, fast : BOOLEAN, acceptDrift : BOOLEAN,
          forced : BOOLEAN, legal : BOOLEAN] : ~(o.preserve /\ o.allow)}

PageErrors == {"MemoryCapExceededError", "CompressError", "AssertionError",
               "BrokenProcessPool", "PerPageTimeoutError", "TotalTimeoutError"}
Refusals == {"EnvironmentError", "NotImplementedError", "HostResourceError", "CorruptPDFError",
             "MaliciousPDFError", "EncryptedPDFError", "CertifiedSignatureError",
             "SignedPDFError", "OversizeError", "DecompressionBombError"}
RaisedErrors == PageErrors \union Refusals \union {"ContentDriftError", "PdfError"}

VARIABLES
  doc,        (* the input                                                 *)
  opts,       (* the caller's options                                      *)
  phase,      (* the phase of compress() to come                           *)
  ending,     (* "none", "returned" or the exception raised                *)
  selected,   (* `_selected_indices`                                       *)
  flags,      (* `_mrc_flags`, by 1-based position                         *)
  collected,  (* page indices merged by _merge_result                      *)
  batch,      (* state of the page phase: "running", "ok" or its error     *)
  merged,     (* pages of the merged PDF                                   *)
  result,     (* how each collected page was made                          *)
  failing,    (* `_failing_pages` of the aggregator, in completion order   *)
  report      (* the CompressReport, None until there is one               *)

pageVars == <<collected, batch, merged, result, failing>>
vars == <<doc, opts, phase, ending, selected, flags, pageVars, report>>

(* Without the password triage sees no pages and no signature. *)
Locked == doc.kind = "encrypted" /\ opts.password # "right"
Pages == IF Locked THEN 0 ELSE doc.pages
Sig == IF Locked THEN "none" ELSE doc.sig

Ascending(s) == \A i, j \in DOMAIN s : i < j => s[i] < s[j]
Selections ==
  {s \in UNION {[1..n -> Indices(MaxPages)] : n \in 0..MaxPages} : Ascending(s)}

Batch == INSTANCE PageBatch WITH
           Selections <- Selections, Errors <- PageErrors,
           outcome <- batch, output <- merged

Init ==
  /\ doc \in Documents
  /\ opts \in Options
  /\ phase = "arguments"
  /\ ending = "none"
  /\ selected = <<>>
  /\ flags = <<>>
  /\ collected = {}
  /\ batch = "running"
  /\ merged = <<>>
  /\ result = [i \in Indices(MaxPages) |-> "none"]
  /\ failing = <<>>
  /\ report = None

-----------------------------------------------------------------------------
(* Endings                                                                  *)

Goto(p) == phase' = p /\ UNCHANGED <<ending, report>>

Raise(e) ==
  /\ phase' = "done"
  /\ ending' = e
  /\ UNCHANGED report

(* _build_passthrough_report *)
ReturnInput(sigState) ==
  /\ phase' = "done"
  /\ ending' = "returned"
  /\ report' = [output |-> "input", exitCode |-> 2, sigState |-> sigState,
                invalidated |-> FALSE, verifier |-> "skipped",
                failing |-> <<>>, verbatim |-> {}]

-----------------------------------------------------------------------------
(* Before the pages                                                         *)

(* The environment, legal_codec_profile, then the memory of the host. *)
CheckArguments ==
  /\ phase = "arguments"
  /\ \/ Raise("EnvironmentError")
     \/ opts.legal /\ Raise("NotImplementedError")
     \/ ~opts.legal /\ (Raise("HostResourceError") \/ Goto("triage"))
  /\ UNCHANGED <<doc, opts, selected, flags, pageVars>>

Triage ==
  /\ phase = "triage"
  /\ \/ doc.kind = "corrupt" /\ Raise("CorruptPDFError")
     \/ doc.kind = "deep" /\ Raise("MaliciousPDFError")
     \/ doc.kind \in {"plain", "encrypted"} /\ Goto("select")
  /\ UNCHANGED <<doc, opts, selected, flags, pageVars>>

(* only_pages is 1-based, the selection 0-based. *)
SelectPages ==
  /\ phase = "select"
  /\ \/ /\ opts.only # None
        /\ opts.only = {} \/ \E p \in opts.only : p > Pages
        /\ Raise("CompressError")
        /\ UNCHANGED selected
     \/ /\ opts.only # None /\ opts.only # {} /\ \A p \in opts.only : p <= Pages
        /\ \E s \in Selections :
             /\ {s[k] : k \in DOMAIN s} = {p - 1 : p \in opts.only}
             /\ selected' = s
        /\ Goto("policy")
     \/ /\ opts.only = None
        /\ selected' = [k \in 1..Pages |-> k - 1]
        /\ Goto("policy")
  /\ UNCHANGED <<doc, opts, flags, pageVars>>

(* The refusals of _enforce_input_policy that depend on encryption and      *)
(* signatures; at most one of the four holds.                               *)
NeedsPassword == Locked /\ opts.password = "none"
CertifiedUnlessSigned == Sig = "certified" /\ ~opts.allowCert /\ ~opts.allow
CertifiedRefused == Sig = "certified" /\ ~opts.allowCert
PreservedUnlessSubset == Sig = "signed" /\ opts.preserve /\ opts.only = None
SignaturePreserved == Sig = "signed" /\ opts.preserve
SignedRefused == Sig = "signed" /\ ~opts.preserve /\ ~opts.allow

(* Page count, input size and page axes come last; the axis check reopens   *)
(* the document, which a wrong password makes fail.                         *)
EnforcePolicy ==
  /\ phase = "policy"
  /\ \/ NeedsPassword /\ Raise("EncryptedPDFError")
     \/ CertifiedRefused /\ Raise("CertifiedSignatureError")
     \/ SignaturePreserved /\ ReturnInput("passthrough-preserved")
     \/ SignedRefused /\ Raise("SignedPDFError")
     \/ /\ ~(NeedsPassword \/ CertifiedRefused \/ SignaturePreserved \/ SignedRefused)
        /\ \/ Raise("OversizeError")
           \/ Locked /\ Raise("CorruptPDFError")
           \/ Pages > 0 /\ Raise("DecompressionBombError")
           \/ ~Locked /\ Goto("floor")
  /\ UNCHANGED <<doc, opts, selected, flags, pageVars>>

(* The total budget after triage, then min_input_mb. *)
ApplySizeFloor ==
  /\ phase = "floor"
  /\ Raise("TotalTimeoutError") \/ ReturnInput("none") \/ Goto("gate")
  /\ UNCHANGED <<doc, opts, selected, flags, pageVars>>

(* _force_full_pipeline; the interlock with the verifier is its last term. *)
ForcedUnlessVerify == opts.forced \/ opts.legal
FullPipeline == opts.forced \/ opts.legal \/ opts.verify

GatedUnpadded == IF FullPipeline THEN [k \in 1..Pages |-> TRUE] ELSE doc.scores

(* run_per_page_gate: scores padded to triage's page count, or no gate. *)
Gated == IF FullPipeline THEN [k \in 1..Pages |-> TRUE]
         ELSE [k \in 1..Pages |-> k > Len(doc.scores) \/ doc.scores[k]]

RunGate ==
  /\ phase = "gate"
  /\ flags' = Gated
  /\ IF ~FullPipeline /\ \A k \in DOMAIN Gated : ~Gated[k]
     THEN ReturnInput("none")
     ELSE Goto("setup")
  /\ UNCHANGED <<doc, opts, selected, pageVars>>

(* Measuring and slicing the pages may fail in the PDF libraries, and a     *)
(* pool computes the memory cap afresh and may refuse it after all.         *)
SetUpPages ==
  /\ phase = "setup"
  /\ \/ Raise("PdfError")
     \/ Len(selected) >= ParallelMinPages /\ Raise("HostResourceError")
     \/ Goto("pages")
  /\ UNCHANGED <<doc, opts, selected, flags, pageVars>>

-----------------------------------------------------------------------------
(* The pages                                                                *)

(* What _process_single_page makes of a page.  A verbatim page under the    *)
(* verifier trips the assertion of the fast path.                           *)
PageResults(i) ==
  IF ~flags[i + 1]
  THEN IF opts.verify THEN {"tripped"} ELSE {"verbatim"}
  ELSE IF opts.verify THEN {"pass", "fail"} ELSE {"unchecked"}

FailingKeptLast(i, r) == IF r = "fail" THEN <<i>> ELSE failing
FailingReset(i, r) == IF r = "fail" THEN Append(failing, i) ELSE <<>>
FailingWith(i, r) == IF r = "fail" THEN Append(failing, i) ELSE failing

(* A page ends: _merge_result takes its result, or its assertion leaves the *)
(* call as it is.                                                           *)
CollectPage(i) ==
  /\ phase = "pages"
  /\ i \notin collected
  /\ \E r \in PageResults(i) :
       /\ result' = [result EXCEPT ![i] = r]
       /\ failing' = FailingWith(i, r)
       /\ IF r = "tripped"
          THEN Batch!Fail /\ batch' = "AssertionError" /\ Raise(batch')
          ELSE Batch!Collect(i) /\ Goto("pages")
  /\ UNCHANGED <<doc, opts, flags>>

(* A page raised, a worker died or a budget ran out; which of the errors a  *)
(* run may end with depends on its executor and is PageRun's to say.        *)
FailPages ==
  /\ phase = "pages"
  /\ Batch!Fail
  /\ Raise(batch')
  /\ UNCHANGED <<doc, opts, flags, result, failing>>

MergePages ==
  /\ phase = "pages"
  /\ Batch!Finish
  /\ Goto("ratio")
  /\ UNCHANGED <<doc, opts, flags, result, failing>>

-----------------------------------------------------------------------------
(* After the pages                                                          *)

(* The total budget after the merge, then min_ratio. *)
ApplyRatioFloor ==
  /\ phase = "ratio"
  /\ Raise("TotalTimeoutError") \/ ReturnInput("none") \/ Goto("verdict")
  /\ UNCHANGED <<doc, opts, selected, flags, pageVars>>

DriftTolerated == opts.fast \/ opts.acceptDrift

VerifierStatus ==
  IF ~opts.verify THEN "skipped" ELSE IF failing = <<>> THEN "pass" ELSE "fail"

SignatureState ==
  IF Sig = "certified" /\ opts.allowCert THEN "certified-invalidated-allowed"
  ELSE IF Sig # "none" /\ opts.allow THEN "invalidated-allowed"
  ELSE "none"

(* `_verbatim_pages`, kept by _merge_result. *)
UnflaggedPages == {i \in Indices(Pages) : ~flags[i + 1]}
VerbatimPages == {i \in collected : result[i] = "verbatim"}

(* The verdict on drift, then the report. *)
Finish ==
  /\ phase = "verdict"
  /\ IF VerifierStatus = "fail" /\ ~DriftTolerated
     THEN Raise("ContentDriftError")
     ELSE /\ phase' = "done"
          /\ ending' = "returned"
          /\ report' = [output |-> "merged", exitCode |-> 0,
                        sigState |-> SignatureState,
                        invalidated |-> SignatureState # "none",
                        verifier |-> VerifierStatus,
                        failing |-> failing,
                        verbatim |-> VerbatimPages]
  /\ UNCHANGED <<doc, opts, selected, flags, pageVars>>

Next ==
  \/ CheckArguments
  \/ Triage
  \/ SelectPages
  \/ EnforcePolicy
  \/ ApplySizeFloor
  \/ RunGate
  \/ SetUpPages
  \/ \E i \in Indices(MaxPages) : i \in Batch!Pages /\ CollectPage(i)
  \/ FailPages
  \/ MergePages
  \/ ApplyRatioFloor
  \/ Finish

Spec == Init /\ [][Next]_vars

-----------------------------------------------------------------------------
(* Properties                                                               *)

Reports ==
  [output : {"input", "merged"}, exitCode : {0, 2},
   sigState : {"none", "passthrough-preserved", "invalidated-allowed",
               "certified-invalidated-allowed"},
   invalidated : BOOLEAN, verifier : {"skipped", "pass", "fail"},
   failing : Seq(Indices(MaxPages)), verbatim : SUBSET Indices(MaxPages)]

(* Every variable holds a value of its kind; from the gate on there is one  *)
(* flag per page triage counted.                                            *)
TypeOK ==
  /\ doc \in Documents
  /\ opts \in Options
  /\ phase \in {"arguments", "triage", "select", "policy", "floor", "gate", "setup",
                "pages", "ratio", "verdict", "done"}
  /\ ending \in {"none", "returned"} \union RaisedErrors
  /\ selected \in Selections
  /\ flags \in Seq(BOOLEAN)
  /\ phase \in {"setup", "pages", "ratio", "verdict"} => Len(flags) = Pages
  /\ collected \subseteq Indices(MaxPages)
  /\ batch \in {"running", "ok"} \union PageErrors
  /\ merged \in Selections
  /\ result \in [Indices(MaxPages) ->
                  {"none", "verbatim", "unchecked", "pass", "fail", "tripped"}]
  /\ failing \in Seq(Indices(MaxPages))
  /\ report \in Reports \union {None}

Returned == ending = "returned"
Rewritten == Returned /\ report.output = "merged"
Delivered == {merged[k] : k \in 1..Len(merged)}

(* A signed document leaves compress() rewritten only if the caller opted   *)
(* in for its kind of signature, and the report says so.                    *)
SignedRewriteConsented ==
  Rewritten /\ doc.sig # "none" =>
    /\ IF doc.sig = "certified" THEN opts.allowCert ELSE opts.allow
    /\ report.invalidated
    /\ report.sigState # "none"

(* preserve_signatures: a signed document comes back as it was, reported as *)
(* preserved, and no page of it was ever processed.                         *)
PreservedUntouched ==
  opts.preserve /\ doc.sig = "signed" =>
    /\ collected = {} /\ merged = <<>>
    /\ Returned => report.output = "input" /\ report.sigState = "passthrough-preserved"

(* A verdict "pass" speaks for every page of the returned document: each    *)
(* was compared, none was copied or left unchecked.                         *)
VerdictCoversOutput ==
  Returned /\ report.verifier = "pass" =>
    Rewritten /\ \A i \in Delivered : result[i] = "pass"

(* A page that drifted is delivered only where drift is tolerated, and is   *)
(* among the failing pages, each listed once.                               *)
DriftListed ==
  Rewritten =>
    /\ \A i \in Delivered : result[i] = "fail" =>
         /\ DriftTolerated
         /\ \E k \in 1..Len(report.failing) : report.failing[k] = i
    /\ \A j, k \in 1..Len(report.failing) : report.failing[j] = report.failing[k] => j = k

(* pages_skipped_verbatim is exactly the copied pages of the output; not a  *)
(* page that only_pages left out, not one the merge dropped.                *)
VerbatimListed ==
  Rewritten => report.verbatim = {i \in Delivered : result[i] = "verbatim"}

(* The gate never lets a verbatim page meet the verifier: the assertion of  *)
(* _process_single_page's fast path is unreachable.                         *)
InterlockHolds == \A i \in Indices(MaxPages) : result[i] # "tripped"

(* compress(): "The output PDF contains only the selected pages". *)
OnlySelectedPages ==
  Returned /\ opts.only # None =>
    Rewritten \/ {p - 1 : p \in opts.only} = Indices(Pages)
=============================================================================
