-------------------------- MODULE PageWorkerProofs --------------------------
(***************************************************************************)
(* Proofs about PageWorker, for every combination of options and any       *)
(* number of pages.  A page's local variables mean something from the step *)
(* on that sets them: the inductive invariant says, for each group, what   *)
(* is known of it past that step, and still of a page that was returned.   *)
(***************************************************************************)
EXTENDS PageWorker, TLAPS

PastPaint == pc \in {"rerender", "await", "compare", "return"} \/ Rewritten
PastEmbed == pc = "paint" \/ PastPaint
PastCompose == pc = "embed" \/ PastEmbed
PastClassify == pc = "compose" \/ PastCompose
PastTruth == pc = "classify" \/ PastClassify
PastProbe == pc = "truth" \/ PastTruth

(* The words in hand come from where the options say; the OCR of the input  *)
(* runs exactly if someone needs it, and who needs it has awaited it.       *)
Texts ==
  /\ PastProbe =>
       /\ words = "native" <=> UseNative(native)
       /\ words = "ocr" => ocr["input"] = "words"
       /\ ocr["input"] # "none" <=> LayerNeedsOcr(native) \/ VerifierNeedsOcr(native)
  /\ PastTruth =>
       IF native # "none" THEN truth = "native"
       ELSE /\ ocr["input"] \in {"none"} \union Answers
            /\ ocr["input"] = "words" => words = "ocr"
            /\ truth = IF ocr["input"] = "none" THEN "unset" ELSE "ocr"
  /\ PastEmbed =>
       /\ ocr["input"] \in {"none"} \union Answers
       /\ ocr["input"] = "words" => words = "ocr"
  /\ PastPaint => layer = IF Painting THEN words ELSE "none"

(* The OCR of the output starts with the rendering and is over before the   *)
(* comparison.                                                              *)
OutputCall ==
  /\ pc \notin {"idle", "await", "compare", "return"} => ocr["output"] = "none"
  /\ pc \in {"compare", "return"} \/ Returned => ocr["output"] # "running"
  /\ Returned => ocr["input"] # "running"
  /\ stray \subseteq {"input"}

Image ==
  /\ PastClassify =>
       /\ strategy \in {"text_only", "photo_only", "mixed"}
       /\ opts.forced /\ PageHasColor(color) => "color-detected-in-monochrome-mode" \in warned
  /\ PastCompose =>
       \/ strategy = "mixed" /\ image = [how |-> "mixed", bg |-> Background(color)]
       \/ strategy = "photo_only" /\ image = [how |-> "photo", bg |-> Background(color)]
       \/ /\ strategy = "text_only" /\ image = [how |-> "text", bg |-> "paper"]
          /\ opts.forced \/ EffectivelyMonochrome(color)

Busy == pc # "idle" => ending = "working"

MetTheFloors ==
  /\ \E anomalous \in BOOLEAN : Passes(scores, Floors(anomalous))
  /\ opts.forced \/ ~PageHasColor(color) => scores.colorKept

Verdict ==
  /\ pc \in {"rerender", "await", "compare"} => Verify
  /\ verdict \in {"pass", "fail"} => Verify /\ (pc = "return" \/ Rewritten)
  /\ verdict = "pass" => MetTheFloors

IInv == TypeOK /\ Busy /\ Texts /\ OutputCall /\ Image /\ Verdict

-----------------------------------------------------------------------------
(* Types *)

(* A fresh worker has no page and nothing running.                          *)
LEMMA TypesInitially == Init => TypeOK
<1>1. NoScores \in Scores
  BY DEF NoScores, Scores
<1>2. NoCalls \in [Calls -> {"none", "running"} \union Answers \union OcrErrors]
  BY DEF NoCalls
<1>3. NoImage \in [how : {"none", "mixed", "text", "photo"}, bg : {"none", "gray", "rgb", "paper"}]
  BY DEF NoImage
<1>. QED BY <1>1, <1>2, <1>3 DEF Init, TypeOK, NativeTexts, Colors, Sources

(* The local variables of a page, forgotten, have their types. *)
LEMMA TypesForgotten ==
  ASSUME NEW s \in {"none", "already_optimized"}, NEW v \in {"none", "sentinel"},
         TypeOK, ForgetPageBut(s, v), pc' = "idle" \/ pc' = "probe",
         ending' \in {"working", "returned"} \union Errors, opts' = opts,
         tripped' = tripped, stray' \subseteq Calls
  PROVE  TypeOK'
BY DEF TypeOK, ForgetPageBut, NativeTexts, Colors, Calls, Scores, NoScores, NoImage,
     NoCalls, Sources

(* Each step of the pipeline leaves its variables in their kinds.           *)
LEMMA TypesKept == TypeOK /\ [Next]_vars => TypeOK'
<1>. SUFFICES ASSUME TypeOK, [Next]_vars PROVE TypeOK'
  OBVIOUS
<1>. USE DEF textVars, verdictVars, imageVars
<1>1. CASE CopyPage
  BY <1>1, TypesForgotten DEF CopyPage, Errors, TypeOK
<1>2. CASE RasterizePage
  BY <1>2, TypesForgotten DEF RasterizePage, ForgetPage, Errors, TypeOK
<1>3. CASE ProbeNativeText
  BY <1>3 DEF ProbeNativeText, Goto, Calls, NativeTexts, Sources, Answers, TypeOK
<1>4. CASE SettleTruth
  BY <1>4 DEF SettleTruth, Goto, CanAwait, AwaitNothing, AwaitWords, Sources, TypeOK
<1>5. CASE Classify
  BY <1>5 DEF Classify, Goto, Strategy, Colors, TypeOK
<1>6. CASE ComposeDemoted
  BY <1>6 DEF ComposeDemoted, Goto, Demoted, DemoteToMixed, ComposeMixed,
       Background, EncodeMask, TypeOK
<1>7. CASE ComposeText
  BY <1>7 DEF ComposeText, Goto, Demoted, EncodeMask, TypeOK
<1>8. CASE ComposePhoto
  BY <1>8 DEF ComposePhoto, Goto, Background, TypeOK
<1>9. CASE ComposeMrc
  BY <1>9 DEF ComposeMrc, Goto, ComposeMixed, Background, EncodeMask, TypeOK
<1>10. CASE AwaitLayerWords
  BY <1>10 DEF AwaitLayerWords, Goto, AwaitForLayer, MustAwait, CanAwait,
       AwaitNothing, AwaitWords, Sources, TypeOK
<1>11. CASE PaintTextLayer
  BY <1>11 DEF PaintTextLayer, Goto, PaintWords, Painting, Sources, TypeOK
<1>12. CASE RerenderOutput
  BY <1>12 DEF RerenderOutput, Goto, Calls, Answers, TypeOK
<1>13. CASE AwaitOutput
  BY <1>13 DEF AwaitOutput, Goto, CanAwait, AwaitNothing, AwaitWords, Sources, TypeOK
<1>14. CASE VerifyPage
  BY <1>14 DEF VerifyPage, Goto, TypeOK
<1>15. CASE ReturnPage
  <2>1. stray' \subseteq Calls
    BY <1>15 DEF ReturnPage, Abandon, RunningCalls, TypeOK
  <2>. QED BY <1>15, <2>1 DEF ReturnPage, TypeOK
<1>16. CASE RaisePage
  BY <1>16, TypesForgotten DEF RaisePage, ForgetPage, Abandon, RunningCalls,
       StepErrors, Errors, TypeOK
<1>17. CASE RaiseOcrError
  BY <1>17, TypesForgotten DEF RaiseOcrError, ForgetPage, Abandon, RunningCalls,
       OcrErrors, Errors, TypeOK
<1>18. CASE \E c \in Calls : FinishCall(c)
  BY <1>18 DEF FinishCall, Calls, Answers, OcrErrors, TypeOK
<1>19. CASE \E c \in Calls : FinishStray(c)
  BY <1>19 DEF FinishStray, TypeOK
<1>20. CASE UNCHANGED vars
  BY <1>20 DEF vars, TypeOK
<1>. QED BY <1>1, <1>2, <1>3, <1>4, <1>5, <1>6, <1>7, <1>8, <1>9, <1>10, <1>11,
     <1>12, <1>13, <1>14, <1>15, <1>16, <1>17, <1>18, <1>19, <1>20 DEF Next,
     PageStep

-----------------------------------------------------------------------------
(* The steps *)

(* Where the words come from, and who awaits which call. *)
LEMMA TextsKept == TypeOK /\ Busy /\ Texts /\ [Next]_vars => Texts'
<1>. SUFFICES ASSUME TypeOK, Busy, Texts, [Next]_vars PROVE Texts'
  OBVIOUS
<1>. USE DEF textVars, verdictVars, imageVars, Busy, Texts, UseNative,
     LayerNeedsOcr, VerifierNeedsOcr, Verify, Painting, PastProbe, PastTruth,
     PastClassify, PastCompose, PastEmbed, PastPaint, Rewritten, Returned, TypeOK,
     Answers, Calls, Sources
<1>1. CASE CopyPage
  BY <1>1 DEF CopyPage, ForgetPageBut
<1>2. CASE RasterizePage
  BY <1>2 DEF RasterizePage
<1>3. CASE ProbeNativeText
  BY <1>3 DEF ProbeNativeText, Goto
<1>4. CASE SettleTruth
  BY <1>4 DEF SettleTruth, Goto, CanAwait, AwaitNothing, AwaitWords
<1>5. CASE Classify
  BY <1>5 DEF Classify, Goto
<1>6. CASE ComposeDemoted
  BY <1>6 DEF ComposeDemoted, Goto
<1>7. CASE ComposeText
  BY <1>7 DEF ComposeText, Goto
<1>8. CASE ComposePhoto
  BY <1>8 DEF ComposePhoto, Goto
<1>9. CASE ComposeMrc
  BY <1>9 DEF ComposeMrc, Goto
<1>10. CASE AwaitLayerWords
  BY <1>10 DEF AwaitLayerWords, Goto, AwaitForLayer, MustAwait, CanAwait,
       AwaitNothing, AwaitWords
<1>11. CASE PaintTextLayer
  BY <1>11 DEF PaintTextLayer, Goto, PaintWords, Painting
<1>12. CASE RerenderOutput
  BY <1>12 DEF RerenderOutput, Goto
<1>13. CASE AwaitOutput
  BY <1>13 DEF AwaitOutput, Goto, CanAwait, AwaitNothing, AwaitWords
<1>14. CASE VerifyPage
  BY <1>14 DEF VerifyPage, Goto
<1>15. CASE ReturnPage
  BY <1>15 DEF ReturnPage
<1>16. CASE RaisePage
  BY <1>16 DEF RaisePage, StepErrors
<1>17. CASE RaiseOcrError
  BY <1>17 DEF RaiseOcrError, OcrErrors
<1>18. CASE \E c \in Calls : FinishCall(c)
  BY <1>18 DEF FinishCall, Calls, Answers, OcrErrors
<1>19. CASE \E c \in Calls : FinishStray(c)
  BY <1>19 DEF FinishStray
<1>20. CASE UNCHANGED vars
  BY <1>20 DEF vars
<1>. QED BY <1>1, <1>2, <1>3, <1>4, <1>5, <1>6, <1>7, <1>8, <1>9, <1>10, <1>11,
     <1>12, <1>13, <1>14, <1>15, <1>16, <1>17, <1>18, <1>19, <1>20 DEF Next,
     PageStep

(* No step leaves the OCR of an output behind, or a call to a returned page. *)
LEMMA OutputCallKept == TypeOK /\ Busy /\ Texts /\ OutputCall /\ [Next]_vars => OutputCall'
<1>. SUFFICES ASSUME TypeOK, Busy, Texts, OutputCall, [Next]_vars PROVE OutputCall'
  OBVIOUS
<1>. USE DEF textVars, verdictVars, imageVars, OutputCall, Returned, TypeOK
<1>1. CASE CopyPage
  BY <1>1 DEF CopyPage, ForgetPageBut, NoCalls, Calls
<1>2. CASE RasterizePage
  BY <1>2 DEF RasterizePage, ForgetPage, ForgetPageBut, NoCalls, Calls
<1>3. CASE ProbeNativeText
  BY <1>3 DEF ProbeNativeText, Goto, Calls, Busy
<1>4. CASE SettleTruth
  BY <1>4 DEF SettleTruth, Goto
<1>5. CASE Classify
  BY <1>5 DEF Classify, Goto
<1>6. CASE ComposeDemoted
  BY <1>6 DEF ComposeDemoted, Goto
<1>7. CASE ComposeText
  BY <1>7 DEF ComposeText, Goto
<1>8. CASE ComposePhoto
  BY <1>8 DEF ComposePhoto, Goto
<1>9. CASE ComposeMrc
  BY <1>9 DEF ComposeMrc, Goto
<1>10. CASE AwaitLayerWords
  BY <1>10 DEF AwaitLayerWords, Goto
<1>11. CASE PaintTextLayer
  BY <1>11 DEF PaintTextLayer, Goto
<1>12. CASE RerenderOutput
  BY <1>12 DEF RerenderOutput, Goto, Calls, Busy
<1>13. CASE AwaitOutput
  BY <1>13 DEF AwaitOutput, Goto, Answers
<1>14. CASE VerifyPage
  BY <1>14 DEF VerifyPage, Goto
<1>15. CASE ReturnPage
  BY <1>15 DEF ReturnPage, Abandon, RunningCalls, Calls, Texts, PastEmbed,
       PastPaint, Answers
<1>16. CASE RaisePage
  BY <1>16 DEF RaisePage, ForgetPage, ForgetPageBut, Abandon, RunningCalls,
       StepErrors, NoCalls, Calls
<1>17. CASE RaiseOcrError
  BY <1>17 DEF RaiseOcrError, ForgetPage, ForgetPageBut, Abandon, RunningCalls,
       AwaitedCalls, CanAwait, AwaitNothing, MustAwait, NoCalls, Calls, OcrErrors,
       Answers, Texts, PastProbe, PastTruth, PastClassify, PastCompose, PastEmbed,
       PastPaint, Busy
<1>18. CASE \E c \in Calls : FinishCall(c)
  BY <1>18 DEF FinishCall, Calls, Answers, OcrErrors
<1>19. CASE \E c \in Calls : FinishStray(c)
  BY <1>19 DEF FinishStray
<1>20. CASE UNCHANGED vars
  BY <1>20 DEF vars
<1>. QED BY <1>1, <1>2, <1>3, <1>4, <1>5, <1>6, <1>7, <1>8, <1>9, <1>10, <1>11,
     <1>12, <1>13, <1>14, <1>15, <1>16, <1>17, <1>18, <1>19, <1>20 DEF Next,
     PageStep

(* The composition stays the one the strategy and the colour call for. *)
LEMMA ImageKept == TypeOK /\ Busy /\ Image /\ [Next]_vars => Image'
<1>. SUFFICES ASSUME TypeOK, Busy, Image, [Next]_vars PROVE Image'
  OBVIOUS
<1>. USE DEF textVars, verdictVars, imageVars, Image, Busy, Background, PastProbe,
     PastTruth, PastClassify, PastCompose, PastEmbed, PastPaint, Rewritten, Returned
<1>1. CASE CopyPage
  BY <1>1 DEF CopyPage, ForgetPageBut
<1>2. CASE RasterizePage
  BY <1>2 DEF RasterizePage
<1>3. CASE ProbeNativeText
  BY <1>3 DEF ProbeNativeText, Goto
<1>4. CASE SettleTruth
  BY <1>4 DEF SettleTruth, Goto
<1>5. CASE Classify
  BY <1>5 DEF Classify, Goto, Strategy
<1>6. CASE ComposeDemoted
  BY <1>6 DEF ComposeDemoted, Goto, DemoteToMixed, ComposeMixed
<1>7. CASE ComposeText
  BY <1>7 DEF ComposeText, Goto, Demoted, EncodeMask
<1>8. CASE ComposePhoto
  BY <1>8 DEF ComposePhoto, Goto, Background
<1>9. CASE ComposeMrc
  BY <1>9 DEF ComposeMrc, Goto, ComposeMixed
<1>10. CASE AwaitLayerWords
  BY <1>10 DEF AwaitLayerWords, Goto
<1>11. CASE PaintTextLayer
  BY <1>11 DEF PaintTextLayer, Goto
<1>12. CASE RerenderOutput
  BY <1>12 DEF RerenderOutput, Goto
<1>13. CASE AwaitOutput
  BY <1>13 DEF AwaitOutput, Goto
<1>14. CASE VerifyPage
  BY <1>14 DEF VerifyPage, Goto
<1>15. CASE ReturnPage
  BY <1>15 DEF ReturnPage
<1>16. CASE RaisePage
  BY <1>16 DEF RaisePage, StepErrors
<1>17. CASE RaiseOcrError
  BY <1>17 DEF RaiseOcrError, OcrErrors
<1>18. CASE \E c \in Calls : FinishCall(c)
  BY <1>18 DEF FinishCall, Calls, Answers, OcrErrors
<1>19. CASE \E c \in Calls : FinishStray(c)
  BY <1>19 DEF FinishStray
<1>20. CASE UNCHANGED vars
  BY <1>20 DEF vars
<1>. QED BY <1>1, <1>2, <1>3, <1>4, <1>5, <1>6, <1>7, <1>8, <1>9, <1>10, <1>11,
     <1>12, <1>13, <1>14, <1>15, <1>16, <1>17, <1>18, <1>19, <1>20 DEF Next,
     PageStep

(* Whether the comparisons meet the floors is settled by four variables. *)
LEMMA FloorsStay ==
  ASSUME UNCHANGED <<opts, strategy, scores, color>>
  PROVE  MetTheFloors' <=> MetTheFloors
BY DEF MetTheFloors, Passes, Floors, Safe, PageHasColor

(* A verdict stays what the comparisons made it. *)
LEMMA VerdictKept == TypeOK /\ Busy /\ Image /\ Verdict /\ [Next]_vars => Verdict'
<1>. SUFFICES ASSUME TypeOK, Busy, Image, Verdict, [Next]_vars PROVE Verdict'
  OBVIOUS
<1>. USE DEF textVars, verdictVars, imageVars, Busy, Verdict, Verify, Returned, Rewritten
<1>1. CASE CopyPage
  BY <1>1 DEF CopyPage, ForgetPageBut
<1>2. CASE RasterizePage
  BY <1>2 DEF RasterizePage, ForgetPage, ForgetPageBut
<1>3. CASE ProbeNativeText
  BY <1>3 DEF ProbeNativeText, Goto
<1>4. CASE SettleTruth
  BY <1>4 DEF SettleTruth, Goto
<1>5. CASE Classify
  BY <1>5 DEF Classify, Goto
<1>6. CASE ComposeDemoted
  BY <1>6 DEF ComposeDemoted, Goto
<1>7. CASE ComposeText
  BY <1>7 DEF ComposeText, Goto
<1>8. CASE ComposePhoto
  BY <1>8 DEF ComposePhoto, Goto
<1>9. CASE ComposeMrc
  BY <1>9 DEF ComposeMrc, Goto
<1>10. CASE AwaitLayerWords
  BY <1>10 DEF AwaitLayerWords, Goto
<1>11. CASE PaintTextLayer
  BY <1>11 DEF PaintTextLayer, Goto
<1>12. CASE RerenderOutput
  BY <1>12 DEF RerenderOutput, Goto
<1>13. CASE AwaitOutput
  BY <1>13 DEF AwaitOutput, Goto
<1>14. CASE VerifyPage
  <2>1. /\ pc = "compare" /\ pc' = "return" /\ ending' = ending
        /\ UNCHANGED <<opts, strategy, color>>
        /\ verdict' \in {"pass", "fail"}
    BY <1>14 DEF VerifyPage, Goto
  <2>2. ASSUME verdict' = "pass"
        PROVE  MetTheFloors'
    <3>1. PICK anomalous \in BOOLEAN :
             Passes(scores', Floors(anomalous)) /\ (opts.forced \/ ~PageHasColor(color) => scores'.colorKept)
      BY <1>14, <2>2 DEF VerifyPage
    <3>2. Floors(anomalous)' = Floors(anomalous) /\ PageHasColor(color)' = PageHasColor(color)
      BY <2>1 DEF Floors, Safe, PageHasColor
    <3>3. Passes(scores, Floors(anomalous))'
      BY <3>1, <3>2 DEF Passes
    <3>. QED BY <2>1, <3>1, <3>2, <3>3 DEF MetTheFloors
  <2>. QED BY <2>1, <2>2
<1>15. CASE ReturnPage
  BY <1>15, FloorsStay DEF ReturnPage, Image, PastClassify, PastCompose, PastEmbed,
       PastPaint
<1>16. CASE RaisePage
  BY <1>16 DEF RaisePage, ForgetPage, ForgetPageBut
<1>17. CASE RaiseOcrError
  BY <1>17 DEF RaiseOcrError, ForgetPage, ForgetPageBut
<1>18. CASE \E c \in Calls : FinishCall(c)
  BY <1>18, FloorsStay DEF FinishCall
<1>19. CASE \E c \in Calls : FinishStray(c)
  BY <1>19, FloorsStay DEF FinishStray
<1>20. CASE UNCHANGED vars
  BY <1>20, FloorsStay DEF vars
<1>. QED BY <1>1, <1>2, <1>3, <1>4, <1>5, <1>6, <1>7, <1>8, <1>9, <1>10, <1>11,
     <1>12, <1>13, <1>14, <1>15, <1>16, <1>17, <1>18, <1>19, <1>20 DEF Next,
     PageStep

(* Between two pages nothing of a page is left but its results.             *)
LEMMA BusyKept == TypeOK /\ Busy /\ [Next]_vars => Busy'
BY DEF Busy, Next, PageStep, CopyPage, RasterizePage, ProbeNativeText, SettleTruth,
     Classify,
       ComposeDemoted, ComposeText, ComposePhoto, ComposeMrc, AwaitLayerWords, PaintTextLayer,
       RerenderOutput, AwaitOutput, VerifyPage, ReturnPage, RaisePage, RaiseOcrError, Goto,
       FinishCall, FinishStray, vars

(* The inductive invariant holds of a fresh worker.                         *)
LEMMA InitIInv == Init => IInv
<1>. SUFFICES ASSUME Init PROVE IInv
  OBVIOUS
<1>1. TypeOK
  BY TypesInitially
<1>2. pc = "idle" /\ ending = "none" /\ stray = {} /\ verdict = "none"
  BY DEF Init
<1>. QED BY <1>1, <1>2 DEF IInv, Busy, Texts, OutputCall, Image, Verdict, PastProbe,
     PastTruth,
       PastClassify, PastCompose, PastEmbed, PastPaint, Rewritten, Returned

(* The inductive invariant of the pipeline holds at every step of every     *)
(* page: what each later step may rely on, by the place the page has        *)
(* reached.                                                                 *)
THEOREM AlwaysIInv == Spec => []IInv
<1>1. IInv /\ [Next]_vars => IInv'
  BY TypesKept, BusyKept, TextsKept, OutputCallKept, ImageKept, VerdictKept DEF IInv
<1>. QED BY InitIInv, <1>1, PTL DEF Spec

-----------------------------------------------------------------------------
(* The page's variables keep their kinds, in every run of the pipeline. *)
THEOREM WorkerTypes == Spec => []TypeOK
<1>1. IInv => TypeOK
  BY DEF IInv
<1>. QED BY <1>1, AlwaysIInv, PTL

(* A rewritten page carries the text layer the options ask for: native text *)
(* that is good enough unless it was to go, what Tesseract read where it    *)
(* was asked, and nothing else but what the verifier had read.              *)
THEOREM LayerFollowsOptions == Spec => []LayerAsAsked
<1>1. IInv => LayerAsAsked
  <2>. SUFFICES ASSUME IInv, Rewritten
                PROVE  LayerAsAsked
    BY DEF LayerAsAsked
  <2>1. /\ words = "native" <=> UseNative(native)
        /\ words = "ocr" => ocr["input"] = "words"
        /\ ocr["input"] # "none" <=> LayerNeedsOcr(native) \/ VerifierNeedsOcr(native)
        /\ ocr["input"] \in {"none", "words", "blank"}
        /\ ocr["input"] = "words" => words = "ocr"
        /\ layer = IF Painting THEN words ELSE "none"
        /\ words \in {"none", "native", "ocr"}
    BY DEF IInv, Texts, PastProbe, PastTruth, PastClassify, PastCompose, PastEmbed,
         PastPaint,
           Answers, TypeOK, Sources
  <2>. QED BY <2>1 DEF LayerAsAsked, UseNative, LayerNeedsOcr, VerifierNeedsOcr, Painting
<1>. QED BY <1>1, AlwaysIInv, PTL

(* A verdict is never based on a text that is still being read. *)
THEOREM TruthIsSettled == Spec => []TruthSettled
<1>1. IInv => TruthSettled
  <2>. SUFFICES ASSUME IInv, verdict \in {"pass", "fail"}
                PROVE  IF native = "none" THEN truth = "ocr" /\ ocr["input"] \in Answers
                       ELSE truth = "native"
    BY DEF TruthSettled
  <2>1. Verify /\ PastTruth /\ PastProbe
    BY DEF IInv, Verdict, PastProbe, PastTruth, PastClassify, PastCompose,
         PastEmbed, PastPaint
  <2>. QED BY <2>1 DEF IInv, Texts, VerifierNeedsOcr
<1>. QED BY <1>1, AlwaysIInv, PTL

(* A passing verdict met the floors of the composition the page really has. *)
THEOREM VerdictFits == Spec => []VerdictFitsComposition
<1>1. IInv => VerdictFitsComposition
  <2>. SUFFICES ASSUME IInv, verdict = "pass"
                PROVE  VerdictFitsComposition
    BY DEF VerdictFitsComposition
  <2>1. PICK anomalous \in BOOLEAN : Passes(scores, Floors(anomalous))
    BY DEF IInv, Verdict, MetTheFloors
  <2>2. opts.forced \/ ~PageHasColor(color) => scores.colorKept
    BY DEF IInv, Verdict, MetTheFloors
  <2>3. \/ strategy = "mixed" /\ image.how = "mixed"
        \/ strategy = "photo_only" /\ image.how = "photo"
        \/ strategy = "text_only" /\ image.how = "text"
    BY DEF IInv, Verdict, Image, PastCompose, PastEmbed, PastPaint
  <2>4. scores.ssim \in 0..2 /\ scores.tile \in 0..2
    BY DEF IInv, TypeOK, Scores
  <2>5. scores.colorKept
    BY <2>1 DEF Passes
  <2>. QED BY <2>1, <2>3, <2>4, <2>5 DEF VerdictFitsComposition, Passes, Floors
<1>. QED BY <1>1, AlwaysIInv, PTL

(* Colour is kept unless monochrome was forced, and losing it is reported. *)
THEOREM ColorFollowsOptions == Spec => []ColorAsAsked
<1>1. IInv => ColorAsAsked
  BY DEF IInv, Image, PastClassify, PastCompose, PastEmbed, PastPaint, ColorAsAsked,
       Background,
         EffectivelyMonochrome
<1>. QED BY <1>1, AlwaysIInv, PTL

(* No Tesseract call survives a page that was returned, and at most the     *)
(* reading of an input one that failed.                                     *)
THEOREM CallsAreSettled == Spec => []CallsSettled
<1>1. IInv => CallsSettled
  BY DEF IInv, OutputCall, CallsSettled, RunningCalls, Calls
<1>. QED BY <1>1, AlwaysIInv, PTL
=============================================================================
