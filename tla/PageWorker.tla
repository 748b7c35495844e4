----------------------------- MODULE PageWorker -----------------------------
(***************************************************************************)
(* One worker and the pages it is given, page after page: the pipeline of  *)
(* _process_single_page.  A page's raster is looked at for native text and *)
(* strategy, composed, given a text layer and verified, while up to two    *)
(* Tesseract calls of the page run in threads beside it.  An exception     *)
(* leaves those calls running behind the next page.  What a page is like   *)
(* is chosen where the code first looks at it.                             *)
(***************************************************************************)
EXTENDS Naturals

(* `forced` is force_monochrome; the verifier is off by default and has the *)
(* thresholds of mode "standard" or "safe".                                 *)
Options == [ocr : BOOLEAN, strip : BOOLEAN, reOcr : BOOLEAN, forced : BOOLEAN,
            verifier : {"off", "standard", "safe"}]

(* A page's own text: none, text without boxes, boxes that the quality      *)
(* heuristic rejects, boxes that it accepts.                                *)
NativeTexts == {"none", "boxless", "poor", "decent"}

(* Colour on a page: none, a blob of 200 pixels or more that is below 0.1%  *)
(* of the page, more than 0.1%.                                             *)
Colors == {"none", "stamp", "tint"}

Calls == {"input", "output"}                (* what Tesseract is run on     *)
Answers == {"words", "blank"}    (* it recognised words, or none          *)
OcrErrors == {"OcrTimeoutError", "TesseractError"}

(* The comparisons as far as the floors tell them apart: global SSIM below  *)
(* 0.5, below the floor of the mode, or above; tile SSIM below 0.85, below  *)
(* 0.88, or above.                                                          *)
Scores == [lev : BOOLEAN, digits : BOOLEAN, ssim : 0..2, tile : 0..2,
           colorKept : BOOLEAN]
NoScores == [lev |-> FALSE, digits |-> FALSE, ssim |-> 0, tile |-> 0,
             colorKept |-> FALSE]

VARIABLES
  opts,       (* options of the job                                        *)
  pc,         (* next step of the page, "idle" between pages               *)
  ending,     (* how the last page ended, "working" before that            *)
  native,     (* the page's own text                                       *)
  words,      (* where word_boxes came from, "none" if it is empty         *)
  ocr,        (* the page's Tesseract calls                                *)
  truth,      (* where input_ocr_text, the verifier's ground truth, is from *)
  strategy,   (* PageStrategy of the page                                  *)
  color,      (* colour in the input raster                                *)
  image,      (* how the page was composed, and its background             *)
  mask,       (* whether the 1-bit mask was encoded as expected            *)
  layer,      (* text layer of the output, by source                       *)
  verdict,    (* what the PageVerdict says; "sentinel" if nothing was compared *)
  scores,     (* the comparisons behind it                                 *)
  warned,     (* warnings of the page                                      *)
  tripped,    (* _JBIG2_CASCADE_STATE.tripped                              *)
  stray       (* calls of earlier pages that still run                     *)

textVars == <<native, words, ocr, truth>>
verdictVars == <<verdict, scores>>
imageVars == <<strategy, color, image, mask>>
vars == <<opts, pc, ending, textVars, imageVars, layer, verdictVars, warned, tripped, stray>>

Verify == opts.verifier # "off"
Safe == opts.verifier = "safe"
NoCalls == [c \in Calls |-> "none"]
NoImage == [how |-> "none", bg |-> "none"]

Init ==
  /\ opts \in Options
  /\ pc = "idle" /\ ending = "none"
  /\ native = "none" /\ words = "none" /\ ocr = NoCalls /\ truth = "unset"
  /\ strategy = "none" /\ color = "none" /\ image = NoImage /\ mask = "none"
  /\ layer = "none" /\ verdict = "none" /\ scores = NoScores /\ warned = {}
  /\ tripped = FALSE
  /\ stray = {}

-----------------------------------------------------------------------------
(* Endings of a page                                                        *)

(* The local variables of a page. *)
ForgetPageBut(s, v) ==
  /\ native' = "none" /\ words' = "none" /\ ocr' = NoCalls /\ truth' = "unset"
  /\ color' = "none" /\ image' = NoImage /\ mask' = "none" /\ layer' = "none"
  /\ strategy' = s /\ verdict' = v /\ scores' = NoScores /\ warned' = {}

ForgetPage == ForgetPageBut("none", "none")

RunningCalls == {c \in Calls : ocr[c] = "running"}

(* The pools are shut down with wait=False on every way out: a call that    *)
(* runs is left to itself.                                                  *)
Abandon == stray' = stray \union RunningCalls

Goto(p) == pc' = p /\ UNCHANGED <<ending, stray>>

(* Errors a step may end in, besides those of a Tesseract call: the imaging *)
(* and PDF libraries fail anywhere, check_abort() precedes what allocates.  *)
Painting == ~opts.strip /\ words # "none"
StepErrors ==
  CASE pc \in {"probe", "classify"} -> {"Exception"}
    [] pc = "compose" -> {"MemoryCapExceededError", "Exception"}
    [] pc = "paint" -> IF Painting THEN {"MemoryCapExceededError", "Exception"} ELSE {}
    [] pc = "rerender" -> {"DecompressionBombError", "Exception"}
    [] pc = "compare" -> {"ValueError"}
    [] pc = "return" -> {"MemoryCapExceededError"}
    [] OTHER -> {}

RaisePage ==
  /\ ending' \in StepErrors
  /\ pc' = "idle"
  /\ Abandon
  /\ ForgetPage
  /\ UNCHANGED <<opts, tripped>>

-----------------------------------------------------------------------------
(* A page arrives                                                           *)

(* A page the gate found not worth rewriting comes back as it is, with a    *)
(* made-up verdict; the verifier must not see that one.                     *)
CopyPage ==
  /\ pc = "idle"
  /\ \E e \in {"MemoryCapExceededError", IF Verify THEN "AssertionError" ELSE "returned"} :
       ending' = e
  /\ ForgetPageBut("already_optimized", "sentinel")
  /\ UNCHANGED <<opts, pc, tripped, stray>>

(* check_abort() twice, then rasterize_page and its cap on the render size. *)
RasterizePage ==
  /\ pc = "idle"
  /\ ForgetPage
  /\ \/ ending' \in {"MemoryCapExceededError", "DecompressionBombError", "Exception"} /\ pc' = "idle"
     \/ ending' = "working" /\ pc' = "probe"
  /\ UNCHANGED <<opts, tripped, stray>>

-----------------------------------------------------------------------------
(* Text: native layer, Tesseract, ground truth                              *)

UseNative(n) == n = "decent" /\ ~opts.strip /\ ~opts.reOcr

(* _need_tesseract_for_text_layer and _need_tesseract_for_verifier *)
LayerNeedsOcr(n) == ~opts.strip /\ ~UseNative(n) /\ (opts.ocr \/ opts.reOcr)
VerifierNeedsOcrNever(n) == FALSE
VerifierNeedsOcr(n) == Verify /\ n = "none"

(* get_text_range, extract_native_word_boxes and the quality heuristic; the *)
(* OCR of the input is started if either consumer will want it.             *)
ProbeNativeText ==
  /\ pc = "probe"
  /\ \E n \in NativeTexts :
       /\ native' = n
       /\ words' = IF UseNative(n) THEN "native" ELSE "none"
       /\ ocr' = [ocr EXCEPT !["input"] =
                    IF LayerNeedsOcr(n) \/ VerifierNeedsOcr(n) THEN "running" ELSE "none"]
       /\ warned' = IF n = "poor" /\ opts.ocr /\ ~opts.strip /\ ~opts.reOcr
                    THEN {"native-text-quality-poor-using-tesseract"} ELSE {}
  /\ Goto("truth")
  /\ UNCHANGED <<opts, truth, imageVars, layer, verdictVars, tripped>>

(* A Tesseract call ends, killed at the latest by its timeout.  What it read *)
(* matters for the input only.                                              *)
FinishCall(c) ==
  /\ pc # "idle" /\ ocr[c] = "running"
  /\ \E r \in OcrErrors \union (IF c = "input" THEN Answers ELSE {"words"}) :
       ocr' = [ocr EXCEPT ![c] = r]
  /\ UNCHANGED <<opts, pc, ending, native, words, truth, imageVars, layer, verdictVars,
                 warned, tripped, stray>>

FinishStray(c) ==
  /\ c \in stray
  /\ stray' = stray \ {c}
  /\ UNCHANGED <<opts, pc, ending, textVars, imageVars, layer, verdictVars, warned, tripped>>

(* _await_input_ocr(): nothing to do without a call or with words in hand,  *)
(* otherwise it blocks for the answer or raises its error.                  *)
AwaitNothing == ocr["input"] = "none" \/ words # "none"
AwaitFuture == IF AwaitNothing THEN words ELSE ocr["input"]
AwaitWords == IF AwaitNothing THEN words
              ELSE IF ocr["input"] = "words" THEN "ocr" ELSE "none"
CanAwaitWords == AwaitNothing \/ ocr["input"] = "words"
CanAwait == AwaitNothing \/ ocr["input"] \in Answers

(* The ground truth is the native text where there is any, even where its   *)
(* boxes were rejected.                                                     *)
SettleTruth ==
  /\ pc = "truth"
  /\ IF native # "none"
     THEN truth' = "native" /\ UNCHANGED words
     ELSE CanAwait /\ words' = AwaitWords
            /\ truth' = IF ocr["input"] = "none" THEN "unset" ELSE "ocr"
  /\ Goto("classify")
  /\ UNCHANGED <<opts, native, ocr, imageVars, layer, verdictVars, warned, tripped>>

-----------------------------------------------------------------------------
(* Strategy and composition                                                 *)

(* _page_has_color and is_effectively_monochrome: the same tolerance, but   *)
(* only the first looks for blobs.                                          *)
PageHasColor(c) == c # "none"
EffectivelyMonochrome(c) == c # "tint"

(* classify_page: little ink, ink on paper, or ink on something else. *)
Strategy(inky, paper) ==
  IF ~inky THEN "photo_only" ELSE IF paper THEN "text_only" ELSE "mixed"

Classify ==
  /\ pc = "classify"
  /\ \E inky, paper \in BOOLEAN, c \in Colors :
       /\ strategy' = Strategy(inky, paper)
       /\ color' = c
       /\ warned' = warned \union
                    IF opts.forced /\ PageHasColor(c)
                    THEN {"color-detected-in-monochrome-mode"} ELSE {}
  /\ Goto("compose")
  /\ UNCHANGED <<opts, textVars, image, mask, layer, verdictVars, tripped>>

BackgroundUnforced(c) == IF EffectivelyMonochrome(c) THEN "gray" ELSE "rgb"
Background(c) == IF opts.forced \/ EffectivelyMonochrome(c) THEN "gray" ELSE "rgb"

(* _encode_mask_xobject: JBIG2, or flate if jbig2enc fails or is missing,   *)
(* which the parent announced.  The flag of the cascade stays as it is.     *)
EncodeMask == mask' \in {"expected", "failed"}

(* _mrc_compose under a cleared flag. *)
ComposeMixed ==
  /\ image' = [how |-> "mixed", bg |-> Background(color)]
  /\ EncodeMask
  /\ tripped' = FALSE

(* A text page that is not all but colourless becomes a mixed page. *)
Demoted == strategy = "text_only" /\ ~opts.forced /\ ~EffectivelyMonochrome(color)

DemoteKeepingStrategy == strategy' = strategy
DemoteToMixed == strategy' = "mixed"

ComposeDemoted ==
  /\ pc = "compose" /\ Demoted
  /\ DemoteToMixed
  /\ ComposeMixed
  /\ warned' = warned \union {"text-only-demoted-to-mixed-color-detected"}
  /\ Goto("embed")
  /\ UNCHANGED <<opts, textVars, color, layer, verdictVars>>

ComposeText ==
  /\ pc = "compose" /\ strategy = "text_only" /\ ~Demoted
  /\ image' = [how |-> "text", bg |-> "paper"]
  /\ EncodeMask
  /\ Goto("embed")
  /\ UNCHANGED <<opts, textVars, strategy, color, layer, verdictVars, warned, tripped>>

ComposePhoto ==
  /\ pc = "compose" /\ strategy = "photo_only"
  /\ image' = [how |-> "photo", bg |-> Background(color)]
  /\ mask' = "none"
  /\ Goto("embed")
  /\ UNCHANGED <<opts, textVars, strategy, color, layer, verdictVars, warned, tripped>>

(* Only here is the flag looked at afterwards. *)
ComposeMrc ==
  /\ pc = "compose" /\ strategy = "mixed"
  /\ ComposeMixed
  /\ warned' = warned \union IF tripped' THEN {"jbig2-fallback-to-flate"} ELSE {}
  /\ Goto("embed")
  /\ UNCHANGED <<opts, textVars, strategy, color, layer, verdictVars>>

-----------------------------------------------------------------------------
(* Text layer                                                               *)

(* The input's words are awaited where they are wanted and not in hand.     *)
MustAwait == ~opts.strip /\ words = "none" /\ LayerNeedsOcr(native)

AwaitForLayerNever == UNCHANGED words
AwaitForLayer ==
  IF MustAwait THEN CanAwait /\ words' = AwaitWords ELSE UNCHANGED words

AwaitLayerWords ==
  /\ pc = "embed"
  /\ AwaitForLayer
  /\ Goto("paint")
  /\ UNCHANGED <<opts, native, ocr, truth, imageVars, layer, verdictVars, warned, tripped>>

(* add_text_layer, whatever the words were fetched for. *)
PaintWords == layer' = IF Painting THEN words ELSE "none"

PaintTextLayer ==
  /\ pc = "paint"
  /\ PaintWords
  /\ IF Verify
     THEN Goto("rerender") /\ UNCHANGED verdict
     ELSE Goto("return") /\ verdict' = "sentinel"
  /\ UNCHANGED <<opts, textVars, imageVars, scores, warned, tripped>>

-----------------------------------------------------------------------------
(* Verification                                                             *)

(* The output is rasterized and its OCR started. *)
RerenderOutput ==
  /\ pc = "rerender"
  /\ ocr' = [ocr EXCEPT !["output"] = "running"]
  /\ Goto("await")
  /\ UNCHANGED <<opts, native, words, truth, imageVars, layer, verdictVars, warned, tripped>>

AwaitOutput ==
  /\ pc = "await"
  /\ CanAwait /\ words' = AwaitWords
  /\ ocr["output"] \in Answers
  /\ Goto("compare")
  /\ UNCHANGED <<opts, native, ocr, truth, imageVars, layer, verdictVars, warned, tripped>>

(* The error of a call is raised where the call is awaited. *)
AwaitedCalls ==
  {c \in Calls :
     \/ /\ c = "input" /\ ~AwaitNothing
        /\ \/ pc = "truth" /\ native = "none"
           \/ pc = "embed" /\ MustAwait
           \/ pc = "await"
     \/ c = "output" /\ pc = "await" /\ CanAwait}

RaiseOcrError ==
  /\ \E c \in AwaitedCalls : ocr[c] \in OcrErrors /\ ending' = ocr[c]
  /\ pc' = "idle"
  /\ Abandon
  /\ ForgetPage
  /\ UNCHANGED <<opts, tripped>>

(* Floors by strategy; a photo may read differently as long as its digits   *)
(* do not.                                                                  *)
Floors(anomalous) ==
  CASE strategy = "mixed" ->
         [lev |-> TRUE, ssim |-> 2, tile |-> IF anomalous \/ Safe THEN 2 ELSE 1]
    [] strategy = "photo_only" -> [lev |-> FALSE, ssim |-> 1, tile |-> 0]
    [] OTHER -> [lev |-> TRUE, ssim |-> 2, tile |-> 0]

Passes(m, floors) ==
  /\ floors.lev => m.lev
  /\ m.digits
  /\ m.ssim >= floors.ssim
  /\ m.tile >= floors.tile
  /\ m.colorKept

(* verify_single_page; `anomalous` is a ratio above 200.  Colour cannot     *)
(* be lost where there was none, and is not looked at under                 *)
(* force_monochrome; tiles have a floor on mixed pages only.                *)
VerifyPage ==
  /\ pc = "compare"
  /\ \E m \in Scores, anomalous \in IF strategy = "text_only" THEN {FALSE} ELSE BOOLEAN :
       /\ opts.forced \/ ~PageHasColor(color) => m.colorKept
       /\ strategy # "mixed" => m.tile = 0
       /\ scores' = m
       /\ verdict' = IF Passes(m, Floors(anomalous)) THEN "pass" ELSE "fail"
       /\ warned' = warned \union IF anomalous THEN {"anomalous-ratio-safe-verify"} ELSE {}
  /\ Goto("return")
  /\ UNCHANGED <<opts, textVars, imageVars, layer, tripped>>

ReturnPage ==
  /\ pc = "return"
  /\ pc' = "idle"
  /\ ending' = "returned"
  /\ Abandon
  /\ UNCHANGED <<opts, textVars, imageVars, layer, verdictVars, warned, tripped>>

PageStep ==
  \/ CopyPage
  \/ RasterizePage
  \/ ProbeNativeText
  \/ SettleTruth
  \/ Classify
  \/ ComposeDemoted
  \/ ComposeText
  \/ ComposePhoto
  \/ ComposeMrc
  \/ AwaitLayerWords
  \/ PaintTextLayer
  \/ RerenderOutput
  \/ AwaitOutput
  \/ VerifyPage
  \/ ReturnPage
  \/ RaisePage
  \/ RaiseOcrError

Next ==
  \/ PageStep
  \/ \E c \in Calls : FinishCall(c) \/ FinishStray(c)

Spec == Init /\ [][Next]_vars

(* A page that was begun goes on, and a Tesseract call ends: its timeout    *)
(* kills the subprocess.                                                    *)
FairSpec ==
  /\ Spec
  /\ WF_vars(pc # "idle" /\ PageStep)
  /\ \A c \in Calls : WF_vars(FinishCall(c))

-----------------------------------------------------------------------------
(* Properties                                                               *)

Errors == {"MemoryCapExceededError", "DecompressionBombError", "ValueError",
           "AssertionError", "Exception"} \union OcrErrors
Sources == {"none", "native", "ocr"}

(* Every variable holds a value of its kind. *)
TypeOK ==
  /\ opts \in Options
  /\ pc \in {"idle", "probe", "truth", "classify", "compose", "embed", "paint",
             "rerender", "await", "compare", "return"}
  /\ ending \in {"none", "working", "returned"} \union Errors
  /\ native \in NativeTexts
  /\ words \in Sources
  /\ ocr \in [Calls -> {"none", "running"} \union Answers \union OcrErrors]
  /\ truth \in {"unset", "native", "ocr"}
  /\ strategy \in {"none", "already_optimized", "text_only", "photo_only", "mixed"}
  /\ color \in Colors
  /\ image \in [how : {"none", "mixed", "text", "photo"}, bg : {"none", "gray", "rgb", "paper"}]
  /\ mask \in {"none", "expected", "failed"}
  /\ layer \in Sources
  /\ verdict \in {"none", "sentinel", "pass", "fail"}
  /\ scores \in Scores
  /\ warned \in SUBSET {"native-text-quality-poor-using-tesseract",
                        "color-detected-in-monochrome-mode",
                        "text-only-demoted-to-mixed-color-detected",
                        "jbig2-fallback-to-flate", "anomalous-ratio-safe-verify"}
  /\ tripped \in BOOLEAN
  /\ stray \subseteq Calls

Returned == ending = "returned"
Rewritten == Returned /\ strategy # "already_optimized"

(* The output's text layer is the one the options ask for.  Good native     *)
(* text survives unless it was to be stripped or replaced; --ocr and        *)
(* --re-ocr leave a page without text only where Tesseract read nothing;    *)
(* --strip-text-layer leaves none; a layer nobody asked for appears only    *)
(* where the verifier had the page read.                                    *)
LayerAsAsked ==
  Rewritten =>
    /\ native = "decent" /\ ~opts.strip /\ ~opts.reOcr => layer = "native"
    /\ layer = "native" => native = "decent" /\ ~opts.reOcr
    /\ opts.strip => layer = "none"
    /\ (opts.ocr \/ opts.reOcr) /\ ~opts.strip /\ layer = "none" => ocr["input"] = "blank"
    /\ layer = "ocr" => opts.ocr \/ opts.reOcr \/ (Verify /\ native = "none")

(* The verifier never compares against a text that was not read yet: the    *)
(* ground truth of a verdict is the page's own text or a finished OCR.      *)
TruthSettled ==
  verdict \in {"pass", "fail"} =>
    IF native = "none" THEN truth = "ocr" /\ ocr["input"] \in Answers ELSE truth = "native"

(* A page that passed met the floors of the way it was really composed, a   *)
(* text page demoted to a mixed one those of a mixed page; colour it had    *)
(* was seen in the output unless colour was to be dropped.                  *)
VerdictFitsComposition ==
  verdict = "pass" =>
    /\ scores.digits
    /\ image.how = "photo" \/ (scores.lev /\ scores.ssim = 2)
    /\ scores.ssim >= 1
    /\ image.how = "mixed" => scores.tile >= (IF Safe THEN 2 ELSE 1)
    /\ ~opts.forced /\ PageHasColor(color) => scores.colorKept

(* Colour that is more than a blob is composed with a colour background     *)
(* whatever the strategy; under force_monochrome none is, and a page that   *)
(* had colour says so.                                                      *)
ColorAsAsked ==
  Rewritten =>
    /\ ~opts.forced /\ color = "tint" => image.bg = "rgb"
    /\ opts.forced => image.bg # "rgb"
    /\ opts.forced /\ PageHasColor(color) => "color-detected-in-monochrome-mode" \in warned

(* A page returns only when its Tesseract calls have ended; what an         *)
(* exception leaves behind is at most the reading of an input.              *)
CallsSettled ==
  /\ Returned => RunningCalls = {}
  /\ stray \subseteq {"input"}

(* A page that was begun ends, whatever Tesseract does. *)
PageEnds == pc # "idle" ~> pc = "idle"
=============================================================================
