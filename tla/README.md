# HankPDF: TLA+ models, checks and proofs

HankPDF rewrites scanned PDFs into much smaller ones and promises never to do so
silently wrongly: what is dropped, changed, refused or left behind must show in an
exception, a report field, a warning code or an exit code. The hard parts of that
promise are not in the pixel code but around it: a pool of workers that share an
abort event with a watchdog thread and may be killed, a page whose decisions about
text, colour and verification run beside two OCR threads, a chain of policy
decisions with five early returns, verdicts aggregated in completion order, a
command line that turns all of it into files and exit codes, and a directory that
several runs write to. This project models those parts, checks them with TLC and
proves most of their properties with TLAPS.

Paths below are relative to the repository; `__init__.py` is
`src/hankpdf/__init__.py` and `main.py` is `src/hankpdf/cli/main.py`. The file
`PROJECT.json` beside this one maps each definition to source lines.

## 1. Inventory

### compress(), the conductor (`__init__.py:1184-1959`)
- *State*: the selection, the gate's flags, `page_pdfs_by_index`, the verifier's
  aggregate, `_verbatim_pages`, warnings, the clock of the total budget.
- *Operations*: argument and host checks, triage, selection, input policy, size
  floor, gate, page phase, merge, ratio floor, verdict, report. Any of them may
  raise; four of them may return the input unchanged.
- *Hard*: the order of the refusals; passthroughs that return before the verifier;
  1-based selections beside 0-based indices; what a report says of pages that were
  copied, failed or never looked at.
- *Correct if*: nobody's signature is invalidated without consent; a "pass" covers
  every delivered page; failing and copied pages are listed exactly; a verbatim page
  never meets the verifier.

### Page executor (`__init__.py:1476-1790`)
- *State*: futures, the executor's process table, the exception in flight, merged
  pages. Four executors: process pool with or without a memory cap, thread pool
  (`HANKPDF_POOL=thread`), serial.
- *Interacts with*: the workers through futures and a shared abort event; the
  watchdog through `_WatchdogState`; the manager thread of `concurrent.futures`,
  which marks the pool broken and terminates workers when one dies.
- *Hard*: any completion order; death while the parent still submits; a hang in
  native code; death faster than the watchdog polls; the order of teardown.
- *Correct if*: a run delivers all selected pages in order or nothing; memory is
  blamed only where memory was the cause; a hung page cannot hang the call.

### Worker and watchdog (`__init__.py:211-262`, `326-452`, `710-1142`)
- *State*: per worker the abort event, the stashed boot warnings and the flag that
  they were drained; in the watchdog the recorded exit codes and the cap flag.
- *Hard*: the event is polled, so work passes between being set and being seen.
- *Correct if*: after an abort the queue drains instead of being worked off; each
  boot warning is reported once; the watchdog does not die in a healthy run.

### Page pipeline (`__init__.py:668-1142`, `engine/strategy.py`, `engine/compose.py`)
- *State*: the locals of one page; beyond a page only the JBIG2 fallback flag and the
  Tesseract threads an exception leaves running.
- *Operations*: rasterise, look for native text, start OCR of the input, settle the
  verifier's ground truth, choose a strategy, compose, add a text layer, render the
  output and read it, compare.
- *Hard*: one OCR result with three consumers, each of which may or may not wait for
  it; an exception while a thread runs; a text page recomposed as a mixed page after
  its strategy was chosen; two colour tests of different sensitivity.
- *Correct if*: the output's text layer is the one the options ask for; no verdict
  compares against text that was not read; a page passed the floors of the way it was
  really composed; colour is kept, or dropped and reported; every page ends.

### Text layer (`engine/text_layer.py`)
- *State*: the walk over pdfium's characters: current word, its box, previous
  baseline, right edge and height.
- *Hard*: sentinels of -1 beside real coordinates, white space and characters without
  text between the neighbours that are compared.
- *Correct if*: no readable character is lost or doubled, boxes bound their words,
  words part exactly at breaks.

### Triage, policy, gate, verifier aggregate
`engine/triage.py` reads the structure once and reports page count, encryption and
signature. `_enforce_input_policy` refuses or lets through. `engine/per_page_gate.py`
decides page by page whether rewriting pays and is forced open whenever the verifier
runs. `_VerifierAggregator` (`engine/verifier.py:182-298`) collects verdicts.

### Command line (`main.py`, `_environment.py`)
- *State*: the cached environment report; the arguments, the document and what has
  been written so far.
- *Operations*: arguments, environment, input, options, page list, then `compress()`
  and its output, whole or in chunks, or the export of one image per page.
- *Hard*: exceptions that are subclasses of one another, caught in a chain of
  fourteen clauses; two output paths that repeat each other's checks by hand; a file
  that grows between being measured and being read; loops that stop half way.
- *Correct if*: 0 means that everything asked for was written; any other code tells
  the cause as documented; a failure names the files it left; a document refused in
  one format is refused in the other.

### Chunking (`engine/chunking.py`)
Greedy packing of pages into chunks under a size cap. Edges: a page larger than the
cap, an exact fit, an empty document. Correct if the chunks are the document in
order, within the cap, full, and as few as possible.

### Output directory (`main.py`, `utils/atomic.py`)
- *State*: only the directory: outputs, chunks, images, the correlation sidecar and
  `.partial` files.
- *Hard*: failure or kill between two files; files of earlier runs under the same
  `-o`, perhaps of another count and so padded to another width.
- *Correct if*: a file under a final name was written to its end and renamed; success
  means all files; a failure lists exactly what exists; leftovers of an earlier run are
  named; a sidecar that does not belong to the document beside it is owed to a run that
  did not end well.

### Sizing (`__init__.py:179-310`, `sandbox/`)
Worker count and memory cap: arithmetic over the input's size, the options and two
readings of the host, one at entry for the workers asked for and one when the pool is
started for the workers that will run. Stateless.
- *Hard*: the second reading and the second count differ from the first; a cap of 0
  means "off"; a host that cannot be read.
- *Correct if*: capped workers share the host's budget, a call that was let in is not
  refused for its own arithmetic, and only who asked for it runs without a cap.

### Everything else
Raster, mask and codec computations (numpy, OpenCV, Pillow, jbig2enc), the Tesseract
subprocess, packaging. No control state of their own; they enter the models as
steps that may fail, hang, time out or exceed a cap.

## 2. Modules

| Module | Models | Relation |
|---|---|---|
| `PageBatch` | what the page phase promises | abstract specification |
| `PageRun` | the page phase: parent, workers, watchdog, manager thread | implements `PageBatch` |
| `MCPageRun` | selection, symmetry and figures for TLC | extends `PageRun`, `HostSizing` |
| `PageRunProofs` | theorems | extends `PageRun` |
| `HostSizing` | executor, workers and cap of a call, as functions | yields the modes of `PageRun` |
| `HostSizingProofs` | theorems | extends `HostSizing` |
| `PageWorker` | one worker's pages, step by step, and their OCR threads | on its own |
| `PageWorkerProofs` | theorems | extends `PageWorker` |
| `Compress` | one call of `compress()` | runs its pages by the actions of `PageBatch` |
| `CompressProofs` | theorems | extends `Compress` |
| `Packing` | `split_pdf_by_size` | on its own |
| `PackingProofs` | theorems | extends `Packing` |
| `CommandLine` | one run of `main()` | splits by the actions of `Packing` |
| `CommandLineProofs` | theorems, and that it implements `Packing` | extends `CommandLine`, `PackingProofs` |
| `OutputFiles` | the output directory over several runs | on its own |
| `OutputFilesProofs` | theorems | extends `OutputFiles` |
| `WordBoxes` | the text layer taken over from the input | on its own |
| `MCWordBoxes` | characters for TLC | extends `WordBoxes` |
| `WordBoxesProofs` | theorems | extends `WordBoxes` |

`PageBatch` is the hinge of the page phase: `Compress` performs `Batch!Collect`,
`Batch!Finish` and `Batch!Fail` inside its own actions, and `PageRun` is shown, by TLC
and by a proof, to do nothing else as seen from the caller. So what is proved of
`Compress` needs no knowledge of pools, and what is proved of `PageRun` none of
signatures. `Packing` is the hinge of the output: `CommandLine` performs its actions
while it splits, `RunsPack` proves that it does nothing else to them, and so the
contract of the packing holds of every run. The other modules meet at values:
`PageWorker` says how a page comes by the results `Compress` collects ("verbatim",
"pass", "fail", "unchecked", an error), `Compress` how `compress()` comes by the
results and exceptions `CommandLine` starts from (`ResultsAreAssumed` proves that these
sets fit), `OutputFiles` how a file that
`CommandLine` writes in one step comes into place.

### PageRun
The variables are the code's: `fut` the futures, `consumed`/`merged` the loop over
`as_completed` with `_merge_result`, `table` the executor's `_processes`, `broken`
its broken flag, `abort`, `anyCap`, `seen` the watchdog's event and record, `wpc` and
`job` the workers, `exit` their exit codes. `capHit` and `late` are history
variables for two properties and are read by no guard.

A worker's page is cut at its `check_abort()` calls, because only there can it see
the parent: `EnterPage` (entry check and drain of the boot warnings), `PassLastCheck`,
`AbortPage`, `ReturnPage`, and between them `FailPage`, `FailAllocation`, `ExceedCap`,
`KernelKill`, `Crash`. A verbatim page has the entry check only. The parent:
`SubmitPage`, `SubmitToBrokenPool`, `CollectResult`, `CollectFailure`,
`CollectBroken`, `TimeOutPages`, `EndCollection`, then the `finally` block
`StopWatchdog`, `LeaveExecutor` (`__exit__`), `MergePages` or `TimeOutRun`.
`concurrent.futures` is external and modelled from how the code relies on it: FIFO
hand-out, `BreakPool` on a dead worker, `TerminateWorker` after it, `_processes`
becoming `None` in `shutdown()`, the cancelling of queued futures before the handler of
a timeout lists what is not done (`Listed`: the serial path has none to cancel, a thread
pool has done it, a process pool's manager thread does it meanwhile), and `__exit__` waiting unless a process pool has
already been shut down with `wait=False`.

### HostSizing
`RequestedWorkers`, `ResolvedWorkers` and `MemCap` are the three functions of
`__init__.py:179-323`; `Sized` composes them as `compress()` does, with the refusal at
entry, the choice between pool and serial path and the refusal at the pool, and yields
the `mode` in which `PageRun` starts. The product with 0.7 is exact instead of a float.
It has no variables and so no run of its own: `MCPageRun` assumes, and TLC evaluates
in every run of `PageRun`, that the calls and readings around all bounds lead to all
four modes and satisfy what `HostSizingProofs` proves for every figure.

### PageWorker
`pc` follows `_process_single_page`; the other variables are its locals (`words` is
where `word_boxes` came from, `truth` where `input_ocr_text` did), reset when a page
begins. `ocr` holds the two futures, `FinishCall` ends one at any moment, `stray` the
calls of earlier pages that still run. What a page is like (native text, ink, colour,
scores) is chosen where the code first looks at it, since nothing before depends on
it; scores are kept only as far as the floors tell them apart. `ProbeNativeText` is
the text source decision with its warning and the start of the input OCR;
`SettleTruth`, `AwaitLayerWords` and `AwaitOutput` are the three calls of
`_await_input_ocr()`; `ComposeDemoted` is the branch that turns a text page into a
mixed one. `RaisePage` and `RaiseOcrError` end a page at any step that can raise,
`Abandon` is the `shutdown(wait=False)` on every way out.

### Compress
One action per phase in the code's order; `phase` is the program counter. Sizes,
clocks and free memory are looked at once each in a call, so the two floors, the
budget checks and the host refusals are nondeterministic where they stand
(`SetUpPages` is the second refusal, when the pool computes its cap afresh). A
document is its page count, encryption, signature and the gate's scores, which may
be one page short of triage's count (the code pads). A collected page gets one of
"verbatim", "unchecked", "pass", "fail", or "tripped" when the assertion of the
verbatim fast path would fire. Which error a failing page phase raises is left open
here and settled in `PageRun`.

### CommandLine and Packing
`pc` follows `main()` and `_run_image_export`; each check is one action whose failing
alternatives end in `Exit` with the code the source returns or in `Traceback` where
nothing catches. `Clauses` is the chain of except clauses as a sequence, `IsA` the
class hierarchy, and `HandleError` takes the first clause that matches. A document is
chosen at triage, its policy by `PolicyDecisions`, which both formats use because
both call `_enforce_input_policy`. A file is the sequence of pages it holds, so that
"everything asked for" can be stated. An out-of-range selection is a cause of its own
(`RangeError`), although `compress()` raises it as a bare `CompressError`: `IsA` lets
the last clause catch it, and the properties can tell it from an engine failure.
`Packing` keeps page costs as running totals;
the first branch of `PackBegin` is open because the size of the whole document is not
the sum of its pages' sizes.

### WordBoxes
One action per character read, one for the last flush, one for painting. Coordinates
are integers and the two thresholds (0.5 and 0.6 of a height) are cross-multiplied.
The scale from points to pixels and back is linear and left out. Of a style (font
size, direction) nothing is kept.

### OutputFiles
`disk` maps each final name to the run that wrote it and to what it holds: `"empty"`
for a file that was only opened, `"short"` or `"whole"` after `os.write`, which may
always store less than it was given. A job is one PDF, chunks (one chunk falls back to
the plain name, as in the code) or images of an ascending page list. Each file takes
the three steps of `_atomic_write_bytes` (open `.partial`, one `os.write`, `replace`),
any of which may raise `OSError` (`WriteFails`); a page may fail to render; the sizes of
several chunks may fail to be read back before the sidecar (`ReadBackFails`, outside
every handler); the process may be killed anywhere; then the next run starts over the
same directory. `ended` keeps how each run ended, because a sidecar can outlive the run
it belongs to. Names carry their pad width, since the glob for stale chunks matches
every width.

## 3. Runs and bounds

| Run | What it shows |
|---|---|
| `page_run` | all interleavings, 4 pages, 2 workers, 4 executors: delivery, blame, drain, boot warnings, watchdog, refinement of `PageBatch` |
| `page_run_live` | a capped pool always ends its run |
| `page_worker` | every combination of options and kind of page, any number of pages: text layer, ground truth, floors, colour, OCR threads, that pages end |
| `compress` | every document of up to two pages under every combination of options |
| `command_line` | both formats, up to three pages, an error at every step: exit codes, files, policy, packing |
| `output_files` | two runs, up to four files each, short writes, failures and kills everywhere |
| `word_boxes` | up to four characters anywhere on two lines and below the origin |
| `kernel_kill`, `only_pages`, `short_write`, `pages_out_of_range`, `export_unlisted` | five places where code and documents disagree (section 6) |

*PageRun*: four pages is the least for which the code uses a pool
(`_PARALLEL_MIN_PAGES`); two workers are enough for one to die, hang or exceed the
cap while the other works, and four pages over two workers leave jobs queued when
the abort comes. The page indices are not the slot numbers, and one page is verbatim,
so that a confusion of the two would show. Workers are symmetric; symmetry is used in
the safety run only. The stutter `Finished` is the end of the call, so a deadlock
would be a real one.

*Compress*: two pages make order matter in the aggregate and leave room for a proper
selection, one verbatim page beside a rewritten one, and a padded score. Every call
under every option is enumerated, 1.84 million states. `ParallelMinPages` is 2 there
instead of the program's 4, so that the pool's own refusal is reached.

*PageWorker*: no bound at all. A page's locals are reset when it begins and only
`tripped` and `stray` survive it, so the state space is finite over any number of
pages: 559,216 states.

*CommandLine*: three pages, a cap of 3 and costs of up to 4 give a page above the cap,
an exact fit, chunks of one and of two pages, and a greedy choice that could be made
otherwise; `--pages` may name a page that does not exist. 1.06 million states.

*WordBoxes*: breaks are between neighbours; four characters leave room for a word of
several characters, a break, a space, and a break after the space. Heights of 0, 2 and
6 make the larger height come from either side, and the gaps lie below, at and above
0.6 of a height. 612,615 states.

*OutputFiles*: two runs put an earlier run's leftovers, whole or cut off at any step,
under a later one of another kind or count; what a third adds is in the proofs, which
hold for any number. Indices are written in base 2 with a least width of 2, so four
files already need two different widths; with the program's 10 and 3 the same happens
at 1000 files. 488 thousand states.

The runs of section 6 use the least bounds that show the disagreement: one run and two
files (`OutputFilesShort`), one page (`CommandLineRange`), two (`CommandLineExport`).

`CHECK_DEADLOCK FALSE` is set for `Compress`, `CommandLine` and `WordBoxes`, which end,
and for `OutputFiles`, whose history stops at `MaxRuns`.

Each property has a mutant in `PROJECT.json`: a definition changed as a plausible bug
would change it (a clause moved up, a sentinel test dropped, an await forgotten),
under which TLC finds the property violated with the run's own bounds.

## 4. Fairness

`FairSpec` of `PageRun` assumes weak fairness of the parent's steps, of its clock
(`TimeOutPages`: `as_completed(timeout=...)` is armed on every pool run) and of the
manager thread. It assumes nothing of the workers, since a page may hang in native
code for ever; `Returns` therefore says that the timeout, the shutdown with
`wait=False` and the missing join really free the caller.

`FairSpec` of `PageWorker` assumes that a page that was begun goes on when it can
(its steps are sequential code), and that a Tesseract call of the page ends:
`per_page_timeout_seconds` is handed to pytesseract, which kills the subprocess. No
fairness is assumed of calls left behind by an earlier page. `PageEnds` then says
that no step waits for a call that was never started or whose answer was no words.

## 5. Proofs

Everything here is checked by `tlapm` from nothing, with no assumption except the
named ones about constants: `RunAssumption` (an ascending non-empty selection, a
pool only from four pages on, `None` distinct from workers and indices),
`CompressAssumption` (`MaxPages` and `ParallelMinPages` are naturals of any size),
`OutputAssumption` (bounds positive, a radix of at least two), `PackingAssumption`
(cap and costs positive, any number of pages), `NoneIsNoReport` and `NoneIsNoCode`
(`None` is no set of failures and not 0), `WordBoxesAssumption` (boxes are upright) and `SizingAssumption` (units,
floor and ceiling are positive).

*PageRunProofs*. `OutputFaithful` is not inductive: that the output is the selection
follows from what is stored where. `RunInv` says that a merged entry holds its own
index, that exactly the consumed slots are merged, that an error-free exit from the
loop happens only with all slots consumed, and that output exists only at the end.
`CapBlameJustified` needs `CapEvidence`: the event, the flag, an exceeded worker and
a kill code each imply that a cap was hit. `AbortDrains` needs `LateOnce`, which
bounds what a worker has returned by where it stands. `WatchdogOutlivesRun` needs
`WatchdogOrder`: while the watchdog polls, the table is gone only if an error is in
flight. `BootWarningOnce` needs `BootInv`: a busy worker holds a slot of its own that is
still open, nothing rides on a slot before a worker enters its page, a worker's warning
rides on one slot from its first page on, and it is counted with that slot.
`KernelKillClassified` is an action property and is proved for the step that
raises. `Implements` proves the refinement of `PageBatch`: initial states map to
initial states, `CollectResult` to `Collect`, `MergePages` to `Finish`, the first
step that settles an error to `Fail`, all else to stuttering.
`KillHiddenOnlyAtSubmit` needs `DeathKnown` beside its own statement: what is known of
the dead, and that the last page is not submitted while any submission is left to do.
`LaggardsHadNoResult` rests on `LateNamed`: a page that a timeout names was not
consumed, and once an error is set none will be.

*CompressProofs*. The invariant `RunInv` has a part per kind of knowledge: `Admitted`
(a run past the policy, or with any trace of a page, has consent), `SelectedInside`
and `FlagsAreGated` (positions fit flags), `Accounted` (results and failing list
agree, without repetition), `MergedCollected` (delivered is collected), `ReportExact`
and `InputReport` (reports are made from those). Three lemmas treat the endings of
all actions at once: raising, advancing, returning the input. Consent and
preservation follow from `Admitted`; the verdict, drift and verbatim properties from
`Accounted` and `ReportExact`; the interlock from `FlagsAreGated` and the definition
of the gate. `SelectionInv` relates the working selection to `only_pages` from phase to
phase, and `SelectionDelivered` follows from it.

`ResultsAreAssumed` joins the two modules that meet at the call. `CommandLine` starts
from a set of results for what triage shows of a document (`CompressResults`); the
theorem says that `Compress` ends with no other. It is stated for a document within
`max_input_mb` (`large <- FALSE`) and for a selection that is not empty, since `main()`
never passes an empty one; `EnvironmentError` is set apart because `CommandLine`
decides it from its own report. Its lemmas treat the refusals before triage
(`EarlyAssumed`), the policy (`PolicyAssumed`, `PolicyEnds`) and the two ways to end
(`RaisedAssumed`, `InputAssumed`).

*OutputFilesProofs*. `DirInv`: nothing on disk is newer than the run; the targets
before `next` are this run's and nothing else is (`PastTargetsMine`, `OnlyTargets`); the
list of written names is exactly what is this run's; the sidecar is this run's only
after success; a run that is under way has no ending yet (`UnderWay`), so that
`SidecarKeepsUp` survives the next run's first step. `OnlyFinishedFiles` needs to know of
the `.partial` only that it was written when it is renamed: that is what the rename
guarantees, and it is all, since a short `os.write` is also finished.
`ForeignChunksExplained` needs `StaleKnown` beside it: what lies beyond the run's own
count and is not the run's has been warned about, since later steps only add names of
the run.

*HostSizingProofs*. Integer shares of a growing budget among fewer workers do not
shrink (`ShareGrows`), and the workers that run are no more than those asked for
(`Counts`); so an admitted call stays admitted while memory does not shrink, capped
workers stay within 70% of the memory seen last, and a cap of 0 that nobody asked for
needs a budget below one byte per worker.

*PageWorkerProofs*. A page's locals mean something from the step on that sets them, so
the invariant is a set of implications from "past that step" (`PastProbe` to
`PastPaint`), in four parts: `Texts` (where words, truth and layer come from, and that
whoever needs the input's OCR has awaited it), `OutputCall` (the second call lives
between rendering and comparison), `Image` (how a strategy was composed, with which
background) and `Verdict` (a pass met the floors of the strategy it ended with). The
point of `LayerFollowsOptions` is that the layer need not await the OCR when words
were already fetched for the verifier; of `VerdictFits`, that the floors are taken by
the strategy as demoted; of `CallsAreSettled`, that every path that started a call and
returned has awaited it.

*PackingProofs*. `IInv` says of the chunk being filled what the properties say of the
finished ones, and adds `Ahead`: any admissible way of cutting the document has made,
up to where the current chunk starts, at least as many cuts as there are finished
chunks. It is preserved because a finished chunk and its next page exceed the cap, so
any admissible way cuts between its start and that page; `PackedFewest` follows. `AsIs`,
that an unsplit document is one chunk, is an invariant by itself.

*CommandLineProofs*. `RunsPack` shows that every step of a run is a step of `Packing`
or leaves it alone, so the three theorems about chunks carry over. `CliInv` adds what
a run knows by where it stands: no exit code before the end, the environment found
ready once (so that `compress()` cannot find it otherwise), `LetThrough`, that
whatever makes files has passed the policy, and what each file holds. `CodesTellCauses`
rests on `FirstClause`, which finds for every exception the first clause that matches.
`CodesNameErrors` is its converse: a code from 10 to 20 is given for one error only;
`RangeCodes` says what becomes of an out-of-range selection. `FilesAccountedFor` needs
`CliInv`'s knowledge of the format at each step and of what `Len(chunks)` and
`Len(files)` are, to tell the two tracebacks that leave unlisted files from all others.

`ZeroMeansDelivered` takes three lemmas that are inductions. `IntervalInduction` does
them in a form the provers can use: a set that holds 0 and is closed under successors
holds an interval, since the exceptions would have a least element. That one exists
because every rank is taken (`EveryRankTaken`: distinct ranks, as many as elements),
which also makes a sorted selection a sequence of each page once (`Enumerated`), and
with it `CommandLine`'s type invariant. The files are `Pieces` of the pages to be
written when each goes on where the one before it ended; `PiecesJoined` shows that
pieces end to end are the whole, and `CliInv` (`Written`, `Ending`) that at exit code 0
the files are such pieces: one file, the chunks of `Packing`, or a page each.

*WordBoxesProofs*. The invariant says of every word, the current one included, that it
is a run without white space, tight in the sense of the break rule and inside its
bounding box (`Sound`); that words follow the text with a break where one ends and
the next begins (`Orderly`, `Follows`); and that nothing readable is left (`Covered`).
`AsciiSurvives` adds what is painted of each word (`Painting`).

Only model-checked: `Returns` and `PageEnds`, which are liveness and out of the
prover's reach, and the five properties of section 6, which do not hold. That the digits
`OutputFiles` pads chunk numbers to exist for every radix is used in no proof.

## 6. Where code and documents disagree

Each of these has a run whose counterexample shows it; `PROJECT.json` quotes the lines.
1. A worker killed for memory while pages are still being submitted: `ex.submit`
   raises `BrokenProcessPool` outside every handler (`kernel_kill`).
2. Passthroughs return the whole input whatever `only_pages` selects (`only_pages`).
3. `os.write`'s return value is dropped (`utils/atomic.py:47`), so a write that a full
   disk cuts short is renamed and counted as success, where the module promises "never
   a truncation" (`short_write`).
4. `--pages` out of range exits 30 for PDF output, documented as 40
   (`pages_out_of_range`).
5. A write that fails among several images ends in a traceback that names none of the
   files already written (`export_unlisted`).

For each a theorem says where the disagreement ends, so that the rest of the
promise can be relied on: `KillHiddenOnlyAtSubmit` (1: without a
crash the broken pool was met before the last page was submitted), `SelectionDelivered`
(2: only where the input is returned), `OnlyFinishedFiles` (3: a file that was only
opened, or that a kill or an error cut off, never gets a final name), `RangeCodes`
(4: an image export exits 40) and `FilesAccountedFor` (5: beside it only a whole set of
chunks whose sizes cannot be read back is left unlisted).

Seen while reading, without a run of their own; of the second and third a theorem says
how far they go:
- *Fallback*. The flag behind `page-N-jbig2-fallback-to-flate` is never set
  (`__init__.py:119`, read at 1016), so the warning that `docs/SPEC.md:705` promises
  cannot appear.
- *Bombs*. A decompression bomb on the image path ends in a traceback with exit code 1
  instead of 16: no clause at `main.py:820-839`, and no handler at all for a single image
  (944-952). `BombsExit16Elsewhere`: only in an image export.
- *Rebuilt layer*. A preserved text layer replaces every character outside ASCII by "?"
  (`engine/text_layer.py:91`), against `README.md:41`. `AsciiSurvives`: every ASCII
  character is kept, in its own word.
- *Page phase*. An allocation refused by `RLIMIT_AS` becomes a plain `CompressError`
  (`__init__.py:1703`), where `exceptions.py:94-96` promises `MemoryCapExceededError`.
  On the serial path the timeout is raised inside a `with` block that joins the hung
  thread (`__init__.py:1753`). `exceptions.py:4-5` promises `CompressError` subclasses,
  yet a crash ends in a raw `BrokenProcessPool`. `_check_total_timeout` claims a call
  "post-verify" (`__init__.py:1234-1235`) that is not there.
- *Sizing*. `types.py:105` says `max_workers = 0` leaves two processors, the code leaves
  one. A cap that comes out as 0 bytes is taken for one switched off
  (`__init__.py:1299`), so a host with no memory left at all is not refused.
- *Report*. `failing_pages` is 0-based, documented as 1-based (`docs/SPEC.md:119`). A
  signed document returned by a floor is reported with `signature_state` "none".
- *Page pipeline*. Native text of poor quality is dropped without a warning unless
  `--ocr` is given, yet it serves the verifier as ground truth. With the verifier on,
  a page without native text gets an OCR text layer although OCR was not asked for.
  `engine/foreground.py:28-30` says its colour test agrees with the verifier's, but
  only the verifier looks for a coloured blob. The branch that runs the output OCR
  without a pool (`__init__.py:1084`) cannot be reached.
- *Text layer*. Breaks are said to be relative to the current word's height; the code
  takes the larger height of two neighbours. Since -1 stands for "none" and tests are
  `>= 0`, characters below or left of the origin break no word
  (`WordsPartAtBreaks` is stated accordingly).
- *Command line*. Passthroughs exit 0, and so does the report that says exit code 2
  (`README.md:78` names both). An unreadable password file ends in a traceback, although
  `docs/SPEC.md:404` lists it under 40. A locked document with a selection is refused as
  out of range, not as encrypted (`__init__.py:1322`). `except MaliciousPDFError` in the loop over
  images cannot be reached. `--preserve-signatures` is said to copy any signed input
  verbatim (`main.py:290-297`), but a certified one is rewritten when its own opt-in is
  given too, as `types.py:65-69` has it (`PreservedUntouched` is stated accordingly).
- *Output*. Stale chunks are not looked for when the new output is one chunk
  (`main.py:1383`), and an old chunk whose number the new run uses with another padding
  (`_0003` beside `_003`) is not named; `docs/SPEC.md:730` promises higher numbers only,
  and `ForeignChunksExplained` exempts just those. A failing `stat` after all chunks
  (`main.py:1455`) is a traceback outside the handler that would list them.

## 7. Not modelled

- *Applying a cap*: the system calls in `sandbox/` (`setrlimit`, Job Objects). `PageRun`
  has what follows from a cap that holds, one the platform refuses and one exceeded.
- *Pixels*: masks, foregrounds, codecs, SSIM, text distance. `PageWorker` has the
  branches that depend on them.
- *Triage's walks* over the object tree, and the facts `compress()` never branches on.
- *Environment probes*: the subprocess calls; their outcomes are in `CommandLine`.
- `verify_pages`, which `compress()` does not call; encoders and size estimates of the
  image export; fonts and sizes of the text layer; RSS figures; the order and wording
  of warnings; the audit record; validation of the correlation id beyond its refusal;
  `KeyboardInterrupt`; packaging.

## 8. Plan

*PageWorker under PageRun*: a refinement that maps a page's steps to the worker's
   `EnterPage`, `PassLastCheck` and `ReturnPage`, so that the abort checks are shown
to stand where `PageRun` puts them.
