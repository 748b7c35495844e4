---------------------------- MODULE CommandLine ----------------------------
(***************************************************************************)
(* One run of the command line: usage, environment, input, options, then   *)
(* either compress() and its output, split into chunks if a size cap was   *)
(* given, or the export of one image per page.  Each path catches errors   *)
(* of its own; what it does not catch ends the run in a traceback.         *)
(* compress() is known here by its results and exceptions (Compress says   *)
(* how it comes to them), a file by the pages it holds (OutputFiles says   *)
(* how it is written).  What an input is like, and what is asked, is       *)
(* chosen where the code first looks at it.                                *)
(***************************************************************************)
EXTENDS Packing

CONSTANT None     (* stands for no --pages, and for no document yet        *)

VARIABLES
  pc,         (* next step of main()                                       *)
  exit,       (* exit code, None while it runs                             *)
  cause,      (* the error or refusal behind it                            *)
  probed,     (* failing components of the cached EnvironmentReport        *)
  asked,      (* the arguments that matter later                           *)
  large,      (* the bytes read exceed max_input_mb                        *)
  only,       (* --pages                                                   *)
  format,     (* the resolved output format                                *)
  doc,        (* what triage says of the input                             *)
  result,     (* what is to be written: "merged", "input" or "images"      *)
  files,      (* written files, each the sequence of its pages             *)
  listed      (* files a failure message names                             *)

cliVars == <<pc, exit, cause, probed, asked, large, only, format, doc, result, files, listed>>
vars == <<cliVars, packVars>>

Arguments == [output : {"stdout", "file"}, capped : BOOLEAN, password : BOOLEAN,
              preserve : BOOLEAN, allow : BOOLEAN, allowCert : BOOLEAN]

(* A document that did not open shows neither pages nor a signature. *)
Documents ==
  [locked : {FALSE}, pages : 0..MaxPages, sig : {"none", "signed", "certified"}]
    \union [locked : {TRUE}, pages : {0}, sig : {"none"}]

Init ==
  /\ pc = "arguments" /\ exit = None /\ cause = "none"
  /\ probed = None
  /\ asked = None /\ large = FALSE /\ only = None /\ format = "none"
  /\ doc = None /\ result = "none"
  /\ files = <<>> /\ listed = <<>>
  /\ PackInit

(* Ways on, and out. *)
Goto(p) == pc' = p /\ UNCHANGED <<exit, cause, listed>>
ExitListing(code, why, names) ==
  pc' = "end" /\ exit' = code /\ cause' = why /\ listed' = names
Exit(code, why) == ExitListing(code, why, <<>>)
Traceback(why) == Exit(1, why)

-----------------------------------------------------------------------------
(* Before the formats part                                                  *)

(* argparse ends in 2, --version and --doctor in 0. *)
ParseArguments ==
  /\ pc = "arguments"
  /\ \/ Exit(2, "argparse")
     \/ Exit(40, "correlation id")
     \/ Exit(0, "information")
     \/ Exit(40, "missing input or output")
     \/ Goto("environment")
  /\ UNCHANGED <<probed, asked, large, only, format, doc, result, files, packVars>>

(* Outcomes of a probe.  jbig2enc has no floor, and of JPEG2000 only the    *)
(* ability to encode is probed.                                             *)
Components == {"tesseract", "qpdf", "jbig2enc", "openjpeg"}
Outcomes(c) ==
  {"ok", "missing", "probe-failed"}
    \union (IF c = "openjpeg" THEN {} ELSE {"unparseable"})
    \union (IF c \in {"tesseract", "qpdf"} THEN {"below-floor"} ELSE {})
Probes == {p \in [Components -> UNION {Outcomes(c) : c \in Components}] :
             \A c \in Components : p[c] \in Outcomes(c)}
Failures(p) == {c \in Components : p[c] # "ok"}
FailureSets == {Failures(p) : p \in Probes}     (* {} too if the check is skipped *)

ASSUME NoneIsNoReport == \A report \in SUBSET Components : report # None
ASSUME NoneIsNoCode == None # 0

Blocking(failures) == failures \intersect {"tesseract", "qpdf", "openjpeg"} # {}

(* get_environment_report: probed once per process. *)
ReportsUncached == FailureSets
Reports == IF probed = None THEN FailureSets ELSE {probed}

CheckEnvironment ==
  /\ pc = "environment"
  /\ \E failures \in Reports :
       /\ probed' = failures
       /\ IF Blocking(failures) THEN Exit(17, "EnvironmentError") ELSE Goto("read")
  /\ UNCHANGED <<asked, large, only, format, doc, result, files, packVars>>

(* A file's size is looked at before it is read and may change in between;  *)
(* standard input is just read.                                             *)
ReadInput ==
  /\ pc = "read"
  /\ \/ Traceback("OSError") /\ UNCHANGED large
     \/ Exit(12, "OversizeError") /\ UNCHANGED large
     \/ large' \in BOOLEAN /\ Goto("options")
  /\ UNCHANGED <<probed, asked, only, format, doc, result, files, packVars>>

(* _build_options reads the password file; CompressOptions refuses          *)
(* preserve_signatures together with allow_signed_invalidation.             *)
BuildOptions ==
  /\ pc = "options"
  /\ \E a \in Arguments :
       /\ asked' = a
       /\ \/ a.password /\ Traceback("OSError")
          \/ a.preserve /\ a.allow /\ Traceback("ValueError")
          \/ ~(a.preserve /\ a.allow) /\ Goto("pages")
  /\ UNCHANGED <<probed, large, only, format, doc, result, files, packVars>>

(* --pages, 1-based, and the format: that of --output-format, else of the   *)
(* extension, else PDF.                                                     *)
ParsePages ==
  /\ pc = "pages"
  /\ \/ \E why \in {"malformed --pages", "too many --pages", "empty --pages"} :
          Exit(40, why) /\ UNCHANGED <<only, format>>
     \/ /\ only' \in {None} \union ((SUBSET (1..(MaxPages + 1))) \ {{}})
        /\ \/ format' = "pdf" /\ Goto("compress")
           \/ format' = "image" /\ Goto("triage")
  /\ UNCHANGED <<probed, asked, large, doc, result, files, packVars>>

-----------------------------------------------------------------------------
(* What both formats ask of a document                                      *)

TriageErrors == {"CorruptPDFError", "MaliciousPDFError"}

OutOfRange(d) == only # None /\ \E p \in only : p > d.pages

(* The pages of a set, in order. *)
Ascending(S) ==
  [k \in 1..Cardinality(S) |-> CHOOSE i \in S : Cardinality({j \in S : j <= i}) = k]

(* sorted(p - 1 for p in only_pages), or every page *)
SelectedOneBased == Ascending(IF only = None THEN 0..(doc.pages - 1) ELSE only)
Selected == Ascending(IF only = None THEN 0..(doc.pages - 1) ELSE {p - 1 : p \in only})

(* _enforce_input_policy.  Reopening a locked document for its page sizes   *)
(* fails.                                                                   *)
PolicyDecisions(d) ==
  IF d.locked /\ ~asked.password THEN {"EncryptedPDFError"}
  ELSE IF d.sig = "certified" /\ ~asked.allowCert THEN {"CertifiedSignatureError"}
  ELSE IF d.sig = "signed" /\ asked.preserve THEN {"preserve"}
  ELSE IF d.sig = "signed" /\ ~asked.allow THEN {"SignedPDFError"}
  ELSE IF large THEN {"OversizeError"}
  ELSE {"OversizeError"} \union
       (IF d.locked THEN {"CorruptPDFError"}
        ELSE {"proceed"} \union IF d.pages > 0 THEN {"DecompressionBombError"} ELSE {})

-----------------------------------------------------------------------------
(* PDF: compress() and the errors main() catches                            *)

PageErrors == {"MemoryCapExceededError", "CompressError", "PerPageTimeoutError",
               "TotalTimeoutError", "OcrTimeoutError", "DecompressionBombError",
               "HostResourceError", "ContentDriftError", "AssertionError", "BrokenProcessPool",
               "PdfError"}

(* Its results once the environment is found ready, in the order it can     *)
(* come to them.                                                            *)
CompressResults(d) ==
  {"NotImplementedError", "HostResourceError"} \union TriageErrors
    \union IF OutOfRange(d) THEN {"CompressError"}
           ELSE UNION {CASE p = "preserve" -> {"input"}
                         [] p = "proceed" -> {"input", "merged"} \union PageErrors
                         [] OTHER -> {p} : p \in PolicyDecisions(d)}

Raises(e) == pc' = "except" /\ cause' = e /\ UNCHANGED <<exit, listed, doc, result>>

(* For pages it does not have, compress() raises a CompressError and nothing *)
(* more particular.                                                         *)
RangeError == "--pages out of range"
CauseOf(d, r) == IF r = "CompressError" /\ OutOfRange(d) THEN RangeError ELSE r

(* The environment is checked once more, from the report in the cache. *)
CallCompress ==
  /\ pc = "compress"
  /\ probed' \in Reports
  /\ IF Blocking(probed')
     THEN Raises("EnvironmentError")
     ELSE \E d \in Documents : \E r \in CompressResults(d) :
            IF r \in {"merged", "input"}
            THEN doc' = d /\ result' = r /\ Goto("write")
            ELSE Raises(CauseOf(d, r))
  /\ UNCHANGED <<asked, large, only, format, files, packVars>>

HankErrors == {"EncryptedPDFError", "CertifiedSignatureError", "SignedPDFError",
               "OversizeError", "DecompressionBombError", "CorruptPDFError",
               "MaliciousPDFError", "ContentDriftError", "HostResourceError",
               "MemoryCapExceededError", "OcrTimeoutError", "PerPageTimeoutError",
               "TotalTimeoutError", "EnvironmentError", "CompressError"}

(* exceptions.py: one class below another, the rest below CompressError,    *)
(* which the error of the range simply is.                                  *)
IsA(e, class) ==
  \/ e = class
  \/ e = "CertifiedSignatureError" /\ class = "SignedPDFError"
  \/ e \in HankErrors \union {RangeError} /\ class = "CompressError"

(* The except clauses around compress(), in their order. *)
ClausesSignedFirst == <<
  [of |-> "EncryptedPDFError", code |-> 10], [of |-> "SignedPDFError", code |-> 11],
  [of |-> "CertifiedSignatureError", code |-> 15], [of |-> "OversizeError", code |-> 12],
  [of |-> "DecompressionBombError", code |-> 16], [of |-> "CorruptPDFError", code |-> 13],
  [of |-> "MaliciousPDFError", code |-> 14], [of |-> "ContentDriftError", code |-> 20],
  [of |-> "HostResourceError", code |-> 19], [of |-> "MemoryCapExceededError", code |-> 18],
  [of |-> "CompressError", code |-> 30]>>

Clauses == <<
  [of |-> "EncryptedPDFError", code |-> 10], [of |-> "CertifiedSignatureError", code |-> 15],
  [of |-> "SignedPDFError", code |-> 11], [of |-> "OversizeError", code |-> 12],
  [of |-> "DecompressionBombError", code |-> 16], [of |-> "CorruptPDFError", code |-> 13],
  [of |-> "MaliciousPDFError", code |-> 14], [of |-> "ContentDriftError", code |-> 20],
  [of |-> "HostResourceError", code |-> 19], [of |-> "MemoryCapExceededError", code |-> 18],
  [of |-> "OcrTimeoutError", code |-> 30], [of |-> "PerPageTimeoutError", code |-> 30],
  [of |-> "TotalTimeoutError", code |-> 30], [of |-> "CompressError", code |-> 30]>>

Catching(e) == {k \in DOMAIN Clauses : IsA(e, Clauses[k].of)}

(* The first clause that matches decides. *)
HandleError ==
  /\ pc = "except"
  /\ IF Catching(cause) = {}
     THEN Traceback(cause)
     ELSE \E k \in Catching(cause) :
            (\A l \in Catching(cause) : k <= l) /\ Exit(Clauses[k].code, cause)
  /\ UNCHANGED <<probed, asked, large, only, format, doc, result, files, packVars>>

-----------------------------------------------------------------------------
(* PDF: the output                                                          *)

(* The pages to be written, in order: those selected, or with the input     *)
(* returned as it is, all.                                                  *)
Wanted == IF result = "input" THEN AllPages(doc.pages) ELSE Selected

(* Standard output takes the whole whatever its size. *)
WriteWhole ==
  /\ pc = "write"
  /\ asked.output = "stdout" \/ ~asked.capped
  /\ \/ files' = <<Wanted>> /\ Goto("finish")
     \/ Traceback("OSError") /\ UNCHANGED files
  /\ UNCHANGED <<probed, asked, large, only, format, doc, result, packVars>>

SplitBegin ==
  /\ pc = "write"
  /\ asked.output = "file" /\ asked.capped
  /\ \/ PackBegin(Len(Wanted)) /\ Goto("split")
     \/ \E why \in {"OSError", "PdfError"} : Traceback(why) /\ UNCHANGED packVars
  /\ UNCHANGED <<probed, asked, large, only, format, doc, result, files>>

SplitStep ==
  /\ pc = "split"
  /\ PackPage \/ PackEnd
  /\ UNCHANGED cliVars

ChunksReady == pc = "split" /\ packing \in {"as-is", "packed"}

ChunkPages(c) == [j \in 1..Len(c) |-> Wanted[c[j] + 1]]

(* A failure is caught, and what was written listed, among several chunks   *)
(* only; but listing the directory for stale chunks, before the first, is   *)
(* outside that handler.                                                    *)
WriteChunk ==
  /\ ChunksReady /\ Len(files) < Len(chunks)
  /\ \/ files' = Append(files, ChunkPages(chunks[Len(files) + 1])) /\ Goto("split")
     \/ /\ IF Len(chunks) > 1 THEN ExitListing(30, "OSError", files) ELSE Traceback("OSError")
        /\ UNCHANGED files
     \/ files = <<>> /\ Len(chunks) > 1 /\ Traceback("OSError") /\ UNCHANGED files
  /\ UNCHANGED <<probed, asked, large, only, format, doc, result, packVars>>

(* The sizes of several chunks are read back from the directory. *)
ChunksWritten ==
  /\ ChunksReady /\ Len(files) = Len(chunks)
  /\ Goto("finish") \/ (Len(chunks) > 1 /\ Traceback("OSError"))
  /\ UNCHANGED <<probed, asked, large, only, format, doc, result, files, packVars>>

(* The sidecar, whose failure is swallowed, the banner and the report. *)
Finish ==
  /\ pc = "finish"
  /\ Exit(0, "none")
  /\ UNCHANGED <<probed, asked, large, only, format, doc, result, files, packVars>>

-----------------------------------------------------------------------------
(* Images                                                                   *)

(* The password file is read again, then triage. *)
ImageTriage ==
  /\ pc = "triage"
  /\ \/ asked.password /\ Traceback("OSError") /\ UNCHANGED doc
     \/ Exit(14, "MaliciousPDFError") /\ UNCHANGED doc
     \/ Exit(13, "CorruptPDFError") /\ UNCHANGED doc
     \/ doc' \in Documents /\ Goto("policy")
  /\ UNCHANGED <<probed, asked, large, only, format, result, files, packVars>>

(* The refusals this path turns into exit codes, and a passthrough, which   *)
(* has no meaning for images.  The options are built, and the password read, *)
(* once more.                                                               *)
PassthroughIgnored == {}
PassthroughRefused == {"preserve"}
ImageRefusals == [EncryptedPDFError |-> 10, CertifiedSignatureError |-> 15,
                  SignedPDFError |-> 11, OversizeError |-> 12]

ImagePolicy ==
  /\ pc = "policy"
  /\ \/ asked.password /\ Traceback("OSError")
     \/ \E p \in PolicyDecisions(doc) :
          CASE p \in DOMAIN ImageRefusals -> Exit(ImageRefusals[p], p)
            [] p \in PassthroughRefused -> Exit(11, "SignedPDFError")
            [] p \in HankErrors -> Traceback(p)
            [] OTHER -> Goto("range")
  /\ UNCHANGED <<probed, asked, large, only, format, doc, result, files, packVars>>

(* Then the selection, and the directory. *)
ImageSelect ==
  /\ pc = "range"
  /\ \/ OutOfRange(doc) /\ Exit(40, RangeError) /\ UNCHANGED result
     \/ ~OutOfRange(doc) /\ Selected = <<>> /\ Exit(40, "no pages") /\ UNCHANGED result
     \/ /\ ~OutOfRange(doc) /\ Selected # <<>>
        /\ \/ /\ asked.output = "stdout" /\ Len(Selected) # 1
              /\ Exit(40, "several images on stdout") /\ UNCHANGED result
           \/ asked.output = "file" /\ Traceback("OSError") /\ UNCHANGED result
           \/ /\ asked.output = "file" \/ Len(Selected) = 1
              /\ result' = "images" /\ Goto("export")
  /\ UNCHANGED <<probed, asked, large, only, format, doc, files, packVars>>

PagesLeftButLast == Len(files) + 1 < Len(Selected)
PagesLeft == Len(files) < Len(Selected)

ExportPage ==
  /\ pc = "export" /\ PagesLeft
  /\ files' = Append(files, <<Selected[Len(files) + 1]>>)
  /\ Goto("export")
  /\ UNCHANGED <<probed, asked, large, only, format, doc, result, packVars>>

(* iter_pages_as_images raises a bomb as such, everything else as           *)
(* RuntimeError; a write raises OSError, which is not caught.  Nothing is   *)
(* for a single image.                                                      *)
NamesUnlisted == <<>>
NamesWritten == files
FailExport ==
  /\ pc = "export" /\ PagesLeft
  /\ IF Len(Selected) = 1
     THEN \E e \in {"DecompressionBombError", "RuntimeError", "OSError"} : Traceback(e)
     ELSE \/ ExitListing(16, "DecompressionBombError", NamesWritten)
          \/ ExitListing(30, "RuntimeError", NamesWritten)
          \/ Traceback("OSError")
  /\ UNCHANGED <<probed, asked, large, only, format, doc, result, files, packVars>>

FinishExport ==
  /\ pc = "export" /\ ~PagesLeft
  /\ Exit(0, "none")
  /\ UNCHANGED <<probed, asked, large, only, format, doc, result, files, packVars>>

Next ==
  \/ ParseArguments
  \/ CheckEnvironment
  \/ ReadInput
  \/ BuildOptions
  \/ ParsePages
  \/ CallCompress
  \/ HandleError
  \/ WriteWhole
  \/ SplitBegin
  \/ SplitStep
  \/ WriteChunk
  \/ ChunksWritten
  \/ Finish
  \/ ImageTriage
  \/ ImagePolicy
  \/ ImageSelect
  \/ ExportPage
  \/ FailExport
  \/ FinishExport

Spec == Init /\ [][Next]_vars

-----------------------------------------------------------------------------
(* Properties                                                               *)

Causes == HankErrors \union
  {"none", "argparse", "correlation id", "information", "missing input or output",
   "malformed --pages", "too many --pages", "empty --pages", RangeError,
   "no pages", "several images on stdout", "OSError", "ValueError", "PdfError",
   "NotImplementedError", "AssertionError", "BrokenProcessPool", "RuntimeError"}

ProgressOK ==
  /\ pc \in {"arguments", "environment", "read", "options", "pages", "compress", "except",
             "write", "split", "finish", "triage", "policy", "range", "export", "end"}
  /\ exit \in {None, 0, 1, 2, 10, 11, 12, 13, 14, 15, 16, 17, 18, 19, 20, 30, 40}
  /\ cause \in Causes

RequestOK ==
  /\ probed \in (SUBSET Components) \union {None}
  /\ asked \in Arguments \union {None}
  /\ large \in BOOLEAN
  /\ only \in (SUBSET (1..(MaxPages + 1))) \union {None}
  /\ format \in {"none", "pdf", "image"}
  /\ doc \in Documents \union {None}
  /\ result \in {"none", "merged", "input", "images"}

FilesOK ==
  /\ files \in Seq(Seq(0..(MaxPages - 1)))
  /\ listed \in Seq(Seq(0..(MaxPages - 1)))

(* Every variable holds a value of its kind. *)
TypeOK == ProgressOK /\ RequestOK /\ FilesOK /\ PackTypeOK

(* The pages in the files, put end to end. *)
AllWritten ==
  LET upTo[k \in 0..Len(files)] == IF k = 0 THEN <<>> ELSE upTo[k - 1] \o files[k]
  IN  upTo[Len(files)]

(* The pages asked for, from 0: all of them if the input is returned as it  *)
(* is.                                                                      *)
PagesAsked ==
  {i \in 0..(doc.pages - 1) : only = None \/ result = "input" \/ i + 1 \in only}

(* Exit code 0 means that every page asked for, and no other, was written   *)
(* once and in order, whatever the format, the number of files and the way  *)
(* it was cut; on standard output as one piece.                             *)
ZeroDelivers ==
  exit = 0 /\ cause # "information" =>
    /\ {AllWritten[k] : k \in 1..Len(AllWritten)} = PagesAsked
    /\ \A k \in 1..(Len(AllWritten) - 1) : AllWritten[k] < AllWritten[k + 1]
    /\ asked.output = "stdout" => Len(files) = 1

(* A refusal leaves no file behind, and a run that fails after its first    *)
(* file names the files it left.  A traceback names none; files are left    *)
(* behind it only where a write failed among several images, or the sizes   *)
(* of a whole set of chunks could not be read back.                         *)
FailureAccountsForFiles ==
  exit \notin {None, 0} =>
    /\ exit \notin {1, 16, 30} => files = <<>>
    /\ \/ listed = files
       \/ exit = 1 /\ cause = "OSError" /\ format = "image" /\ PagesLeft
       \/ exit = 1 /\ cause = "OSError" /\ format = "pdf" /\ Len(files) = Len(chunks)

(* SPEC.md, warnings: an export that fails mid-way lists the pages written  *)
(* before the failure.                                                      *)
ExportListsFiles == format = "image" /\ exit \notin {None, 0} => listed = files

(* SPEC.md, exit codes: "Scripts MUST branch on these". *)
DocumentedCode ==
  [e \in HankErrors |->
     CASE e = "EncryptedPDFError" -> 10
       [] e = "SignedPDFError" -> 11
       [] e = "OversizeError" -> 12
       [] e = "CorruptPDFError" -> 13
       [] e = "MaliciousPDFError" -> 14
       [] e = "CertifiedSignatureError" -> 15
       [] e = "DecompressionBombError" -> 16
       [] e = "EnvironmentError" -> 17
       [] e = "MemoryCapExceededError" -> 18
       [] e = "HostResourceError" -> 19
       [] e = "ContentDriftError" -> 20
       [] OTHER -> 30]

(* An error of the package's own ends a PDF run with the code documented    *)
(* for it, wherever it was raised and although one class is below another;  *)
(* an image run with that code or, uncaught, a traceback.  The error of the *)
(* range, which has no class of its own, is left to RangeExits40.           *)
CodeTellsCause ==
  exit # None /\ cause \in HankErrors =>
    exit = DocumentedCode[cause] \/ (format = "image" /\ exit = 1)

(* Whatever was made of a document, in either format, was made of one that  *)
(* opened, was not too large when it was read, and whose signature the      *)
(* caller agreed to lose.                                                   *)
PolicyEitherFormat ==
  files # <<>> /\ result # "input" =>
    /\ ~doc.locked
    /\ ~large
    /\ doc.sig = "signed" => asked.allow
    /\ doc.sig = "certified" => asked.allowCert

(* SPEC.md, exit codes: --pages out of range is invalid usage, code 40. *)
RangeExits40 == exit # None /\ cause = RangeError => exit = 40

(* SPEC.md: a decompression bomb is refused with exit code 16. *)
BombExits16 == exit # None /\ cause = "DecompressionBombError" => exit = 16
=============================================================================
