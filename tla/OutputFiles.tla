----------------------------- MODULE OutputFiles -----------------------------
(***************************************************************************)
(* The files the command line leaves in an output directory, over several  *)
(* runs with the same -o.  A run writes one PDF, a set of size-bounded     *)
(* chunks and then its correlation sidecar, or one image per page.  Every  *)
(* file goes through _atomic_write_bytes: open a .partial sibling, write   *)
(* it with one os.write(), which may store less than it was given, rename  *)
(* it.  A step may fail with OSError, a page may fail to render, and the   *)
(* process may be killed between any two steps.                            *)
(***************************************************************************)
EXTENDS Naturals, Sequences, FiniteSets

CONSTANTS
  MaxRuns,      (* bound: runs over the directory                          *)
  MaxCount,     (* bound: chunks or pages of one run                       *)
  Radix,        (* base in which indices are written (10 in the program)   *)
  MinPad        (* least width of an index in a file name (3)              *)

ASSUME OutputAssumption ==
  /\ MaxRuns \in Nat \ {0}
  /\ MaxCount \in Nat \ {0}
  /\ Radix \in Nat \ {0, 1}
  /\ MinPad \in Nat \ {0}

(* Width of zero-padded indices up to n. *)
Digits(n) == CHOOSE d \in 1..n : Radix^(d - 1) <= n /\ n < Radix^d
PadWidth(n) == IF Digits(n) > MinPad THEN Digits(n) ELSE MinPad

(* File names: {base}{ext}, {base}_{index}{ext} of a chunk or of an image,  *)
(* and {base}_correlation.json.                                             *)
Single  == <<"single">>
Sidecar == <<"sidecar">>
Chunk(i, w) == <<"chunk", i, w>>
Image(i, w) == <<"image", i, w>>
Widths == {PadWidth(n) : n \in 1..MaxCount}
ChunkNames == {Chunk(i, w) : i \in 1..MaxCount, w \in Widths}
ImageNames == {<<"image">>} \union {Image(i, w) : i \in 1..MaxCount, w \in Widths}
Outputs == {Single} \union ChunkNames \union ImageNames
Names == Outputs \union {Sidecar}

(* Page numbers of an image export: a selection, ascending.                 *)
PageLists ==
  {s \in UNION {[1..n -> 1..MaxCount] : n \in 1..MaxCount} :
     \A i, j \in DOMAIN s : i < j => s[i] < s[j]}

(* What a run writes, in order.  One chunk is written as the plain output;  *)
(* the width of image names also covers the largest page number.            *)
PlainJob == [kind |-> "plain", targets |-> <<Single>>]
ChunkJob(n) ==
  [kind |-> "capped",
   targets |-> IF n = 1 THEN <<Single>> ELSE [i \in 1..n |-> Chunk(i, PadWidth(n))]]
ImageJob(pages) ==
  [kind |-> "image",
   targets |-> IF Len(pages) = 1 THEN <<<<"image">>>>
               ELSE [k \in 1..Len(pages) |-> Image(pages[k], PadWidth(pages[Len(pages)]))]]
Jobs == {PlainJob} \union {ChunkJob(n) : n \in 1..MaxCount}
          \union {ImageJob(s) : s \in PageLists}

Absent == [run |-> 0, content |-> "none"]   (* no file of that name *)

VARIABLES
  disk,      (* the run and the content of each final name                 *)
  partial,   (* content of the .partial file being written                 *)
  run,       (* number of the current or last run                          *)
  job,       (* what it writes                                             *)
  next,      (* index of the target being written                          *)
  pc,        (* "idle", or the step of _atomic_write_bytes to come         *)
  stale,     (* names the run warns about as stale                         *)
  written,   (* names it lists as written                                  *)
  ended      (* how each run ended; "warned" is well, but for the sidecar  *)

vars == <<disk, partial, run, job, next, pc, stale, written, ended>>

Init ==
  /\ disk = [n \in Names |-> Absent]
  /\ partial = "none"
  /\ run = 0
  /\ job = PlainJob
  /\ next = 1
  /\ pc = "idle"
  /\ stale = {}
  /\ written = {}
  /\ ended = [r \in 1..MaxRuns |-> "none"]

Ends(how) == pc' = "idle" /\ ended' = [ended EXCEPT ![run] = how]

Exists(n) == disk[n] # Absent
Count == Len(job.targets)
Target == IF next <= Count THEN job.targets[next] ELSE Sidecar
Chunked(j) == j.kind = "capped" /\ Len(j.targets) > 1

(* A chunk of an earlier run that this run's chunks will not overwrite. *)
IsStale(i, n) == i > n
StaleAnyExtension(n) ==
  {c \in ChunkNames \union (ImageNames \ {<<"image">>}) : Exists(c) /\ IsStale(c[2], n)}
StaleSameWidth(n) ==
  {c \in ChunkNames : Exists(c) /\ IsStale(c[2], n) /\ c[3] = PadWidth(n)}
StaleChunks(n) == {c \in ChunkNames : Exists(c) /\ IsStale(c[2], n)}

(* main() reaches the write stage; a run of several chunks first looks for  *)
(* stale ones.                                                              *)
StartRun ==
  /\ pc = "idle"
  /\ run < MaxRuns
  /\ \E j \in Jobs :
       /\ job' = j
       /\ stale' = IF Chunked(j) THEN StaleChunks(Len(j.targets)) ELSE {}
  /\ run' = run + 1
  /\ next' = 1
  /\ pc' = "open"
  /\ partial' = "none"
  /\ written' = {}
  /\ UNCHANGED <<disk, ended>>

(* What opening for writing does to the file of the final name. *)
TruncatedByOpen(n) == [disk EXCEPT ![n] = [run |-> run, content |-> "empty"]]
UntouchedByOpen(n) == disk

OpenPartial ==
  /\ pc = "open"
  /\ partial' = "empty"
  /\ disk' = UntouchedByOpen(Target)
  /\ pc' = "write"
  /\ UNCHANGED <<run, job, next, stale, written, ended>>

(* A single os.write(); its return value is not looked at. *)
WritePartial ==
  /\ pc = "write"
  /\ partial' \in {"short", "whole"}
  /\ pc' = "swap"
  /\ UNCHANGED <<disk, run, job, next, stale, written, ended>>

MoreTargetsButLast == next + 1 < Count
MoreTargets == next < Count
PlainSidecar == job.kind = "plain"
HasSidecar == job.kind # "image"

(* replace() swings the final name; then comes the next target, after the   *)
(* last one the sidecar, and after that the end of main().                  *)
Replace ==
  /\ pc = "swap"
  /\ disk' = [disk EXCEPT ![Target] = [run |-> run, content |-> partial]]
  /\ partial' = "none"
  /\ written' = IF Target = Sidecar THEN written ELSE written \union {Target}
  /\ IF Target # Sidecar /\ (MoreTargets \/ HasSidecar)
     THEN /\ next' = IF MoreTargets THEN next + 1 ELSE Count + 1
          /\ pc' = "open"
          /\ UNCHANGED ended
     ELSE Ends("ok") /\ UNCHANGED next
  /\ UNCHANGED <<run, job, stale>>

(* The names a partial failure lists. *)
WrittenOrTried == written \union {Target}
WrittenSoFar == written

(* A step of the write raises OSError: caught and reported for chunks,      *)
(* swallowed with a warning for the sidecar, not handled otherwise.         *)
WriteFails ==
  /\ pc # "idle"
  /\ IF Target = Sidecar
     THEN Ends("warned") /\ UNCHANGED written
     ELSE /\ Ends(IF Chunked(job) THEN "partial" ELSE "traceback")
          /\ written' = WrittenSoFar
  /\ UNCHANGED <<disk, partial, run, job, next, stale>>

(* Image export: the next page cannot be rendered.  A single image is       *)
(* outside the handlers of partial failures.                                *)
RenderFails ==
  /\ pc = "open"
  /\ job.kind = "image"
  /\ Ends(IF Count > 1 THEN "partial" ELSE "traceback")
  /\ written' = WrittenSoFar
  /\ UNCHANGED <<disk, partial, run, job, next, stale>>

(* The sizes of several chunks are read back from the directory before the  *)
(* sidecar is written, outside the handler.                                 *)
ReadBackFails ==
  /\ pc = "open"
  /\ Target = Sidecar /\ Chunked(job)
  /\ Ends("traceback")
  /\ UNCHANGED <<disk, partial, run, job, next, stale, written>>

(* The process is killed. *)
Crash ==
  /\ pc # "idle"
  /\ Ends("crashed")
  /\ UNCHANGED <<disk, partial, run, job, next, stale, written>>

Next ==
  \/ StartRun
  \/ OpenPartial
  \/ WritePartial
  \/ Replace
  \/ WriteFails
  \/ RenderFails
  \/ ReadBackFails
  \/ Crash

Spec == Init /\ [][Next]_vars

-----------------------------------------------------------------------------
(* Properties                                                               *)

Contents == [run : 0..MaxRuns, content : {"none", "empty", "short", "whole"}]
Outcomes == {"none", "ok", "warned", "partial", "traceback", "crashed"}

(* Every variable holds a value of its kind. *)
TypeOK ==
  /\ disk \in [Names -> Contents]
  /\ partial \in {"none", "empty", "short", "whole"}
  /\ run \in 0..MaxRuns
  /\ job \in Jobs
  /\ next \in 1..(Count + 1)
  /\ pc \in {"idle", "open", "write", "swap"}
  /\ stale \subseteq ChunkNames
  /\ written \subseteq Outputs
  /\ ended \in [1..MaxRuns -> Outcomes]

Mine(n) == disk[n].run = run
Outcome == IF run = 0 THEN "none" ELSE ended[run]
EndedWell == Outcome \in {"ok", "warned"}

(* A file under its final name went through a completed os.write() and a    *)
(* rename: a run killed or failed between any two steps leaves there what    *)
(* an earlier run put in place, never a file that was only opened           *)
(* (_atomic_write_bytes).  How much that os.write() stored is another        *)
(* matter.                                                                  *)
FinalNamesFinished ==
  \A n \in Names : Exists(n) => disk[n].content \in {"short", "whole"}

(* atomic.py: "the final-named file either doesn't exist or is a complete   *)
(* write, never a truncation", disk full included.                          *)
NoTruncatedFile == \A n \in Names : Exists(n) => disk[n].content = "whole"

(* A run that ends well has put every file it promised in place, and its    *)
(* sidecar too unless it warned that it could not.                          *)
CompleteOnSuccess ==
  EndedWell =>
    /\ \A k \in 1..Count : Mine(job.targets[k])
    /\ HasSidecar /\ Outcome = "ok" => Mine(Sidecar)

(* The list printed after a partial failure is exactly what the run left    *)
(* under final names.  A run that ends in a traceback, which lists nothing, *)
(* left nothing either, except in two places: among several images, and     *)
(* when all chunks are in place.                                            *)
FailureListed ==
  /\ Outcome = "partial" => written = {n \in Names : Exists(n) /\ Mine(n)}
  /\ Outcome = "traceback" =>
       \/ \A n \in Names : Exists(n) => ~Mine(n)
       \/ job.kind = "image" /\ Count > 1
       \/ Chunked(job) /\ \A k \in 1..Count : Mine(job.targets[k])

(* After a run of several chunks, a chunk file of an earlier run is named   *)
(* by the warning, whatever its index was padded to, unless its number is   *)
(* one of this run's and only the padding differs.                          *)
ForeignChunksExplained ==
  EndedWell /\ Chunked(job) =>
    \A i \in 1..MaxCount, w \in Widths :
      Exists(Chunk(i, w)) /\ ~Mine(Chunk(i, w)) =>
        \/ Chunk(i, w) \in stale
        \/ i <= Count /\ w # PadWidth(Count)

(* The sidecar belongs to a run that ended well, whatever later runs did;   *)
(* and a document newer than the sidecar beside it belongs to a run that    *)
(* was killed, failed, warned or is still under way.  So an operator who    *)
(* looks up {base}_correlation.json is misled only after a run that said    *)
(* so or was killed (_write_correlation_sidecar after the output).          *)
SidecarKeepsUp ==
  LET of == disk[Sidecar].run
  IN  /\ of > 0 => ended[of] = "ok"
      /\ \A n \in {Single} \union ChunkNames :
           disk[n].run > of => ended[disk[n].run] # "ok"
=============================================================================
