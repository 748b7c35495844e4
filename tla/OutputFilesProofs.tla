------------------------- MODULE OutputFilesProofs -------------------------
(***************************************************************************)
(* Proofs about OutputFiles, for any number of runs, chunks and pages.     *)
(* The inductive invariant says which names belong to the current run at   *)
(* every step: the targets before `next`, the listed names, and the        *)
(* sidecar only once the run has ended well.                               *)
(***************************************************************************)
EXTENDS OutputFiles, TLAPS

(* The targets of a job are output names, and there is at least one. *)
LEMMA JobTargets ==
  ASSUME NEW j \in Jobs
  PROVE  /\ j.targets \in Seq(Outputs)
         /\ Len(j.targets) \in Nat \ {0}
         /\ \A k \in 1..Len(j.targets) : j.targets[k] \in Outputs
<1>. DEFINE Ok(t) == /\ t \in Seq(Outputs)
                     /\ Len(t) \in Nat \ {0}
                     /\ \A k \in 1..Len(t) : t[k] \in Outputs
<1>1. Ok(<<Single>>) /\ Ok(<<<<"image">>>>)
  <2>1. Single \in Outputs /\ <<"image">> \in Outputs
    BY DEF Outputs, ImageNames
  <2>. QED BY <2>1
<1>2. CASE j = PlainJob
  BY <1>1, <1>2 DEF PlainJob
<1>3. ASSUME NEW n \in 1..MaxCount, j = ChunkJob(n)
      PROVE  Ok(j.targets)
  <2>1. CASE n = 1
    BY <1>1, <1>3, <2>1 DEF ChunkJob
  <2>2. CASE n # 1
    <3>. DEFINE w == PadWidth(n)
                t == [i \in 1..n |-> Chunk(i, w)]
    <3>1. j.targets = t
      BY <1>3, <2>2 DEF ChunkJob
    <3>2. w \in Widths
      BY DEF Widths
    <3>3. n \in Nat \ {0} /\ \A i \in 1..n : i \in 1..MaxCount
      BY OutputAssumption DEF OutputAssumption
    <3>4. \A i \in 1..n : Chunk(i, w) \in Outputs
      <4>1. \A i \in 1..MaxCount : Chunk(i, w) \in ChunkNames
        BY <3>2 DEF ChunkNames
      <4>. QED BY <3>3, <4>1 DEF Outputs
    <3>. HIDE DEF w
    <3>5. t \in Seq(Outputs) /\ Len(t) = n /\ \A k \in 1..n : t[k] \in Outputs
      BY <3>3, <3>4
    <3>. QED BY <3>1, <3>3, <3>5
  <2>. QED BY <2>1, <2>2
<1>4. ASSUME NEW s \in PageLists, j = ImageJob(s)
      PROVE  Ok(j.targets)
  <2>1. PICK n \in 1..MaxCount : s \in [1..n -> 1..MaxCount]
    BY DEF PageLists
  <2>2. n \in Nat \ {0} /\ Len(s) = n /\ \A k \in 1..n : s[k] \in 1..MaxCount
    BY <2>1, OutputAssumption DEF OutputAssumption
  <2>3. CASE n = 1
    BY <1>1, <1>4, <2>2, <2>3 DEF ImageJob
  <2>4. CASE n # 1
    <3>. DEFINE w == PadWidth(s[n])
                t == [k \in 1..n |-> Image(s[k], w)]
    <3>1. j.targets = t
      BY <1>4, <2>2, <2>4 DEF ImageJob
    <3>2. w \in Widths
      BY <2>2 DEF Widths
    <3>3. \A k \in 1..n : Image(s[k], w) \in Outputs
      <4>1. \A i \in 1..MaxCount : Image(i, w) \in ImageNames
        BY <3>2 DEF ImageNames
      <4>. QED BY <2>2, <4>1 DEF Outputs
    <3>. HIDE DEF w
    <3>5. t \in Seq(Outputs) /\ Len(t) = n /\ \A k \in 1..n : t[k] \in Outputs
      BY <2>2, <3>3
    <3>. QED BY <3>1, <2>2, <3>5
  <2>. QED BY <2>3, <2>4
<1>. QED BY <1>2, <1>3, <1>4 DEF Jobs

(* The sidecar is not an output, so no target is mistaken for it. *)
LEMMA SidecarApart == Sidecar \notin Outputs
BY DEF Outputs, ChunkNames, ImageNames, Sidecar, Single, Chunk, Image

(* A target is an output exactly while one is left, and else the sidecar. *)
LEMMA TargetKind ==
  ASSUME TypeOK
  PROVE  /\ Target \in Names
         /\ Count \in Nat \ {0}
         /\ next <= Count => Target \in Outputs /\ Target = job.targets[next]
         /\ next > Count => Target = Sidecar
         /\ (Target = Sidecar) <=> (next > Count)
<1>1. /\ Count \in Nat \ {0}
      /\ \A k \in 1..Count : job.targets[k] \in Outputs
  BY JobTargets DEF TypeOK, Count
<1>2. next \in Nat \ {0}
  BY <1>1 DEF TypeOK
<1>. QED BY <1>1, <1>2, SidecarApart DEF Target, Names

-----------------------------------------------------------------------------
(* A job of one kind that is not several chunks or images has one target.   *)
LEMMA OneTarget ==
  ASSUME NEW j \in Jobs, ~Chunked(j), j.kind # "image"
  PROVE  Len(j.targets) = 1
<1>1. CASE j = PlainJob
  BY <1>1 DEF PlainJob
<1>2. ASSUME NEW n \in 1..MaxCount, j = ChunkJob(n)
      PROVE  Len(j.targets) = 1
  <2>1. n \in Nat \ {0}
    BY OutputAssumption DEF OutputAssumption
  <2>2. CASE n = 1
    BY <1>2, <2>2 DEF ChunkJob
  <2>3. CASE n # 1
    <3>1. j.kind = "capped" /\ j.targets = [i \in 1..n |-> Chunk(i, PadWidth(n))]
      BY <1>2, <2>3 DEF ChunkJob
    <3>2. Len(j.targets) = n
      BY <2>1, <3>1
    <3>. QED BY <2>1, <2>3, <3>1, <3>2 DEF Chunked
  <2>. QED BY <2>2, <2>3
<1>3. ASSUME NEW s \in PageLists, j = ImageJob(s) PROVE FALSE
  BY <1>3 DEF ImageJob
<1>. QED BY <1>1, <1>2, <1>3 DEF Jobs

(* An export of images names no document. *)
LEMMA ImagesApart ==
  ASSUME NEW j \in Jobs, j.kind = "image", NEW k \in 1..Len(j.targets)
  PROVE  j.targets[k] \notin {Single} \union ChunkNames
<1>1. PICK s \in PageLists : j = ImageJob(s)
  BY DEF Jobs, PlainJob, ChunkJob
<1>2. PICK n \in 1..MaxCount : s \in [1..n -> 1..MaxCount]
  BY DEF PageLists
<1>3. n \in Nat \ {0} /\ Len(s) = n
  BY <1>2, OutputAssumption DEF OutputAssumption
<1>4. CASE n = 1
  <2>1. j.targets = <<<<"image">>>>
    BY <1>1, <1>3, <1>4 DEF ImageJob
  <2>2. k = 1 /\ j.targets[k] = <<"image">>
    BY <2>1
  <2>. QED BY <2>2 DEF Single, ChunkNames, Chunk
<1>5. CASE n # 1
  <2>. DEFINE w == PadWidth(s[n])
              t == [i \in 1..n |-> Image(s[i], w)]
  <2>1. j.targets = t
    BY <1>1, <1>3, <1>5 DEF ImageJob
  <2>. HIDE DEF w
  <2>2. j.targets[k] = Image(s[k], w)
    BY <1>3, <2>1
  <2>. QED BY <2>2 DEF Image, Single, ChunkNames, Chunk
<1>. QED BY <1>4, <1>5

-----------------------------------------------------------------------------
(* The empty directory is well typed. *)
LEMMA InitTyped == Init => TypeOK
<1>. SUFFICES ASSUME Init PROVE TypeOK
  OBVIOUS
<1>1. job \in Jobs
  BY DEF Init, Jobs
<1>2. next \in 1..(Count + 1)
  BY <1>1, JobTargets DEF Init, Count
<1>3. Absent \in Contents
  BY OutputAssumption DEF OutputAssumption, Contents, Absent
<1>4. disk \in [Names -> Contents]
  BY <1>3 DEF Init
<1>5. run \in 0..MaxRuns
  BY OutputAssumption DEF Init, OutputAssumption
<1>6. stale \subseteq ChunkNames /\ written \subseteq Outputs
  BY DEF Init
<1>7. ended \in [1..MaxRuns -> Outcomes]
  BY DEF Init, Outcomes
<1>. QED BY <1>1, <1>2, <1>4, <1>5, <1>6, <1>7 DEF Init, TypeOK

(* Every step keeps the types. *)
LEMMA StepTyped == TypeOK /\ [Next]_vars => TypeOK'
<1>. USE OutputAssumption DEF OutputAssumption
<1>. SUFFICES ASSUME TypeOK, [Next]_vars PROVE TypeOK'
  OBVIOUS
<1>0. /\ Target \in Names
      /\ Count \in Nat \ {0}
      /\ next \in 1..(Count + 1)
      /\ Target # Sidecar => Target \in Outputs /\ next <= Count
  BY TargetKind DEF TypeOK
<1>9. ASSUME NEW how \in Outcomes, Ends(how)
      PROVE  pc' = "idle" /\ ended' \in [1..MaxRuns -> Outcomes]
  BY <1>9 DEF Ends, TypeOK
<1>10. {"ok", "warned", "partial", "traceback", "crashed"} \subseteq Outcomes
  BY DEF Outcomes
<1>1. CASE StartRun
  <2>1. job' \in Jobs /\ Count' \in Nat \ {0}
    BY <1>1, JobTargets DEF StartRun, Count
  <2>2. stale' \subseteq ChunkNames
    BY <1>1 DEF StartRun, StaleChunks
  <2>3. next' \in 1..(Count' + 1)
    <3>1. next' = 1
      BY <1>1 DEF StartRun
    <3>2. \A c \in Nat \ {0} : 1 \in 1..(c + 1)
      OBVIOUS
    <3>. QED BY <2>1, <3>1, <3>2
  <2>4. run' \in 0..MaxRuns
    BY <1>1 DEF StartRun, TypeOK
  <2>5. disk' \in [Names -> Contents] /\ written' \subseteq Outputs
    BY <1>1 DEF StartRun, TypeOK
  <2>. QED BY <1>1, <2>1, <2>2, <2>3, <2>4, <2>5 DEF StartRun, TypeOK
<1>2. CASE OpenPartial
  BY <1>2 DEF OpenPartial, UntouchedByOpen, TypeOK, Count
<1>3. CASE WritePartial
  BY <1>3 DEF WritePartial, TypeOK, Count
<1>4. CASE Replace
  <2>1. disk' \in [Names -> Contents]
    BY <1>0, <1>4 DEF Replace, TypeOK, Contents
  <2>4. ended' \in [1..MaxRuns -> Outcomes] /\ pc' \in {"idle", "open"}
    BY <1>4, <1>9, <1>10 DEF Replace, TypeOK
  <2>2. written' \subseteq Outputs
    BY <1>0, <1>4 DEF Replace, TypeOK
  <2>3. job' = job /\ Count' = Count /\ next' \in 1..(Count + 1)
    BY <1>0, <1>4 DEF Replace, MoreTargets, Count
  <2>. QED BY <1>4, <2>1, <2>2, <2>3, <2>4 DEF Replace, TypeOK
<1>5. CASE WriteFails \/ RenderFails \/ ReadBackFails \/ Crash
  <2>1. ended' \in [1..MaxRuns -> Outcomes] /\ pc' = "idle"
    BY <1>5, <1>9, <1>10 DEF WriteFails, RenderFails, ReadBackFails, Crash
  <2>2. UNCHANGED <<disk, partial, run, job, next, stale, written>>
    BY <1>5 DEF WriteFails, RenderFails, ReadBackFails, Crash, WrittenSoFar
  <2>. QED BY <2>1, <2>2 DEF TypeOK, Count
<1>8. CASE UNCHANGED vars
  BY <1>8 DEF vars, TypeOK, Count
<1>. QED BY <1>1, <1>2, <1>3, <1>4, <1>5, <1>8 DEF Next

(* Type invariant, for every directory history (TypeOK of the runs). *)
THEOREM TypeCorrect == Spec => []TypeOK
BY InitTyped, StepTyped, PTL DEF Spec

-----------------------------------------------------------------------------
(* No file is newer than the current run, and no later run has ended. *)
NothingNewer ==
  /\ \A n \in Names : disk[n].run <= run
  /\ \A r \in 1..MaxRuns : r > run => ended[r] = "none"

(* The targets the run is past are in place. *)
PastTargetsMine == \A k \in 1..Count : k < next => Mine(job.targets[k])

(* The list of written names is what the run put in place, and nothing was  *)
(* put in place before the first run.                                       *)
ListExact == run > 0 => written = {n \in Outputs : Mine(n)}

(* What the run put in place are its targets, and while it is under way     *)
(* those it is past.                                                        *)
OnlyTargets ==
  run > 0 =>
    \A n \in Outputs : Mine(n) =>
      \E k \in 1..Count : n = job.targets[k] /\ (pc # "idle" => k < next)

(* While the run is under way nobody has seen an end of it, and only a job  *)
(* with a sidecar goes past its targets.                                    *)
UnderWay ==
  pc # "idle" => run > 0 /\ Outcome = "none" /\ (next > Count => HasSidecar)

(* A run that ended otherwise than well has not reached its sidecar. *)
SidecarLast == run > 0 /\ Mine(Sidecar) => Outcome = "ok"

(* A good end needs everything in place. *)
GoodEnd ==
  EndedWell => /\ \A k \in 1..Count : Mine(job.targets[k])
               /\ HasSidecar /\ Outcome = "ok" => Mine(Sidecar)

(* Where a traceback may come from. *)
TracebackEnd ==
  Outcome = "traceback" =>
    \/ \A n \in Outputs : ~Mine(n)
    \/ job.kind = "image" /\ Count > 1
    \/ Chunked(job) /\ \A k \in 1..Count : Mine(job.targets[k])

DirInv ==
  /\ TypeOK
  /\ NothingNewer
  /\ PastTargetsMine
  /\ ListExact
  /\ OnlyTargets
  /\ UnderWay
  /\ SidecarLast
  /\ GoodEnd
  /\ TracebackEnd
  /\ SidecarKeepsUp

(* The empty directory satisfies it. *)
LEMMA InitDir == Init => DirInv
<1>. SUFFICES ASSUME Init, TypeOK PROVE DirInv
  BY InitTyped
<1>1. Count \in Nat \ {0}
  BY TargetKind
<1>2. Sidecar \in Names /\ {Single} \union ChunkNames \subseteq Names
  BY DEF Names, Outputs
<1>3. /\ \A n \in Names : disk[n].run = 0
      /\ run = 0 /\ Outcome = "none" /\ pc = "idle" /\ next = 1
      /\ \A r \in 1..MaxRuns : ended[r] = "none"
  BY DEF Init, Absent, Outcome
<1>4. NothingNewer /\ PastTargetsMine /\ ListExact /\ OnlyTargets
  BY <1>1, <1>3 DEF NothingNewer, PastTargetsMine, ListExact, OnlyTargets
<1>5. UnderWay /\ SidecarLast /\ GoodEnd /\ TracebackEnd
  BY <1>3 DEF UnderWay, SidecarLast, GoodEnd, TracebackEnd, EndedWell
<1>6. SidecarKeepsUp
  BY <1>2, <1>3 DEF SidecarKeepsUp
<1>. QED BY <1>4, <1>5, <1>6 DEF DirInv

(* Steps that neither swing a name nor start or end a run keep it. *)
LEMMA QuietStep ==
  ASSUME DirInv, TypeOK', UNCHANGED <<disk, run, job, next, written, ended>>,
         pc' = "idle" <=> pc = "idle"
  PROVE  DirInv'
BY DEF DirInv, NothingNewer, PastTargetsMine, ListExact, OnlyTargets, UnderWay, SidecarLast,
       GoodEnd, TracebackEnd, SidecarKeepsUp, EndedWell, Outcome, Mine, Count, HasSidecar

(* A new run owns nothing yet: every file is older. *)
LEMMA StartKeepsDir == ASSUME DirInv, TypeOK', StartRun PROVE DirInv'
<1>. USE OutputAssumption DEF OutputAssumption
<1>1. /\ disk' = disk /\ run' = run + 1 /\ next' = 1 /\ pc' = "open"
      /\ written' = {} /\ ended' = ended /\ run \in Nat /\ run + 1 \in 1..MaxRuns
      /\ disk \in [Names -> Contents]
  BY DEF StartRun, DirInv, TypeOK
<1>2. \A n \in Names : disk[n].run \in Nat /\ disk[n].run <= run /\ ~Mine(n)'
  BY <1>1 DEF DirInv, NothingNewer, Mine, Contents
<1>3. Sidecar \in Names /\ Outputs \subseteq Names
  BY DEF Names
<1>4. Outcome' = "none" /\ ~EndedWell'
  BY <1>1 DEF DirInv, NothingNewer, Outcome, EndedWell
<1>5. Count' \in Nat \ {0}
  BY JobTargets DEF TypeOK, Count
<1>6. NothingNewer'
  BY <1>1, <1>2 DEF DirInv, NothingNewer
<1>7. PastTargetsMine' /\ ListExact' /\ OnlyTargets'
  BY <1>1, <1>2, <1>3, <1>5 DEF PastTargetsMine, ListExact, OnlyTargets
<1>8. UnderWay' /\ SidecarLast' /\ GoodEnd' /\ TracebackEnd'
  BY <1>1, <1>2, <1>3, <1>4, <1>5 DEF UnderWay, SidecarLast, GoodEnd, TracebackEnd
<1>9. SidecarKeepsUp'
  BY <1>1 DEF DirInv, SidecarKeepsUp
<1>. QED BY <1>6, <1>7, <1>8, <1>9 DEF DirInv

(* The facts about a run under way that its steps need. *)
LEMMA RunUnderWay ==
  ASSUME DirInv, pc # "idle"
  PROVE  /\ Target \in Names
         /\ Count \in Nat \ {0}
         /\ next \in 1..(Count + 1)
         /\ next <= Count => Target \in Outputs /\ Target = job.targets[next]
         /\ (Target = Sidecar) <=> (next > Count)
         /\ next > Count => HasSidecar
         /\ Sidecar \notin Outputs
         /\ Sidecar \in Names /\ Outputs \subseteq Names
         /\ {Single} \union ChunkNames \subseteq Outputs
         /\ \A k \in 1..Count : job.targets[k] \in Outputs
         /\ run \in 1..MaxRuns /\ run > 0 /\ ended[run] = "none" /\ Outcome = "none"
         /\ \A n \in Names : disk[n].run \in Nat /\ disk[n].run <= run
         /\ ~Mine(Sidecar)
<1>. USE OutputAssumption DEF OutputAssumption
<1>1. TypeOK /\ UnderWay /\ SidecarLast /\ NothingNewer
  BY DEF DirInv
<1>2. /\ Target \in Names
      /\ Count \in Nat \ {0}
      /\ next <= Count => Target \in Outputs /\ Target = job.targets[next]
      /\ (Target = Sidecar) <=> (next > Count)
  BY <1>1, TargetKind
<1>3. run \in 1..MaxRuns /\ run > 0 /\ Outcome = "none" /\ ended[run] = "none"
  BY <1>1 DEF UnderWay, Outcome, TypeOK
<1>4. ~Mine(Sidecar)
  BY <1>1, <1>3 DEF SidecarLast
<1>5. \A n \in Names : disk[n].run \in Nat /\ disk[n].run <= run
  BY <1>1 DEF NothingNewer, TypeOK, Contents
<1>6. \A k \in 1..Count : job.targets[k] \in Outputs
  BY <1>1, JobTargets DEF TypeOK, Count
<1>7. next \in 1..(Count + 1) /\ (next > Count => HasSidecar)
  BY <1>1 DEF TypeOK, UnderWay
<1>. QED BY <1>2, <1>3, <1>4, <1>5, <1>6, <1>7, SidecarApart DEF Names, Outputs

(* Swinging a name moves exactly that name to the current run. *)
LEMMA ReplaceKeepsDir == ASSUME DirInv, TypeOK', Replace PROVE DirInv'
<1>. USE OutputAssumption DEF OutputAssumption
<1>0. pc # "idle"
  BY DEF Replace
<1>1. /\ Target \in Names
      /\ Count \in Nat \ {0}
      /\ next \in 1..(Count + 1)
      /\ next <= Count => Target \in Outputs /\ Target = job.targets[next]
      /\ (Target = Sidecar) <=> (next > Count)
      /\ next > Count => HasSidecar
      /\ Sidecar \notin Outputs
      /\ Sidecar \in Names /\ Outputs \subseteq Names
      /\ {Single} \union ChunkNames \subseteq Outputs
      /\ \A k \in 1..Count : job.targets[k] \in Outputs
      /\ run \in 1..MaxRuns /\ run > 0 /\ ended[run] = "none" /\ Outcome = "none"
      /\ \A n \in Names : disk[n].run \in Nat /\ disk[n].run <= run
      /\ ~Mine(Sidecar)
  BY <1>0, RunUnderWay
<1>2. run' = run /\ job' = job /\ Count' = Count /\ HasSidecar' = HasSidecar
  BY DEF Replace, Count, HasSidecar
<1>3. /\ disk'[Target].run = run
      /\ \A n \in Names : n # Target => disk'[n] = disk[n]
      /\ \A n \in Names : Mine(n)' <=> Mine(n) \/ n = Target
  BY <1>1, <1>2 DEF Replace, DirInv, TypeOK, Mine
<1>4. /\ \A r \in 1..MaxRuns : r # run => ended'[r] = ended[r]
      /\ Outcome' \in {"none", "ok"} /\ Outcome' = ended'[run]
      /\ Outcome' = "ok" => pc' = "idle" /\ next >= Count /\ (HasSidecar => Target = Sidecar)
      /\ Outcome' = "none" => pc' = "open" /\ next <= Count /\ next' > next
                              /\ (next' > Count => HasSidecar)
      /\ Target = Sidecar => Outcome' = "ok"
  BY <1>1, <1>2 DEF Replace, Ends, Outcome, DirInv, TypeOK, MoreTargets
<1>5. \A k \in 1..Count : k <= next => Mine(job.targets[k])'
  BY <1>1, <1>2, <1>3 DEF DirInv, PastTargetsMine
<1>6. NothingNewer'
  BY <1>1, <1>2, <1>3, <1>4 DEF DirInv, NothingNewer
<1>7. PastTargetsMine'
  <2>1. \A k \in 1..Count : k < next' => k <= next
    BY <1>1 DEF Replace, MoreTargets
  <2>. QED BY <1>2, <1>5, <2>1 DEF PastTargetsMine
<1>8. ListExact'
  BY <1>1, <1>2, <1>3 DEF Replace, DirInv, ListExact
<1>9. OnlyTargets'
  <2>. SUFFICES ASSUME NEW n \in Outputs, Mine(n)'
                PROVE  \E k \in 1..Count : n = job.targets[k] /\ (pc' # "idle" => k < next')
    BY <1>2 DEF OnlyTargets
  <2>1. CASE n = Target
    <3>1. next \in 1..Count /\ n = job.targets[next]
      BY <1>1, <2>1
    <3>. QED BY <1>4, <3>1
  <2>2. CASE n # Target
    <3>1. PICK k \in 1..Count : n = job.targets[k] /\ k < next
      BY <1>0, <1>1, <1>3, <2>2 DEF DirInv, OnlyTargets
    <3>2. pc' # "idle" => next < next' /\ next' \in Nat
      BY <1>1, <1>2, <1>4 DEF TypeOK
    <3>. QED BY <1>1, <3>1, <3>2
  <2>. QED BY <2>1, <2>2
<1>10. UnderWay' /\ TracebackEnd'
  BY <1>1, <1>2, <1>4 DEF UnderWay, TracebackEnd
<1>11. SidecarLast'
  BY <1>1, <1>3, <1>4 DEF SidecarLast
<1>12. GoodEnd'
  <2>1. Outcome' = "ok" => \A k \in 1..Count : k <= next
    BY <1>1, <1>4
  <2>2. Outcome' = "ok" /\ HasSidecar => Mine(Sidecar)'
    BY <1>1, <1>3, <1>4
  <2>. QED BY <1>2, <1>4, <1>5, <2>1, <2>2 DEF GoodEnd, EndedWell
<1>13. SidecarKeepsUp'
  <2>1. CASE Target = Sidecar
    <3>1. disk'[Sidecar].run = run /\ ended'[run] = "ok"
      BY <1>3, <1>4, <2>1
    <3>2. \A n \in {Single} \union ChunkNames : ~(disk'[n].run > run)
      BY <1>1, <1>3, <2>1
    <3>. QED BY <3>1, <3>2 DEF SidecarKeepsUp
  <2>2. CASE Target # Sidecar
    <3>1. /\ disk'[Sidecar] = disk[Sidecar] /\ disk[Sidecar].run < run
          /\ disk[Sidecar].run > 0 => ended'[disk[Sidecar].run] = "ok"
      BY <1>1, <1>3, <1>4, <2>2 DEF DirInv, SidecarKeepsUp, Mine
    <3>2. ASSUME NEW n \in {Single} \union ChunkNames, disk'[n].run > disk[Sidecar].run
          PROVE  ended'[disk'[n].run] # "ok"
      <4>1. CASE disk'[n].run = run
        <5>1. Mine(n)'
          BY <1>2, <4>1 DEF Mine
        <5>2. \E k \in 1..Len(job.targets) : n = job.targets[k]
          BY <1>1, <1>2, <1>9, <5>1 DEF OnlyTargets, Count
        <5>3. job \in Jobs /\ job.kind # "image"
          BY <5>2, ImagesApart DEF DirInv, TypeOK
        <5>. QED BY <1>4, <2>2, <4>1, <5>3 DEF HasSidecar
      <4>2. CASE disk'[n].run # run
        BY <1>1, <1>3, <1>4, <3>2, <4>2 DEF DirInv, SidecarKeepsUp
      <4>. QED BY <4>1, <4>2
    <3>. QED BY <3>1, <3>2 DEF SidecarKeepsUp
  <2>. QED BY <2>1, <2>2
<1>. QED BY <1>6, <1>7, <1>8, <1>9, <1>10, <1>11, <1>12, <1>13 DEF DirInv

(* A failing step ends the run well only at its sidecar, when all targets   *)
(* are in place; and in a traceback only where nothing is in place, among   *)
(* several images, or after all chunks.                                     *)
LEMMA FailureKeepsDir ==
  ASSUME DirInv, TypeOK', WriteFails \/ RenderFails \/ ReadBackFails \/ Crash
  PROVE  DirInv'
<1>. USE OutputAssumption DEF OutputAssumption
<1>0. pc # "idle"
  BY DEF WriteFails, RenderFails, ReadBackFails, Crash
<1>1. /\ Count \in Nat \ {0}
      /\ next \in 1..(Count + 1)
      /\ (Target = Sidecar) <=> (next > Count)
      /\ next > Count => HasSidecar
      /\ Sidecar \in Names /\ Outputs \subseteq Names
      /\ {Single} \union ChunkNames \subseteq Outputs
      /\ run \in 1..MaxRuns /\ run > 0
      /\ \A n \in Names : disk[n].run \in Nat /\ disk[n].run <= run
      /\ ~Mine(Sidecar)
  BY <1>0, RunUnderWay
<1>2. /\ UNCHANGED <<disk, run, job, next, written>> /\ pc' = "idle"
      /\ \A r \in 1..MaxRuns : r # run => ended'[r] = ended[r]
      /\ Outcome' = ended'[run]
      /\ ended'[run] \in {"warned", "partial", "traceback", "crashed"}
      /\ ended'[run] = "warned" => Target = Sidecar
  BY <1>1 DEF WriteFails, RenderFails, ReadBackFails, Crash, Ends, WrittenSoFar, Outcome,
              DirInv, TypeOK
<1>3. Count' = Count /\ HasSidecar' = HasSidecar /\ \A n \in Names : Mine(n)' <=> Mine(n)
  BY <1>2 DEF Count, HasSidecar, Mine
<1>4. NothingNewer' /\ PastTargetsMine' /\ ListExact' /\ OnlyTargets'
  BY <1>1, <1>2 DEF DirInv, NothingNewer, PastTargetsMine, ListExact, OnlyTargets, Count, Mine
<1>5. UnderWay' /\ SidecarLast'
  BY <1>1, <1>2, <1>3 DEF UnderWay, SidecarLast
<1>6. GoodEnd'
  <2>1. ended'[run] = "warned" => \A k \in 1..Count : k < next
    BY <1>1, <1>2
  <2>. QED BY <1>2, <1>3, <1>4, <2>1 DEF PastTargetsMine, GoodEnd, EndedWell
<1>7. TracebackEnd'
  <2>. SUFFICES ASSUME ended'[run] = "traceback"
                PROVE  \/ \A n \in Outputs : ~Mine(n)
                       \/ job.kind = "image" /\ Count > 1
                       \/ Chunked(job) /\ \A k \in 1..Count : Mine(job.targets[k])
    BY <1>2 DEF TracebackEnd, Chunked, Mine, Count
  <2>1. CASE ReadBackFails
    <3>1. \A k \in 1..Count : k < next
      BY <1>1, <2>1 DEF ReadBackFails
    <3>. QED BY <2>1, <3>1 DEF ReadBackFails, DirInv, PastTargetsMine
  <2>2. CASE WriteFails \/ RenderFails
    <3>1. next <= Count /\ (~Chunked(job) \/ job.kind = "image")
      BY <1>1, <2>2 DEF WriteFails, RenderFails, Ends, DirInv, TypeOK, HasSidecar
    <3>2. CASE Count > 1
      <4>1. job.kind = "image"
        <5>1. SUFFICES ASSUME job.kind # "image" PROVE FALSE
          OBVIOUS
        <5>2. job \in Jobs
          BY DEF DirInv, TypeOK
        <5>3. ~Chunked(job)
          BY <3>1, <5>1
        <5>4. Len(job.targets) = 1
          BY <5>1, <5>2, <5>3, OneTarget
        <5>. QED BY <3>2, <5>4 DEF Count
      <4>. QED BY <3>2, <4>1
    <3>3. CASE Count = 1
      BY <1>0, <1>1, <3>1, <3>3 DEF DirInv, OnlyTargets
    <3>. QED BY <1>1, <3>2, <3>3
  <2>3. CASE Crash
    BY <1>1, <2>3 DEF Crash, Ends, DirInv, TypeOK
  <2>. QED BY <2>1, <2>2, <2>3
<1>8. SidecarKeepsUp'
  <2>1. disk[Sidecar].run < run /\ (disk[Sidecar].run > 0 => ended'[disk[Sidecar].run] = "ok")
    BY <1>1, <1>2 DEF DirInv, SidecarKeepsUp, Mine
  <2>2. ASSUME NEW n \in {Single} \union ChunkNames, disk[n].run > disk[Sidecar].run
        PROVE  ended'[disk[n].run] # "ok"
    <3>1. disk[n].run \in 1..MaxRuns
      BY <1>1, <2>2
    <3>. QED BY <1>2, <2>2, <3>1 DEF DirInv, SidecarKeepsUp
  <2>. QED BY <1>2, <2>1, <2>2 DEF SidecarKeepsUp
<1>. QED BY <1>4, <1>5, <1>6, <1>7, <1>8 DEF DirInv

(* The invariant of the directory, over every history of runs, failures and *)
(* kills (StartRun to Crash).                                               *)
THEOREM DirInvHolds == Spec => []DirInv
<1>1. DirInv /\ [Next]_vars => DirInv'
  <2>. SUFFICES ASSUME DirInv, [Next]_vars PROVE DirInv'
    OBVIOUS
  <2>0. TypeOK'
    BY StepTyped DEF DirInv
  <2>1. CASE StartRun
    BY <2>0, <2>1, StartKeepsDir
  <2>2. CASE OpenPartial \/ WritePartial \/ UNCHANGED vars
    BY <2>0, <2>2, QuietStep DEF OpenPartial, WritePartial, UntouchedByOpen, vars
  <2>3. CASE Replace
    BY <2>0, <2>3, ReplaceKeepsDir
  <2>4. CASE WriteFails \/ RenderFails \/ ReadBackFails \/ Crash
    BY <2>0, <2>4, FailureKeepsDir
  <2>. QED BY <2>1, <2>2, <2>3, <2>4 DEF Next
<1>. QED BY InitDir, <1>1, PTL DEF Spec

-----------------------------------------------------------------------------
(* A run that ends well leaves everything it promised (main's write stage). *)
THEOREM CompleteEnds == Spec => []CompleteOnSuccess
<1>1. DirInv => CompleteOnSuccess
  BY DEF DirInv, GoodEnd, CompleteOnSuccess
<1>. QED BY <1>1, DirInvHolds, PTL

(* W-CHUNK-WRITE-PARTIAL-FAILURE and W-IMAGE-EXPORT-PARTIAL-FAILURE list    *)
(* exactly the files the failed run left behind; a traceback leaves none    *)
(* behind but among several images or after a whole set of chunks.          *)
THEOREM ListIsExact == Spec => []FailureListed
<1>1. DirInv => FailureListed
  <2>. SUFFICES ASSUME DirInv, Outcome \in {"partial", "traceback"}
       PROVE  FailureListed
    BY DEF FailureListed
  <2>1. run > 0 /\ run \in Nat
    BY OutputAssumption DEF DirInv, Outcome, TypeOK, OutputAssumption
  <2>2. \A n \in Names : Mine(n) => Exists(n)
    BY <2>1 DEF Mine, Exists, Absent
  <2>3. Names = Outputs \union {Sidecar} /\ ~Mine(Sidecar)
    BY <2>1 DEF Names, DirInv, SidecarLast
  <2>4. Outcome = "partial" => written = {n \in Names : Exists(n) /\ Mine(n)}
    BY <2>1, <2>2, <2>3 DEF DirInv, ListExact
  <2>. QED BY <2>3, <2>4 DEF DirInv, TracebackEnd, FailureListed
<1>. QED BY <1>1, DirInvHolds, PTL

(* A sidecar beside a newer document is left only by a run that was killed, *)
(* failed or warned, over any number of runs.                               *)
THEOREM SidecarsKeepUp == Spec => []SidecarKeepsUp
<1>1. DirInv => SidecarKeepsUp
  BY DEF DirInv
<1>. QED BY <1>1, DirInvHolds, PTL

-----------------------------------------------------------------------------
(* Stale chunks.  Several chunks are numbered from one and padded alike.    *)
LEMMA ChunkTargets ==
  ASSUME NEW j \in Jobs, Chunked(j)
  PROVE  \A i \in 1..Len(j.targets) : j.targets[i] = Chunk(i, PadWidth(Len(j.targets)))
<1>1. j.kind = "capped" /\ Len(j.targets) > 1
  BY DEF Chunked
<1>2. PICK n \in 1..MaxCount : j = ChunkJob(n)
  BY <1>1 DEF Jobs, PlainJob, ImageJob
<1>3. n # 1
  BY <1>1, <1>2 DEF ChunkJob
<1>. DEFINE w == PadWidth(n)
            t == [i \in 1..n |-> Chunk(i, w)]
<1>4. j.targets = t
  BY <1>2, <1>3 DEF ChunkJob
<1>5. n \in Nat
  BY OutputAssumption DEF OutputAssumption
<1>. HIDE DEF w
<1>6. Len(t) = n /\ \A i \in 1..n : t[i] = Chunk(i, w)
  BY <1>5
<1>. QED BY <1>4, <1>6 DEF w

(* What this run did not write beyond its own count, it has warned about:   *)
(* the glob sees the directory before the first chunk, and later steps only *)
(* add names of this run.                                                   *)
StaleKnown ==
  run > 0 /\ Chunked(job) =>
    \A c \in ChunkNames : Exists(c) /\ ~Mine(c) /\ c[2] > Count => c \in stale

(* The warning stays complete while the chunks are written                  *)
(* (the glob in main's write stage, and the loop after it).                *)
THEOREM StaleKnownHolds == Spec => []StaleKnown
<1>1. Init => StaleKnown
  BY DEF Init, StaleKnown
<1>2. DirInv /\ StaleKnown /\ [Next]_vars => StaleKnown'
  <2>. SUFFICES ASSUME DirInv, StaleKnown, [Next]_vars PROVE StaleKnown'
    OBVIOUS
  <2>1. CASE StartRun
    BY <2>1 DEF StartRun, StaleKnown, StaleChunks, IsStale, Exists, Count
  <2>2. CASE Replace
    <3>1. UNCHANGED <<run, job, stale>>
      BY <2>2 DEF Replace
    <3>2. /\ Target \in Names /\ disk \in [Names -> Contents]
          /\ disk' = [disk EXCEPT ![Target] = [run |-> run, content |-> partial]]
      BY <2>2, TargetKind DEF Replace, DirInv, TypeOK
    <3>3. ChunkNames \subseteq Names
      BY DEF Names, Outputs
    <3>4. ASSUME NEW c \in ChunkNames, Exists(c)', ~Mine(c)'
          PROVE  Exists(c) /\ ~Mine(c)
      BY <3>1, <3>2, <3>3, <3>4 DEF Exists, Mine
    <3>. QED BY <3>1, <3>4 DEF StaleKnown, Count
  <2>3. CASE OpenPartial \/ WritePartial \/ UNCHANGED vars
    BY <2>3 DEF OpenPartial, UntouchedByOpen, WritePartial, vars, StaleKnown, Exists, Mine, Count
  <2>4. CASE WriteFails \/ RenderFails \/ ReadBackFails \/ Crash
    BY <2>4 DEF WriteFails, RenderFails, ReadBackFails, Crash, StaleKnown, Exists, Mine, Count
  <2>. QED BY <2>1, <2>2, <2>3, <2>4 DEF Next
<1>. QED BY <1>1, <1>2, DirInvHolds, PTL DEF Spec

(* After a run of several chunks, a chunk of an earlier run is named by     *)
(* W-STALE-CHUNK-FILES, unless it has a number of this run's and only its   *)
(* padding differs.                                                         *)
THEOREM StaleChunksNamed == Spec => []ForeignChunksExplained
<1>1. DirInv /\ StaleKnown => ForeignChunksExplained
  <2>. SUFFICES ASSUME DirInv, StaleKnown, EndedWell, Chunked(job),
                       NEW i \in 1..MaxCount, NEW w \in Widths,
                       Exists(Chunk(i, w)), ~Mine(Chunk(i, w)),
                       ~(i <= Count /\ w # PadWidth(Count))
       PROVE  Chunk(i, w) \in stale
    BY DEF ForeignChunksExplained
  <2>1. run > 0 /\ Count \in Nat /\ i \in Nat \ {0}
    BY TargetKind, OutputAssumption DEF DirInv, EndedWell, Outcome, TypeOK, OutputAssumption
  <2>2. ~(i <= Count)
    <3>1. \A k \in 1..Count : job.targets[k] = Chunk(k, PadWidth(Count)) /\ Mine(job.targets[k])
      BY ChunkTargets DEF DirInv, TypeOK, GoodEnd, Count
    <3>. QED BY <2>1, <3>1
  <2>3. Chunk(i, w) \in ChunkNames /\ Chunk(i, w)[2] = i
    BY DEF ChunkNames, Chunk
  <2>. QED BY <2>1, <2>2, <2>3 DEF StaleKnown
<1>. QED BY <1>1, DirInvHolds, StaleKnownHolds, PTL

-----------------------------------------------------------------------------
(* What is renamed has been through os.write(). *)
SwapsFinished == FinalNamesFinished /\ (pc = "swap" => partial \in {"short", "whole"})

(* Whatever fails or is killed, no final name holds a file that was opened  *)
(* and not written: the promise of _atomic_write_bytes, up to what          *)
(* os.write() stored.                                                       *)
THEOREM OnlyFinishedFiles == Spec => []FinalNamesFinished
<1>1. Init => SwapsFinished
  BY DEF Init, SwapsFinished, FinalNamesFinished, Exists
<1>2. TypeOK /\ SwapsFinished /\ [Next]_vars => SwapsFinished'
  <2>. SUFFICES ASSUME TypeOK, SwapsFinished, [Next]_vars PROVE SwapsFinished'
    OBVIOUS
  <2>1. CASE Replace
    BY <2>1 DEF Replace, Ends, SwapsFinished, FinalNamesFinished, Exists, TypeOK
  <2>2. CASE StartRun \/ OpenPartial \/ WritePartial
    BY <2>2 DEF StartRun, OpenPartial, WritePartial, UntouchedByOpen, SwapsFinished,
                FinalNamesFinished, Exists
  <2>3. CASE WriteFails \/ RenderFails \/ ReadBackFails \/ Crash
    BY <2>3 DEF WriteFails, RenderFails, ReadBackFails, Crash, Ends, SwapsFinished,
                FinalNamesFinished, Exists
  <2>4. CASE UNCHANGED vars
    BY <2>4 DEF vars, SwapsFinished, FinalNamesFinished, Exists
  <2>. QED BY <2>1, <2>2, <2>3, <2>4 DEF Next
<1>3. SwapsFinished => FinalNamesFinished
  BY DEF SwapsFinished
<1>. QED BY <1>1, <1>2, <1>3, TypeCorrect, PTL DEF Spec
=============================================================================
