------------------------- MODULE CommandLineProofs -------------------------
(***************************************************************************)
(* Proofs about CommandLine, for documents of any size, any cap and any    *)
(* selection of pages.  A run packs as Packing says, so what is proved     *)
(* there holds of every run; no file is written before the document was    *)
(* let through; and an exit code tells the cause.                          *)
(***************************************************************************)
EXTENDS CommandLine, PackingProofs, SequenceTheorems

(* A run has no exit code until it ends, and no files until it writes. *)
Running ==
  /\ pc # "end" => exit = None
  /\ files # <<>> => pc \in {"split", "finish", "export", "end"}
  /\ pc \in {"triage", "policy", "range", "export"} => format = "image"
  /\ pc \in {"compress", "except", "write", "split", "finish"} => format = "pdf"

(* The environment is probed once, and found ready. *)
Ready ==
  /\ pc \in {"arguments", "environment"} => probed = None
  /\ pc \notin {"arguments", "environment", "end"} => probed # None /\ ~Blocking(probed)
  /\ pc = "except" => cause # "EnvironmentError"

(* What is written is a document, or pages that it has. *)
Selectable == only = None \/ only \in SUBSET (1..(MaxPages + 1))
Splittable ==
  /\ Selectable
  /\ pc \in {"policy", "range", "export", "write", "split"} => doc \in Documents
  /\ pc \in {"export", "write", "split"} /\ result # "input" => ~OutOfRange(doc)
  /\ pc = "export" => result = "images"

(* What was let through stays let through. *)
Harmless ==
  /\ ~doc.locked
  /\ ~large
  /\ doc.sig = "signed" => asked.allow
  /\ doc.sig = "certified" => asked.allowCert
Making ==
  \/ pc \in {"range", "export"}
  \/ pc \in {"write", "split", "finish"} /\ result # "input"
  \/ files # <<>> /\ result # "input"
LetThrough == Making => Harmless

(* What is split is what is to be written, and goes to files. *)
Splitting == pc = "split" => packing # "idle" /\ pages = Len(Wanted) /\ asked.output = "file"

(* Each file holds its chunk, or its page. *)
Written ==
  /\ pc = "split" =>
       /\ packing = "measured" => files = <<>>
       /\ Len(files) <= Len(chunks) \/ files = <<>>
       /\ \A k \in 1..Len(files) : files[k] = ChunkPages(chunks[k])
  /\ pc = "export" =>
       /\ asked.output = "stdout" => Len(Selected) = 1
       /\ Len(files) <= Len(Selected) \/ files = <<>>
       /\ \A k \in 1..Len(files) : files[k] = <<Selected[k]>>

(* The pieces fs of w: each goes on where the one before ended, at e.       *)
Pieces(fs, n, w, e) ==
  /\ e \in [0..n -> 0..Len(w)] /\ e[0] = 0 /\ e[n] = Len(w)
  /\ \A k \in 1..n : e[k - 1] <= e[k] /\ fs[k] = SubSeq(w, e[k - 1] + 1, e[k])

(* The files are pieces of what is to be written: no more, no less. *)
Whole ==
  /\ doc \in Documents
  /\ result # "input" => ~OutOfRange(doc)
  /\ \E e : Pieces(files, Len(files), Wanted, e)
  /\ asked.output = "stdout" => Len(files) = 1
Ending == pc = "finish" \/ (exit = 0 /\ cause # "information") => Whole

CliInv ==
  /\ Running /\ Ready /\ Splittable /\ LetThrough /\ FailureAccountsForFiles /\ CodeTellsCause
  /\ ProgressOK /\ RequestOK /\ FilesOK /\ Splitting /\ Written /\ Ending

-----------------------------------------------------------------------------
(* Ranks, and induction                                                     *)

(* The elements up to i: their number is the rank of i. *)
UpTo(S, i) == {j \in S : j <= i}

(* A larger element has a higher rank. *)
LEMMA RanksAreDistinct ==
  ASSUME NEW S \in SUBSET Nat, IsFiniteSet(S)
  PROVE  /\ Cardinality(S) \in Nat
         /\ \A i \in S : Cardinality(UpTo(S, i)) \in 1..Cardinality(S)
         /\ \A i, j \in S : i < j => Cardinality(UpTo(S, i)) < Cardinality(UpTo(S, j))
<1>1. Cardinality(S) \in Nat
  BY FS_CardinalityType
<1>2. \A i : /\ IsFiniteSet(UpTo(S, i)) /\ Cardinality(UpTo(S, i)) <= Cardinality(S)
             /\ Cardinality(UpTo(S, i)) \in Nat
  BY FS_Subset, FS_CardinalityType DEF UpTo
<1>3. ASSUME NEW i \in S
      PROVE  Cardinality(UpTo(S, i)) # 0
  <2>1. i \in UpTo(S, i)
    BY DEF UpTo
  <2>. QED BY <1>2, <2>1, FS_EmptySet
<1>4. ASSUME NEW i \in S, NEW j \in S, i < j
      PROVE  Cardinality(UpTo(S, i)) < Cardinality(UpTo(S, j))
  <2>0. i \in Nat /\ j \in Nat /\ j <= j /\ ~(j <= i) /\ \A x \in S : x \in Nat
    BY <1>4
  <2>1. UpTo(S, i) \in SUBSET UpTo(S, j) /\ j \in UpTo(S, j) /\ j \notin UpTo(S, i)
    <3>1. \A x \in S : x <= i => x <= j
      BY <1>4, <2>0
    <3>. QED BY <2>0, <3>1 DEF UpTo
  <2>2. Cardinality(UpTo(S, i)) <= Cardinality(UpTo(S, j))
        /\ Cardinality(UpTo(S, i)) # Cardinality(UpTo(S, j))
    BY <1>2, <2>1, FS_Subset
  <2>. QED BY <1>2, <2>2
<1>. QED BY <1>1, <1>2, <1>3, <1>4

(* As many ranks as elements, and no two the same: every rank is taken. *)
LEMMA EveryRankTaken ==
  ASSUME NEW S \in SUBSET Nat, IsFiniteSet(S)
  PROVE  \A k \in 1..Cardinality(S) : \E i \in S : Cardinality(UpTo(S, i)) = k
<1>. DEFINE T == 1..Cardinality(S)
            r == [i \in S |-> Cardinality(UpTo(S, i))]
<1>1. Cardinality(S) \in Nat /\ \A i \in S : Cardinality(UpTo(S, i)) \in T
  BY RanksAreDistinct
<1>2. IsFiniteSet(T) /\ Cardinality(T) = Cardinality(S)
  BY <1>1, FS_Interval
<1>3. r \in [S -> T]
  BY <1>1
<1>4. ASSUME NEW i \in S, NEW j \in S, r[i] = r[j]
      PROVE  i = j
  <2>1. /\ r[i] = Cardinality(UpTo(S, i)) /\ r[i] \in Nat
        /\ r[j] = Cardinality(UpTo(S, j)) /\ r[j] \in Nat
    BY <1>1
  <2>2. ~(i < j) /\ ~(j < i) /\ i \in Nat /\ j \in Nat
    BY <1>4, <2>1, RanksAreDistinct
  <2>. QED BY <2>2
<1>5. r \in Injection(S, T)
  BY <1>3, <1>4 DEF Injection, IsInjective
<1>6. r \in Surjection(S, T)
  BY <1>2, <1>5, FS_Injection
<1>. QED BY <1>6 DEF Surjection

(* sorted() of a set of pages: each page once, in order. *)
LEMMA Enumerated ==
  ASSUME NEW S \in SUBSET Nat, IsFiniteSet(S)
  PROVE  /\ Cardinality(S) \in Nat
         /\ Ascending(S) \in Seq(S) /\ Len(Ascending(S)) = Cardinality(S)
         /\ \A k, l \in 1..Cardinality(S) : k < l => Ascending(S)[k] < Ascending(S)[l]
         /\ {Ascending(S)[k] : k \in 1..Cardinality(S)} = S
<1>. DEFINE a == Ascending(S)
            n == Cardinality(S)
<1>1. n \in Nat
  BY RanksAreDistinct
<1>2. a = [k \in 1..n |-> CHOOSE i \in S : Cardinality(UpTo(S, i)) = k]
  BY DEF Ascending, UpTo
<1>3. \A k \in 1..n : a[k] \in S /\ Cardinality(UpTo(S, a[k])) = k
  <2>. HIDE DEF a, n
  <2>1. \A k \in 1..n : \E i \in S : Cardinality(UpTo(S, i)) = k
    BY EveryRankTaken DEF n
  <2>. QED BY <1>2, <2>1
<1>4. a \in Seq(S) /\ Len(a) = n
  BY <1>1, <1>2, <1>3
<1>5. \A k, l \in 1..n : k < l => a[k] < a[l]
  <2>. HIDE DEF a, n
  <2>. SUFFICES ASSUME NEW k \in 1..n, NEW l \in 1..n, k < l
                PROVE  a[k] < a[l]
    OBVIOUS
  <2>1. a[k] \in Nat /\ a[l] \in Nat /\ a[k] \in S /\ a[l] \in S
    BY <1>3
  <2>2. a[k] # a[l]
    BY <1>1, <1>3
  <2>3. ~(a[l] < a[k])
    <3>. SUFFICES ASSUME a[l] < a[k] PROVE FALSE
      OBVIOUS
    <3>1. Cardinality(UpTo(S, a[l])) < Cardinality(UpTo(S, a[k]))
      BY <2>1, RanksAreDistinct
    <3>. QED BY <1>1, <1>3, <3>1
  <2>. QED BY <2>1, <2>2, <2>3
<1>6. ASSUME NEW i \in S
      PROVE  \E k \in 1..n : a[k] = i
  <2>. DEFINE k == Cardinality(UpTo(S, i))
  <2>1. k \in 1..n
    BY RanksAreDistinct
  <2>2. a[k] \in S /\ Cardinality(UpTo(S, a[k])) = k
    BY <1>3, <2>1
  <2>3. ~(a[k] < i) /\ ~(i < a[k])
    <3>. HIDE DEF a
    <3>1. \A x \in S : x < i => Cardinality(UpTo(S, x)) < k
      BY RanksAreDistinct
    <3>2. \A x \in S : i < x => k < Cardinality(UpTo(S, x))
      BY RanksAreDistinct
    <3>3. k \in Nat /\ ~(k < k)
      BY <1>1, <2>1
    <3>. HIDE DEF k
    <3>. QED BY <2>2, <3>1, <3>2, <3>3
  <2>4. a[k] \in Nat /\ i \in Nat
    BY <2>2
  <2>. HIDE DEF a, k
  <2>. QED BY <2>1, <2>3, <2>4
<1>. QED BY <1>1, <1>3, <1>4, <1>5, <1>6

(* So there is an element of rank 1, which is the least. *)
LEMMA LeastElement ==
  ASSUME NEW S \in SUBSET Nat, IsFiniteSet(S), S # {}
  PROVE  \E m \in S : \A i \in S : m <= i
<1>1. Cardinality(S) \in Nat /\ Cardinality(S) # 0
  BY FS_EmptySet, FS_CardinalityType
<1>2. PICK m \in S : Cardinality(UpTo(S, m)) = 1
  BY <1>1, EveryRankTaken
<1>3. ASSUME NEW i \in S
      PROVE  ~(i < m)
  BY <1>2, <1>1, RanksAreDistinct
<1>. QED BY <1>3

(* What holds of 0, and of k + 1 if of k, has no least exception.          *)
LEMMA IntervalInduction ==
  ASSUME NEW n \in Nat, NEW T, 0 \in T, \A k \in 0..(n - 1) : k \in T => k + 1 \in T
  PROVE  0..n \subseteq T
<1>. SUFFICES ASSUME (0..n) \ T # {} PROVE FALSE
  OBVIOUS
<1>1. (0..n) \ T \in SUBSET Nat /\ IsFiniteSet((0..n) \ T)
  <2>1. IsFiniteSet(0..n) /\ (0..n) \ T \in SUBSET (0..n)
    BY FS_Interval
  <2>. QED BY <2>1, FS_Subset
<1>2. PICK m \in (0..n) \ T : \A i \in (0..n) \ T : m <= i
  BY <1>1, LeastElement
<1>3. m # 0 /\ m \in Nat /\ m <= n
  BY <1>2
<1>4. m - 1 \in 0..(n - 1) /\ m - 1 \in 0..n /\ ~(m <= m - 1) /\ (m - 1) + 1 = m
  BY <1>3
<1>5. m - 1 \in T
  BY <1>2, <1>4
<1>. QED BY <1>2, <1>4, <1>5


-----------------------------------------------------------------------------
(* Files end to end                                                         *)

(* f puts the first n of fs end to end, as AllWritten does. *)
Joins(f, fs, n) == f = [k \in 0..n |-> IF k = 0 THEN <<>> ELSE f[k - 1] \o fs[k]]

(* There is such a function. *)
LEMMA JoinExists ==
  ASSUME NEW fs, NEW n \in Nat
  PROVE  \E f : Joins(f, fs, n)
<1>. DEFINE T == {m \in 0..n : \E f : Joins(f, fs, m)}
<1>1. 0 \in T
  <2>1. Joins([k \in 0..0 |-> <<>>], fs, 0)
    BY DEF Joins
  <2>2. 0 \in 0..n
    OBVIOUS
  <2>. QED BY <2>1, <2>2
<1>2. ASSUME NEW m \in 0..(n - 1), m \in T
      PROVE  m + 1 \in T
  <2>1. PICK f : Joins(f, fs, m)
    BY <1>2
  <2>. DEFINE g == [k \in 0..(m + 1) |-> IF k = m + 1 THEN f[m] \o fs[m + 1] ELSE f[k]]
  <2>2. \A k \in 0..(m + 1) : g[k] = IF k = 0 THEN <<>> ELSE g[k - 1] \o fs[k]
    <3>. SUFFICES ASSUME NEW k \in 0..(m + 1)
                  PROVE  g[k] = IF k = 0 THEN <<>> ELSE g[k - 1] \o fs[k]
      OBVIOUS
    <3>1. CASE k = m + 1
      <4>1. k # 0 /\ k - 1 = m /\ m \in 0..(m + 1) /\ m # m + 1
        BY <3>1
      <4>. QED BY <3>1, <4>1
    <3>2. CASE k # m + 1
      <4>1. k \in 0..m /\ g[k] = f[k] /\ (k # 0 => g[k - 1] = f[k - 1])
        BY <3>2
      <4>2. f[k] = IF k = 0 THEN <<>> ELSE f[k - 1] \o fs[k]
        BY <2>1, <4>1 DEF Joins
      <4>. HIDE DEF g
      <4>. QED BY <4>1, <4>2
    <3>. QED BY <3>1, <3>2
  <2>3. Joins(g, fs, m + 1)
    <3>1. g = [k \in 0..(m + 1) |-> g[k]]
      OBVIOUS
    <3>. HIDE DEF g
    <3>. QED BY <2>2, <3>1 DEF Joins
  <2>4. m + 1 \in 0..n
    OBVIOUS
  <2>. HIDE DEF g
  <2>. QED BY <2>3, <2>4
<1>3. 0..n \subseteq T
  <2>. HIDE DEF T
  <2>. QED BY <1>1, <1>2, IntervalInduction
<1>4. n \in 0..n
  OBVIOUS
<1>. QED BY <1>3, <1>4

(* End to end, the pieces of w are w. *)
LEMMA PiecesJoined ==
  ASSUME NEW S, NEW w \in Seq(S), NEW n \in Nat, NEW fs, NEW f, Joins(f, fs, n),
         NEW e, Pieces(fs, n, w, e)
  PROVE  f[n] = w
<1>. DEFINE T == {m \in 0..n : f[m] = SubSeq(w, 1, e[m])}
<1>0. \A m \in 0..n : f[m] = IF m = 0 THEN <<>> ELSE f[m - 1] \o fs[m]
  BY DEF Joins
<1>1. 0 \in T
  <2>1. SubSeq(w, 1, 0) = <<>>
    BY SubSeqEmpty
  <2>2. 0 \in 0..n /\ e[0] = 0 /\ f[0] = <<>>
    BY <1>0 DEF Pieces
  <2>. QED BY <2>1, <2>2
<1>2. ASSUME NEW m \in 0..(n - 1), m \in T
      PROVE  m + 1 \in T
  <2>1. m \in 0..n /\ m + 1 \in 0..n /\ m + 1 \in 1..n /\ m + 1 # 0 /\ (m + 1) - 1 = m
    OBVIOUS
  <2>2. f[m + 1] = f[m] \o fs[m + 1]
    BY <1>0, <2>1
  <2>3. f[m] = SubSeq(w, 1, e[m])
    BY <1>2
  <2>4. /\ e[m] \in 0..Len(w) /\ e[m + 1] \in 0..Len(w) /\ e[m] <= e[m + 1]
        /\ fs[m + 1] = SubSeq(w, e[m] + 1, e[m + 1])
    BY <2>1 DEF Pieces
  <2>5. SubSeq(w, 1, e[m]) \o SubSeq(w, e[m] + 1, e[m + 1]) = SubSeq(w, 1, e[m + 1])
    <3>1. 1 \in 1..(Len(w) + 1) /\ e[m] \in (1 - 1)..Len(w) /\ e[m + 1] \in e[m]..Len(w)
      BY <2>4
    <3>. QED BY <3>1, ConcatAdjacentSubSeq
  <2>. QED BY <2>1, <2>2, <2>3, <2>4, <2>5
<1>3. 0..n \subseteq T
  <2>. HIDE DEF T
  <2>. QED BY <1>1, <1>2, IntervalInduction
<1>4. n \in 0..n /\ e[n] = Len(w)
  BY DEF Pieces
<1>5. f[n] = SubSeq(w, 1, Len(w))
  BY <1>3, <1>4
<1>. QED BY <1>5, SubSeqFull

(* Files that hold the pieces of w hold w. *)
LEMMA FilesJoined ==
  ASSUME NEW S, NEW w \in Seq(S), NEW n \in Nat, n = Len(files),
         NEW e, Pieces(files, n, w, e)
  PROVE  AllWritten = w
<1>. DEFINE f == CHOOSE f : Joins(f, files, n)
<1>1. Joins(f, files, n)
  BY JoinExists
<1>2. AllWritten = f[n]
  BY DEF AllWritten, Joins
<1>. HIDE DEF f
<1>. QED BY <1>1, <1>2, PiecesJoined

-----------------------------------------------------------------------------
(* What the policy lets through *)

(* What the policy lets through opened, was not too large, and has its      *)
(* consent.                                                                 *)
LEMMA ProceedingIsHarmless ==
  ASSUME NEW d, "proceed" \in PolicyDecisions(d)
  PROVE  /\ ~d.locked /\ ~large
         /\ d.sig = "signed" => asked.allow
         /\ d.sig = "certified" => asked.allowCert
BY DEF PolicyDecisions

(* compress() returns a rewritten document only if the policy let it        *)
(* through.                                                                 *)
LEMMA MergedProceeds ==
  ASSUME NEW d, "merged" \in CompressResults(d)
  PROVE  ~OutOfRange(d) /\ "proceed" \in PolicyDecisions(d)
<1>1. ~OutOfRange(d)
  BY DEF CompressResults, TriageErrors
<1>2. PICK p \in PolicyDecisions(d) :
         "merged" \in CASE p = "preserve" -> {"input"}
                        [] p = "proceed" -> {"input", "merged"} \union PageErrors
                        [] OTHER -> {p}
  BY <1>1 DEF CompressResults, TriageErrors
<1>3. "merged" \notin PolicyDecisions(d)
  BY DEF PolicyDecisions
<1>. QED BY <1>1, <1>2, <1>3

-----------------------------------------------------------------------------
(* A run packs as Packing says *)

(* A sequence that goes through S, from the least to the greatest. *)
InOrder(s, S) ==
  /\ s \in Seq(S) /\ {s[k] : k \in 1..Len(s)} = S
  /\ \A k, l \in 1..Len(s) : k < l => s[k] < s[l]

(* The pages of a document are counted from 0. *)
LEMMA DocumentPages == \A d \in Documents : d.pages \in 0..MaxPages
<1>. SUFFICES ASSUME NEW d \in Documents PROVE d.pages \in 0..MaxPages
  OBVIOUS
<1>1. 0 \in 0..MaxPages
  BY PackingAssumption DEF PackingAssumption
<1>2. d.pages \in 0..MaxPages \/ d.pages \in {0}
  BY DEF Documents
<1>. QED BY <1>1, <1>2

(* What is to be written are the pages asked for, in order. *)
LEMMA WantedAreAsked ==
  ASSUME Selectable, doc \in Documents, result # "input" => ~OutOfRange(doc)
  PROVE  InOrder(Wanted, PagesAsked)
<1>. DEFINE n == doc.pages
<1>0. n \in Nat /\ n <= MaxPages
  BY DocumentPages, PackingAssumption DEF PackingAssumption
<1>1. CASE result = "input"
  <2>1. PagesAsked = 0..(n - 1) /\ Wanted = [k \in 1..n |-> k - 1]
    BY <1>1 DEF PagesAsked, Wanted, AllPages
  <2>. HIDE DEF n
  <2>2. Wanted \in Seq(0..(n - 1)) /\ Len(Wanted) = n /\ \A k \in 1..n : Wanted[k] = k - 1
    BY <1>0, <2>1
  <2>3. \A i \in 0..(n - 1) : i + 1 \in 1..n /\ Wanted[i + 1] = i
    BY <1>0, <2>2
  <2>4. \A k \in 1..n : Wanted[k] \in 0..(n - 1)
    BY <1>0, <2>2
  <2>5. {Wanted[k] : k \in 1..n} = 0..(n - 1)
    <3>1. {Wanted[k] : k \in 1..n} \subseteq 0..(n - 1)
      BY <2>4
    <3>2. 0..(n - 1) \subseteq {Wanted[k] : k \in 1..n}
      BY <2>3
    <3>. QED BY <3>1, <3>2
  <2>6. \A k, l \in 1..n : k < l => Wanted[k] < Wanted[l]
    BY <1>0, <2>2
  <2>. QED BY <2>1, <2>2, <2>5, <2>6 DEF InOrder
<1>2. CASE result # "input"
  <2>1. \A p \in only : only # None => p \in 1..n
    BY <1>0, <1>2, PackingAssumption DEF Selectable, OutOfRange, PackingAssumption
  <2>. DEFINE S == IF only = None THEN 0..(n - 1) ELSE {p - 1 : p \in only}
  <2>2. S = PagesAsked
    BY <1>0, <1>2, <2>1 DEF PagesAsked
  <2>3. Wanted = Ascending(S)
    BY <1>2 DEF Wanted, Selected
  <2>4. PagesAsked \in SUBSET Nat /\ IsFiniteSet(PagesAsked)
    <3>1. IsFiniteSet(0..(n - 1)) /\ PagesAsked \in SUBSET (0..(n - 1))
      BY <1>0, FS_Interval DEF PagesAsked
    <3>2. 0..(n - 1) \subseteq Nat
      BY <1>0
    <3>. QED BY <3>1, <3>2, FS_Subset
  <2>5. Wanted = Ascending(PagesAsked)
    BY <2>2, <2>3
  <2>. QED BY <2>4, <2>5, Enumerated DEF InOrder
<1>. QED BY <1>1, <1>2

(* They are no more than the document may have. *)
LEMMA WantedBounded ==
  ASSUME Selectable, doc \in Documents, result # "input" => ~OutOfRange(doc)
  PROVE  /\ Wanted \in Seq(0..(MaxPages - 1))
         /\ Len(Wanted) \in 0..MaxPages
<1>. DEFINE n == doc.pages
<1>0. n \in Nat /\ n <= MaxPages /\ MaxPages \in Nat
  BY DocumentPages, PackingAssumption DEF PackingAssumption
<1>1. InOrder(Wanted, PagesAsked)
  BY WantedAreAsked
<1>2. PagesAsked \in SUBSET (0..(n - 1)) /\ PagesAsked \in SUBSET (0..(MaxPages - 1))
  BY <1>0 DEF PagesAsked
<1>3. Wanted \in Seq(0..(n - 1)) /\ Wanted \in Seq(0..(MaxPages - 1))
  <2>1. Wanted \in Seq(PagesAsked)
    BY <1>1 DEF InOrder
  <2>. QED BY <1>2, <2>1, SeqMonotonic
<1>4. Len(Wanted) <= MaxPages
  <2>. DEFINE m == Len(Wanted)
              f == [k \in 1..m |-> Wanted[k]]
  <2>1. m \in Nat /\ \A k \in 1..m : Wanted[k] \in 0..(n - 1)
    BY <1>3, LenProperties, ElementOfSeq
  <2>2. f \in [1..m -> 0..(n - 1)]
    BY <2>1
  <2>3. ASSUME NEW k \in 1..m, NEW l \in 1..m, f[k] = f[l]
        PROVE  k = l
    <3>1. Wanted[k] = Wanted[l] /\ Wanted[k] \in Int
      BY <2>1, <2>3
    <3>2. \A i, j \in 1..m : i < j => Wanted[i] < Wanted[j]
      BY <1>1 DEF InOrder
    <3>3. ~(k < l) /\ ~(l < k)
      <4>. HIDE DEF m
      <4>. QED BY <3>1, <3>2
    <3>. QED BY <2>1, <3>3
  <2>4. f \in Injection(1..m, 0..(n - 1))
    BY <2>2, <2>3 DEF Injection, IsInjective
  <2>5. Cardinality(1..m) = m /\ IsFiniteSet(0..(n - 1)) /\ Cardinality(0..(n - 1)) = n
    <3>1. 1 \in Int /\ 0 \in Int /\ m \in Int /\ n - 1 \in Int
      BY <1>0, <2>1
    <3>2. IsFiniteSet(0..(n - 1)) /\ Cardinality(0..(n - 1)) = IF 0 > n - 1 THEN 0 ELSE n - 1 - 0 + 1
      BY <3>1, FS_Interval
    <3>3. Cardinality(1..m) = IF 1 > m THEN 0 ELSE m - 1 + 1
      BY <3>1, FS_Interval
    <3>. HIDE DEF m, n
    <3>. QED BY <1>0, <2>1, <3>2, <3>3
  <2>. QED BY <1>0, <2>1, <2>4, <2>5, FS_Injection
<1>. QED BY <1>0, <1>3, <1>4

(* A run of consecutive pages is a piece of the document. *)
LEMMA RunIsPiece ==
  ASSUME NEW n \in Nat, NEW c \in Seq(0..(n - 1)), c # <<>>, Consecutive(c)
  PROVE  /\ c[1] \in 0..n /\ c[Len(c)] + 1 \in 0..n /\ c[1] <= c[Len(c)] + 1
         /\ c = SubSeq(AllPages(n), c[1] + 1, c[Len(c)] + 1)
<1>. DEFINE a == c[1]
            m == Len(c)
            b == c[m] + 1
            s == SubSeq(AllPages(n), a + 1, b)
<1>1. m \in Nat /\ m >= 1 /\ a \in 0..(n - 1) /\ c[m] \in 0..(n - 1)
  OBVIOUS
<1>2. \A i \in 1..m : c[i] = a + i - 1
  BY DEF Consecutive
<1>3. b = a + m /\ b \in 1..n
  <2>1. c[m] = a + m - 1
    BY <1>1, <1>2
  <2>. QED BY <1>1, <2>1
<1>4. \A i \in 1..n : AllPages(n)[i] = i - 1 /\ AllPages(n)[i] \in 0..(n - 1)
  BY DEF AllPages
<1>. HIDE DEF a, b, m
<1>5. /\ s \in Seq(0..(n - 1)) /\ Len(s) = m
      /\ \A i \in 1..m : s[i] = AllPages(n)[a + i]
  <2>1. /\ a + 1 \in Int /\ b \in Int /\ a + 1 <= b /\ b - (a + 1) + 1 = m
        /\ \A i \in (a + 1)..b : AllPages(n)[i] \in 0..(n - 1)
    BY <1>1, <1>3, <1>4
  <2>2. /\ s \in Seq(0..(n - 1)) /\ Len(s) = IF a + 1 <= b THEN b - (a + 1) + 1 ELSE 0
        /\ \A i \in 1..(b - (a + 1) + 1) : s[i] = AllPages(n)[(a + 1) + i - 1]
    BY <2>1, SubSeqProperties
  <2>3. \A i \in 1..m : (a + 1) + i - 1 = a + i
    BY <1>1
  <2>. HIDE DEF s
  <2>. QED BY <2>1, <2>2, <2>3
<1>6. \A i \in 1..m : s[i] = c[i]
  <2>1. \A i \in 1..m : a + i \in 1..n /\ (a + i) - 1 = a + i - 1
    BY <1>1, <1>3
  <2>. HIDE DEF s
  <2>. QED BY <1>2, <1>4, <1>5, <2>1
<1>7. s = c
  <2>. HIDE DEF s
  <2>. QED BY <1>5, <1>6, SeqEqual DEF m
<1>8. a \in 0..n /\ b \in 0..n /\ a <= b
  BY <1>1, <1>3
<1>. QED BY <1>7, <1>8 DEF a, b, m

(* The chunks of a document, split or not, are its pieces. *)
LEMMA ChunksArePieces ==
  ASSUME IInv, AsIs, packing \in {"as-is", "packed"}
  PROVE  /\ pages \in Nat /\ Len(chunks) \in Nat
         /\ \E e : Pieces(chunks, Len(chunks), AllPages(pages), e)
<1>. DEFINE n == Len(chunks)
            w == AllPages(pages)
<1>1. pages \in Nat /\ n \in Nat
  BY TotalGrows DEF IInv, PackTypeOK
<1>2. w \in Seq(0..(pages - 1)) /\ Len(w) = pages
  BY <1>1 DEF AllPages
<1>3. CASE packing = "as-is"
  <2>. DEFINE e == [k \in 0..1 |-> IF k = 0 THEN 0 ELSE pages]
  <2>1. n = 1 /\ chunks[1] = w
    BY <1>3 DEF AsIs
  <2>2. SubSeq(w, 0 + 1, pages) = w
    BY <1>2, SubSeqFull
  <2>3. \A k \in 1..1 : k = 1 /\ k - 1 = 0
    OBVIOUS
  <2>4. e \in [0..1 -> 0..pages] /\ e[0] = 0 /\ e[1] = pages
    BY <1>1
  <2>. HIDE DEF e, w
  <2>5. Pieces(chunks, n, w, e)
    BY <1>1, <1>2, <2>1, <2>2, <2>3, <2>4 DEF Pieces
  <2>. QED BY <1>1, <2>5 DEF w
<1>4. CASE packing = "packed"
  <2>. DEFINE last(k) == chunks[k][Len(chunks[k])]
              e == [k \in 0..n |-> IF k = 0 THEN 0 ELSE last(k) + 1]
  <2>1. n >= 1 /\ last(n) = pages - 1
    BY <1>1, <1>4 DEF IInv, Ended, PackTypeOK
  <2>2. ASSUME NEW k \in 1..n
        PROVE  /\ last(k) + 1 \in 0..pages /\ chunks[k][1] <= last(k) + 1
               /\ chunks[k] = SubSeq(w, chunks[k][1] + 1, last(k) + 1)
    <3>1. WellMade(chunks[k])
      BY <1>4 DEF IInv, Chain
    <3>. QED BY <1>1, <3>1, RunIsPiece DEF WellMade, Indices
  <2>3. ASSUME NEW k \in 1..n
        PROVE  chunks[k][1] = e[k - 1]
    <3>1. CASE k = 1
      BY <1>4, <2>1, <3>1 DEF IInv, Chain
    <3>2. CASE k # 1
      <4>1. k - 1 \in 1..(n - 1) /\ (k - 1) + 1 = k /\ k - 1 \in 0..n /\ k - 1 # 0
        BY <1>1, <3>2
      <4>2. FollowsOn(chunks[k - 1], chunks[(k - 1) + 1][1])
        BY <1>4, <4>1 DEF IInv, Chain
      <4>. QED BY <4>1, <4>2 DEF FollowsOn
    <3>. QED BY <3>1, <3>2
  <2>4. \A k \in 1..n : k \in 0..n /\ k # 0
    BY <1>1
  <2>5. \A k \in 1..n : e[k] = last(k) + 1
    BY <2>4
  <2>6. e \in [0..n -> 0..pages] /\ e[0] = 0 /\ e[n] = pages
    <3>1. \A k \in 0..n : k # 0 => k \in 1..n
      BY <1>1
    <3>2. \A k \in 0..n : (IF k = 0 THEN 0 ELSE last(k) + 1) \in 0..pages
      BY <1>1, <2>2, <3>1
    <3>3. e[0] = 0 /\ n \in 1..n
      BY <1>1, <2>1
    <3>4. e[n] = pages
      BY <1>1, <2>1, <2>5, <3>3
    <3>. QED BY <3>2, <3>3, <3>4
  <2>. HIDE DEF e, w, last
  <2>7. Pieces(chunks, n, w, e)
    BY <1>2, <2>2, <2>3, <2>5, <2>6 DEF Pieces
  <2>. QED BY <1>1, <2>7 DEF w
<1>. QED BY <1>3, <1>4

(* A piece of what is to be written is what the chunk's file holds. *)
LEMMA PieceOfWanted ==
  ASSUME NEW S, Wanted \in Seq(S), NEW a \in Nat, NEW b \in Nat, a <= b, b <= Len(Wanted)
  PROVE  ChunkPages(SubSeq(AllPages(Len(Wanted)), a + 1, b)) = SubSeq(Wanted, a + 1, b)
<1>. DEFINE n == Len(Wanted)
            c == SubSeq(AllPages(n), a + 1, b)
            s == SubSeq(Wanted, a + 1, b)
            m == b - a
<1>1. n \in Nat /\ m \in Nat /\ b <= n
  OBVIOUS
<1>. HIDE DEF n, m
<1>2. \A i \in (a + 1)..b : AllPages(n)[i] = i - 1 /\ AllPages(n)[i] \in 0..(n - 1)
  BY <1>1 DEF AllPages
<1>3. (IF a + 1 <= b THEN b - (a + 1) + 1 ELSE 0) = m /\ b - (a + 1) + 1 = m
      /\ \A i \in 1..m : (a + 1) + i - 1 = a + i /\ a + i \in (a + 1)..b
  BY <1>1 DEF m
<1>4. /\ c \in Seq(0..(n - 1)) /\ Len(c) = m
      /\ \A i \in 1..m : c[i] = AllPages(n)[a + i]
  <2>1. /\ c \in Seq(0..(n - 1)) /\ Len(c) = IF a + 1 <= b THEN b - (a + 1) + 1 ELSE 0
        /\ \A i \in 1..(b - (a + 1) + 1) : c[i] = AllPages(n)[(a + 1) + i - 1]
    BY <1>2, SubSeqProperties
  <2>. HIDE DEF c
  <2>. QED BY <1>3, <2>1
<1>5. \A i \in (a + 1)..b : Wanted[i] \in S
  <2>1. \A i \in (a + 1)..b : i \in 1..n
    BY <1>1
  <2>. QED BY <2>1, ElementOfSeq DEF n
<1>6. /\ s \in Seq(S) /\ Len(s) = m
      /\ \A i \in 1..m : s[i] = Wanted[a + i]
  <2>1. /\ s \in Seq(S) /\ Len(s) = IF a + 1 <= b THEN b - (a + 1) + 1 ELSE 0
        /\ \A i \in 1..(b - (a + 1) + 1) : s[i] = Wanted[(a + 1) + i - 1]
    BY <1>5, SubSeqProperties
  <2>. HIDE DEF s
  <2>. QED BY <1>3, <2>1
<1>7. \A i \in 1..m : c[i] + 1 = a + i
  <2>1. \A i \in 1..m : c[i] = (a + i) - 1
    BY <1>2, <1>3, <1>4
  <2>. HIDE DEF c
  <2>. QED BY <1>1, <2>1
<1>. HIDE DEF c, s
<1>8. s = [i \in 1..m |-> Wanted[a + i]]
  <2>1. s = [i \in 1..Len(s) |-> s[i]]
    BY <1>6
  <2>. QED BY <1>6, <2>1
<1>9. ChunkPages(c) = [i \in 1..m |-> Wanted[a + i]]
  BY <1>4, <1>7 DEF ChunkPages
<1>. QED BY <1>8, <1>9 DEF c, s, n

(* What a step of a run does to the packing is a step of the packing.       *)
LEMMA StepPacks == Splittable /\ [Next]_vars => [PackNext]_packVars
<1>. SUFFICES ASSUME Splittable, [Next]_vars PROVE [PackNext]_packVars
  OBVIOUS
<1>1. CASE SplitBegin
  BY <1>1, WantedBounded DEF SplitBegin, Splittable, PackNext
<1>2. CASE SplitStep
  BY <1>2 DEF SplitStep, PackNext
<1>3. CASE UNCHANGED packVars
  BY <1>3
<1>4. UNCHANGED packVars \/ SplitBegin \/ SplitStep
  BY DEF Next, vars, ParseArguments, CheckEnvironment, ReadInput, BuildOptions,
       ParsePages,
         CallCompress, HandleError, WriteWhole, WriteChunk, ChunksWritten, Finish, ImageTriage,
         ImagePolicy, ImageSelect, ExportPage, FailExport, FinishExport
<1>. QED BY <1>1, <1>2, <1>3, <1>4

(* A decision is to proceed, to return the input, or an error of the package's. *)
LEMMA ProceedsOrExits ==
  ASSUME NEW d, NEW p \in PolicyDecisions(d)
  PROVE  p \in {"proceed", "preserve", "EncryptedPDFError", "CertifiedSignatureError",
                "SignedPDFError", "OversizeError", "CorruptPDFError", "DecompressionBombError"}
BY DEF PolicyDecisions

-----------------------------------------------------------------------------
(* What the files hold                                                      *)

(* What is to be written depends on the document and on what is asked. *)
LEMMA SameWanted ==
  ASSUME UNCHANGED <<result, doc, only>>
  PROVE  /\ Wanted' = Wanted /\ Selected' = Selected
         /\ \A c : ChunkPages(c)' = ChunkPages(c)
         /\ OutOfRange(doc)' <=> OutOfRange(doc)
BY DEF Wanted, Selected, ChunkPages, OutOfRange

(* One file may hold all. *)
LEMMA OnePiece ==
  ASSUME NEW S, NEW w \in Seq(S)
  PROVE  \E e : Pieces(<<w>>, 1, w, e)
<1>. DEFINE e == [k \in 0..1 |-> IF k = 0 THEN 0 ELSE Len(w)]
<1>1. Len(w) \in Nat /\ <<w>>[1] = w
  OBVIOUS
<1>2. SubSeq(w, 0 + 1, Len(w)) = w
  BY SubSeqFull
<1>3. \A k \in 1..1 : k = 1 /\ k - 1 = 0
  OBVIOUS
<1>4. e \in [0..1 -> 0..Len(w)] /\ e[0] = 0 /\ e[1] = Len(w)
  BY <1>1
<1>. HIDE DEF e
<1>5. Pieces(<<w>>, 1, w, e)
  BY <1>1, <1>2, <1>3, <1>4 DEF Pieces
<1>. QED BY <1>5

(* Or each one page. *)
LEMMA PagePieces ==
  ASSUME NEW S, NEW w \in Seq(S), NEW fs, \A k \in 1..Len(w) : fs[k] = <<w[k]>>
  PROVE  \E e : Pieces(fs, Len(w), w, e)
<1>. DEFINE n == Len(w)
            e == [k \in 0..n |-> k]
<1>1. n \in Nat
  OBVIOUS
<1>2. ASSUME NEW k \in 1..n
      PROVE  e[k - 1] <= e[k] /\ fs[k] = SubSeq(w, e[k - 1] + 1, e[k])
  <2>1. k \in 0..n /\ k - 1 \in 0..n /\ k - 1 <= k /\ (k - 1) + 1 = k
    BY <1>1
  <2>2. e[k] = k /\ e[k - 1] = k - 1
    BY <2>1
  <2>3. SubSeq(w, k, k) = <<w[k]>>
    <3>1. SubSeq(w, k, k) = <<w[k]>> \o SubSeq(w, k + 1, k)
      BY <1>1, SubSeqRecursiveFirst
    <3>2. SubSeq(w, k + 1, k) = <<>>
      BY SubSeqEmpty
    <3>3. <<w[k]>> \in Seq(S)
      BY ElementOfSeq
    <3>. QED BY <3>1, <3>2, <3>3, ConcatEmptySeq
  <2>. HIDE DEF e
  <2>. QED BY <2>1, <2>2, <2>3
<1>3. e \in [0..n -> 0..n] /\ e[0] = 0 /\ e[n] = n
  BY <1>1
<1>. HIDE DEF e
<1>4. Pieces(fs, n, w, e)
  BY <1>2, <1>3 DEF Pieces
<1>. QED BY <1>4

(* Or, split, its chunk. *)
LEMMA ChunkPieces ==
  ASSUME IInv, AsIs, Splittable, Splitting, ChunksReady
  PROVE  /\ Len(chunks) \in Nat
         /\ Wanted \in Seq(0..(MaxPages - 1))
         /\ \A k \in 1..Len(chunks) : ChunkPages(chunks[k]) \in Seq(0..(MaxPages - 1))
         /\ \E e : \A fs :
              (\A k \in 1..Len(chunks) : fs[k] = ChunkPages(chunks[k]))
                => Pieces(fs, Len(chunks), Wanted, e)
<1>. DEFINE n == Len(chunks)
            S == 0..(MaxPages - 1)
<1>1. Wanted \in Seq(S) /\ pages = Len(Wanted) /\ pages \in Nat
  BY WantedBounded DEF Splittable, Splitting, ChunksReady
<1>2. n \in Nat
  BY ChunksArePieces DEF ChunksReady
<1>3. PICK e : Pieces(chunks, n, AllPages(pages), e)
  BY ChunksArePieces DEF ChunksReady
<1>4. Len(AllPages(pages)) = pages
  BY <1>1 DEF AllPages
<1>5. /\ e \in [0..n -> 0..pages] /\ e[0] = 0 /\ e[n] = pages
      /\ \A k \in 1..n : e[k - 1] <= e[k]
                       /\ chunks[k] = SubSeq(AllPages(pages), e[k - 1] + 1, e[k])
  BY <1>3, <1>4 DEF Pieces
<1>. HIDE DEF n, S
<1>6. ASSUME NEW k \in 1..n
      PROVE  /\ e[k - 1] \in 0..pages /\ e[k] \in 0..pages /\ e[k - 1] <= e[k]
             /\ ChunkPages(chunks[k]) = SubSeq(Wanted, e[k - 1] + 1, e[k])
  <2>1. k \in 0..n /\ k - 1 \in 0..n
    BY <1>2
  <2>2. e[k - 1] \in 0..pages /\ e[k] \in 0..pages /\ e[k - 1] <= e[k]
        /\ chunks[k] = SubSeq(AllPages(pages), e[k - 1] + 1, e[k])
    BY <1>5, <2>1
  <2>3. e[k - 1] \in Nat /\ e[k] \in Nat /\ e[k] <= Len(Wanted)
    BY <1>1, <2>2
  <2>4. ChunkPages(SubSeq(AllPages(Len(Wanted)), e[k - 1] + 1, e[k]))
          = SubSeq(Wanted, e[k - 1] + 1, e[k])
    BY <1>1, <2>2, <2>3, PieceOfWanted
  <2>. QED BY <1>1, <2>2, <2>4
<1>7. ASSUME NEW k \in 1..n
      PROVE  ChunkPages(chunks[k]) \in Seq(S)
  <2>1. e[k - 1] + 1 \in Int /\ e[k] \in Int
        /\ \A i \in (e[k - 1] + 1)..e[k] : i \in 1..Len(Wanted)
    BY <1>1, <1>6
  <2>2. \A i \in (e[k - 1] + 1)..e[k] : Wanted[i] \in S
    BY <1>1, <2>1, ElementOfSeq
  <2>3. SubSeq(Wanted, e[k - 1] + 1, e[k]) \in Seq(S)
    BY <2>1, <2>2, SubSeqProperties
  <2>. QED BY <1>6, <2>3
<1>8. ASSUME NEW fs, \A k \in 1..n : fs[k] = ChunkPages(chunks[k])
      PROVE  Pieces(fs, n, Wanted, e)
  BY <1>1, <1>5, <1>6, <1>8 DEF Pieces
<1>. QED BY <1>1, <1>2, <1>7, <1>8 DEF n, S

-----------------------------------------------------------------------------
(* Codes *)

(* The documented codes, one by one.                                        *)
LEMMA Codes ==
  /\ DocumentedCode["EncryptedPDFError"] = 10 /\ DocumentedCode["SignedPDFError"] = 11
  /\ DocumentedCode["OversizeError"] = 12 /\ DocumentedCode["CorruptPDFError"] = 13
  /\ DocumentedCode["MaliciousPDFError"] = 14 /\ DocumentedCode["CertifiedSignatureError"] = 15
  /\ DocumentedCode["DecompressionBombError"] = 16 /\ DocumentedCode["EnvironmentError"] = 17
  /\ DocumentedCode["MemoryCapExceededError"] = 18 /\ DocumentedCode["HostResourceError"] = 19
  /\ DocumentedCode["ContentDriftError"] = 20
  /\ \A e \in {"OcrTimeoutError", "PerPageTimeoutError", "TotalTimeoutError", "CompressError"} :
       DocumentedCode[e] = 30
BY DEF DocumentedCode, HankErrors

(* Every error of the package's is caught. *)
LEMMA SomeClause ==
  ASSUME NEW e \in HankErrors
  PROVE  Catching(e) # {}
<1>1. 14 \in DOMAIN Clauses /\ Clauses[14].of = "CompressError"
  BY DEF Clauses
<1>2. IsA(e, "CompressError")
  BY DEF IsA
<1>. QED BY <1>1, <1>2 DEF Catching

(* The first clause that catches an error has its code.  None is for        *)
(* EnvironmentError in particular.                                          *)
LEMMA FirstClause ==
  ASSUME NEW e \in HankErrors, e # "EnvironmentError",
         NEW k \in Catching(e), \A l \in Catching(e) : k <= l
  PROVE  Clauses[k].code = DocumentedCode[e]
<1>0. \A class :
        IsA(e, class) <=> \/ e = class
                          \/ class = "CompressError"
                          \/ e = "CertifiedSignatureError" /\ class = "SignedPDFError"
  BY DEF IsA
<1>1. DOMAIN Clauses = 1..14 /\ k \in 1..14 /\ IsA(e, Clauses[k].of)
  BY DEF Clauses, Catching
<1>2. \A l \in 1..14 : l < k => ~IsA(e, Clauses[l].of)
  BY <1>1 DEF Catching
<1>3. CASE k = 14
  <2>1. /\ e # "EncryptedPDFError" /\ e # "CertifiedSignatureError" /\ e # "SignedPDFError"
        /\ e # "OversizeError" /\ e # "DecompressionBombError" /\ e # "CorruptPDFError"
        /\ e # "MaliciousPDFError" /\ e # "ContentDriftError" /\ e # "HostResourceError"
        /\ e # "MemoryCapExceededError"
    BY <1>0, <1>2, <1>3 DEF Clauses
  <2>2. e \in {"OcrTimeoutError", "PerPageTimeoutError", "TotalTimeoutError", "CompressError"}
    BY <2>1 DEF HankErrors
  <2>. QED BY <1>3, <2>2, Codes DEF Clauses
<1>4. CASE k = 3
  <2>1. e = "SignedPDFError"
    BY <1>0, <1>1, <1>2, <1>4 DEF Clauses
  <2>. QED BY <1>4, <2>1, Codes DEF Clauses
<1>5. CASE k \in (1..13) \ {3}
  <2>1. e = Clauses[k].of
    BY <1>0, <1>1, <1>5 DEF Clauses
  <2>. QED BY <1>5, <2>1, Codes DEF Clauses
<1>. QED BY <1>1, <1>3, <1>4, <1>5

(* The error of the range is no more than a CompressError, and is caught as *)
(* one.                                                                     *)
LEMMA RangeClause ==
  /\ RangeError \notin HankErrors
  /\ Catching(RangeError) # {}
  /\ \A k \in Catching(RangeError) : Clauses[k].code = 30
<1>1. RangeError \notin HankErrors /\ RangeError # "CertifiedSignatureError"
  BY DEF RangeError, HankErrors
<1>2. DOMAIN Clauses = 1..14 /\ Clauses[14].of = "CompressError" /\ Clauses[14].code = 30
  BY DEF Clauses
<1>3. \A class : IsA(RangeError, class) => class \in {RangeError, "CompressError"}
  BY <1>1 DEF IsA
<1>4. \A k \in 1..13 : Clauses[k].of \in HankErrors \ {"CompressError"}
  <2>1. \A k \in 1..13 : Clauses[k].of \in HankErrors
    BY DEF Clauses, HankErrors
  <2>2. \A k \in 1..13 : Clauses[k].of # "CompressError"
    BY DEF Clauses
  <2>. QED BY <2>1, <2>2
<1>5. IsA(RangeError, "CompressError")
  BY DEF IsA
<1>6. \A k \in Catching(RangeError) : k = 14
  <2>1. \A k \in Catching(RangeError) : k \in 1..14 /\ IsA(RangeError, Clauses[k].of)
    BY <1>2 DEF Catching
  <2>2. \A k \in 1..13 : ~IsA(RangeError, Clauses[k].of)
    BY <1>1, <1>3, <1>4
  <2>. QED BY <2>1, <2>2
<1>7. 14 \in Catching(RangeError)
  BY <1>2, <1>5 DEF Catching
<1>. QED BY <1>1, <1>2, <1>6, <1>7

-----------------------------------------------------------------------------
(* The steps *)

(* Codes and files come where they should. *)
LEMMA RunningKept == Running /\ [Next]_vars => Running'
<1>. SUFFICES ASSUME Running, [Next]_vars PROVE Running'
  OBVIOUS
<1>. USE DEF Running, Goto, Exit, ExitListing, Traceback
<1>1. CASE ParseArguments
  BY <1>1 DEF ParseArguments
<1>2. CASE CheckEnvironment
  BY <1>2 DEF CheckEnvironment
<1>3. CASE ReadInput
  BY <1>3 DEF ReadInput
<1>4. CASE BuildOptions
  BY <1>4 DEF BuildOptions
<1>5. CASE ParsePages
  BY <1>5 DEF ParsePages
<1>6. CASE CallCompress
  BY <1>6 DEF CallCompress, Raises
<1>7. CASE HandleError
  BY <1>7 DEF HandleError
<1>8. CASE WriteWhole
  BY <1>8 DEF WriteWhole
<1>9. CASE SplitBegin
  BY <1>9 DEF SplitBegin
<1>10. CASE SplitStep
  BY <1>10 DEF SplitStep, cliVars
<1>11. CASE WriteChunk
  BY <1>11 DEF WriteChunk, ChunksReady
<1>12. CASE ChunksWritten
  BY <1>12 DEF ChunksWritten, ChunksReady
<1>13. CASE Finish
  BY <1>13 DEF Finish
<1>14. CASE ImageTriage
  BY <1>14 DEF ImageTriage
<1>15. CASE ImagePolicy
  BY <1>15 DEF ImagePolicy
<1>16. CASE ImageSelect
  BY <1>16 DEF ImageSelect
<1>17. CASE ExportPage
  BY <1>17 DEF ExportPage
<1>18. CASE FailExport
  BY <1>18 DEF FailExport
<1>19. CASE FinishExport
  BY <1>19 DEF FinishExport
<1>20. CASE UNCHANGED vars
  BY <1>20 DEF vars, cliVars
<1>. QED BY <1>1, <1>2, <1>3, <1>4, <1>5, <1>6, <1>7, <1>8, <1>9, <1>10, <1>11,
     <1>12, <1>13, <1>14, <1>15, <1>16, <1>17, <1>18, <1>19, <1>20 DEF Next

(* The environment stays as it was found. *)
LEMMA ReadyKept == Ready /\ [Next]_vars => Ready'
<1>. SUFFICES ASSUME Ready, [Next]_vars PROVE Ready'
  OBVIOUS
<1>. USE DEF Ready, Goto, Exit, ExitListing, Traceback
<1>0. \A r \in FailureSets : r # None
  BY NoneIsNoReport DEF FailureSets, Failures
<1>1. CASE ParseArguments
  BY <1>1 DEF ParseArguments
<1>2. CASE CheckEnvironment
  BY <1>2, <1>0 DEF CheckEnvironment, Reports
<1>3. CASE ReadInput
  BY <1>3 DEF ReadInput
<1>4. CASE BuildOptions
  BY <1>4 DEF BuildOptions
<1>5. CASE ParsePages
  BY <1>5 DEF ParsePages
<1>6. CASE CallCompress
  <2>1. \A d : \A r \in CompressResults(d) : r # "EnvironmentError"
    BY DEF CompressResults, PolicyDecisions, PageErrors, TriageErrors
  <2>2. \A d : \A r \in CompressResults(d) : CauseOf(d, r) # "EnvironmentError"
    BY <2>1 DEF CauseOf, RangeError
  <2>. QED BY <1>6, <1>0, <2>2 DEF CallCompress, Reports, Raises
<1>7. CASE HandleError
  BY <1>7 DEF HandleError
<1>8. CASE WriteWhole
  BY <1>8 DEF WriteWhole
<1>9. CASE SplitBegin
  BY <1>9 DEF SplitBegin
<1>10. CASE SplitStep
  BY <1>10 DEF SplitStep, cliVars
<1>11. CASE WriteChunk
  BY <1>11 DEF WriteChunk, ChunksReady
<1>12. CASE ChunksWritten
  BY <1>12 DEF ChunksWritten, ChunksReady
<1>13. CASE Finish
  BY <1>13 DEF Finish
<1>14. CASE ImageTriage
  BY <1>14 DEF ImageTriage
<1>15. CASE ImagePolicy
  BY <1>15 DEF ImagePolicy
<1>16. CASE ImageSelect
  BY <1>16 DEF ImageSelect
<1>17. CASE ExportPage
  BY <1>17 DEF ExportPage
<1>18. CASE FailExport
  BY <1>18 DEF FailExport
<1>19. CASE FinishExport
  BY <1>19 DEF FinishExport
<1>20. CASE UNCHANGED vars
  BY <1>20 DEF vars, cliVars
<1>. QED BY <1>1, <1>2, <1>3, <1>4, <1>5, <1>6, <1>7, <1>8, <1>9, <1>10, <1>11,
     <1>12, <1>13, <1>14, <1>15, <1>16, <1>17, <1>18, <1>19, <1>20 DEF Next

(* The selection fits the document. *)
LEMMA SplittableKept == Splittable /\ [Next]_vars => Splittable'
<1>. SUFFICES ASSUME Splittable, [Next]_vars PROVE Splittable'
  OBVIOUS
<1>. USE DEF Splittable, Selectable, OutOfRange, Goto, Exit, ExitListing, Traceback
<1>1. CASE ParseArguments
  BY <1>1 DEF ParseArguments
<1>2. CASE CheckEnvironment
  BY <1>2 DEF CheckEnvironment
<1>3. CASE ReadInput
  BY <1>3 DEF ReadInput
<1>4. CASE BuildOptions
  BY <1>4 DEF BuildOptions
<1>5. CASE ParsePages
  BY <1>5 DEF ParsePages
<1>6. CASE CallCompress
  BY <1>6, MergedProceeds DEF CallCompress, Raises
<1>7. CASE HandleError
  BY <1>7 DEF HandleError
<1>8. CASE WriteWhole
  BY <1>8 DEF WriteWhole
<1>9. CASE SplitBegin
  BY <1>9 DEF SplitBegin
<1>10. CASE SplitStep
  BY <1>10 DEF SplitStep, cliVars
<1>11. CASE WriteChunk
  BY <1>11 DEF WriteChunk, ChunksReady
<1>12. CASE ChunksWritten
  BY <1>12 DEF ChunksWritten, ChunksReady
<1>13. CASE Finish
  BY <1>13 DEF Finish
<1>14. CASE ImageTriage
  BY <1>14 DEF ImageTriage
<1>15. CASE ImagePolicy
  BY <1>15 DEF ImagePolicy
<1>16. CASE ImageSelect
  BY <1>16 DEF ImageSelect
<1>17. CASE ExportPage
  BY <1>17 DEF ExportPage
<1>18. CASE FailExport
  BY <1>18 DEF FailExport
<1>19. CASE FinishExport
  BY <1>19 DEF FinishExport
<1>20. CASE UNCHANGED vars
  BY <1>20 DEF vars, cliVars
<1>. QED BY <1>1, <1>2, <1>3, <1>4, <1>5, <1>6, <1>7, <1>8, <1>9, <1>10, <1>11,
     <1>12, <1>13, <1>14, <1>15, <1>16, <1>17, <1>18, <1>19, <1>20 DEF Next

(* What is written was let through. *)
LEMMA LetThroughKept == Running /\ LetThrough /\ [Next]_vars => LetThrough'
<1>. SUFFICES ASSUME Running, LetThrough, [Next]_vars PROVE LetThrough'
  OBVIOUS
<1>. USE DEF Running, LetThrough, Making, Harmless, Goto, Exit, ExitListing, Traceback
<1>1. CASE ParseArguments
  BY <1>1 DEF ParseArguments
<1>2. CASE CheckEnvironment
  BY <1>2 DEF CheckEnvironment
<1>3. CASE ReadInput
  BY <1>3 DEF ReadInput
<1>4. CASE BuildOptions
  BY <1>4 DEF BuildOptions
<1>5. CASE ParsePages
  BY <1>5 DEF ParsePages
<1>6. CASE CallCompress
  BY <1>6, MergedProceeds, ProceedingIsHarmless DEF CallCompress, Raises
<1>7. CASE HandleError
  BY <1>7 DEF HandleError
<1>8. CASE WriteWhole
  BY <1>8 DEF WriteWhole
<1>9. CASE SplitBegin
  BY <1>9 DEF SplitBegin
<1>10. CASE SplitStep
  BY <1>10 DEF SplitStep, cliVars
<1>11. CASE WriteChunk
  BY <1>11 DEF WriteChunk, ChunksReady
<1>12. CASE ChunksWritten
  BY <1>12 DEF ChunksWritten, ChunksReady
<1>13. CASE Finish
  BY <1>13 DEF Finish
<1>14. CASE ImageTriage
  BY <1>14 DEF ImageTriage
<1>15. CASE ImagePolicy
  BY <1>15, ProceedsOrExits, ProceedingIsHarmless DEF ImagePolicy, ImageRefusals,
       PassthroughRefused, HankErrors
<1>16. CASE ImageSelect
  BY <1>16 DEF ImageSelect
<1>17. CASE ExportPage
  BY <1>17 DEF ExportPage
<1>18. CASE FailExport
  BY <1>18 DEF FailExport
<1>19. CASE FinishExport
  BY <1>19 DEF FinishExport
<1>20. CASE UNCHANGED vars
  BY <1>20 DEF vars, cliVars
<1>. QED BY <1>1, <1>2, <1>3, <1>4, <1>5, <1>6, <1>7, <1>8, <1>9, <1>10, <1>11,
     <1>12, <1>13, <1>14, <1>15, <1>16, <1>17, <1>18, <1>19, <1>20 DEF Next

(* A failure names what it leaves. *)
LEMMA AccountKept ==
  IInv /\ FilesOK /\ Running /\ FailureAccountsForFiles /\ [Next]_vars
  => FailureAccountsForFiles'
<1>. SUFFICES ASSUME IInv, FilesOK, Running, FailureAccountsForFiles, [Next]_vars
              PROVE  FailureAccountsForFiles'
  OBVIOUS
<1>21. /\ Len(files) \in Nat /\ Len(chunks) \in Nat
      /\ Len(files) < 1 => files = <<>>
  BY DEF FilesOK, IInv, PackTypeOK
<1>0. UNCHANGED <<result, doc, only, files>> => PagesLeft' = PagesLeft
  BY SameWanted DEF PagesLeft
<1>. USE DEF Running, FailureAccountsForFiles, Goto, Exit, ExitListing, Traceback
<1>1. CASE ParseArguments
  BY <1>1 DEF ParseArguments
<1>2. CASE CheckEnvironment
  BY <1>2 DEF CheckEnvironment
<1>3. CASE ReadInput
  BY <1>3 DEF ReadInput
<1>4. CASE BuildOptions
  BY <1>4 DEF BuildOptions
<1>5. CASE ParsePages
  BY <1>5 DEF ParsePages
<1>6. CASE CallCompress
  BY <1>6 DEF CallCompress, Raises
<1>7. CASE HandleError
  BY <1>7 DEF HandleError
<1>8. CASE WriteWhole
  BY <1>8 DEF WriteWhole
<1>9. CASE SplitBegin
  BY <1>9 DEF SplitBegin
<1>10. CASE SplitStep
  BY <1>10 DEF SplitStep, cliVars
<1>11. CASE WriteChunk
  <2>1. Len(chunks) > 1 \/ files = <<>>
    BY <1>21, <1>11 DEF WriteChunk
  <2>2. \/ pc' # "end"
        \/ exit' \in {1, 30} /\ listed' = files' /\ files' = files
    BY <1>11, <2>1 DEF WriteChunk
  <2>. QED BY <1>11, <2>2 DEF WriteChunk, ChunksReady
<1>12. CASE ChunksWritten
  BY <1>12 DEF ChunksWritten, ChunksReady, packVars
<1>13. CASE Finish
  BY <1>13 DEF Finish
<1>14. CASE ImageTriage
  BY <1>14 DEF ImageTriage
<1>15. CASE ImagePolicy
  BY <1>15 DEF ImagePolicy
<1>16. CASE ImageSelect
  BY <1>16 DEF ImageSelect
<1>17. CASE ExportPage
  BY <1>17 DEF ExportPage
<1>18. CASE FailExport
  <2>1. UNCHANGED <<result, doc, only, files, format>> /\ PagesLeft /\ format = "image"
    BY <1>18 DEF FailExport
  <2>2. \/ listed' = files /\ exit' \in {16, 30}
        \/ exit' = 1 /\ cause' = "OSError"
        \/ exit' = 1 /\ listed' = files
    <3>1. Len(Selected) = 1 => files = <<>>
      BY <1>21, <2>1 DEF PagesLeft
    <3>. QED BY <1>18, <3>1 DEF FailExport, NamesWritten
  <2>3. PagesLeft'
    BY <1>0, <2>1
  <2>. QED BY <2>1, <2>2, <2>3
<1>19. CASE FinishExport
  BY <1>19 DEF FinishExport
<1>20. CASE UNCHANGED vars
  BY <1>0, <1>20 DEF vars, cliVars, packVars
<1>. QED BY <1>1, <1>2, <1>3, <1>4, <1>5, <1>6, <1>7, <1>8, <1>9, <1>10, <1>11,
     <1>12, <1>13, <1>14, <1>15, <1>16, <1>17, <1>18, <1>19, <1>20 DEF Next

(* A code tells its cause. *)
LEMMA CodesKept == Running /\ Ready /\ CodeTellsCause /\ [Next]_vars => CodeTellsCause'
<1>. SUFFICES ASSUME Running, Ready, CodeTellsCause, [Next]_vars PROVE CodeTellsCause'
  OBVIOUS
<1>. USE DEF Running, CodeTellsCause, Goto, Exit, ExitListing, Traceback
<1>1. CASE ParseArguments
  BY <1>1 DEF ParseArguments, HankErrors
<1>2. CASE CheckEnvironment
  BY <1>2, Codes DEF CheckEnvironment, HankErrors
<1>3. CASE ReadInput
  BY <1>3, Codes DEF ReadInput, HankErrors
<1>4. CASE BuildOptions
  BY <1>4 DEF BuildOptions, HankErrors
<1>5. CASE ParsePages
  BY <1>5 DEF ParsePages, HankErrors
<1>6. CASE CallCompress
  BY <1>6 DEF CallCompress, Raises
<1>7. CASE HandleError
  <2>1. cause' = cause
    BY <1>7 DEF HandleError
  <2>2. cause \in HankErrors => exit' = DocumentedCode[cause]
    BY <1>7, FirstClause, SomeClause DEF HandleError, Ready
  <2>. QED BY <2>1, <2>2
<1>8. CASE WriteWhole
  BY <1>8 DEF WriteWhole, HankErrors
<1>9. CASE SplitBegin
  BY <1>9 DEF SplitBegin, HankErrors
<1>10. CASE SplitStep
  BY <1>10 DEF SplitStep, cliVars
<1>11. CASE WriteChunk
  BY <1>11 DEF WriteChunk, ChunksReady, HankErrors
<1>12. CASE ChunksWritten
  BY <1>12 DEF ChunksWritten, ChunksReady, HankErrors
<1>13. CASE Finish
  BY <1>13 DEF Finish, HankErrors
<1>14. CASE ImageTriage
  BY <1>14, Codes DEF ImageTriage, HankErrors
<1>15. CASE ImagePolicy
  BY <1>15, Codes, ProceedsOrExits DEF ImagePolicy, ImageRefusals,
       PassthroughRefused, HankErrors
<1>16. CASE ImageSelect
  BY <1>16 DEF ImageSelect, RangeError, HankErrors
<1>17. CASE ExportPage
  BY <1>17 DEF ExportPage
<1>18. CASE FailExport
  BY <1>18, Codes DEF FailExport, HankErrors
<1>19. CASE FinishExport
  BY <1>19 DEF FinishExport, HankErrors
<1>20. CASE UNCHANGED vars
  BY <1>20 DEF vars, cliVars
<1>. QED BY <1>1, <1>2, <1>3, <1>4, <1>5, <1>6, <1>7, <1>8, <1>9, <1>10, <1>11,
     <1>12, <1>13, <1>14, <1>15, <1>16, <1>17, <1>18, <1>19, <1>20 DEF Next

(* A split is of what is to be written. *)
LEMMA SplittingKept == Splittable /\ Splitting /\ [Next]_vars => Splitting'
<1>. SUFFICES ASSUME Splittable, Splitting, [Next]_vars PROVE Splitting'
  OBVIOUS
<1>. USE DEF Splitting, Goto, Exit, ExitListing, Traceback
<1>1. CASE ParseArguments
  BY <1>1 DEF ParseArguments
<1>2. CASE CheckEnvironment
  BY <1>2 DEF CheckEnvironment
<1>3. CASE ReadInput
  BY <1>3 DEF ReadInput
<1>4. CASE BuildOptions
  BY <1>4 DEF BuildOptions
<1>5. CASE ParsePages
  BY <1>5 DEF ParsePages
<1>6. CASE CallCompress
  BY <1>6 DEF CallCompress, Raises
<1>7. CASE HandleError
  BY <1>7 DEF HandleError
<1>8. CASE WriteWhole
  BY <1>8 DEF WriteWhole
<1>9. CASE SplitBegin
  BY <1>9, SameWanted DEF SplitBegin, PackBegin
<1>10. CASE SplitStep
  <2>1. packing' # "idle" /\ pages' = pages
    BY <1>10 DEF SplitStep, PackPage, PackEnd
  <2>. QED BY <1>10, <2>1, SameWanted DEF SplitStep, cliVars
<1>11. CASE WriteChunk
  BY <1>11, SameWanted DEF WriteChunk, ChunksReady, packVars
<1>12. CASE ChunksWritten
  BY <1>12 DEF ChunksWritten, ChunksReady
<1>13. CASE Finish
  BY <1>13 DEF Finish
<1>14. CASE ImageTriage
  BY <1>14 DEF ImageTriage
<1>15. CASE ImagePolicy
  BY <1>15 DEF ImagePolicy
<1>16. CASE ImageSelect
  BY <1>16 DEF ImageSelect
<1>17. CASE ExportPage
  BY <1>17 DEF ExportPage
<1>18. CASE FailExport
  BY <1>18 DEF FailExport
<1>19. CASE FinishExport
  BY <1>19 DEF FinishExport
<1>20. CASE UNCHANGED vars
  BY <1>20, SameWanted DEF vars, cliVars, packVars
<1>. QED BY <1>1, <1>2, <1>3, <1>4, <1>5, <1>6, <1>7, <1>8, <1>9, <1>10, <1>11,
     <1>12, <1>13, <1>14, <1>15, <1>16, <1>17, <1>18, <1>19, <1>20 DEF Next

(* Files hold pages, whatever writes them. *)
LEMMA FilesKept ==
  IInv /\ AsIs /\ Splittable /\ Splitting /\ FilesOK /\ [Next]_vars => FilesOK'
<1>. SUFFICES ASSUME IInv, AsIs, Splittable, Splitting, FilesOK, [Next]_vars PROVE FilesOK'
  OBVIOUS
<1>. DEFINE S == Seq(0..(MaxPages - 1))
<1>0. files \in Seq(S) /\ listed \in Seq(S) /\ <<>> \in Seq(S)
  BY DEF FilesOK
<1>. SUFFICES files' \in Seq(S) /\ listed' \in Seq(S)
  BY DEF FilesOK
<1>. HIDE DEF S
<1>. USE <1>0 DEF Goto, Exit, ExitListing, Traceback
<1>1. CASE ParseArguments
  BY <1>1 DEF ParseArguments
<1>2. CASE CheckEnvironment
  BY <1>2 DEF CheckEnvironment
<1>3. CASE ReadInput
  BY <1>3 DEF ReadInput
<1>4. CASE BuildOptions
  BY <1>4 DEF BuildOptions
<1>5. CASE ParsePages
  BY <1>5 DEF ParsePages
<1>6. CASE CallCompress
  BY <1>6 DEF CallCompress, Raises
<1>7. CASE HandleError
  BY <1>7 DEF HandleError
<1>8. CASE WriteWhole
  <2>1. Wanted \in S
    BY <1>8, WantedBounded DEF WriteWhole, Splittable, S
  <2>2. <<Wanted>> \in Seq(S)
    BY <2>1
  <2>. QED BY <1>8, <2>2 DEF WriteWhole
<1>9. CASE SplitBegin
  BY <1>9 DEF SplitBegin
<1>10. CASE SplitStep
  BY <1>10 DEF SplitStep, cliVars
<1>11. CASE WriteChunk
  <2>1. \A k \in 1..Len(chunks) : ChunkPages(chunks[k]) \in S
    BY <1>11, ChunkPieces DEF WriteChunk, S
  <2>2. Len(files) < Len(chunks) => Len(files) + 1 \in 1..Len(chunks)
    BY <1>11, ChunkPieces DEF WriteChunk
  <2>3. Len(files) < Len(chunks) => ChunkPages(chunks[Len(files) + 1]) \in S
    BY <2>1, <2>2
  <2>4. Len(files) < Len(chunks) => Append(files, ChunkPages(chunks[Len(files) + 1])) \in Seq(S)
    BY <2>3
  <2>. QED BY <1>11, <2>4 DEF WriteChunk
<1>12. CASE ChunksWritten
  BY <1>12 DEF ChunksWritten
<1>13. CASE Finish
  BY <1>13 DEF Finish
<1>14. CASE ImageTriage
  BY <1>14 DEF ImageTriage
<1>15. CASE ImagePolicy
  BY <1>15 DEF ImagePolicy
<1>16. CASE ImageSelect
  BY <1>16 DEF ImageSelect
<1>17. CASE ExportPage
  <2>1. Selected \in Seq(0..(MaxPages - 1))
    BY <1>17, WantedBounded DEF ExportPage, Splittable, Wanted
  <2>2. Len(files) + 1 \in 1..Len(Selected)
    BY <1>17, <2>1 DEF ExportPage, PagesLeft
  <2>3. <<Selected[Len(files) + 1]>> \in S
    <3>1. Selected[Len(files) + 1] \in 0..(MaxPages - 1)
      BY <2>1, <2>2, ElementOfSeq
    <3>. QED BY <3>1 DEF S
  <2>. QED BY <1>17, <2>3 DEF ExportPage
<1>18. CASE FailExport
  BY <1>18 DEF FailExport, NamesWritten
<1>19. CASE FinishExport
  BY <1>19 DEF FinishExport
<1>20. CASE UNCHANGED vars
  BY <1>20 DEF vars, cliVars
<1>. QED BY <1>1, <1>2, <1>3, <1>4, <1>5, <1>6, <1>7, <1>8, <1>9, <1>10, <1>11,
     <1>12, <1>13, <1>14, <1>15, <1>16, <1>17, <1>18, <1>19, <1>20 DEF Next

(* Each file holds its own. *)
LEMMA WrittenKept ==
  Running /\ FilesOK /\ Written /\ IInv /\ [Next]_vars => Written'
<1>. SUFFICES ASSUME Running, FilesOK, Written, IInv, [Next]_vars PROVE Written'
  OBVIOUS
<1>. DEFINE S == Seq(0..(MaxPages - 1))
<1>0. files \in Seq(S) /\ chunks \in Seq(S) /\ Len(files) \in Nat /\ Len(chunks) \in Nat
  BY DEF FilesOK, IInv, PackTypeOK
<1>. HIDE DEF S
<1>. USE DEF Goto, Exit, ExitListing, Traceback
<1>1. CASE ParseArguments
  BY <1>1 DEF Written, ParseArguments
<1>2. CASE CheckEnvironment
  BY <1>2 DEF Written, CheckEnvironment
<1>3. CASE ReadInput
  BY <1>3 DEF Written, ReadInput
<1>4. CASE BuildOptions
  BY <1>4 DEF Written, BuildOptions
<1>5. CASE ParsePages
  BY <1>5 DEF Written, ParsePages
<1>6. CASE CallCompress
  BY <1>6 DEF CallCompress, Raises, Written
<1>7. CASE HandleError
  BY <1>7 DEF Written, HandleError
<1>8. CASE WriteWhole
  BY <1>8 DEF Written, WriteWhole
<1>9. CASE SplitBegin
  <2>1. files = <<>>
    BY <1>9 DEF SplitBegin, Running
  <2>. QED BY <1>9, <1>0, <2>1 DEF SplitBegin, Written
<1>10. CASE SplitStep
  <2>1. files = <<>> /\ pc' = "split" /\ files' = <<>>
    BY <1>10 DEF SplitStep, cliVars, PackPage, PackEnd, Written
  <2>. QED BY <2>1 DEF Written
<1>11. CASE WriteChunk
  <2>. SUFFICES ASSUME files' = Append(files, ChunkPages(chunks[Len(files) + 1])), pc' = "split"
                PROVE  Written'
    BY <1>11 DEF WriteChunk, Written
  <2>1. /\ Len(files') = Len(files) + 1 /\ files'[Len(files) + 1] = ChunkPages(chunks[Len(files) + 1])
        /\ \A k \in 1..Len(files) : files'[k] = files[k]
    BY <1>0
  <2>2. \A k \in 1..Len(files') : k \in 1..Len(files) \/ k = Len(files) + 1
    BY <1>0, <2>1
  <2>3. \A k \in 1..Len(files') : files'[k] = ChunkPages(chunks[k])
    BY <1>11, <2>1, <2>2 DEF WriteChunk, ChunksReady, Written
  <2>4. chunks' = chunks /\ packing' = packing /\ packing # "measured" /\ Len(files') <= Len(chunks)
    BY <1>11, <1>0, <2>1 DEF WriteChunk, ChunksReady, packVars
  <2>5. \A c : ChunkPages(c)' = ChunkPages(c)
    BY <1>11, SameWanted DEF WriteChunk
  <2>. QED BY <2>3, <2>4, <2>5 DEF Written
<1>12. CASE ChunksWritten
  BY <1>12 DEF Written, ChunksWritten, ChunksReady
<1>13. CASE Finish
  BY <1>13 DEF Written, Finish
<1>14. CASE ImageTriage
  BY <1>14 DEF Written, ImageTriage
<1>15. CASE ImagePolicy
  BY <1>15 DEF Written, ImagePolicy
<1>16. CASE ImageSelect
  <2>. SUFFICES ASSUME pc' = "export" PROVE Written'
    BY <1>16 DEF ImageSelect, Written
  <2>1. files' = <<>>
    BY <1>16 DEF ImageSelect, Running
  <2>2. asked.output = "file" \/ Len(Selected) = 1
    BY <1>16 DEF ImageSelect
  <2>3. Selected' = Selected /\ asked' = asked
    BY <1>16 DEF ImageSelect, Selected
  <2>. QED BY <2>1, <2>2, <2>3 DEF Written
<1>17. CASE ExportPage
  <2>1. /\ files' = Append(files, <<Selected[Len(files) + 1]>>) /\ pc' = "export"
        /\ Len(files) < Len(Selected) /\ asked' = asked
    BY <1>17 DEF ExportPage, PagesLeft
  <2>2. /\ Len(files') = Len(files) + 1 /\ files'[Len(files) + 1] = <<Selected[Len(files) + 1]>>
        /\ \A k \in 1..Len(files) : files'[k] = files[k]
    BY <1>0, <2>1
  <2>3. \A k \in 1..Len(files') : k \in 1..Len(files) \/ k = Len(files) + 1
    BY <1>0, <2>2
  <2>4. Selected' = Selected
    BY <1>17, SameWanted DEF ExportPage
  <2>. QED BY <1>17, <1>0, <2>1, <2>2, <2>3, <2>4 DEF Written, ExportPage
<1>18. CASE FailExport
  BY <1>18 DEF Written, FailExport
<1>19. CASE FinishExport
  BY <1>19 DEF Written, FinishExport
<1>20. CASE UNCHANGED vars
  <2>1. Selected' = Selected /\ \A c : ChunkPages(c)' = ChunkPages(c)
    BY <1>20, SameWanted DEF vars, cliVars
  <2>. QED BY <1>20, <2>1 DEF vars, cliVars, packVars, Written
<1>. QED BY <1>1, <1>2, <1>3, <1>4, <1>5, <1>6, <1>7, <1>8, <1>9, <1>10, <1>11,
     <1>12, <1>13, <1>14, <1>15, <1>16, <1>17, <1>18, <1>19, <1>20 DEF Next

(* A code of 0 is given when all is written. *)
LEMMA EndingKept ==
  /\ IInv /\ AsIs /\ Running /\ Splittable /\ Splitting /\ Written /\ Ending /\ FilesOK
  /\ [Next]_vars
  => Ending'
<1>. SUFFICES ASSUME IInv, AsIs, Running, Splittable, Splitting, Written, Ending, FilesOK,
                     [Next]_vars
              PROVE  Ending'
  OBVIOUS
<1>0. (pc # "end" => exit # 0) /\ 1 # 0 /\ 2 # 0 /\ 40 # 0
  BY NoneIsNoCode DEF Running
<1>. USE DEF Ending, Goto, Exit, ExitListing, Traceback
<1>1. CASE ParseArguments
  <2>1. pc' # "finish" /\ (exit' # 0 \/ cause' = "information")
    BY <1>1, <1>0 DEF ParseArguments
  <2>. QED BY <2>1
<1>2. CASE CheckEnvironment
  BY <1>2, <1>0 DEF CheckEnvironment
<1>3. CASE ReadInput
  BY <1>3, <1>0 DEF ReadInput
<1>4. CASE BuildOptions
  BY <1>4, <1>0 DEF BuildOptions
<1>5. CASE ParsePages
  <2>1. pc' # "finish" /\ (exit' # 0 \/ cause' = "information")
    BY <1>5, <1>0 DEF ParsePages
  <2>. QED BY <2>1
<1>6. CASE CallCompress
  BY <1>6, <1>0 DEF CallCompress, Raises
<1>7. CASE HandleError
  <2>1. \A k \in Catching(cause) : Clauses[k].code # 0
    <3>1. \A k \in 1..14 : Clauses[k].code # 0
      BY DEF Clauses
    <3>. QED BY <3>1 DEF Catching, Clauses
  <2>. QED BY <1>7, <1>0, <2>1 DEF HandleError
<1>8. CASE WriteWhole
  <2>. SUFFICES ASSUME files' = <<Wanted>> PROVE Whole'
    BY <1>8, <1>0 DEF WriteWhole
  <2>1. doc \in Documents /\ (result # "input" => ~OutOfRange(doc)) /\ UNCHANGED <<doc, result, only>>
    BY <1>8 DEF WriteWhole, Splittable
  <2>2. Wanted \in Seq(0..(MaxPages - 1))
    BY <2>1, WantedBounded DEF Splittable
  <2>3. Wanted' = Wanted /\ (OutOfRange(doc)' <=> OutOfRange(doc))
    BY <2>1, SameWanted
  <2>4. Len(files') = 1 /\ \E e : Pieces(files', Len(files'), Wanted', e)
    BY <2>2, <2>3, OnePiece
  <2>. QED BY <2>1, <2>3, <2>4 DEF Whole
<1>9. CASE SplitBegin
  BY <1>9, <1>0 DEF SplitBegin
<1>10. CASE SplitStep
  BY <1>10, <1>0 DEF SplitStep, cliVars
<1>11. CASE WriteChunk
  BY <1>11, <1>0 DEF WriteChunk, ChunksReady
<1>12. CASE ChunksWritten
  <2>. SUFFICES Whole'
    BY <1>12, <1>0 DEF ChunksWritten, ChunksReady
  <2>1. /\ doc \in Documents /\ (result # "input" => ~OutOfRange(doc)) /\ asked.output = "file"
        /\ UNCHANGED <<doc, result, only, files, asked>>
    BY <1>12 DEF ChunksWritten, ChunksReady, Splittable, Splitting
  <2>2. \A k \in 1..Len(chunks) : files[k] = ChunkPages(chunks[k])
    BY <1>12 DEF ChunksWritten, ChunksReady, Written
  <2>3. \E e : Pieces(files, Len(files), Wanted, e)
    BY <1>12, <2>2, ChunkPieces DEF ChunksWritten
  <2>4. Wanted' = Wanted /\ (OutOfRange(doc)' <=> OutOfRange(doc))
    BY <2>1, SameWanted
  <2>. QED BY <2>1, <2>3, <2>4 DEF Whole
<1>13. CASE Finish
  <2>1. Whole /\ UNCHANGED <<doc, result, only, files, asked>>
    BY <1>13 DEF Finish
  <2>2. Wanted' = Wanted /\ (OutOfRange(doc)' <=> OutOfRange(doc))
    BY <2>1, SameWanted
  <2>3. Whole'
    BY <2>1, <2>2 DEF Whole
  <2>. QED BY <2>3
<1>14. CASE ImageTriage
  BY <1>14, <1>0 DEF ImageTriage
<1>15. CASE ImagePolicy
  BY <1>15, <1>0 DEF ImagePolicy, ImageRefusals
<1>16. CASE ImageSelect
  <2>1. pc' # "finish" /\ (exit' # 0 \/ cause' = "information")
    BY <1>16, <1>0 DEF ImageSelect
  <2>. QED BY <2>1
<1>17. CASE ExportPage
  BY <1>17, <1>0 DEF ExportPage
<1>18. CASE FailExport
  BY <1>18, <1>0 DEF FailExport
<1>19. CASE FinishExport
  <2>. SUFFICES Whole'
    BY <1>19 DEF FinishExport
  <2>1. /\ doc \in Documents /\ ~OutOfRange(doc) /\ result = "images"
        /\ UNCHANGED <<doc, result, only, files, asked>>
    BY <1>19 DEF FinishExport, Splittable
  <2>2. Wanted \in Seq(0..(MaxPages - 1)) /\ Selected = Wanted
    BY <2>1, WantedBounded DEF Splittable, Wanted
  <2>3. Len(files) \in Nat /\ Len(Selected) \in Nat /\ (files = <<>> => Len(files) = 0)
    BY <2>2 DEF FilesOK
  <2>4. /\ ~(Len(files) < Len(Selected)) /\ (Len(files) <= Len(Selected) \/ files = <<>>)
        /\ \A k \in 1..Len(files) : files[k] = <<Selected[k]>>
        /\ asked.output = "stdout" => Len(Selected) = 1
    BY <1>19 DEF FinishExport, PagesLeft, Written
  <2>5. Len(files) = Len(Selected)
    BY <2>3, <2>4
  <2>6. \E e : Pieces(files, Len(files), Wanted, e)
    BY <2>2, <2>4, <2>5, PagePieces
  <2>7. Wanted' = Wanted /\ (OutOfRange(doc)' <=> OutOfRange(doc))
    BY <2>1, SameWanted
  <2>. QED BY <2>1, <2>4, <2>5, <2>6, <2>7 DEF Whole
<1>20. CASE UNCHANGED vars
  <2>1. UNCHANGED <<pc, exit, cause, doc, result, only, files, asked>>
    BY <1>20 DEF vars, cliVars
  <2>2. Wanted' = Wanted /\ (OutOfRange(doc)' <=> OutOfRange(doc))
    BY <2>1, SameWanted
  <2>3. Whole => Whole'
    BY <2>1, <2>2 DEF Whole
  <2>. QED BY <2>1, <2>3
<1>. QED BY <1>1, <1>2, <1>3, <1>4, <1>5, <1>6, <1>7, <1>8, <1>9, <1>10, <1>11,
     <1>12, <1>13, <1>14, <1>15, <1>16, <1>17, <1>18, <1>19, <1>20 DEF Next

(* The program counter, the code and the cause are known ones. *)
LEMMA ProgressKept == ProgressOK /\ [Next]_vars => ProgressOK'
<1>. SUFFICES ASSUME ProgressOK, [Next]_vars PROVE ProgressOK'
  OBVIOUS
<1>. USE DEF ProgressOK, Goto, Exit, ExitListing, Traceback
<1>0. /\ HankErrors \subseteq Causes
      /\ {"none", "argparse", "correlation id", "information", "missing input or output",
          "malformed --pages", "too many --pages", "empty --pages", RangeError,
          "no pages", "several images on stdout", "OSError", "ValueError", "PdfError",
          "NotImplementedError", "AssertionError", "BrokenProcessPool", "RuntimeError"}
           \subseteq Causes
  BY DEF Causes
<1>1. CASE ParseArguments
  BY <1>1, <1>0 DEF HankErrors, ParseArguments
<1>2. CASE CheckEnvironment
  BY <1>2, <1>0 DEF HankErrors, CheckEnvironment
<1>3. CASE ReadInput
  BY <1>3, <1>0 DEF HankErrors, ReadInput
<1>4. CASE BuildOptions
  BY <1>4, <1>0 DEF HankErrors, BuildOptions
<1>5. CASE ParsePages
  BY <1>5, <1>0 DEF ParsePages
<1>6. CASE CallCompress
  <2>1. ASSUME NEW d, NEW r \in CompressResults(d)
        PROVE  r \in {"merged", "input"} \/ r \in Causes
    <3>1. CASE r \in {"NotImplementedError", "HostResourceError"} \union TriageErrors
      BY <3>1, <1>0 DEF TriageErrors, HankErrors
    <3>2. CASE r = "CompressError"
      BY <3>2, <1>0 DEF HankErrors
    <3>3. CASE \E p \in PolicyDecisions(d) :
                 r \in CASE p = "preserve" -> {"input"}
                         [] p = "proceed" -> {"input", "merged"} \union PageErrors
                         [] OTHER -> {p}
      <4>1. PICK p \in PolicyDecisions(d) :
                 r \in CASE p = "preserve" -> {"input"}
                         [] p = "proceed" -> {"input", "merged"} \union PageErrors
                         [] OTHER -> {p}
        BY <3>3
      <4>2. PageErrors \subseteq Causes
        BY <1>0 DEF PageErrors, HankErrors
      <4>3. p \in {"proceed", "preserve"} \/ p \in Causes
        BY <1>0, ProceedsOrExits DEF HankErrors
      <4>. QED BY <4>1, <4>2, <4>3
    <3>. QED BY <3>1, <3>2, <3>3 DEF CompressResults
  <2>2. "EnvironmentError" \in Causes
    BY <1>0 DEF HankErrors
  <2>3. \A d, r : r \in Causes => CauseOf(d, r) \in Causes
    BY <1>0 DEF CauseOf
  <2>. QED BY <1>6, <2>1, <2>2, <2>3 DEF CallCompress, Raises
<1>7. CASE HandleError
  <2>1. \A k \in Catching(cause) : Clauses[k].code \in {10, 11, 12, 13, 14, 15, 16, 18, 19, 20, 30}
    <3>1. \A k \in 1..14 : Clauses[k].code \in {10, 11, 12, 13, 14, 15, 16, 18, 19, 20, 30}
      BY DEF Clauses
    <3>. QED BY <3>1 DEF Catching, Clauses
  <2>. QED BY <1>7, <2>1 DEF HandleError
<1>8. CASE WriteWhole
  BY <1>8, <1>0 DEF HankErrors, WriteWhole
<1>9. CASE SplitBegin
  BY <1>9, <1>0 DEF HankErrors, SplitBegin
<1>10. CASE SplitStep
  BY <1>10 DEF SplitStep, cliVars
<1>11. CASE WriteChunk
  BY <1>11, <1>0 DEF WriteChunk, ChunksReady
<1>12. CASE ChunksWritten
  BY <1>12, <1>0 DEF ChunksWritten, ChunksReady
<1>13. CASE Finish
  BY <1>13, <1>0 DEF HankErrors, Finish
<1>14. CASE ImageTriage
  BY <1>14, <1>0 DEF HankErrors, ImageTriage
<1>15. CASE ImagePolicy
  <2>1. \A p \in DOMAIN ImageRefusals : ImageRefusals[p] \in {10, 11, 12, 15} /\ p \in Causes
    <3>1. DOMAIN ImageRefusals = {"EncryptedPDFError", "CertifiedSignatureError",
                                  "SignedPDFError", "OversizeError"}
      BY DEF ImageRefusals
    <3>2. DOMAIN ImageRefusals \subseteq Causes
      BY <1>0, <3>1 DEF HankErrors
    <3>3. \A p \in DOMAIN ImageRefusals : ImageRefusals[p] \in {10, 11, 12, 15}
      BY DEF ImageRefusals
    <3>. QED BY <3>2, <3>3
  <2>2. "SignedPDFError" \in Causes
    BY <1>0 DEF HankErrors
  <2>. QED BY <1>15, <1>0, <2>1, <2>2 DEF ImagePolicy
<1>16. CASE ImageSelect
  BY <1>16, <1>0 DEF HankErrors, ImageSelect
<1>17. CASE ExportPage
  BY <1>17, <1>0 DEF HankErrors, ExportPage
<1>18. CASE FailExport
  BY <1>18, <1>0 DEF HankErrors, FailExport
<1>19. CASE FinishExport
  BY <1>19, <1>0 DEF HankErrors, FinishExport
<1>20. CASE UNCHANGED vars
  BY <1>20 DEF vars, cliVars
<1>. QED BY <1>1, <1>2, <1>3, <1>4, <1>5, <1>6, <1>7, <1>8, <1>9, <1>10, <1>11,
     <1>12, <1>13, <1>14, <1>15, <1>16, <1>17, <1>18, <1>19, <1>20 DEF Next

(* What is asked and what is found are of their kinds. *)
LEMMA RequestKept == RequestOK /\ [Next]_vars => RequestOK'
<1>. SUFFICES ASSUME RequestOK, [Next]_vars PROVE RequestOK'
  OBVIOUS
<1>. USE DEF RequestOK, Goto, Exit, ExitListing, Traceback
<1>0. FailureSets \subseteq SUBSET Components
  BY DEF FailureSets, Failures
<1>1. CASE ParseArguments
  BY <1>1 DEF ParseArguments
<1>2. CASE CheckEnvironment
  BY <1>2, <1>0 DEF CheckEnvironment, Reports
<1>3. CASE ReadInput
  BY <1>3 DEF ReadInput
<1>4. CASE BuildOptions
  BY <1>4 DEF BuildOptions
<1>5. CASE ParsePages
  <2>1. only' \in (SUBSET (1..(MaxPages + 1))) \union {None}
    BY <1>5 DEF ParsePages
  <2>2. format' \in {"none", "pdf", "image"}
    BY <1>5 DEF ParsePages
  <2>3. UNCHANGED <<probed, asked, large, doc, result>>
    BY <1>5 DEF ParsePages
  <2>. QED BY <2>1, <2>2, <2>3
<1>6. CASE CallCompress
  <2>1. probed' \in (SUBSET Components) \union {None}
    BY <1>6, <1>0 DEF CallCompress, Reports
  <2>. QED BY <1>6, <2>1 DEF CallCompress, Raises
<1>7. CASE HandleError
  BY <1>7 DEF HandleError
<1>8. CASE WriteWhole
  BY <1>8 DEF WriteWhole
<1>9. CASE SplitBegin
  BY <1>9 DEF SplitBegin
<1>10. CASE SplitStep
  BY <1>10 DEF SplitStep, cliVars
<1>11. CASE WriteChunk
  BY <1>11 DEF WriteChunk
<1>12. CASE ChunksWritten
  BY <1>12 DEF ChunksWritten
<1>13. CASE Finish
  BY <1>13 DEF Finish
<1>14. CASE ImageTriage
  BY <1>14 DEF ImageTriage
<1>15. CASE ImagePolicy
  BY <1>15 DEF ImagePolicy
<1>16. CASE ImageSelect
  <2>1. result' \in {result, "images"}
    BY <1>16 DEF ImageSelect
  <2>2. UNCHANGED <<probed, asked, large, only, format, doc>>
    BY <1>16 DEF ImageSelect
  <2>. QED BY <2>1, <2>2
<1>17. CASE ExportPage
  BY <1>17 DEF ExportPage
<1>18. CASE FailExport
  BY <1>18 DEF FailExport
<1>19. CASE FinishExport
  BY <1>19 DEF FinishExport
<1>20. CASE UNCHANGED vars
  BY <1>20 DEF vars, cliVars
<1>. QED BY <1>1, <1>2, <1>3, <1>4, <1>5, <1>6, <1>7, <1>8, <1>9, <1>10, <1>11,
     <1>12, <1>13, <1>14, <1>15, <1>16, <1>17, <1>18, <1>19, <1>20 DEF Next

(* A run starts with no files, no code and no error. *)
LEMMA InitCliInv == Init => CliInv
<1>. SUFFICES ASSUME Init PROVE CliInv
  OBVIOUS
<1>1. /\ Running /\ Ready /\ Splittable /\ LetThrough /\ FailureAccountsForFiles
      /\ CodeTellsCause
  BY DEF Init, Running, Ready, Splittable, Selectable, LetThrough, Making,
       FailureAccountsForFiles, CodeTellsCause
<1>2. ProgressOK
  BY DEF Init, ProgressOK, Causes
<1>3. RequestOK
  BY DEF Init, RequestOK
<1>4. FilesOK
  BY DEF Init, FilesOK
<1>5. Splitting /\ Written /\ Ending
  BY NoneIsNoCode DEF Init, Splitting, Written, Ending
<1>. QED BY <1>1, <1>2, <1>3, <1>4, <1>5 DEF CliInv

-----------------------------------------------------------------------------
(* Whatever a run is asked to split, it packs it the way Packing says; the  *)
(* chunks of main() are those of split_pdf_by_size.                         *)
THEOREM RunsPack == Spec => PackSpec
<1>1. Init => PackInit /\ Splittable
  BY InitCliInv DEF Init, CliInv
<1>2. Splittable /\ [Next]_vars => [PackNext]_packVars /\ Splittable'
  BY StepPacks, SplittableKept
<1>. QED BY <1>1, <1>2, PTL DEF Spec, PackSpec

(* The invariant of a run of the command line holds at each of its steps.   *)
LEMMA AlwaysCliInv == Spec => []CliInv
<1>1. CliInv /\ IInv /\ AsIs /\ [Next]_vars => CliInv'
  <2>. SUFFICES ASSUME CliInv, IInv, AsIs, [Next]_vars PROVE CliInv'
    OBVIOUS
  <2>1. Running' /\ Ready' /\ Splittable' /\ LetThrough'
    BY RunningKept, ReadyKept, SplittableKept, LetThroughKept DEF CliInv
  <2>2. FailureAccountsForFiles' /\ CodeTellsCause'
    BY AccountKept, CodesKept DEF CliInv
  <2>3. ProgressOK' /\ RequestOK' /\ FilesOK'
    BY ProgressKept, RequestKept, FilesKept DEF CliInv
  <2>4. Splitting' /\ Written' /\ Ending'
    BY SplittingKept, WrittenKept, EndingKept DEF CliInv
  <2>. QED BY <2>1, <2>2, <2>3, <2>4 DEF CliInv
<1>. QED BY <1>1, InitCliInv, RunsPack, AlwaysIInv, AlwaysAsIs, PTL DEF Spec

(* Whatever the input, the arguments and the errors met, main() knows of    *)
(* each of its variables what kind of value it holds.                       *)
THEOREM CliTypes == Spec => []TypeOK
<1>1. CliInv /\ IInv => TypeOK
  BY DEF CliInv, IInv, TypeOK
<1>. QED BY <1>1, AlwaysCliInv, RunsPack, AlwaysIInv, PTL

(* Exit code 0 means that every page asked for, and no other, was written   *)
(* once and in order: in one file, in the chunks of a split, or as images.  *)
THEOREM ZeroMeansDelivered == Spec => []ZeroDelivers
<1>1. CliInv => ZeroDelivers
  <2>. SUFFICES ASSUME CliInv, exit = 0, cause # "information"
                PROVE  /\ {AllWritten[k] : k \in 1..Len(AllWritten)} = PagesAsked
                       /\ \A k \in 1..(Len(AllWritten) - 1) : AllWritten[k] < AllWritten[k + 1]
                       /\ asked.output = "stdout" => Len(files) = 1
    BY DEF ZeroDelivers
  <2>1. Whole /\ Selectable /\ Len(files) \in Nat
    BY DEF CliInv, Ending, Splittable, FilesOK
  <2>2. InOrder(Wanted, PagesAsked) /\ Wanted \in Seq(0..(MaxPages - 1))
    BY <2>1, WantedAreAsked, WantedBounded DEF Whole
  <2>3. AllWritten = Wanted
    BY <2>1, <2>2, FilesJoined DEF Whole
  <2>4. \A k \in 1..(Len(Wanted) - 1) : k \in 1..Len(Wanted) /\ k + 1 \in 1..Len(Wanted) /\ k < k + 1
    BY <2>2
  <2>. QED BY <2>1, <2>2, <2>3, <2>4 DEF InOrder, Whole
<1>. QED BY <1>1, AlwaysCliInv, PTL

(* So the chunks of a run, put end to end, are the document to be written.  *)
THEOREM RunsPackInOrder == Spec => []PagesInOrder
BY RunsPack, PackedInOrder

(* No chunk of a run exceeds --max-output-mb but a single page, and none    *)
(* could have taken the page after it.                                      *)
THEOREM RunsPackFull == Spec => []ChunksFull
BY RunsPack, PackedFull

(* No other cut of what main() writes needs fewer files.                    *)
THEOREM RunsPackFewest == Spec => []FewestChunks
BY RunsPack, PackedFewest

(* A refused document leaves no file, and whatever files a failed run       *)
(* leaves it lists, but for two tracebacks: a write that fails among        *)
(* several images, and a whole set of chunks that cannot be read back.      *)
THEOREM FilesAccountedFor == Spec => []FailureAccountsForFiles
<1>1. CliInv => FailureAccountsForFiles
  BY DEF CliInv
<1>. QED BY <1>1, AlwaysCliInv, PTL

(* An error of the package's own ends a run with its code, or an export in  *)
(* a traceback, whatever raised it.                                         *)
THEOREM CodesTellCauses == Spec => []CodeTellsCause
<1>1. CliInv => CodeTellsCause
  BY DEF CliInv
<1>. QED BY <1>1, AlwaysCliInv, PTL

(* Nothing is made, in either format, of a document the policy refuses. *)
THEOREM PolicyHoldsEitherWay == Spec => []PolicyEitherFormat
<1>1. CliInv => PolicyEitherFormat
  BY DEF CliInv, LetThrough, Making, Harmless, PolicyEitherFormat
<1>. QED BY <1>1, AlwaysCliInv, PTL

(* Nothing but the package's own errors is caught around compress(), that   *)
(* of the range among them.                                                 *)
LEMMA CaughtIsOurs ==
  ASSUME NEW e, Catching(e) # {}
  PROVE  e \in HankErrors \union {RangeError}
<1>1. PICK k \in DOMAIN Clauses : IsA(e, Clauses[k].of)
  BY DEF Catching
<1>2. DOMAIN Clauses = 1..14
  BY DEF Clauses
<1>3. Clauses[k].of \in HankErrors
  BY <1>1, <1>2 DEF Clauses, HankErrors
<1>4. "CertifiedSignatureError" \in HankErrors
  BY DEF HankErrors
<1>. QED BY <1>1, <1>3, <1>4 DEF IsA

(* A refusal's code is given for its error only. *)
Refused == exit # None /\ exit \in 10..20 => cause \in HankErrors /\ exit = DocumentedCode[cause]

(* Only ExitListing sets a code, and a caught error's code is that of the clause that
   caught it. *)
LEMMA RefusedKept == Running /\ Ready /\ Refused /\ [Next]_vars => Refused'
<1>. SUFFICES ASSUME Running, Ready, Refused, [Next]_vars PROVE Refused'
  OBVIOUS
<1>0. 0 \notin 10..20 /\ 1 \notin 10..20 /\ 2 \notin 10..20 /\ 30 \notin 10..20 /\ 40 \notin 10..20
  OBVIOUS
<1>. USE DEF Running, Refused, Goto, Exit, ExitListing, Traceback
<1>1. CASE ParseArguments
  BY <1>0, <1>1 DEF ParseArguments
<1>2. CASE CheckEnvironment
  BY <1>2, Codes DEF CheckEnvironment, HankErrors
<1>3. CASE ReadInput
  BY <1>3, Codes DEF ReadInput, HankErrors
<1>4. CASE BuildOptions
  BY <1>4 DEF BuildOptions
<1>5. CASE ParsePages
  BY <1>0, <1>5 DEF ParsePages
<1>6. CASE CallCompress
  BY <1>6 DEF CallCompress, Raises
<1>7. CASE HandleError
  <2>1. cause' = cause
    BY <1>7 DEF HandleError
  <2>2. CASE Catching(cause) = {}
    BY <1>7, <2>2 DEF HandleError
  <2>3. CASE Catching(cause) # {}
    <3>1. cause # "EnvironmentError"
      BY <1>7 DEF HandleError, Ready
    <3>2. CASE cause \in HankErrors
      <4>1. exit' = DocumentedCode[cause]
        BY <1>7, <2>3, <3>1, <3>2, FirstClause DEF HandleError
      <4>. QED BY <2>1, <3>2, <4>1
    <3>3. CASE cause = RangeError
      <4>1. exit' = 30
        BY <1>7, <3>3, RangeClause DEF HandleError
      <4>. QED BY <1>0, <4>1
    <3>. QED BY <2>3, <3>2, <3>3, CaughtIsOurs
  <2>. QED BY <2>2, <2>3
<1>8. CASE WriteWhole
  BY <1>8 DEF WriteWhole
<1>9. CASE SplitBegin
  BY <1>9 DEF SplitBegin
<1>10. CASE SplitStep
  BY <1>10 DEF SplitStep, cliVars
<1>11. CASE WriteChunk
  BY <1>11 DEF WriteChunk, ChunksReady
<1>12. CASE ChunksWritten
  BY <1>12 DEF ChunksWritten, ChunksReady
<1>13. CASE Finish
  BY <1>13 DEF Finish
<1>14. CASE ImageTriage
  BY <1>14, Codes DEF ImageTriage, HankErrors
<1>15. CASE ImagePolicy
  BY <1>15, Codes, ProceedsOrExits
     DEF ImagePolicy, ImageRefusals, PassthroughRefused, HankErrors
<1>16. CASE ImageSelect
  BY <1>0, <1>16 DEF ImageSelect
<1>17. CASE ExportPage
  BY <1>17 DEF ExportPage
<1>18. CASE FailExport
  BY <1>18, Codes DEF FailExport, HankErrors
<1>19. CASE FinishExport
  BY <1>19 DEF FinishExport
<1>20. CASE UNCHANGED vars
  BY <1>20 DEF vars, cliVars
<1>. QED BY <1>1, <1>2, <1>3, <1>4, <1>5, <1>6, <1>7, <1>8, <1>9, <1>10, <1>11,
     <1>12, <1>13, <1>14, <1>15, <1>16, <1>17, <1>18, <1>19, <1>20 DEF Next

(* SPEC.md has scripts branch on exit codes: a code from 10 to 20 is given  *)
(* for the one error it is documented for, in either format and wherever    *)
(* the error was raised; CodeTellsCause read the other way round (the       *)
(* except clauses of main() and the returns of _run_image_export).          *)
THEOREM CodesNameErrors ==
  Spec => [](exit # None /\ exit \in 10..20 => cause \in HankErrors /\ exit = DocumentedCode[cause])
<1>1. Init => Refused
  BY DEF Init, Refused
<1>2. CliInv /\ Refused /\ [Next]_vars => Refused'
  BY RefusedKept DEF CliInv
<1>. QED BY <1>1, <1>2, AlwaysCliInv, PTL DEF Spec, Refused

(* A decompression bomb ends every run but an image export with code 16:    *)
(* BombExits16 fails only where _run_image_export leaves it uncaught.       *)
THEOREM BombsExit16Elsewhere == Spec => [](format # "image" => BombExits16)
<1>1. CliInv => (format # "image" => BombExits16)
  <2>1. "DecompressionBombError" \in HankErrors
    BY DEF HankErrors
  <2>. QED BY <2>1, Codes DEF CliInv, CodeTellsCause, BombExits16
<1>. QED BY <1>1, AlwaysCliInv, PTL

(* The code of a run that was asked for pages out of range. *)
RangeTold ==
  exit # None /\ cause = RangeError => exit = IF format = "image" THEN 40 ELSE 30

(* Pages out of range are raised as such by ImageSelect and CallCompress    *)
(* only, and only the latter comes to the except clauses.                   *)
LEMMA RangeToldKept == Running /\ RangeTold /\ [Next]_vars => RangeTold'
<1>. SUFFICES ASSUME Running, RangeTold, [Next]_vars PROVE RangeTold'
  OBVIOUS
<1>. USE DEF Goto, Exit, ExitListing, Traceback
<1>0. RangeError \notin {"argparse", "correlation id", "information", "missing input or output",
                        "malformed --pages", "too many --pages", "empty --pages",
                        "EnvironmentError", "OSError", "OversizeError", "ValueError", "PdfError",
                        "none", "MaliciousPDFError", "CorruptPDFError", "SignedPDFError",
                        "no pages", "several images on stdout", "DecompressionBombError",
                        "RuntimeError"}
  BY DEF RangeError
<1>1. CASE HandleError
  <2>1. UNCHANGED <<cause, format>> /\ format = "pdf"
    BY <1>1 DEF HandleError, Running
  <2>2. cause = RangeError => exit' = 30
    BY <1>1, RangeClause DEF HandleError
  <2>. QED BY <2>1, <2>2 DEF RangeTold
<1>2. CASE ImageSelect
  <2>1. format' = "image" /\ (pc' = "end" => cause' # RangeError \/ exit' = 40)
    BY <1>0, <1>2 DEF ImageSelect, Running
  <2>2. pc' # "end" => exit' = None
    BY <1>2 DEF ImageSelect, Running
  <2>. QED BY <1>2, <2>1, <2>2 DEF ImageSelect, Running, RangeTold
<1>3. CASE ImagePolicy
  <2>1. \A p \in PolicyDecisions(doc) : p # RangeError
    BY ProceedsOrExits DEF RangeError
  <2>. QED BY <1>0, <1>3, <2>1 DEF ImagePolicy, Running, RangeTold
<1>4. CASE CallCompress
  BY <1>4 DEF CallCompress, Raises, Running, RangeTold
<1>5. CASE ParseArguments \/ CheckEnvironment \/ ReadInput \/ BuildOptions \/ ParsePages
  BY <1>0, <1>5 DEF ParseArguments, CheckEnvironment, ReadInput, BuildOptions, ParsePages,
                    Running, RangeTold
<1>6. CASE WriteWhole \/ SplitBegin \/ SplitStep \/ WriteChunk \/ ChunksWritten \/ Finish
  BY <1>0, <1>6 DEF WriteWhole, SplitBegin, SplitStep, WriteChunk, ChunksWritten, ChunksReady,
                    Finish, cliVars, Running, RangeTold
<1>7. CASE ImageTriage \/ ExportPage \/ FailExport \/ FinishExport
  BY <1>0, <1>7 DEF ImageTriage, ExportPage, FailExport, FinishExport, Running, RangeTold
<1>8. CASE UNCHANGED vars
  BY <1>8 DEF vars, cliVars, RangeTold
<1>. QED BY <1>1, <1>2, <1>3, <1>4, <1>5, <1>6, <1>7, <1>8 DEF Next

(* Pages out of range end an image export with code 40, as SPEC.md has it,  *)
(* and every other run with 30: RangeExits40 fails for all of these, and    *)
(* for no export (ImageSelect; the error of compress() has no class of its  *)
(* own).                                                                    *)
THEOREM RangeCodes ==
  Spec => [](exit # None /\ cause = RangeError => exit = IF format = "image" THEN 40 ELSE 30)
<1>1. Init => RangeTold
  BY DEF Init, RangeTold
<1>2. CliInv /\ RangeTold /\ [Next]_vars => RangeTold'
  BY RangeToldKept DEF CliInv
<1>. QED BY <1>1, <1>2, AlwaysCliInv, PTL DEF Spec, RangeTold
=============================================================================
