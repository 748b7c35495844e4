--------------------------- MODULE PackingProofs ---------------------------
(***************************************************************************)
(* Proofs about Packing, for any cap and any documents: the chunks are the *)
(* document in order, as full as they can be, and as few as there can be.  *)
(* The inductive invariant says of the chunk being filled what the         *)
(* properties say of the finished ones, and that any admissible way of     *)
(* cutting the document has made, up to where that chunk starts, at least  *)
(* as many cuts as there are finished chunks.                              *)
(***************************************************************************)
EXTENDS Packing, FiniteSetTheorems, TLAPS

Indices == 0..(pages - 1)

(* A finished chunk: a run of pages, within the cap unless it is one page.  *)
WellMade(c) ==
  /\ c \in Seq(Indices) /\ c # <<>>
  /\ Consecutive(c)
  /\ Len(c) = 1 \/ ChunkCost(c) <= Cap

(* Two chunks in sequence: no gap, and no room in the first. *)
FollowsOn(c, i) == i = c[Len(c)] + 1 /\ ChunkCost(c) + Cost(i) > Cap

Chain ==
  packing \in {"measured", "packed"} =>
    /\ \A k \in 1..Len(chunks) : WellMade(chunks[k])
    /\ chunks # <<>> => chunks[1][1] = 0
    /\ \A k \in 1..(Len(chunks) - 1) : FollowsOn(chunks[k], chunks[k + 1][1])

Filling ==
  packing = "measured" =>
    /\ pages > 1
    /\ page = 0 => chunks = <<>> /\ current = <<>> /\ size = 0
    /\ page > 0 =>
         /\ WellMade(current)
         /\ current[Len(current)] = page - 1
         /\ size = ChunkCost(current)
         /\ IF chunks = <<>> THEN current[1] = 0
            ELSE FollowsOn(chunks[Len(chunks)], current[1])

CutsUpTo(cuts, i) == {c \in cuts : c <= i}

Ahead ==
  packing = "measured" /\ page > 0 =>
    \A cuts \in SUBSET (1..(pages - 1)) :
      Fits(cuts) => Len(chunks) <= Cardinality(CutsUpTo(cuts, current[1]))

Ended ==
  packing = "packed" =>
    /\ chunks # <<>>
    /\ chunks[Len(chunks)][Len(chunks[Len(chunks)])] = pages - 1
    /\ FewestChunks

IInv == PackTypeOK /\ Chain /\ Filling /\ Ahead /\ Ended

-----------------------------------------------------------------------------
(* A running total is made of naturals and grows. *)
LEMMA TotalGrows ==
  ASSUME PackTypeOK
  PROVE  /\ pages \in Nat /\ total \in [0..pages -> Nat] /\ total[0] = 0
         /\ \A i, j \in 0..pages : i < j => total[i] < total[j]
<1>. USE PackingAssumption DEF PackingAssumption
<1>1. pages \in Nat /\ total \in [0..pages -> 0..(pages * MaxCost)]
  BY DEF PackTypeOK, Totals
<1>2. pages * MaxCost \in Nat
  BY <1>1
<1>3. \A i, j \in 0..pages : i < j => total[i] < total[j]
  BY DEF PackTypeOK, Totals
<1>4. total[0] = 0
  BY DEF PackTypeOK, Totals
<1>. QED BY <1>1, <1>2, <1>3, <1>4

(* Pages and chunks have whole costs. *)
LEMMA CostsAreNumbers ==
  ASSUME PackTypeOK
  PROVE  /\ \A i \in Indices : Cost(i) \in Nat
         /\ \A c \in Seq(Indices) : c # <<>> => ChunkCost(c) \in Int
<1>1. \A i \in Indices : i \in 0..pages /\ i + 1 \in 0..pages /\ i < i + 1
  BY TotalGrows DEF Indices
<1>2. \A i \in Indices : Cost(i) \in Nat
  BY <1>1, TotalGrows DEF Cost
<1>3. ASSUME NEW c \in Seq(Indices), c # <<>>
      PROVE  ChunkCost(c) \in Int
  <2>1. c[1] \in Indices /\ c[Len(c)] \in Indices
    BY <1>3
  <2>. QED BY <1>1, <2>1, TotalGrows DEF ChunkCost
<1>. QED BY <1>2, <1>3

(* Before a document is measured there is nothing to be shown.              *)
LEMMA InitIInv == PackInit => IInv
<1>. SUFFICES ASSUME PackInit PROVE IInv
  OBVIOUS
<1>. USE PackingAssumption DEF PackingAssumption
<1>1. total \in Totals(pages)
  BY DEF PackInit, Totals
<1>2. PackTypeOK
  BY <1>1 DEF PackInit, PackTypeOK
<1>. QED BY <1>2 DEF PackInit, IInv, Chain, Filling, Ahead, Ended

(* The document is measured, or returned as it is. *)
LEMMA BeginKeeps ==
  ASSUME IInv, NEW n \in 0..MaxPages, PackBegin(n)
  PROVE  IInv'
<1>. USE PackingAssumption DEF PackingAssumption
<1>1. n \in Nat /\ total' \in Totals(n)
  BY DEF PackBegin, TotalsBySize
<1>2. AllPages(n) \in Seq(0..(MaxPages - 1))
  BY <1>1 DEF AllPages
<1>3. PackTypeOK'
  <2>1. chunks' \in Seq(Seq(0..(MaxPages - 1)))
    <3>. DEFINE S == Seq(0..(MaxPages - 1))
    <3>1. <<>> \in Seq(S) /\ \A c \in S : <<c>> \in Seq(S)
      <4>. HIDE DEF S
      <4>. QED OBVIOUS
    <3>2. AllPages(n) \in S
      BY <1>2
    <3>. QED BY <3>1, <3>2 DEF PackBegin
  <2>2. /\ pages' \in 0..MaxPages
        /\ total' \in Totals(pages')
        /\ page' \in 0..pages'
        /\ current' \in Seq(0..(MaxPages - 1))
        /\ size' \in Nat
        /\ packing' \in {"measured", "as-is"}
    BY <1>1 DEF PackBegin
  <2>. QED BY <2>1, <2>2 DEF PackTypeOK
<1>4. CASE packing' = "as-is"
  BY <1>3, <1>4 DEF IInv, Chain, Filling, Ahead, Ended
<1>5. CASE n > 1 /\ packing' = "measured" /\ chunks' = <<>>
  BY <1>3, <1>5 DEF IInv, Chain, Filling, Ahead, Ended, PackBegin
<1>. QED BY <1>4, <1>5 DEF PackBegin

(* What depends on the document only is the same before and after a step    *)
(* that leaves it alone.                                                    *)
LEMMA SameDocument ==
  ASSUME UNCHANGED <<pages, total>>
  PROVE  /\ Indices' = Indices
         /\ \A c : WellMade(c)' <=> WellMade(c)
         /\ \A c, i : FollowsOn(c, i)' <=> FollowsOn(c, i)
         /\ \A c : ChunkCost(c)' = ChunkCost(c)
         /\ \A cuts : Fits(cuts)' <=> Fits(cuts)
BY DEF Indices, WellMade, FollowsOn, ChunkCost, Cost, Consecutive, Fits

(* Adding the next page to a run makes a longer run. *)
LEMMA RunExtended ==
  ASSUME PackTypeOK, NEW c \in Seq(Indices), c # <<>>, Consecutive(c),
         c[Len(c)] + 1 \in Indices
  PROVE  LET d == Append(c, c[Len(c)] + 1)
         IN  /\ d \in Seq(Indices) /\ d # <<>> /\ Consecutive(d)
             /\ Len(d) = Len(c) + 1 /\ d[1] = c[1] /\ d[Len(d)] = c[Len(c)] + 1
             /\ ChunkCost(d) = ChunkCost(c) + Cost(c[Len(c)] + 1)
<1>. DEFINE i == c[Len(c)] + 1
            d == Append(c, i)
<1>1. Len(c) \in Nat /\ Len(c) >= 1 /\ c[1] \in Indices /\ c[Len(c)] \in Indices
  OBVIOUS
<1>2. i = c[1] + Len(c)
  BY <1>1 DEF Consecutive, Indices
<1>3. /\ d \in Seq(Indices) /\ d # <<>> /\ Len(d) = Len(c) + 1
      /\ \A j \in 1..Len(c) : d[j] = c[j]
      /\ d[Len(c) + 1] = i
  BY <1>1
<1>. HIDE DEF d, i
<1>4. Consecutive(d)
  <2>. SUFFICES ASSUME NEW j \in 1..Len(d)
                PROVE  d[j] = d[1] + j - 1
    BY DEF Consecutive
  <2>1. d[1] = c[1]
    BY <1>1, <1>3
  <2>2. CASE j \in 1..Len(c)
    BY <1>3, <2>1, <2>2 DEF Consecutive
  <2>3. CASE j = Len(c) + 1
    BY <1>1, <1>2, <1>3, <2>1, <2>3 DEF Indices
  <2>. QED BY <1>1, <1>3, <2>2, <2>3
<1>5. d[1] = c[1] /\ d[Len(d)] = i
  BY <1>1, <1>3
<1>6. ChunkCost(d) = ChunkCost(c) + Cost(i)
  <2>1. c[1] \in 0..pages /\ i \in 0..pages /\ i + 1 \in 0..pages
    BY <1>1, TotalGrows DEF Indices, i
  <2>2. total[c[1]] \in Nat /\ total[i] \in Nat /\ total[i + 1] \in Nat
    BY <2>1, TotalGrows
  <2>3. c[Len(c)] + 1 = i
    BY DEF i
  <2>. QED BY <1>5, <2>2, <2>3 DEF ChunkCost, Cost
<1>. QED BY <1>3, <1>4, <1>5, <1>6 DEF d, i

(* One page is a run of its own. *)
LEMMA RunStarted ==
  ASSUME PackTypeOK, NEW i \in Indices
  PROVE  /\ WellMade(<<i>>)
         /\ <<i>>[1] = i /\ Len(<<i>>) = 1
         /\ ChunkCost(<<i>>) = Cost(i)
<1>1. i \in Int
  BY DEF Indices
<1>2. Consecutive(<<i>>)
  BY <1>1 DEF Consecutive
<1>. QED BY <1>2 DEF WellMade, ChunkCost, Cost

(* A page that fits joins the current chunk. *)
LEMMA JoinKeeps ==
  ASSUME IInv, PackPage, ~Overflows
  PROVE  IInv'
<1>. USE PackingAssumption DEF PackingAssumption
<1>0. /\ packing = "measured" /\ page \in Nat /\ page < pages /\ pages > 1
      /\ UNCHANGED <<packing, pages, total, chunks>>
      /\ page' = page + 1 /\ current' = Append(current, page) /\ size' = size + Cost(page)
      /\ page \in Indices
  BY TotalGrows DEF IInv, PackTypeOK, PackPage, Filling, Indices
<1>1. /\ Indices \subseteq 0..(MaxPages - 1)
      /\ Cost(page) \in Nat
  BY <1>0, CostsAreNumbers DEF IInv, PackTypeOK, Indices
<1>2. PackTypeOK'
  <2>1. current' \in Seq(0..(MaxPages - 1))
    BY <1>0, <1>1 DEF IInv, PackTypeOK
  <2>2. page' \in 0..pages' /\ size' \in Nat
    BY <1>0, <1>1, TotalGrows DEF IInv, PackTypeOK
  <2>. QED BY <1>0, <2>1, <2>2 DEF IInv, PackTypeOK
<1>3. Chain'
  BY <1>0, SameDocument DEF IInv, Chain
<1>4. /\ WellMade(current')
      /\ current'[Len(current')] = page
      /\ size' = ChunkCost(current')
      /\ current'[1] = IF page = 0 THEN 0 ELSE current[1]
  <2>1. CASE page = 0
    <3>1. current' = <<page>> /\ size' = Cost(page)
      BY <1>0, <1>1, <2>1 DEF IInv, Filling
    <3>. QED BY <1>0, <2>1, <3>1, RunStarted DEF IInv
  <2>2. CASE page > 0
    <3>1. /\ current \in Seq(Indices) /\ current # <<>> /\ Consecutive(current)
          /\ current[Len(current)] + 1 = page
          /\ size = ChunkCost(current)
      BY <1>0, <2>2 DEF IInv, Filling, WellMade
    <3>2. /\ current' \in Seq(Indices) /\ current' # <<>> /\ Consecutive(current')
          /\ current'[1] = current[1] /\ current'[Len(current')] = page
          /\ ChunkCost(current') = size + Cost(page)
      BY <1>0, <3>1, RunExtended DEF IInv
    <3>3. size' <= Cap
      BY <1>0, <1>1, <3>1 DEF Overflows, IInv, PackTypeOK
    <3>. QED BY <1>0, <2>2, <3>2, <3>3 DEF WellMade
  <2>. QED BY <1>0, <2>1, <2>2
<1>5. Filling'
  <2>1. page' > 0 /\ page' - 1 = page /\ page' # 0
    BY <1>0
  <2>2. IF chunks' = <<>> THEN current'[1] = 0
        ELSE FollowsOn(chunks'[Len(chunks')], current'[1])
    BY <1>0, <1>4 DEF IInv, Filling
  <2>3. WellMade(current)' /\ ChunkCost(current)' = size'
    BY <1>0, <1>4, SameDocument
  <2>4. chunks # <<>> => FollowsOn(chunks[Len(chunks)], current[1])'
    BY <1>0, <2>2, SameDocument
  <2>. QED BY <1>0, <1>4, <2>1, <2>2, <2>3, <2>4 DEF Filling
<1>6. Ahead'
  <2>. SUFFICES ASSUME NEW cuts \in SUBSET (1..(pages - 1)), Fits(cuts)
                PROVE  Len(chunks) <= Cardinality(CutsUpTo(cuts, current'[1]))
    BY <1>0, SameDocument DEF Ahead, CutsUpTo
  <2>1. CASE page = 0
    <3>1. Len(chunks) = 0 /\ IsFiniteSet(CutsUpTo(cuts, current'[1]))
      <4>0. 1 \in Int /\ pages - 1 \in Int
        BY TotalGrows DEF IInv
      <4>1. IsFiniteSet(1..(pages - 1)) /\ CutsUpTo(cuts, current'[1]) \in SUBSET (1..(pages - 1))
        BY <4>0, FS_Interval DEF CutsUpTo
      <4>. QED BY <1>0, <2>1, <4>1, FS_Subset DEF IInv, Filling
    <3>. QED BY <3>1, FS_CardinalityType
  <2>2. CASE page > 0
    BY <1>0, <1>4, <2>2 DEF IInv, Ahead
  <2>. QED BY <1>0, <2>1, <2>2
<1>7. Ended'
  BY <1>0 DEF Ended
<1>. QED BY <1>2, <1>3, <1>5, <1>6, <1>7 DEF IInv

(* Closing the current chunk puts a good chunk in its place. *)
LEMMA ChunkClosed ==
  ASSUME IInv, packing = "measured", page > 0, packing' \in {"measured", "packed"},
         chunks' = Append(chunks, current), UNCHANGED <<pages, total>>
  PROVE  /\ chunks' \in Seq(Seq(0..(MaxPages - 1)))
         /\ Len(chunks') = Len(chunks) + 1 /\ chunks'[Len(chunks')] = current
         /\ Chain'
<1>. DEFINE S == Seq(0..(MaxPages - 1))
<1>1. chunks \in Seq(S) /\ current \in S
  BY DEF IInv, PackTypeOK
<1>2. /\ chunks' \in Seq(S)
      /\ Len(chunks) \in Nat /\ Len(chunks') = Len(chunks) + 1
      /\ \A k \in 1..Len(chunks) : chunks'[k] = chunks[k]
      /\ chunks'[Len(chunks) + 1] = current
  <2>. HIDE DEF S
  <2>. QED BY <1>1
<1>3. /\ WellMade(current)
      /\ IF chunks = <<>> THEN current[1] = 0
         ELSE FollowsOn(chunks[Len(chunks)], current[1])
      /\ \A k \in 1..Len(chunks) : WellMade(chunks[k])
      /\ chunks # <<>> => chunks[1][1] = 0
      /\ \A k \in 1..(Len(chunks) - 1) : FollowsOn(chunks[k], chunks[k + 1][1])
  BY DEF IInv, Filling, Chain
<1>4. Len(chunks) = 0 <=> chunks = <<>>
  <2>. HIDE DEF S
  <2>. QED BY <1>1
<1>5. \A k \in 1..Len(chunks') : WellMade(chunks'[k])
  BY <1>2, <1>3
<1>6. chunks'[1][1] = 0
  BY <1>2, <1>3, <1>4
<1>7. ASSUME NEW k \in 1..(Len(chunks') - 1)
      PROVE  FollowsOn(chunks'[k], chunks'[k + 1][1])
  <2>1. CASE k = Len(chunks)
    BY <1>2, <1>3, <1>4, <2>1
  <2>2. CASE k # Len(chunks)
    <3>1. k \in 1..(Len(chunks) - 1) /\ k \in 1..Len(chunks) /\ k + 1 \in 1..Len(chunks)
      BY <1>2, <2>2
    <3>. QED BY <1>2, <1>3, <3>1
  <2>. QED BY <2>1, <2>2
<1>8. Chain'
  <2>1. \A k \in 1..Len(chunks') : WellMade(chunks[k])'
    BY <1>5, SameDocument
  <2>2. \A k \in 1..(Len(chunks') - 1) : FollowsOn(chunks[k], chunks[k + 1][1])'
    BY <1>7, SameDocument
  <2>. QED BY <1>6, <2>1, <2>2 DEF Chain
<1>. QED BY <1>2, <1>8

(* The cuts of an admissible cutting are finitely many, and there is one in *)
(* every stretch of pages that exceeds the cap.                             *)
LEMMA CutsCounted ==
  ASSUME PackTypeOK, NEW cuts \in SUBSET (1..(pages - 1)), NEW i, NEW j,
         CutsUpTo(cuts, i) \subseteq CutsUpTo(cuts, j)
  PROVE  /\ IsFiniteSet(cuts)
         /\ Cardinality(CutsUpTo(cuts, i)) \in Nat
         /\ Cardinality(CutsUpTo(cuts, j)) \in Nat
         /\ Cardinality(CutsUpTo(cuts, j)) <= Cardinality(cuts)
         /\ \A c \in CutsUpTo(cuts, j) \ CutsUpTo(cuts, i) :
              Cardinality(CutsUpTo(cuts, i)) + 1 <= Cardinality(CutsUpTo(cuts, j))
<1>1. 1 \in Int /\ pages - 1 \in Int
  BY TotalGrows
<1>2. IsFiniteSet(cuts)
  BY <1>1, FS_Interval, FS_Subset
<1>3. CutsUpTo(cuts, j) \in SUBSET cuts
  BY DEF CutsUpTo
<1>4. IsFiniteSet(CutsUpTo(cuts, j)) /\ Cardinality(CutsUpTo(cuts, j)) <= Cardinality(cuts)
  BY <1>2, <1>3, FS_Subset
<1>5. /\ IsFiniteSet(CutsUpTo(cuts, i))
      /\ Cardinality(CutsUpTo(cuts, i)) <= Cardinality(CutsUpTo(cuts, j))
      /\ Cardinality(CutsUpTo(cuts, i)) = Cardinality(CutsUpTo(cuts, j))
           => CutsUpTo(cuts, i) = CutsUpTo(cuts, j)
  BY <1>4, FS_Subset
<1>6. Cardinality(CutsUpTo(cuts, i)) \in Nat /\ Cardinality(CutsUpTo(cuts, j)) \in Nat
  BY <1>4, <1>5, FS_CardinalityType
<1>. QED BY <1>2, <1>4, <1>5, <1>6

(* A page that does not fit closes the current chunk and starts the next.   *)
LEMMA OverflowKeeps ==
  ASSUME IInv, PackPage, Overflows
  PROVE  IInv'
<1>. USE PackingAssumption DEF PackingAssumption
<1>0. /\ packing = "measured" /\ page \in Nat /\ page < pages /\ pages > 1 /\ page > 0
      /\ UNCHANGED <<packing, pages, total>>
      /\ chunks' = Append(chunks, current)
      /\ page' = page + 1 /\ current' = <<page>> /\ size' = Cost(page)
      /\ page \in Indices
      /\ size + Cost(page) > Cap
  BY TotalGrows DEF IInv, PackTypeOK, PackPage, Filling, Indices, Overflows, SizeReset
<1>1. /\ Indices \subseteq 0..(MaxPages - 1)
      /\ Cost(page) \in Nat
  BY <1>0, CostsAreNumbers DEF IInv, PackTypeOK, Indices
<1>2. /\ chunks' \in Seq(Seq(0..(MaxPages - 1)))
      /\ Len(chunks') = Len(chunks) + 1 /\ chunks'[Len(chunks')] = current
      /\ Chain'
  BY <1>0, ChunkClosed
<1>3. PackTypeOK'
  <2>1. current' \in Seq(0..(MaxPages - 1)) /\ page' \in 0..pages' /\ size' \in Nat
    BY <1>0, <1>1, TotalGrows DEF IInv
  <2>. QED BY <1>0, <1>2, <2>1 DEF IInv, PackTypeOK
<1>4. /\ WellMade(current) /\ current[Len(current)] = page - 1 /\ size = ChunkCost(current)
      /\ current[1] \in Int /\ current[1] < page
  <2>1. WellMade(current) /\ current[Len(current)] = page - 1 /\ size = ChunkCost(current)
    BY <1>0 DEF IInv, Filling
  <2>2. Len(current) \in Nat /\ Len(current) >= 1 /\ current[1] \in Indices
    BY <2>1 DEF WellMade
  <2>3. current[Len(current)] = current[1] + Len(current) - 1
    BY <2>1, <2>2 DEF WellMade, Consecutive
  <2>. QED BY <1>0, <2>1, <2>2, <2>3 DEF Indices
<1>5. Filling'
  <2>1. WellMade(current') /\ current'[Len(current')] = page /\ size' = ChunkCost(current')
    BY <1>0, RunStarted DEF IInv
  <2>2. FollowsOn(current, page)
    BY <1>0, <1>4 DEF FollowsOn
  <2>3. WellMade(current)' /\ ChunkCost(current)' = size'
    BY <1>0, <2>1, SameDocument
  <2>4. FollowsOn(chunks[Len(chunks)], current[1])'
    BY <1>0, <1>2, <2>2, SameDocument
  <2>5. chunks' # <<>> /\ page' > 0 /\ page' # 0 /\ page' - 1 = page
    BY <1>0, <1>2
  <2>. QED BY <1>0, <2>1, <2>3, <2>4, <2>5 DEF Filling
<1>6. Ahead'
  <2>. SUFFICES ASSUME NEW cuts \in SUBSET (1..(pages - 1)), Fits(cuts)
                PROVE  Len(chunks) + 1 <= Cardinality(CutsUpTo(cuts, page))
    BY <1>0, <1>2, SameDocument DEF Ahead, CutsUpTo
  <2>. DEFINE b == current[1]
  <2>1. total[page + 1] - total[b] > Cap
    <3>1. ChunkCost(current) = total[page] - total[b] /\ Cost(page) = total[page + 1] - total[page]
      BY <1>0, <1>4 DEF ChunkCost, Cost
    <3>2. b \in 0..pages /\ page \in 0..pages /\ page + 1 \in 0..pages
      BY <1>0, <1>4, TotalGrows DEF IInv, WellMade, Indices
    <3>3. total[b] \in Nat /\ total[page] \in Nat /\ total[page + 1] \in Nat
      BY <3>2, TotalGrows DEF IInv
    <3>. QED BY <1>0, <1>4, <3>1, <3>3
  <2>2. b \in 0..(pages - 1) /\ page \in 0..(pages - 1)
    BY <1>0, <1>4, TotalGrows DEF IInv, WellMade, Indices
  <2>3. PICK c \in cuts : c \in (b + 1)..page
    <3>1. b < page
      BY <1>4
    <3>2. b \in Nat /\ page \in Nat /\ pages \in Nat
      BY <1>0, <2>2, TotalGrows DEF IInv
    <3>3. total[page + 1] \in Int /\ total[b] \in Int
      BY <1>0, <2>2, <3>2, TotalGrows DEF IInv
    <3>4. ~(total[page + 1] - total[b] <= Cap)
      BY <2>1, <3>3
    <3>5. ((b + 1)..page) \intersect cuts # {}
      <4>. HIDE DEF b
      <4>. QED BY <2>2, <3>1, <3>4 DEF Fits
    <3>. QED BY <3>5
  <2>4. CutsUpTo(cuts, b) \subseteq CutsUpTo(cuts, page)
    <3>1. \A x \in cuts : x \in Int
      BY TotalGrows DEF IInv
    <3>2. b \in Int /\ page \in Int /\ b < page
      BY <1>0, <1>4
    <3>. HIDE DEF b
    <3>3. ASSUME NEW x \in CutsUpTo(cuts, b)
          PROVE  x \in CutsUpTo(cuts, page)
      <4>1. x \in cuts /\ x <= b
        BY <3>3 DEF CutsUpTo
      <4>2. x <= page
        BY <3>1, <3>2, <4>1
      <4>. QED BY <4>1, <4>2 DEF CutsUpTo
    <3>. QED BY <3>3
  <2>5. c \in CutsUpTo(cuts, page) \ CutsUpTo(cuts, b)
    <3>. HIDE DEF b
    <3>1. b \in Nat /\ page \in Nat /\ c \in cuts /\ c \in Int
      BY <1>0, <2>2, <2>3
    <3>2. c <= page /\ ~(c <= b)
      BY <2>3, <3>1
    <3>. QED BY <3>1, <3>2 DEF CutsUpTo
  <2>6. Cardinality(CutsUpTo(cuts, b)) + 1 <= Cardinality(CutsUpTo(cuts, page))
        /\ Cardinality(CutsUpTo(cuts, b)) \in Nat /\ Cardinality(CutsUpTo(cuts, page)) \in Nat
    <3>. HIDE DEF b
    <3>. QED BY <2>4, <2>5, CutsCounted DEF IInv
  <2>7. Len(chunks) <= Cardinality(CutsUpTo(cuts, b)) /\ Len(chunks) \in Nat
    BY <1>0 DEF IInv, Ahead, PackTypeOK
  <2>. QED BY <2>6, <2>7
<1>7. Ended'
  BY <1>0 DEF Ended
<1>. QED BY <1>2, <1>3, <1>5, <1>6, <1>7 DEF IInv

(* The last chunk is kept, and the document is packed. *)
LEMMA EndKeeps ==
  ASSUME IInv, PackEnd
  PROVE  IInv'
<1>. USE PackingAssumption DEF PackingAssumption
<1>0. /\ packing = "measured" /\ packing' = "packed" /\ page = pages /\ pages > 1 /\ page > 0
      /\ UNCHANGED <<pages, total, page>>
      /\ current' = <<>> /\ size' = 0
  BY TotalGrows DEF IInv, PackEnd, Filling
<1>1. current # <<>> /\ current[Len(current)] = pages - 1 /\ current[1] \in Int
      /\ current[1] <= pages - 1
  <2>1. WellMade(current) /\ current[Len(current)] = page - 1
    BY <1>0 DEF IInv, Filling
  <2>2. current[1] \in Indices
    BY <2>1 DEF WellMade
  <2>. QED BY <1>0, <2>1, <2>2 DEF WellMade, Indices
<1>2. chunks' = Append(chunks, current)
  BY <1>1 DEF PackEnd, LastChunkKept
<1>3. /\ chunks' \in Seq(Seq(0..(MaxPages - 1)))
      /\ Len(chunks') = Len(chunks) + 1 /\ chunks'[Len(chunks')] = current
      /\ Chain'
  BY <1>0, <1>2, ChunkClosed
<1>4. PackTypeOK'
  BY <1>0, <1>3 DEF IInv, PackTypeOK
<1>5. Filling' /\ Ahead'
  BY <1>0 DEF Filling, Ahead
<1>6. Ended'
  <2>1. chunks' # <<>>
    BY <1>3 DEF IInv, PackTypeOK
  <2>2. ASSUME NEW cuts \in SUBSET (1..(pages - 1)), Fits(cuts)
        PROVE  Len(chunks') <= Cardinality(cuts) + 1
    <3>1. Len(chunks) <= Cardinality(CutsUpTo(cuts, current[1])) /\ Len(chunks) \in Nat
      BY <1>0, <2>2 DEF IInv, Ahead, PackTypeOK
    <3>2. /\ IsFiniteSet(cuts)
          /\ Cardinality(CutsUpTo(cuts, current[1])) \in Nat
          /\ Cardinality(CutsUpTo(cuts, current[1])) <= Cardinality(cuts)
      BY <2>2, CutsCounted DEF IInv
    <3>3. Cardinality(cuts) \in Nat
      BY <3>2, FS_CardinalityType
    <3>. QED BY <1>3, <3>1, <3>2, <3>3
  <2>3. \A cuts : Fits(cuts)' <=> Fits(cuts)
    BY <1>0, SameDocument
  <2>4. FewestChunks'
    BY <1>0, <2>2, <2>3 DEF FewestChunks
  <2>. QED BY <1>0, <1>1, <1>3, <2>1, <2>4 DEF Ended
<1>. QED BY <1>3, <1>4, <1>5, <1>6 DEF IInv

(* Each step of the packing keeps the invariant.                            *)
LEMMA StepIInv == IInv /\ [PackNext]_packVars => IInv'
<1>. SUFFICES ASSUME IInv, [PackNext]_packVars PROVE IInv'
  OBVIOUS
<1>1. CASE \E n \in 0..MaxPages : PackBegin(n)
  BY <1>1, BeginKeeps
<1>2. CASE PackPage
  BY <1>2, JoinKeeps, OverflowKeeps
<1>3. CASE PackEnd
  BY <1>3, EndKeeps
<1>4. CASE UNCHANGED packVars
  <2>. SUFFICES ASSUME UNCHANGED packVars PROVE IInv'
    BY <1>4
  <2>1. PackTypeOK'
    BY DEF packVars, IInv, PackTypeOK
  <2>2. Chain'
    BY SameDocument DEF packVars, IInv, Chain
  <2>3. Filling'
    BY SameDocument DEF packVars, IInv, Filling
  <2>4. Ahead'
    BY SameDocument DEF packVars, IInv, Ahead, CutsUpTo
  <2>5. Ended'
    BY SameDocument DEF packVars, IInv, Ended, FewestChunks, Split
  <2>. QED BY <2>1, <2>2, <2>3, <2>4, <2>5 DEF IInv
<1>. QED BY <1>1, <1>2, <1>3, <1>4 DEF PackNext

(* The inductive invariant of the packing: the chunks so far are the pages  *)
(* so far, and no cutting of those has fewer.                               *)
THEOREM AlwaysIInv == PackSpec => []IInv
BY InitIInv, StepIInv, PTL DEF PackSpec

(* A document that is not split is one chunk. *)
AsIs == packing = "as-is" => chunks = <<AllPages(pages)>>

(* It stays so: nothing is packed after that. *)
LEMMA AlwaysAsIs == PackSpec => []AsIs
<1>1. PackInit => AsIs
  BY DEF PackInit, AsIs
<1>2. AsIs /\ [PackNext]_packVars => AsIs'
  BY DEF AsIs, PackNext, PackBegin, PackPage, PackEnd, AllPages, packVars
<1>. QED BY <1>1, <1>2, PTL DEF PackSpec

-----------------------------------------------------------------------------
(* What the packing holds is a document, its costs and its chunks, whatever *)
(* the cap, the number of pages and their costs.                            *)
THEOREM PackedTypes == PackSpec => []PackTypeOK
<1>1. IInv => PackTypeOK
  BY DEF IInv
<1>. QED BY <1>1, AlwaysIInv, PTL

(* The chunks of a split document, one after the other, are its pages in    *)
(* their order, none missing and none twice.                                *)
THEOREM PackedInOrder == PackSpec => []PagesInOrder
<1>1. IInv => PagesInOrder
  BY DEF IInv, PagesInOrder, Split, Chain, Ended, WellMade, FollowsOn
<1>. QED BY <1>1, AlwaysIInv, PTL

(* A chunk over the cap is a single page, and no chunk has room for the     *)
(* page after it.                                                           *)
THEOREM PackedFull == PackSpec => []ChunksFull
<1>1. IInv => ChunksFull
  BY DEF IInv, ChunksFull, Split, Chain, WellMade, FollowsOn
<1>. QED BY <1>1, AlwaysIInv, PTL

(* Packing greedily is optimal: no admissible cutting of the document has   *)
(* fewer chunks.                                                            *)
THEOREM PackedFewest == PackSpec => []FewestChunks
<1>1. IInv => FewestChunks
  BY DEF IInv, Ended, FewestChunks, Split
<1>. QED BY <1>1, AlwaysIInv, PTL
=============================================================================
