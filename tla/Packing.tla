------------------------------- MODULE Packing -------------------------------
(***************************************************************************)
(* split_pdf_by_size: the pages of a PDF, in order, packed greedily into   *)
(* chunks of at most Cap bytes.  A page's cost is the length of the PDF    *)
(* that holds it alone.  Costs are given by their running total, so that   *)
(* a stretch of pages costs the difference of two values.                  *)
(***************************************************************************)
EXTENDS Naturals, Sequences, FiniteSets

CONSTANTS
  Cap,        (* max_bytes                                                 *)
  MaxPages,   (* bound: pages of a document                                *)
  MaxCost     (* bound: cost of a page                                     *)

ASSUME PackingAssumption ==
  Cap \in Nat \ {0} /\ MaxPages \in Nat /\ MaxCost \in Nat \ {0}

(* total[i] is the cost of the first i pages. *)
Totals(n) ==
  {t \in [0..n -> 0..(n * MaxCost)] :
     /\ t[0] = 0
     /\ \A i, j \in 0..n : i < j => t[i] < t[j]
     /\ \A i \in 1..n : t[i] <= t[i - 1] + MaxCost}
TotalsBySize == [n \in 0..MaxPages |-> Totals(n)]

VARIABLES
  packing,    (* "idle", "measured", "packed", or "as-is": not split       *)
  pages,      (* n_pages                                                   *)
  total,      (* running total of page_costs                               *)
  page,       (* index of the page to place                                *)
  chunks,     (* chunks_of_indices                                         *)
  current,    (* the chunk being filled                                    *)
  size        (* current_size                                              *)

packVars == <<packing, pages, total, page, chunks, current, size>>

AllPages(n) == [k \in 1..n |-> k - 1]
Cost(i) == total[i + 1] - total[i]
ChunkCost(c) == total[c[Len(c)] + 1] - total[c[1]]

PackInit ==
  /\ packing = "idle"
  /\ pages = 0
  /\ total = [i \in 0..0 |-> 0]
  /\ page = 0
  /\ chunks = <<>>
  /\ current = <<>>
  /\ size = 0

(* A document that fits, or has one page, comes back as it is.  Whether it  *)
(* fits is not a matter of page costs alone: what its pages share counts    *)
(* once, and what belongs to none of them counts too.                       *)
PackBegin(n) ==
  /\ packing = "idle"
  /\ pages' = n
  /\ total' \in TotalsBySize[n]
  /\ page' = 0 /\ current' = <<>> /\ size' = 0
  /\ \/ packing' = "as-is" /\ chunks' = <<AllPages(n)>>
     \/ n > 1 /\ packing' = "measured" /\ chunks' = <<>>

OverflowsBeforePage == size > Cap
Overflows == current # <<>> /\ size + Cost(page) > Cap

SizeKept == size' = size + Cost(page)
SizeReset == size' = Cost(page)

(* The page joins the current chunk, or starts the next one. *)
PackPage ==
  /\ packing = "measured" /\ page < pages
  /\ page' = page + 1
  /\ IF Overflows
     THEN chunks' = Append(chunks, current) /\ current' = <<page>> /\ SizeReset
     ELSE UNCHANGED chunks /\ current' = Append(current, page) /\ size' = size + Cost(page)
  /\ UNCHANGED <<packing, pages, total>>

LastChunkDropped == chunks
LastChunkKept == IF current # <<>> THEN Append(chunks, current) ELSE chunks

PackEnd ==
  /\ packing = "measured" /\ page = pages
  /\ packing' = "packed"
  /\ chunks' = LastChunkKept
  /\ current' = <<>> /\ size' = 0
  /\ UNCHANGED <<pages, total, page>>

PackNext == (\E n \in 0..MaxPages : PackBegin(n)) \/ PackPage \/ PackEnd

PackSpec == PackInit /\ [][PackNext]_packVars

-----------------------------------------------------------------------------
(* Properties                                                               *)

PackTypeOK ==
  /\ packing \in {"idle", "measured", "packed", "as-is"}
  /\ pages \in 0..MaxPages
  /\ total \in Totals(pages)
  /\ page \in 0..pages
  /\ chunks \in Seq(Seq(0..(MaxPages - 1)))
  /\ current \in Seq(0..(MaxPages - 1))
  /\ size \in Nat

Split == packing = "packed"

(* A chunk holds consecutive pages, in order. *)
Consecutive(c) == \A j \in 1..Len(c) : c[j] = c[1] + j - 1

(* Put end to end, the chunks are the document: none is empty, the first    *)
(* starts with page 0, each goes on where the one before stopped, and the   *)
(* last ends with the last page ("Order of pages across chunks preserves    *)
(* the original page order").                                               *)
PagesInOrder ==
  Split =>
    /\ chunks # <<>>
    /\ \A k \in 1..Len(chunks) : chunks[k] # <<>> /\ Consecutive(chunks[k])
    /\ chunks[1][1] = 0
    /\ \A k \in 1..(Len(chunks) - 1) : chunks[k + 1][1] = chunks[k][Len(chunks[k])] + 1
    /\ chunks[Len(chunks)][Len(chunks[Len(chunks)])] = pages - 1

(* Only a page that is too large by itself exceeds the cap, and no chunk    *)
(* could have taken the page that follows it.                               *)
ChunksFull ==
  Split =>
    /\ \A k \in 1..Len(chunks) : Len(chunks[k]) = 1 \/ ChunkCost(chunks[k]) <= Cap
    /\ \A k \in 1..(Len(chunks) - 1) : ChunkCost(chunks[k]) + Cost(chunks[k + 1][1]) > Cap

(* No other way of cutting the document needs fewer chunks, if a chunk of   *)
(* several pages may not exceed the cap.  `cuts` are the pages before which *)
(* it is cut; it fits if what is not cut does.                              *)
Fits(cuts) ==
  \A b, i \in 0..(pages - 1) :
    b < i /\ ((b + 1)..i) \intersect cuts = {} => total[i + 1] - total[b] <= Cap
FewestChunks ==
  Split => \A cuts \in SUBSET (1..(pages - 1)) :
             Fits(cuts) => Len(chunks) <= Cardinality(cuts) + 1
=============================================================================
