------------------------------ MODULE WordBoxes ------------------------------
(***************************************************************************)
(* The text layer taken over from the input: _walk_chars_into_words groups *)
(* the characters pdfium reports into words with bounding boxes, and       *)
(* _build_text_ops paints the words invisibly.  A character is a glyph     *)
(* with a box in page coordinates; which one comes next is chosen where it *)
(* is read.  The scale from points to pixels and back is left out.         *)
(***************************************************************************)
EXTENDS Integers, Sequences

CONSTANTS
  Glyphs,     (* the characters a page may hold                            *)
  MaxChars    (* bound: characters of a page                               *)

(* What get_text_range returns for a character: white space, nothing, an    *)
(* ASCII character or another one.                                          *)
Kinds == {"space", "empty", "ascii", "other"}

ASSUME WordBoxesAssumption ==
  /\ Glyphs \subseteq [kind : Kinds, left : Int, bottom : Int, right : Int, top : Int]
  /\ \A g \in Glyphs : g.bottom <= g.top /\ g.left <= g.right
  /\ MaxChars \in Nat

VARIABLES
  pc,           (* "walk", "paint" or "done"                               *)
  text,         (* the characters read so far                              *)
  cur,          (* the current word: the positions of its characters       *)
  box,          (* cur_left, cur_bottom, cur_right, cur_top                *)
  prevBaseline, (* bottom of the character before, -1 for none             *)
  prevRight,    (* its right edge, -1 for none                             *)
  prevHeight,   (* its height, kept across white space                     *)
  words,        (* the word boxes emitted                                  *)
  layer         (* what the text layer shows, word by word                 *)

vars == <<pc, text, cur, box, prevBaseline, prevRight, prevHeight, words, layer>>

Box(g) == [left |-> g.left, bottom |-> g.bottom, right |-> g.right, top |-> g.top]
NoBox == [left |-> 0, bottom |-> 0, right |-> 0, top |-> 0]

Init ==
  /\ pc = "walk"
  /\ text = <<>>
  /\ cur = <<>> /\ box = NoBox
  /\ prevBaseline = -1 /\ prevRight = -1 /\ prevHeight = 0
  /\ words = <<>>
  /\ layer = <<>>

Larger(a, b) == IF a >= b THEN a ELSE b
Smaller(a, b) == IF a <= b THEN a ELSE b
Distance(a, b) == IF a >= b THEN a - b ELSE b - a

(* flush(): a word is emitted unless there is nothing in it to be read. *)
Readable(word) == \E k \in 1..Len(word) : text[word[k]].kind \in {"ascii", "other"}
Flushed == IF Readable(cur) THEN Append(words, [at |-> cur, box |-> box]) ELSE words

Height(g) == g.top - g.bottom

(* More than half the larger of the two heights off the baseline, or more   *)
(* than 0.6 of it apart.                                                    *)
LineBreak(g) ==
  prevBaseline >= 0 /\ 2 * Distance(g.bottom, prevBaseline) > Larger(prevHeight, Height(g))
ColumnBreakEitherWay(g) ==
  prevRight >= 0 /\ 5 * Distance(g.left, prevRight) > 3 * Larger(prevHeight, Height(g))
ColumnBreak(g) ==
  prevRight >= 0 /\ 5 * (g.left - prevRight) > 3 * Larger(prevHeight, Height(g))

ReadSpace ==
  /\ pc = "walk" /\ Len(text) < MaxChars
  /\ \E g \in Glyphs :
       /\ g.kind = "space"
       /\ text' = Append(text, g)
  /\ words' = Flushed /\ cur' = <<>>
  /\ prevBaseline' = -1 /\ prevRight' = -1
  /\ UNCHANGED <<pc, box, prevHeight, layer>>

WidenedToLast(g) == Box(g)
WidenedInwards(g) ==
  [left |-> Larger(box.left, g.left), bottom |-> Larger(box.bottom, g.bottom),
   right |-> Smaller(box.right, g.right), top |-> Smaller(box.top, g.top)]
Widened(g) == [left |-> Smaller(box.left, g.left), bottom |-> Smaller(box.bottom, g.bottom),
               right |-> Larger(box.right, g.right), top |-> Larger(box.top, g.top)]

(* A character starts a word of its own, after a break or where there is    *)
(* none to join, or widens the current one.                                 *)
ReadChar ==
  /\ pc = "walk" /\ Len(text) < MaxChars
  /\ \E g \in Glyphs :
       /\ g.kind # "space"
       /\ text' = Append(text, g)
       /\ IF LineBreak(g) \/ ColumnBreak(g) \/ cur = <<>>
          THEN words' = Flushed /\ cur' = <<Len(text) + 1>> /\ box' = Box(g)
          ELSE UNCHANGED words /\ cur' = Append(cur, Len(text) + 1) /\ box' = Widened(g)
       /\ prevBaseline' = g.bottom /\ prevRight' = g.right /\ prevHeight' = Height(g)
  /\ UNCHANGED <<pc, layer>>

(* The last flush(). *)
EndWalk ==
  /\ pc = "walk"
  /\ pc' = "paint"
  /\ words' = Flushed /\ cur' = <<>>
  /\ UNCHANGED <<text, box, prevBaseline, prevRight, prevHeight, layer>>

(* The content stream is encoded as ASCII, with "?" for what is not. *)
Painted(g) == IF g.kind = "other" THEN "?" ELSE g.kind

PaintWords ==
  /\ pc = "paint"
  /\ pc' = "done"
  /\ layer' = [w \in 1..Len(words) |->
                 [k \in 1..Len(words[w].at) |-> Painted(text[words[w].at[k]])]]
  /\ UNCHANGED <<text, cur, box, prevBaseline, prevRight, prevHeight, words>>

Next == ReadSpace \/ ReadChar \/ EndWalk \/ PaintWords

Spec == Init /\ [][Next]_vars

-----------------------------------------------------------------------------
(* Properties                                                               *)

Boxes == [left : Int, bottom : Int, right : Int, top : Int]
Words == [at : Seq(Nat), box : Boxes]
Upright(b) == b.left <= b.right /\ b.bottom <= b.top

(* Every variable holds a value of its kind, and no box is inside out.      *)
TypeOK ==
  /\ pc \in {"walk", "paint", "done"}
  /\ text \in Seq(Glyphs) /\ Len(text) <= MaxChars
  /\ cur \in Seq(Nat)
  /\ box \in Boxes /\ Upright(box)
  /\ prevBaseline \in Int /\ prevRight \in Int /\ prevHeight \in Nat
  /\ words \in Seq(Words) /\ \A w \in 1..Len(words) : Upright(words[w].box)
  /\ layer \in Seq(Seq(Kinds \union {"?"}))

Walked == pc # "walk"
At(w) == words[w].at
Run(at) == \A k \in 1..Len(at) : at[k] = at[1] + k - 1
Boxed(at, b) ==
  /\ \A k \in 1..Len(at) :
       LET g == text[at[k]]
       IN  b.left <= g.left /\ b.bottom <= g.bottom /\ g.right <= b.right /\ g.top <= b.top
  /\ \E k \in 1..Len(at) : text[at[k]].left = b.left
  /\ \E k \in 1..Len(at) : text[at[k]].bottom = b.bottom
  /\ \E k \in 1..Len(at) : text[at[k]].right = b.right
  /\ \E k \in 1..Len(at) : text[at[k]].top = b.top

(* Every character that can be read is in exactly one word, words follow    *)
(* one another as the text does, each is a run of characters without white  *)
(* space, and its box is the bounding box of its characters.                *)
WordsCoverText ==
  Walked =>
    /\ \A i \in 1..Len(text) : text[i].kind \in {"ascii", "other"} =>
         \E w \in 1..Len(words) : \E k \in 1..Len(At(w)) : At(w)[k] = i
    /\ \A v, w \in 1..Len(words) : v < w => At(v)[Len(At(v))] < At(w)[1]
    /\ \A w \in 1..Len(words) :
         /\ At(w) # <<>> /\ Run(At(w)) /\ Boxed(At(w), words[w].box)
         /\ \A k \in 1..Len(At(w)) :
              At(w)[k] \in 1..Len(text) /\ text[At(w)[k]].kind # "space"

(* Two neighbouring characters that are on lines of their own, or too far   *)
(* apart on one line.                                                       *)
Apart(g, h) ==
  LET height == Larger(Height(g), Height(h))
  IN  \/ 2 * Distance(h.bottom, g.bottom) > height
      \/ 5 * (h.left - g.right) > 3 * height

(* Neighbours are in one word exactly if nothing sets them apart ("A new    *)
(* word starts on"): within a word none are, as long as the first lies on   *)
(* the page's positive side (below and left of the origin nothing but white *)
(* space separates words); and where one word ends and the next goes on     *)
(* with the next character, they are.                                       *)
WordsPartAtBreaks ==
  Walked =>
    /\ \A w \in 1..Len(words) : \A k \in 1..(Len(At(w)) - 1) :
         LET g == text[At(w)[k]]
         IN  g.bottom >= 0 /\ g.right >= 0 => ~Apart(g, text[At(w)[k + 1]])
    /\ \A w \in 1..(Len(words) - 1) :
         LET last == At(w)[Len(At(w))]
         IN  At(w + 1)[1] = last + 1 => Apart(text[last], text[last + 1])

(* README.md: "Defaults preserve any existing text layer (byte-faithful to  *)
(* the source, no flag required)".                                          *)
LayerFaithful ==
  pc = "done" =>
    \A w \in 1..Len(words) : \A k \in 1..Len(At(w)) : layer[w][k] = text[At(w)[k]].kind
=============================================================================
