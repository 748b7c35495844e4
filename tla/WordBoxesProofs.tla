--------------------------- MODULE WordBoxesProofs ---------------------------
(***************************************************************************)
(* Proofs about WordBoxes, for any characters at any place and any number  *)
(* of them.  The inductive invariant says of every word, the current one   *)
(* included, that it is a tight run of characters in its bounding box;     *)
(* that words come in the order of the text, with a break where one ends   *)
(* and the next begins; and that no readable character is left out.        *)
(***************************************************************************)
EXTENDS WordBoxes, TLAPS

Last(at) == at[Len(at)]

(* A run of characters of the text without white space. *)
Positions(at) ==
  /\ at \in Seq(1..Len(text)) /\ at # <<>>
  /\ Run(at)
  /\ \A k \in 1..Len(at) : text[at[k]].kind # "space"

Tight(at) ==
  \A k \in 1..(Len(at) - 1) :
    LET g == text[at[k]]
    IN  g.bottom >= 0 /\ g.right >= 0 => ~Apart(g, text[at[k + 1]])

Sound(at, b) == Positions(at) /\ Tight(at) /\ Boxed(at, b)

(* Where a word starts right after another, something sets them apart. *)
Parted(at, i) == i = Last(at) + 1 => Apart(text[Last(at)], text[i])

Orderly(ws) ==
  /\ \A w \in 1..Len(ws) : Sound(ws[w].at, ws[w].box)
  /\ \A v, w \in 1..Len(ws) : v < w => Last(ws[v].at) < ws[w].at[1]
  /\ \A w \in 1..(Len(ws) - 1) : Parted(ws[w].at, ws[w + 1].at[1])

(* A word that starts at i may follow. *)
Follows(ws, i) ==
  /\ \A w \in 1..Len(ws) : Last(ws[w].at) < i
  /\ ws # <<>> => Parted(ws[Len(ws)].at, i)

CanBeRead(i) == text[i].kind \in {"ascii", "other"}
Holds(at, i) == \E k \in 1..Len(at) : at[k] = i
Holding(ws, i) == \E w \in 1..Len(ws) : Holds(ws[w].at, i)

Walking ==
  pc = "walk" =>
    IF cur = <<>>
    THEN text # <<>> => text[Len(text)].kind = "space"
    ELSE /\ Sound(cur, box)
         /\ Last(cur) = Len(text)
         /\ Follows(words, cur[1])
         /\ LET g == text[Len(text)]
            IN  prevBaseline = g.bottom /\ prevRight = g.right /\ prevHeight = Height(g)

Covered ==
  \A i \in 1..Len(text) :
    CanBeRead(i) => Holding(words, i) \/ (pc = "walk" /\ Holds(cur, i))

IInv == TypeOK /\ Orderly(words) /\ Walking /\ Covered

-----------------------------------------------------------------------------
(* Characters and words *)

(* A character has whole coordinates and an upright box.                    *)
LEMMA GlyphFacts ==
  ASSUME NEW g \in Glyphs
  PROVE  /\ g.kind \in Kinds
         /\ g.left \in Int /\ g.bottom \in Int /\ g.right \in Int /\ g.top \in Int
         /\ Height(g) \in Nat
         /\ Box(g) \in Boxes /\ Upright(Box(g))
<1>1. /\ g.kind \in Kinds
      /\ g.left \in Int /\ g.bottom \in Int /\ g.right \in Int /\ g.top \in Int
      /\ g.bottom <= g.top /\ g.left <= g.right
  BY WordBoxesAssumption DEF WordBoxesAssumption
<1>. QED BY <1>1 DEF Height, Box, Boxes, Upright

(* The positions of a run are the numbers from its first to its last. *)
LEMMA RunFacts ==
  ASSUME NEW at, Positions(at), Len(text) \in Nat
  PROVE  /\ Len(at) \in Nat /\ Len(at) >= 1
         /\ \A k \in 1..Len(at) : at[k] \in 1..Len(text)
         /\ at[1] \in 1..Len(text) /\ Last(at) \in 1..Len(text)
         /\ Last(at) = at[1] + Len(at) - 1
<1>1. Len(at) \in Nat /\ Len(at) >= 1 /\ \A k \in 1..Len(at) : at[k] \in 1..Len(text)
  BY DEF Positions
<1>2. 1 \in 1..Len(at) /\ Len(at) \in 1..Len(at)
  BY <1>1
<1>. QED BY <1>1, <1>2 DEF Last, Positions, Run

(* What is read so far stays in its place. *)
Grown ==
  /\ Len(text) \in Nat /\ Len(text') \in Nat /\ Len(text) <= Len(text')
  /\ \A i \in 1..Len(text) : text'[i] = text[i]

(* Reading a character changes none of those before it.                     *)
LEMMA TextGrows ==
  ASSUME TypeOK, NEW g \in Glyphs, text' = Append(text, g)
  PROVE  Grown /\ Len(text') = Len(text) + 1 /\ text'[Len(text) + 1] = g
BY DEF TypeOK, Grown

(* A text that is left alone has not changed.                               *)
LEMMA TextStays ==
  ASSUME TypeOK, UNCHANGED text
  PROVE  Grown
BY DEF TypeOK, Grown

(* A word of the text read so far stays one as the text grows.              *)
LEMMA SoundStays ==
  ASSUME NEW at, NEW b, Sound(at, b), Grown
  PROVE  Sound(at, b)'
<1>1. /\ Len(at) \in Nat /\ \A k \in 1..Len(at) : at[k] \in 1..Len(text)
      /\ \A k \in 1..Len(at) : text'[at[k]] = text[at[k]]
  BY RunFacts DEF Sound, Grown
<1>2. at \in Seq(1..Len(text'))
  BY <1>1 DEF Sound, Positions, Grown
<1>3. Positions(at)'
  BY <1>1, <1>2 DEF Sound, Positions, Run
<1>4. Tight(at)'
  <2>. SUFFICES ASSUME NEW k \in 1..(Len(at) - 1)
                PROVE  LET g == text'[at[k]]
                       IN  g.bottom >= 0 /\ g.right >= 0 => ~Apart(g, text'[at[k + 1]])
    BY DEF Tight, Apart, Height
  <2>1. k \in 1..Len(at) /\ k + 1 \in 1..Len(at)
    BY <1>1
  <2>2. text'[at[k]] = text[at[k]] /\ text'[at[k + 1]] = text[at[k + 1]]
    BY <1>1, <2>1
  <2>. QED BY <2>2 DEF Sound, Tight
<1>5. Boxed(at, b)'
  BY <1>1 DEF Sound, Boxed
<1>. QED BY <1>3, <1>4, <1>5 DEF Sound

(* Words that part at a break go on to do so as the text grows.             *)
LEMMA PartedStays ==
  ASSUME NEW at, NEW i, Grown, Last(at) \in 1..Len(text), i \in 1..Len(text), Parted(at, i)
  PROVE  Parted(at, i)'
<1>1. text'[Last(at)] = text[Last(at)] /\ text'[i] = text[i]
  BY DEF Grown
<1>. QED BY <1>1 DEF Parted, Last, Apart, Height

(* What holds of the words emitted goes on to hold as the text grows.       *)
LEMMA OrderlyStays ==
  ASSUME NEW ws, Len(ws) \in Nat, Orderly(ws), Grown
  PROVE  Orderly(ws)'
<1>1. \A w \in 1..Len(ws) : Sound(ws[w].at, ws[w].box)'
  BY SoundStays DEF Orderly
<1>2. \A w \in 1..Len(ws) : Last(ws[w].at) \in 1..Len(text) /\ ws[w].at[1] \in 1..Len(text)
  BY RunFacts DEF Orderly, Sound, Grown
<1>3. ASSUME NEW w \in 1..(Len(ws) - 1)
      PROVE  Parted(ws[w].at, ws[w + 1].at[1])'
  <2>1. w \in 1..Len(ws) /\ w + 1 \in 1..Len(ws)
    OBVIOUS
  <2>2. Parted(ws[w].at, ws[w + 1].at[1])
    BY DEF Orderly
  <2>. QED BY <1>2, <2>1, <2>2, PartedStays
<1>. QED BY <1>1, <1>3 DEF Orderly, Last

-----------------------------------------------------------------------------
(* The end of a word *)

(* flush() adds a word box or nothing.                                      *)
LEMMA FlushedTypes ==
  ASSUME TypeOK
  PROVE  Flushed \in Seq(Words) /\ \A w \in 1..Len(Flushed) : Upright(Flushed[w].box)
<1>. DEFINE word == [at |-> cur, box |-> box]
<1>1. word \in Words /\ Upright(word.box) /\ words \in Seq(Words)
  BY DEF TypeOK, Words
<1>2. \A w \in 1..Len(words) : Upright(words[w].box)
  BY DEF TypeOK
<1>. HIDE DEF word
<1>3. Append(words, word) \in Seq(Words)
      /\ \A w \in 1..Len(Append(words, word)) : Upright(Append(words, word)[w].box)
  BY <1>1, <1>2
<1>. QED BY <1>1, <1>2, <1>3 DEF Flushed, word

(* The current word takes its place after the others, unless nothing in it  *)
(* can be read.                                                             *)
LEMMA FlushedWords ==
  ASSUME TypeOK, Orderly(words), Walking, pc = "walk"
  PROVE  /\ Orderly(Flushed)
         /\ \A w \in 1..Len(Flushed) : Last(Flushed[w].at) <= Len(text)
         /\ \A i : Holding(words, i) => Holding(Flushed, i)
         /\ \A i : CanBeRead(i) /\ Holds(cur, i) => Holding(Flushed, i)
         /\ Flushed # <<>> /\ Last(Flushed[Len(Flushed)].at) = Len(text) => cur # <<>>
<1>1. Len(text) \in Nat /\ Len(words) \in Nat /\ words \in Seq(Words)
  BY DEF TypeOK
<1>2. \A w \in 1..Len(words) : Last(words[w].at) \in 1..Len(text) /\ text[Last(words[w].at)].kind # "space"
  <2>. SUFFICES ASSUME NEW w \in 1..Len(words)
                PROVE  Last(words[w].at) \in 1..Len(text) /\ text[Last(words[w].at)].kind # "space"
    OBVIOUS
  <2>1. Positions(words[w].at)
    BY DEF Orderly, Sound
  <2>2. Len(words[w].at) \in 1..Len(words[w].at) /\ Last(words[w].at) \in 1..Len(text)
    BY <1>1, <2>1, RunFacts
  <2>. QED BY <2>1, <2>2 DEF Last, Positions
<1>3. CASE ~Readable(cur)
  <2>1. Flushed = words
    BY <1>3 DEF Flushed
  <2>2. \A i : ~(CanBeRead(i) /\ Holds(cur, i))
    BY <1>3 DEF Readable, CanBeRead, Holds
  <2>3. ASSUME words # <<>>, Last(words[Len(words)].at) = Len(text)
        PROVE  cur # <<>>
    <3>1. Len(words) \in 1..Len(words)
      BY <1>1, <2>3
    <3>2. Len(text) \in 1..Len(text) /\ text[Len(text)].kind # "space"
      BY <1>2, <2>3, <3>1
    <3>. QED BY <1>1, <3>2 DEF Walking
  <2>. QED BY <1>1, <1>2, <2>1, <2>2, <2>3
<1>4. CASE Readable(cur)
  <2>. DEFINE word == [at |-> cur, box |-> box]
  <2>1. cur # <<>> /\ Sound(cur, box) /\ Last(cur) = Len(text) /\ Follows(words, cur[1])
    BY <1>4 DEF Readable, Walking, TypeOK
  <2>2. word.at = cur /\ word.box = box
    OBVIOUS
  <2>. HIDE DEF word
  <2>3. Flushed = Append(words, word)
    BY <1>4 DEF Flushed, word
  <2>4. /\ Len(Flushed) = Len(words) + 1
        /\ \A w \in 1..Len(words) : Flushed[w] = words[w]
        /\ Flushed[Len(words) + 1] = word
    BY <1>1, <2>3
  <2>5. \A w \in 1..Len(Flushed) : Sound(Flushed[w].at, Flushed[w].box)
    BY <1>1, <2>1, <2>2, <2>4 DEF Orderly
  <2>6. ASSUME NEW v \in 1..Len(Flushed), NEW w \in 1..Len(Flushed), v < w
        PROVE  Last(Flushed[v].at) < Flushed[w].at[1]
    <3>1. v \in 1..Len(words)
      BY <1>1, <2>4, <2>6
    <3>2. CASE w \in 1..Len(words)
      BY <2>4, <2>6, <3>1, <3>2 DEF Orderly
    <3>3. CASE w = Len(words) + 1
      BY <2>1, <2>2, <2>4, <3>1, <3>3 DEF Follows
    <3>. QED BY <1>1, <2>4, <3>2, <3>3
  <2>7. ASSUME NEW w \in 1..(Len(Flushed) - 1)
        PROVE  Parted(Flushed[w].at, Flushed[w + 1].at[1])
    <3>1. w \in 1..Len(words)
      BY <1>1, <2>4
    <3>2. CASE w = Len(words)
      BY <1>1, <2>1, <2>2, <2>4, <3>1, <3>2 DEF Follows
    <3>3. CASE w # Len(words)
      <4>1. w \in 1..(Len(words) - 1) /\ w + 1 \in 1..Len(words)
        BY <1>1, <3>1, <3>3
      <4>. QED BY <2>4, <3>1, <4>1 DEF Orderly
    <3>. QED BY <3>2, <3>3
  <2>8. \A w \in 1..Len(Flushed) : Last(Flushed[w].at) <= Len(text)
    BY <1>1, <1>2, <2>1, <2>2, <2>4
  <2>9. \A i : Holding(words, i) \/ Holds(cur, i) => Holding(Flushed, i)
    BY <1>1, <2>2, <2>4 DEF Holding
  <2>. QED BY <2>1, <2>5, <2>6, <2>7, <2>8, <2>9 DEF Orderly
<1>. QED BY <1>3, <1>4

(* Before the first character there is no word.                             *)
LEMMA InitIInv == Init => IInv
<1>. SUFFICES ASSUME Init PROVE IInv
  OBVIOUS
<1>1. TypeOK
  BY WordBoxesAssumption DEF WordBoxesAssumption, Init, TypeOK, NoBox, Boxes, Upright
<1>. QED BY <1>1 DEF Init, IInv, Orderly, Walking, Covered

(* White space ends a word. *)
LEMMA SpaceKeeps ==
  ASSUME IInv, ReadSpace
  PROVE  IInv'
<1>1. PICK g \in Glyphs : g.kind = "space" /\ text' = Append(text, g)
  BY DEF ReadSpace
<1>2. /\ pc = "walk" /\ Len(text) < MaxChars
      /\ words' = Flushed /\ cur' = <<>> /\ prevBaseline' = -1 /\ prevRight' = -1
      /\ UNCHANGED <<pc, box, prevHeight, layer>>
  BY DEF ReadSpace
<1>3. Grown /\ Len(text') = Len(text) + 1 /\ text'[Len(text) + 1] = g
  BY <1>1, TextGrows DEF IInv
<1>4. TypeOK'
  <2>1. text' \in Seq(Glyphs) /\ Len(text') <= MaxChars
    BY <1>1, <1>2, <1>3, WordBoxesAssumption DEF IInv, TypeOK, WordBoxesAssumption
  <2>. QED BY <1>2, <2>1, FlushedTypes DEF IInv, TypeOK
<1>5. Orderly(words)'
  <2>1. Len(Flushed) \in Nat
    BY FlushedTypes DEF IInv
  <2>2. Orderly(Flushed)
    BY <1>2, FlushedWords DEF IInv
  <2>3. \A ws : ws = Flushed => Orderly(ws)'
    BY <1>3, <2>1, <2>2, OrderlyStays
  <2>. QED BY <1>2, <2>3
<1>6. Walking'
  BY <1>1, <1>2, <1>3 DEF Walking
<1>7. Covered'
  <2>. SUFFICES ASSUME NEW i \in 1..Len(text'), CanBeRead(i)'
                PROVE  Holding(Flushed, i)
    BY <1>2 DEF Covered, Holding, Holds
  <2>1. i \in 1..Len(text) /\ CanBeRead(i)
    BY <1>1, <1>3 DEF CanBeRead, Grown
  <2>. QED BY <1>2, <2>1, FlushedWords DEF IInv, Covered
<1>. QED BY <1>4, <1>5, <1>6, <1>7 DEF IInv

(* Order of whole numbers is transitive.                                    *)
LEMMA AtMost ==
  ASSUME NEW a \in Int, NEW b \in Int, NEW c \in Int, a <= b, b <= c
  PROVE  a <= c
OBVIOUS

(* A sequence over a set is one over any larger set.                        *)
LEMMA SeqInto ==
  ASSUME NEW S, NEW T, NEW s \in Seq(S), \A k \in 1..Len(s) : s[k] \in T
  PROVE  s \in Seq(T)
OBVIOUS

(* A character that nothing sets apart from the one before joins its word.  *)
LEMMA CharJoins ==
  ASSUME IInv, pc = "walk", NEW g \in Glyphs, g.kind # "space", text' = Append(text, g),
         ~LineBreak(g), ~ColumnBreak(g), cur # <<>>,
         cur' = Append(cur, Len(text) + 1), box' = Widened(g)
  PROVE  /\ Sound(cur, box)'
         /\ cur'[1] = cur[1] /\ Last(cur') = Len(text')
<1>1. Grown /\ Len(text') = Len(text) + 1 /\ text'[Len(text) + 1] = g
  BY TextGrows DEF IInv
<1>2. /\ Sound(cur, box) /\ Last(cur) = Len(text)
      /\ prevBaseline = text[Len(text)].bottom /\ prevRight = text[Len(text)].right
      /\ prevHeight = Height(text[Len(text)])
  BY DEF IInv, Walking
<1>3. /\ Len(cur) \in Nat /\ Len(cur) >= 1
      /\ \A k \in 1..Len(cur) : cur[k] \in 1..Len(text) /\ text'[cur[k]] = text[cur[k]]
      /\ Len(text) = cur[1] + Len(cur) - 1 /\ cur[1] \in 1..Len(text)
      /\ Len(text) \in Nat /\ text \in Seq(Glyphs)
  BY <1>1, <1>2, RunFacts DEF Sound, Grown, IInv, TypeOK
<1>4. /\ Len(cur') = Len(cur) + 1
      /\ \A k \in 1..Len(cur) : cur'[k] = cur[k]
      /\ cur'[Len(cur) + 1] = Len(text) + 1
  BY DEF IInv, TypeOK
<1>5. cur'[1] = cur[1] /\ Last(cur') = Len(text')
  BY <1>1, <1>3, <1>4 DEF Last
<1>6. Positions(cur)'
  <2>1. cur \in Seq(1..Len(text')) /\ Len(text) + 1 \in 1..Len(text')
    <3>1. \A k \in 1..Len(cur) : cur[k] \in 1..Len(text')
      BY <1>1, <1>3
    <3>2. cur \in Seq(1..Len(text))
      BY <1>2 DEF Sound, Positions
    <3>3. cur \in Seq(1..Len(text'))
      BY <3>1, <3>2, SeqInto
    <3>4. Len(text) + 1 \in 1..Len(text')
      BY <1>1, <1>3
    <3>. QED BY <3>3, <3>4
  <2>2. cur' \in Seq(1..Len(text')) /\ cur' # <<>>
    BY <1>4, <2>1
  <2>3. ASSUME NEW k \in 1..Len(cur')
        PROVE  cur'[k] = cur'[1] + k - 1 /\ text'[cur'[k]].kind # "space"
    <3>1. CASE k \in 1..Len(cur)
      BY <1>2, <1>3, <1>4, <1>5, <3>1 DEF Sound, Positions, Run
    <3>2. CASE k = Len(cur) + 1
      BY <1>1, <1>3, <1>4, <1>5, <3>2
    <3>. QED BY <1>3, <1>4, <3>1, <3>2
  <2>. QED BY <2>2, <2>3 DEF Positions, Run
<1>7. Tight(cur)'
  <2>. SUFFICES ASSUME NEW k \in 1..(Len(cur') - 1),
                       text'[cur'[k]].bottom >= 0, text'[cur'[k]].right >= 0
                PROVE  ~Apart(text'[cur'[k]], text'[cur'[k + 1]])
    BY DEF Tight, Apart, Height
  <2>1. CASE k = Len(cur)
    <3>1. cur[k] = Len(text) /\ text'[cur'[k]] = text[Len(text)] /\ text'[cur'[k + 1]] = g
      BY <1>1, <1>2, <1>3, <1>4, <2>1 DEF Last
    <3>2. ~Apart(text[Len(text)], g)
      BY <1>2, <3>1 DEF Apart, LineBreak, ColumnBreak
    <3>. QED BY <3>1, <3>2
  <2>2. CASE k \in 1..(Len(cur) - 1)
    <3>1. k \in 1..Len(cur) /\ k + 1 \in 1..Len(cur)
      BY <1>3, <2>2
    <3>2. text'[cur'[k]] = text[cur[k]] /\ text'[cur'[k + 1]] = text[cur[k + 1]]
      BY <1>3, <1>4, <3>1
    <3>. QED BY <1>2, <2>2, <3>2 DEF Sound, Tight
  <2>. QED BY <1>3, <1>4, <2>1, <2>2
<1>8. Boxed(cur, box)'
  <2>. DEFINE c(k) == text'[cur'[k]]
  <2>1. \A k \in 1..Len(cur) : c(k) = text[cur[k]]
    BY <1>3, <1>4
  <2>2. c(Len(cur) + 1) = g
    BY <1>1, <1>4
  <2>3. \A k \in 1..Len(cur') : k \in 1..Len(cur) \/ k = Len(cur) + 1
    BY <1>3, <1>4
  <2>4. /\ box.left \in Int /\ box.bottom \in Int /\ box.right \in Int /\ box.top \in Int
        /\ g.left \in Int /\ g.bottom \in Int /\ g.right \in Int /\ g.top \in Int
    BY GlyphFacts DEF IInv, TypeOK, Boxes
  <2>5. \A k \in 1..Len(cur) :
          /\ text[cur[k]].left \in Int /\ text[cur[k]].bottom \in Int
          /\ text[cur[k]].right \in Int /\ text[cur[k]].top \in Int
    <3>1. \A k \in 1..Len(cur) : text[cur[k]] \in Glyphs
      BY <1>3
    <3>. QED BY <3>1, GlyphFacts
  <2>6. /\ box'.left = Smaller(box.left, g.left) /\ box'.bottom = Smaller(box.bottom, g.bottom)
        /\ box'.right = Larger(box.right, g.right) /\ box'.top = Larger(box.top, g.top)
    BY DEF Widened
  <2>. HIDE DEF c
  <2>7. /\ box'.left \in Int /\ box'.left <= box.left /\ box'.left <= g.left
         /\ box'.bottom \in Int /\ box'.bottom <= box.bottom /\ box'.bottom <= g.bottom
         /\ box'.right \in Int /\ box.right <= box'.right /\ g.right <= box'.right
         /\ box'.top \in Int /\ box.top <= box'.top /\ g.top <= box'.top
    BY <2>4, <2>6 DEF Smaller, Larger
  <2>8. ASSUME NEW k \in 1..Len(cur')
        PROVE  /\ box'.left <= c(k).left /\ box'.bottom <= c(k).bottom
               /\ c(k).right <= box'.right /\ c(k).top <= box'.top
    <3>1. CASE k = Len(cur) + 1
      BY <2>2, <2>7, <3>1
    <3>2. CASE k \in 1..Len(cur)
      <4>1. LET h == text[cur[k]]
            IN  box.left <= h.left /\ box.bottom <= h.bottom /\ h.right <= box.right /\ h.top <= box.top
        BY <1>2, <3>2 DEF Sound, Boxed
      <4>2. c(k) = text[cur[k]]
        BY <2>1, <3>2
      <4>3. /\ c(k).left \in Int /\ c(k).bottom \in Int /\ c(k).right \in Int /\ c(k).top \in Int
            /\ box.left <= c(k).left /\ box.bottom <= c(k).bottom
            /\ c(k).right <= box.right /\ c(k).top <= box.top
        BY <2>5, <3>2, <4>1, <4>2
      <4>4. box'.left <= c(k).left
        BY <2>4, <2>7, <4>3, AtMost
      <4>5. box'.bottom <= c(k).bottom
        BY <2>4, <2>7, <4>3, AtMost
      <4>6. c(k).right <= box'.right
        BY <2>4, <2>7, <4>3, AtMost
      <4>7. c(k).top <= box'.top
        BY <2>4, <2>7, <4>3, AtMost
      <4>. QED BY <4>4, <4>5, <4>6, <4>7
    <3>. QED BY <2>3, <3>1, <3>2
  <2>9. Len(cur) + 1 \in 1..Len(cur') /\ \A k \in 1..Len(cur) : k \in 1..Len(cur')
    BY <1>3, <1>4
  <2>10. /\ \E k \in 1..Len(cur') : c(k).left = box'.left
         /\ \E k \in 1..Len(cur') : c(k).bottom = box'.bottom
         /\ \E k \in 1..Len(cur') : c(k).right = box'.right
         /\ \E k \in 1..Len(cur') : c(k).top = box'.top
    BY <1>2, <2>1, <2>2, <2>6, <2>9 DEF Sound, Boxed, Smaller, Larger
  <2>. QED BY <2>8, <2>10 DEF Boxed, c
<1>. QED BY <1>5, <1>6, <1>7, <1>8 DEF Sound

(* Widening the current word keeps the invariant.                           *)
LEMMA JoinKeeps ==
  ASSUME IInv, ReadChar, NEW g \in Glyphs, g.kind # "space", text' = Append(text, g),
         ~LineBreak(g), ~ColumnBreak(g), cur # <<>>,
         UNCHANGED words, cur' = Append(cur, Len(text) + 1), box' = Widened(g),
         prevBaseline' = g.bottom, prevRight' = g.right, prevHeight' = Height(g)
  PROVE  IInv'
<1>1. pc = "walk" /\ Len(text) < MaxChars /\ UNCHANGED <<pc, layer>>
  BY DEF ReadChar
<1>2. Grown /\ Len(text') = Len(text) + 1 /\ text'[Len(text) + 1] = g
  BY TextGrows DEF IInv
<1>3. Sound(cur, box)' /\ cur'[1] = cur[1] /\ Last(cur') = Len(text')
  BY <1>1, CharJoins
<1>4. TypeOK'
  <2>1. text' \in Seq(Glyphs) /\ Len(text') <= MaxChars
    BY <1>1, <1>2, WordBoxesAssumption DEF IInv, TypeOK, WordBoxesAssumption
  <2>2. cur' \in Seq(Nat)
    BY DEF IInv, TypeOK
  <2>3. box' \in Boxes /\ Upright(box')
    <3>1. /\ box.left \in Int /\ box.bottom \in Int /\ box.right \in Int /\ box.top \in Int
          /\ box.left <= box.right /\ box.bottom <= box.top
      BY DEF IInv, TypeOK, Boxes, Upright
    <3>2. /\ g.left \in Int /\ g.bottom \in Int /\ g.right \in Int /\ g.top \in Int
          /\ g.left <= g.right /\ g.bottom <= g.top
      BY GlyphFacts DEF Box, Upright
    <3>. QED BY <3>1, <3>2 DEF Widened, Boxes, Upright, Smaller, Larger
  <2>4. prevBaseline' \in Int /\ prevRight' \in Int /\ prevHeight' \in Nat
    BY GlyphFacts
  <2>. QED BY <1>1, <2>1, <2>2, <2>3, <2>4 DEF IInv, TypeOK
<1>5. Len(words) \in Nat /\ Len(text) \in Nat
  BY DEF IInv, TypeOK
<1>6. Orderly(words)'
  <2>1. \A ws : ws = words => Orderly(ws)'
    BY <1>2, <1>5, OrderlyStays DEF IInv
  <2>. QED BY <2>1
<1>7. Walking'
  <2>1. Follows(words, cur[1]) /\ Sound(cur, box)
    BY <1>1 DEF IInv, Walking
  <2>2. cur[1] \in 1..Len(text) /\ \A w \in 1..Len(words) : Last(words[w].at) \in 1..Len(text)
    BY <1>5, <2>1, RunFacts DEF IInv, Orderly, Sound
  <2>3. words # <<>> => Len(words) \in 1..Len(words)
    BY <1>5 DEF IInv, TypeOK
  <2>4. ASSUME words # <<>>
        PROVE  \A at, i : at = words[Len(words)].at /\ i = cur[1] => Parted(at, i)'
    BY <1>2, <2>1, <2>2, <2>3, <2>4, PartedStays DEF Follows
  <2>5. Follows(words, cur[1])'
    BY <1>3, <2>1, <2>4 DEF Follows, Last
  <2>6. cur' # <<>> /\ text'[Len(text')] = g
    BY <1>2, <1>3 DEF Sound, Positions
  <2>7. Height(g)' = Height(g)
    BY DEF Height
  <2>. QED BY <1>3, <2>5, <2>6, <2>7 DEF Walking, Last
<1>8. Covered'
  <2>. SUFFICES ASSUME NEW i \in 1..Len(text'), CanBeRead(i)'
                PROVE  Holding(words, i) \/ Holds(cur', i)
    BY <1>1 DEF Covered, Holding, Holds
  <2>1. Len(cur) \in Nat /\ Len(cur') = Len(cur) + 1 /\ cur'[Len(cur) + 1] = Len(text) + 1
        /\ \A k \in 1..Len(cur) : cur'[k] = cur[k]
    BY DEF IInv, TypeOK
  <2>2. CASE i = Len(text) + 1
    BY <2>1, <2>2 DEF Holds
  <2>3. CASE i \in 1..Len(text)
    <3>1. Holding(words, i) \/ Holds(cur, i)
      BY <1>2, <2>3 DEF CanBeRead, Grown, IInv, Covered
    <3>2. Holds(cur, i) => Holds(cur', i)
      BY <2>1 DEF Holds
    <3>. QED BY <3>1, <3>2
  <2>. QED BY <1>2, <1>5, <2>2, <2>3
<1>. QED BY <1>4, <1>6, <1>7, <1>8 DEF IInv

(* A character that is set apart, or comes first, starts the next word.     *)
LEMMA StartKeeps ==
  ASSUME IInv, ReadChar, NEW g \in Glyphs, g.kind # "space", text' = Append(text, g),
         LineBreak(g) \/ ColumnBreak(g) \/ cur = <<>>,
         words' = Flushed, cur' = <<Len(text) + 1>>, box' = Box(g),
         prevBaseline' = g.bottom, prevRight' = g.right, prevHeight' = Height(g)
  PROVE  IInv'
<1>1. pc = "walk" /\ Len(text) < MaxChars /\ UNCHANGED <<pc, layer>>
  BY DEF ReadChar
<1>2. Grown /\ Len(text') = Len(text) + 1 /\ text'[Len(text) + 1] = g
  BY TextGrows DEF IInv
<1>3. Len(text) \in Nat /\ Len(Flushed) \in Nat /\ Flushed \in Seq(Words)
  BY FlushedTypes DEF IInv, TypeOK
<1>4. TypeOK'
  <2>1. text' \in Seq(Glyphs) /\ Len(text') <= MaxChars
    BY <1>1, <1>2, WordBoxesAssumption DEF IInv, TypeOK, WordBoxesAssumption
  <2>2. box' \in Boxes /\ Upright(box')
        /\ prevBaseline' \in Int /\ prevRight' \in Int /\ prevHeight' \in Nat
    BY GlyphFacts
  <2>3. cur' \in Seq(Nat)
    BY <1>3
  <2>. QED BY <1>1, <2>1, <2>2, <2>3, FlushedTypes DEF IInv, TypeOK
<1>5. Orderly(words)'
  <2>1. \A ws : ws = Flushed => Orderly(ws)'
    BY <1>1, <1>2, <1>3, FlushedWords, OrderlyStays DEF IInv
  <2>. QED BY <2>1
<1>6. Walking'
  <2>1. Len(cur') = 1 /\ cur'[1] = Len(text) + 1 /\ cur' # <<>>
    OBVIOUS
  <2>2. text'[cur'[1]] = g /\ Last(cur') = Len(text')
    BY <1>2, <2>1 DEF Last
  <2>3. Sound(cur, box)'
    <3>1. cur' \in Seq(1..Len(text'))
      BY <1>2, <1>3
    <3>2. Positions(cur)'
      BY <1>2, <1>3, <2>1, <2>2, <3>1 DEF Positions, Run
    <3>3. Boxed(cur, box)'
      BY <2>1, <2>2, GlyphFacts DEF Boxed, Box
    <3>. QED BY <2>1, <3>2, <3>3 DEF Sound, Tight
  <2>4. \A w \in 1..Len(Flushed) : Last(Flushed[w].at) \in 1..Len(text)
    BY <1>1, <1>3, FlushedWords, RunFacts DEF IInv, Orderly, Sound
  <2>5. ASSUME Flushed # <<>>
        PROVE  \A at, i : at = Flushed[Len(Flushed)].at /\ i = Len(text) + 1 => Parted(at, i)'
    <3>1. Len(Flushed) \in 1..Len(Flushed)
      BY <1>3, <2>5
    <3>2. ASSUME Last(Flushed[Len(Flushed)].at) = Len(text)
          PROVE  Apart(text[Len(text)], g) /\ Len(text) \in 1..Len(text)
      <4>1. cur # <<>>
        BY <1>1, <2>5, <3>2, FlushedWords DEF IInv
      <4>2. /\ prevBaseline = text[Len(text)].bottom /\ prevRight = text[Len(text)].right
            /\ prevHeight = Height(text[Len(text)]) /\ Last(cur) = Len(text) /\ Sound(cur, box)
        BY <1>1, <4>1 DEF IInv, Walking
      <4>3. Len(text) \in 1..Len(text)
        BY <1>3, <4>2, RunFacts DEF Sound
      <4>. QED BY <4>1, <4>2, <4>3 DEF Apart, LineBreak, ColumnBreak
    <3>3. Last(Flushed[Len(Flushed)].at) + 1 = Len(text) + 1
            => Last(Flushed[Len(Flushed)].at) = Len(text)
      BY <1>3, <2>4, <3>1
    <3>4. text'[Len(text) + 1] = g /\ \A i \in 1..Len(text) : text'[i] = text[i]
      BY <1>2 DEF Grown
    <3>. QED BY <3>2, <3>3, <3>4 DEF Parted, Last, Apart, Height
  <2>6. Follows(words, cur[1])'
    BY <1>3, <2>1, <2>4, <2>5 DEF Follows, Last
  <2>7. Height(g)' = Height(g)
    BY DEF Height
  <2>. QED BY <1>2, <2>1, <2>2, <2>3, <2>6, <2>7 DEF Walking, Last
<1>7. Covered'
  <2>. SUFFICES ASSUME NEW i \in 1..Len(text'), CanBeRead(i)'
                PROVE  Holding(Flushed, i) \/ Holds(cur', i)
    BY <1>1 DEF Covered, Holding, Holds
  <2>1. CASE i = Len(text) + 1
    BY <2>1 DEF Holds
  <2>2. CASE i \in 1..Len(text)
    <3>1. CanBeRead(i)
      BY <1>2, <2>2 DEF CanBeRead, Grown
    <3>. QED BY <1>1, <2>2, <3>1, FlushedWords DEF IInv, Covered
  <2>. QED BY <1>2, <1>3, <2>1, <2>2
<1>. QED BY <1>4, <1>5, <1>6, <1>7 DEF IInv

(* A character that is not white space keeps the invariant.                 *)
LEMMA CharKeeps ==
  ASSUME IInv, ReadChar
  PROVE  IInv'
<1>1. PICK g \in Glyphs :
         /\ g.kind # "space"
         /\ text' = Append(text, g)
         /\ IF LineBreak(g) \/ ColumnBreak(g) \/ cur = <<>>
            THEN words' = Flushed /\ cur' = <<Len(text) + 1>> /\ box' = Box(g)
            ELSE UNCHANGED words /\ cur' = Append(cur, Len(text) + 1) /\ box' = Widened(g)
         /\ prevBaseline' = g.bottom /\ prevRight' = g.right /\ prevHeight' = Height(g)
  BY DEF ReadChar
<1>2. CASE LineBreak(g) \/ ColumnBreak(g) \/ cur = <<>>
  BY <1>1, <1>2, StartKeeps
<1>3. CASE ~(LineBreak(g) \/ ColumnBreak(g) \/ cur = <<>>)
  BY <1>1, <1>3, JoinKeeps
<1>. QED BY <1>2, <1>3

(* At the end the current word takes its place. *)
LEMMA EndKeeps ==
  ASSUME IInv, EndWalk
  PROVE  IInv'
<1>1. /\ pc = "walk" /\ pc' = "paint" /\ words' = Flushed /\ cur' = <<>>
      /\ UNCHANGED <<text, box, prevBaseline, prevRight, prevHeight, layer>>
  BY DEF EndWalk
<1>2. TypeOK'
  BY <1>1, FlushedTypes DEF IInv, TypeOK
<1>3. Orderly(words)'
  <2>1. Len(Flushed) \in Nat
    BY FlushedTypes DEF IInv
  <2>2. \A ws : ws = Flushed => Orderly(ws)'
    BY <1>1, <2>1, FlushedWords, TextStays, OrderlyStays DEF IInv
  <2>. QED BY <1>1, <2>2
<1>4. Walking'
  BY <1>1 DEF Walking
<1>5. Covered'
  BY <1>1, FlushedWords DEF IInv, Covered, CanBeRead, Holding, Holds
<1>. QED BY <1>2, <1>3, <1>4, <1>5 DEF IInv

(* Painting leaves the words as they are.                                   *)
LEMMA PaintKeeps ==
  ASSUME IInv, PaintWords
  PROVE  IInv'
<1>1. /\ pc = "paint" /\ pc' = "done"
      /\ UNCHANGED <<text, cur, box, prevBaseline, prevRight, prevHeight, words>>
      /\ layer' = [w \in 1..Len(words) |->
                     [k \in 1..Len(words[w].at) |-> Painted(text[words[w].at[k]])]]
  BY DEF PaintWords
<1>2. Len(words) \in Nat /\ Len(text) \in Nat /\ text \in Seq(Glyphs)
  BY DEF IInv, TypeOK
<1>3. TypeOK'
  <2>. DEFINE T == Seq(Kinds \union {"?"})
  <2>1. ASSUME NEW w \in 1..Len(words)
        PROVE  [k \in 1..Len(words[w].at) |-> Painted(text[words[w].at[k]])] \in T
    <3>1. Len(words[w].at) \in Nat
          /\ \A k \in 1..Len(words[w].at) : words[w].at[k] \in 1..Len(text)
      BY <1>2, RunFacts DEF IInv, Orderly, Sound
    <3>2. \A k \in 1..Len(words[w].at) : text[words[w].at[k]] \in Glyphs
      BY <1>2, <3>1
    <3>3. \A k \in 1..Len(words[w].at) : Painted(text[words[w].at[k]]) \in Kinds \union {"?"}
      BY <3>2, GlyphFacts DEF Painted
    <3>. QED BY <3>1, <3>3
  <2>. HIDE DEF T
  <2>2. layer' \in Seq(T)
    BY <1>1, <1>2, <2>1
  <2>. QED BY <1>1, <2>2 DEF IInv, TypeOK, T
<1>4. Orderly(words)'
  <2>1. \A ws : ws = words => Orderly(ws)'
    BY <1>1, <1>2, TextStays, OrderlyStays DEF IInv
  <2>. QED BY <1>1, <2>1
<1>5. Walking' /\ Covered'
  BY <1>1 DEF IInv, Walking, Covered, CanBeRead, Holding, Holds
<1>. QED BY <1>3, <1>4, <1>5 DEF IInv

(* So does a step that changes nothing.                                     *)
LEMMA StutterKeeps ==
  ASSUME IInv, UNCHANGED vars
  PROVE  IInv'
<1>. USE DEF vars, IInv
<1>1. TypeOK'
  BY DEF TypeOK
<1>2. \A ws : ws = words => Orderly(ws)'
  BY TextStays, OrderlyStays DEF TypeOK
<1>3. \A at, b : at = cur /\ b = box /\ Sound(at, b) => Sound(at, b)'
  BY TextStays, SoundStays
<1>4. Follows(words, cur[1]) => Follows(words, cur[1])'
  BY DEF Follows, Parted, Last, Apart, Height
<1>5. Walking'
  BY <1>3, <1>4 DEF Walking, Last, Height
<1>6. Covered'
  BY DEF Covered, CanBeRead, Holding, Holds
<1>. QED BY <1>1, <1>2, <1>5, <1>6

(* The inductive invariant of the walk: the words emitted and the current   *)
(* one are the readable text so far, each with its bounding box.            *)
THEOREM AlwaysIInv == Spec => []IInv
<1>1. IInv /\ [Next]_vars => IInv'
  BY SpaceKeeps, CharKeeps, EndKeeps, PaintKeeps, StutterKeeps DEF Next
<1>. QED BY InitIInv, <1>1, PTL DEF Spec

-----------------------------------------------------------------------------
(* Boxes are boxes, and the text layer is text, whatever the page holds. *)
THEOREM WalkTypes == Spec => []TypeOK
<1>1. IInv => TypeOK
  BY DEF IInv
<1>. QED BY <1>1, AlwaysIInv, PTL

(* The words are the readable text of the page, in order and in place. *)
THEOREM TextIsCovered == Spec => []WordsCoverText
<1>1. IInv => WordsCoverText
  <2>. SUFFICES ASSUME IInv, Walked
                PROVE  WordsCoverText
    BY DEF WordsCoverText
  <2>1. \A i \in 1..Len(text) : CanBeRead(i) => Holding(words, i)
    BY DEF IInv, Covered, Walked
  <2>2. \A w \in 1..Len(words) : \A k \in 1..Len(At(w)) : At(w)[k] \in 1..Len(text)
    <3>1. Len(text) \in Nat
      BY DEF IInv, TypeOK
    <3>2. \A w \in 1..Len(words) : Positions(At(w))
      BY DEF IInv, Orderly, Sound, At
    <3>. QED BY <3>1, <3>2, RunFacts
  <2>. QED BY <2>1, <2>2 DEF IInv, Orderly, Sound, Positions, Last, At, CanBeRead,
       Holding,
                             Holds, WordsCoverText
<1>. QED BY <1>1, AlwaysIInv, PTL

(* Two neighbouring characters are in one word exactly if nothing sets them *)
(* apart, on the page's positive side.                                      *)
THEOREM BreaksPart == Spec => []WordsPartAtBreaks
<1>1. IInv => WordsPartAtBreaks
  <2>. SUFFICES ASSUME IInv, Walked
                PROVE  WordsPartAtBreaks
    BY DEF WordsPartAtBreaks
  <2>1. \A w \in 1..Len(words) : Tight(At(w))
    BY DEF IInv, Orderly, Sound, At
  <2>2. \A w \in 1..(Len(words) - 1) : Parted(At(w), At(w + 1)[1])
    BY DEF IInv, Orderly, At
  <2>. QED BY <2>1, <2>2 DEF Tight, Parted, Last, WordsPartAtBreaks
<1>. QED BY <1>1, AlwaysIInv, PTL

-----------------------------------------------------------------------------
(* The layer shows each character of each word as _build_text_ops paints it. *)

Painting ==
  pc = "done" =>
    \A w \in 1..Len(words) : \A k \in 1..Len(At(w)) : layer[w][k] = Painted(text[At(w)[k]])

(* What is left of the promise LayerFaithful breaks: every ASCII character  *)
(* of the input stands in the layer, in the word it stood in; the layer is  *)
(* faithful to a page of such characters; and where it is not, a character  *)
(* outside ASCII became "?" (_build_text_ops and its errors="replace").     *)
THEOREM AsciiSurvives ==
  Spec => [](pc = "done" =>
    /\ \A i \in 1..Len(text) : text[i].kind = "ascii" =>
         \E w \in 1..Len(words) : \E k \in 1..Len(At(w)) :
           At(w)[k] = i /\ layer[w][k] = "ascii"
    /\ (\A i \in 1..Len(text) : text[i].kind # "other") => LayerFaithful
    /\ \A w \in 1..Len(words) : \A k \in 1..Len(At(w)) :
         \/ layer[w][k] = text[At(w)[k]].kind
         \/ layer[w][k] = "?" /\ text[At(w)[k]].kind = "other")
<1>. DEFINE Kept ==
       /\ \A i \in 1..Len(text) : text[i].kind = "ascii" =>
            \E w \in 1..Len(words) : \E k \in 1..Len(At(w)) :
              At(w)[k] = i /\ layer[w][k] = "ascii"
       /\ (\A i \in 1..Len(text) : text[i].kind # "other") => LayerFaithful
       /\ \A w \in 1..Len(words) : \A k \in 1..Len(At(w)) :
            \/ layer[w][k] = text[At(w)[k]].kind
            \/ layer[w][k] = "?" /\ text[At(w)[k]].kind = "other"
<1>1. Init => Painting
  BY DEF Init, Painting
<1>2. IInv /\ Painting /\ [Next]_vars => Painting'
  <2>. SUFFICES ASSUME IInv, Painting, [Next]_vars, pc' = "done"
                PROVE  \A w \in 1..Len(words') : \A k \in 1..Len(At(w)') :
                         layer'[w][k] = Painted(text'[At(w)'[k]])
    BY DEF Painting, Painted
  <2>1. CASE ReadSpace \/ ReadChar \/ EndWalk
    BY <2>1 DEF ReadSpace, ReadChar, EndWalk
  <2>2. CASE PaintWords
    BY <2>2 DEF PaintWords, At, Painted
  <2>3. CASE UNCHANGED vars
    BY <2>3 DEF vars, Painting, At, Painted
  <2>. QED BY <2>1, <2>2, <2>3 DEF Next
<1>3. WordsCoverText /\ Painting => (pc = "done" => Kept)
  <2>. SUFFICES ASSUME WordsCoverText, Painting, pc = "done" PROVE Kept
    OBVIOUS
  <2>1. \A w \in 1..Len(words) : \A k \in 1..Len(At(w)) :
          /\ layer[w][k] = Painted(text[At(w)[k]])
          /\ At(w)[k] \in 1..Len(text)
    BY DEF Painting, WordsCoverText, Walked
  <2>2. ASSUME NEW i \in 1..Len(text), text[i].kind = "ascii"
        PROVE  \E w \in 1..Len(words) : \E k \in 1..Len(At(w)) :
                 At(w)[k] = i /\ layer[w][k] = "ascii"
    <3>1. PICK w \in 1..Len(words) : \E k \in 1..Len(At(w)) : At(w)[k] = i
      BY <2>2 DEF WordsCoverText, Walked
    <3>2. PICK k \in 1..Len(At(w)) : At(w)[k] = i
      BY <3>1
    <3>. QED BY <2>1, <2>2, <3>2 DEF Painted
  <2>3. (\A i \in 1..Len(text) : text[i].kind # "other") => LayerFaithful
    BY <2>1 DEF LayerFaithful, Painted
  <2>4. \A w \in 1..Len(words) : \A k \in 1..Len(At(w)) :
            \/ layer[w][k] = text[At(w)[k]].kind
            \/ layer[w][k] = "?" /\ text[At(w)[k]].kind = "other"
    BY <2>1 DEF Painted
  <2>. QED BY <2>2, <2>3, <2>4
<1>. QED BY <1>1, <1>2, <1>3, AlwaysIInv, TextIsCovered, PTL DEF Spec
=============================================================================
