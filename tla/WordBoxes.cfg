SPECIFICATION Spec
CONSTANTS
  Glyphs <- MCGlyphs
  MaxChars = 4
INVARIANTS
  TypeOK
  WordsCoverText
  WordsPartAtBreaks
CHECK_DEADLOCK FALSE
