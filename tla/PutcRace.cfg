CONSTANTS
  LongMod = 65536
  ShortMod = 256
  W = 4
  H = 3
  Char <- MCChar
  CmosBytes = {68}
  Note <- MCNote
  BrkMax = 26
  PageSize = 20
  TypeNames <- MCTypeNames
  KeyText <- MCKeyText
  Presses = 2
  Mixing = TRUE
  Widths = {0, 1, 4, 12}
  Words <- MCWords
  Texts = {}
SPECIFICATION Spec
INVARIANTS StoresOnScreen
