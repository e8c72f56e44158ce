SPECIFICATION Spec
CONSTANTS
  Bytes = 256
  Characters = 62
  Texts <- ShortTexts
  Headers <- ShortHeaders
  None = None
CHECK_DEADLOCK FALSE
INVARIANTS CharactersAreEven BestLanguageIsSpoken PiecesRebuildTheText
