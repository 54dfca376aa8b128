SPECIFICATION Spec
CONSTANTS
  Character <- MCCharacter
  Byte <- MCByte
  Texts <- MCTexts
  Vocabularies <- MCVocabularies
  Utf8 <- MCUtf8
  Space = " "
  Metaspace = "_"
  Replacement = "?"
  MaxRank = 10
  MaxLength = 6
INVARIANT DecodeRestoresText
PROPERTY MergesHighestPair
\* Encode returns and is not called again.
CHECK_DEADLOCK FALSE
