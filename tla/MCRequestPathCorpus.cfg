SPECIFICATION Spec
CONSTANTS
  Null = Null
  Unbound = Unbound
  MaxSubId = 5
  MaxCount = 5
  MaxInt = 2147483647
  MaxFloat = 2147483647
  MaxSize = 2147483647
  MaxModels = 4
  MaxNodes = 12
  MaxDependencies = 12
  MaxWorkers = 4
  MaxPayload = 8192
  MaxTextBytes = 8
  MinSampleRate = 1
  MaxSampleRate = 8
  WhisperRate = 2
  WhisperMinSamples = 1
  WhisperMaxSamples = 8
  MaxWordBytes = 4
  ImStart = 2001
  ImEnd = 2002
  SystemRole = 2003
  UserRole = 2004
  AssistantRole = 2005
  ProcessBatchLimit = 3
  MaxCalls = 2
  DefaultPrompt <- MCDefaultPrompt
  OutsideFiles <- MCOutsideFiles
  Files <- MCFiles
  Vocabulary <- MCVocabulary
  CodePoint <- MCCodePoint
  Scenarios <- MCEmptyCorpus
  OrtRun <- MCOrtRun
  Unit <- MCUnit
  InferletEncode <- MCInferletEncode
  InferletDecode <- MCInferletDecode
  InferletRun <- MCInferletRun
  WhisperRun <- MCWhisperRun
  Width <- MCWidth
  Size <- MCSize
  ParseJson <- MCParseJson
  Dump <- MCDump
  Compiles <- MCCompiles
  Search <- MCSearch
  Generate <- GenerateBy
  Embed <- EmbedBy
  Score <- ScoreBy
  Transcribe <- TranscribeBy
  Recognize <- RecognizeBy
  Speaks <- SpeaksBy
INVARIANT OneToOneOutputsFollowInputs
CHECK_DEADLOCK FALSE
