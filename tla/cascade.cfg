SPECIFICATION FairSpec
CONSTANTS
  groq = groq
  mistral = mistral
  ollama = ollama
  FreeCloud <- TwoFree
  Local <- OneLocal
  Keyed <- BothKeys
  CB_FAILURE_THRESHOLD = 2
  MAX_CONSECUTIVE_ERRORS = 2
INVARIANTS
  PoorNeverPay
  ThreeStrikes
  PoolsEnteredOnce
PROPERTIES
  AnswersComeBack
