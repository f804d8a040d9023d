SPECIFICATION Spec
CONSTANTS
  Empty = Empty
  None = None
  Threads <- MCThreads
  Lens <- MCLens
  MaxAttempts = 2
  DeviceName <- MCName
  BodyLens <- MCBodyLens
  RegistrationWords <- MCRegistrationWords
  PreKeyWords <- MCPreKeyWords
INVARIANTS
  StoredIsLinked
  NoCodeSentTwice
  AnsweredIsStored
  SentIsValid
  UploadedKeysOnDisk
  NeverPanics
  EveryByteFresh
  ConnectedBeforeUse
  OnlyLargePanics
PROPERTIES
  AttemptEnds
CHECK_DEADLOCK FALSE
