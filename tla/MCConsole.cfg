CONSTANTS
  MaxBytes = 2
  StdinBufSize = 2
  Calls <- MCCalls
SPECIFICATION Spec
INVARIANTS
  ConsoleTypeOK
  HandshakeInvariant
  StreamInvariant
  HandlersAreUndisturbed
PROPERTIES
  ImplementsStream
  ProgramIsResumed
  HandlersReturn
  ProgramKeepsRunning
  BytesArrive
