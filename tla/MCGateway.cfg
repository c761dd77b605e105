SPECIFICATION Spec
CONSTANTS
  Sessions = {s1, s2}
  Fds = {f1, f2}
  Tokens = {a}
  TokenPoolSize = 2
  MaxPending = 2
  RequestQSize = 1
  ResponseQSize = 1
  StableSortLimit = 2
  MaxTime = 2
  MaxMessages = 4
SYMMETRY Symmetry
INVARIANTS NothingLost TokensResolve ResponsesReachOwner SocketsOpen RoundSorted ClientFifo SequencerSupport TokenSupport
