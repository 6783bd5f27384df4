\* Three pool threads (two workers and the idle thread); driver code of the
\* states around the OS resume check makes up to MaxCalls calls.
SPECIFICATION FairSpec
CONSTANTS
  NumThreads = 3
  MaxTimers = 2
  cb1 = cb1
  cb2 = cb2
  Callbacks = {cb1}
  StaticLists <- OneStaticEntry
  ActiveStates <- ResumeStates
  MaxCalls = 4
  CurrentPhase = CurrentPhase
  NoPhase = NoPhase
INVARIANTS
  ThreadPlaces
  RunnableNeverEmpty
  BlockerAccounting
  ThreadHoldsPhase
PROPERTIES
  BootFinishes
