CONSTANTS
  talk = talk
  call = call
  call2 = call2
  quiet = quiet
  odd = odd
  Answers <- AllContents
  KindOf <- Kind
  Scripts <- AllLoops
  Window = 20
  Threshold = 5
  NoToolThreshold = 3
  EmptyThreshold = 5
  MaxFree = 2
  MaxRunning = 2
  Stoppable <- Loops
  TalkOnly <- TalkLoops
SPECIFICATION Spec
PROPERTIES
  
  ResultsAreProcessed
  LoopsAreRepetitions
