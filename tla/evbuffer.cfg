SPECIFICATION Spec
CONSTANTS
  Buffers = {evb, evb_two}
  Slots = {1, 2, 3}
  NULL = NULL
  Junk = Junk
  CR = CR
  LF = LF
  Inputs <- TwoInputs
  MinBufferSize = 3
  ChainSize = 1
  MaxAutoSize = 4
  MaxToCopy = 1
  MaxToRealign = 2
  NumReadIovec = 3
  PrintfSpace = 2
  MaxLen = 3
  MaxCalls = 4
  MaxSettings = 3
  Sizes = {1, 3}
  FaultyCalls = {}
  evb = evb
  evb_two = evb_two
INVARIANTS TypeOK ChainsSound ViewsAreRight
PROPERTIES IsByteQueue
SYMMETRY Symmetry
CHECK_DEADLOCK FALSE
