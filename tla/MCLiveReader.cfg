SPECIFICATION Spec
CONSTANTS
  Messages <- ThreeMessages
  Recording <- TheirCells
  Start <- TheirStarts
  Steps = 2
INVARIANTS TypeOK MessagesExact EndedRightly
PROPERTY ReadToEnd
CHECK_DEADLOCK FALSE
