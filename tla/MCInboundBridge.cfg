SPECIFICATION FairSpec
CONSTANTS
  urgent = urgent
  first = first
  second = second
  low = low
  Messages = {urgent, first, second, low}
  NoMessage = NoMessage
  Priority <- MCPriority
  MayFailToDeliver = TRUE
INVARIANTS
  NothingIsDropped
PROPERTIES
  AnswersAreEarned
  TurnsGoInOrder
  EveryMessageIsAnswered
