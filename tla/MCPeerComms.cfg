SPECIFICATION FairCommsSpec
CONSTANTS
  task = task
  question = question
  t1 = t1
  t2 = t2
  q1 = q1
  q2 = q2
  Messages = {t1, t2, q1, q2}
  NoMessage = NoMessage
  Outgoing = {task, question}
  MessageOf <- MCMessageOf
  MaxAttempts <- MCMaxAttempts
  Priority <- MCPriority
  DeadLetter = {task}
  MayFailToDeliver = TRUE
  Sluggish = TRUE
  MayCrash = TRUE
  MaxSent = 1
  MaxRestarts = 1
INVARIANTS
  ShutdownAnswers
  ActiveMessagesAreAwaitable
  AnswersTellTheTruth
PROPERTIES
  UsesBridge
  NoRetryAfterCancel
  EveryDispatchEnds
