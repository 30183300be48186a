SPECIFICATION Spec
CONSTANTS
  NumWeeks = 3
  Settings <- SomeSettings
  MaxMessage = 3
INVARIANTS
  TypeOK
  VisitedOnlyIfPresent
  TicksBeforeEvaluation
  WeeksInOrder
PROPERTY ImplementsReviewProtocol
