SPECIFICATION Spec
CONSTANTS
  NumWeeks = 3
  Settings <- SomeSettings
  MaxMessage = 3
PROPERTY DraftStaysDraft
