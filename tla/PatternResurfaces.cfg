\* Four prompts: the one that tied three of them together comes and goes.
CONSTANTS
  N = 4
  Similar <- Star
  MaxCount = 1
  BatchLimit = 10
  MaxAttempts = 1
  Legacy <- FirstKey
  VerdictCount = 1
  Tries = 1
SPECIFICATION MCSpec
PROPERTIES DismissedContentStaysSilent
