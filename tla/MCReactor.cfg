SPECIFICATION Spec
CONSTANTS
  n1 = n1
  n2 = n2
  None = None
  Second = 2
  Skew = 1
  Names <- NamesMC
  Nonces <- NoncesMC
  Templates <- TemplatesMC
  Answers <- AnswersMC
  MaxTime = 4
INVARIANTS
  OutcomeIsTheHandlers
CONSTRAINT PlainSecond
PROPERTIES
  ReplaysAreOutwaited
  FirstArrivalIsServed
\* The consumer ends, and so does the clock.
CHECK_DEADLOCK FALSE
