CONSTANTS
  Words <- MCWords
  Args = {0, 7}
SPECIFICATION Spec
INVARIANT AnswerTellsServed
PROPERTY NothingReplayed
