CONSTANTS
  Machines <- MCRadeon
  None = None
SPECIFICATION Spec
INVARIANTS AnswerMeansAccess
