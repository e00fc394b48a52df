SPECIFICATION Spec
CONSTANTS
  a1 = a1
  a2 = a2
  b1 = b1
  b2 = b2
  Units = {n1, n2}
  Questions = {"a", "b"}
  Options = {a1, a2, b1, b2}
  QuestionOf <- MCQuestionOf
  Multiple = {"b"}
  Forms = {{"a", "b"}}
  Overrides = {}
  Workers = {w1}
  Keep = Keep
  Absent = Absent
  None = None
SYMMETRY Symmetry
CHECK_DEADLOCK FALSE
INVARIANTS ElectionSingleChoice
