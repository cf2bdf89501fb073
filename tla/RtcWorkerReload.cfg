\* A page that connects and is left, its reload, and another tab.
SPECIFICATION Spec
CONSTANTS
  Pages = {p1, p2, p3}
  MaxStarts = 1
  MaxTalk = 0
PROPERTIES
  ReattachesSurvivors
CHECK_DEADLOCK FALSE
