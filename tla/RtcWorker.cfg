\* Two pages, open at once or one after the other, two attempts to connect.
SPECIFICATION Spec
CONSTANTS
  Pages = {p1, p2}
  MaxStarts = 2
  MaxTalk = 1
SYMMETRY Symmetry
INVARIANTS
  TypeOK
  StateMirrored
  ConnectedMeansOpen
  NoLeakByOnePage
  CodeIsOwn
  FallbackIsFinal
  AnswerOnItsWay
CHECK_DEADLOCK FALSE
