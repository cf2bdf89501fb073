SPECIFICATION Spec
CONSTANTS
  Titles = {t1, t2}
  HostTitles = {t1, "none"}
  MaxActs = 1
  MaxLinks = 2
  Handlers = 2
INVARIANTS TypeOK TitlesAgree DeletedByWish
PROPERTIES AgreedIsDeleted RequestIsPut
CHECK_DEADLOCK FALSE
