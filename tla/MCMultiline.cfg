CONSTANTS
  Contexts = {s1, s2}
  Numbers = {0, 1, 2}
  Plain = Plain
  NoContext = NoContext
  MaxMessages = 4
SPECIFICATION FairSpec
INVARIANTS
  EveryMessageOnce
  BlocksAreWhole
  LastTextWins
PROPERTIES
  EveryMessageComesOut
CHECK_DEADLOCK FALSE
