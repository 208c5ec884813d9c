SPECIFICATION FairSpec
CONSTANTS
  Threads = {t1, t2}
  Games = {g1}
  Nobody <- MCNobody
  NoGame = NoGame
  Faults = {}
  AcceptedLimit = 2
  LossLimit = 3
  Attrs = {}
  Goals = {}
PROPERTIES
  NeverShrinks
  EveryGameEnds
