CONSTANTS
  r1 = r1
  r2 = r2
  r3 = r3
  tetris = tetris
  zelda = zelda
  pong = pong
  mario = mario
  Requests = {r1, r2, r3}
  Titles = {tetris, zelda, pong, mario}
  TitleOf <- MCTitleOf
  Base = {mario}
  MaxGames = 3
  Nobody = nobody
  Earlier = earlier
SPECIFICATION FairSpec
CHECK_DEADLOCK FALSE
INVARIANTS CatalogSound FiledForGood
PROPERTIES RomsRetained LockHandedOn
