SPECIFICATION FairSpec
CONSTANTS
  Files <- MCFiles
  Pids = {0, 1, 2}
  Texts <- MCTexts
  TEMPORARY_ATTEMPTS = 3
  VOLUME_DEFAULT = 2
  VOLUME_STEP = 2
  Loudest = 4
  Brightest = 3
  MaxRaw = 7
  Scopes <- MCScopes
CHECK_DEADLOCK FALSE
INVARIANTS SettingsAgree WrittenKept
PROPERTIES UsesFiles ComesUp
