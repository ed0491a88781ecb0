\* What a project keeps: its configuration and index, the machine's file, the inbox.
SPECIFICATION MCSpec
CONSTANTS
  a = a
  b = b
  c = c
  s = s
  Request = {r, q}
  Name = {a, b}
  SourceName = {s}
  Field = {"prompt"}
  Value = {0, 1}
  HandEdit <- HandEdits
  MaxWrite = 2
  MaxQueued = 1
  Updater = {u, v, w}
  MaxDeath = 1
  MaxRecycled = 1
  MaxWait = 1
  Finding = {f, g}
  Writer = {x, y}
  Loudest = 2
  Statuses = {"open", "fixed", "wontfix", "duplicate"}
  MaxPlan = 3
  Key = {a, b, c}
  Config <- Configs
INVARIANTS
  SyncAloneIndexesTheFile
  NoEditLostAmongTheLiving
  ProblemsAreWhatStopsIt
PROPERTIES
  NoEditErasesAnother
  NobodyWaitsForTheDead
  DismissalsYieldOnlyToARace
  LoopsTakeARace
\* Requests end, processes exit, and the inbox has writers enough.
CHECK_DEADLOCK FALSE
