SPECIFICATION PartsSpec
CONSTANTS
  a = a
  b = b
  c = c
  t = t
  u = u
  x = x
  y = y
  e = e
  f = f
  g = g
  None = None
  Null = Null
  Ignored = Ignored
  UpdateCall = UpdateCall
  Yield = Yield
  Empty = Empty
  States <- MCStates
  Transitions <- MCTransitions
  Rows <- MCRows
  MaxDepth = 3
  HStates <- MCHStates
  HTransitions <- MCHTransitions
  Parent <- HParent
  DefaultSub <- HDefaultSub
  DefaultState = "walk"
  Takes <- HTakes
  Guarded <- HGuarded
  ParentUpdate = {"slow"}
  Tasks <- PTasks
  Methods <- PMethods
  Actions <- PActions
  MethodsOf <- PMethodsOf
  SubtasksOf <- PSubtasksOf
  Worlds <- PWorlds
  Holds <- PHolds
  Effect <- PEffect
  Expected <- PExpected
  Period <- CalendarPeriod
  MonthStarts = {0, 3, 5, 8, 10}
  YearStarts = {0, 5, 10}
  MeanMonth <- CalendarMonth
  MeanYear <- CalendarYear
  StartTime = 0
  TimerCallbacks = {x, y}
  Deadlines = {1, 30}
  Steps = {7, 30}
  Horizon = 104
  Channels = {0}
  EventEnum = {e}
  Subscribers = {f, g}
  Capacity = 2
  MaxNotifiers = 1
  MaxIds = 3
  MaxWalks = 2
  Sentinel = 4
  MaxDeclared = 2
  TreeSize = 5
SYMMETRY Symmetry
INVARIANTS
  ReadStateHolds
  RestsInCurrent
  RunsThrough
  IdsLeadHome
  CallsWhoWasThere
  GraphAsBuilt
  TraversalsAgree
PROPERTIES
  ExitOnce
  EnterAfterExit
  EntersAndExitsNest
  UpdatesTheActive
  PlanSound
  ImplementsPlanRun
  AnnouncesWhatBegan
  CallsTheDue
