SPECIFICATION ComponentsSpec
CONSTANTS
  Creator = creator
  o1 = o1
  o2 = o2
  p = p
  q = q
  r = r
  Openers <- TwoOpeners
  MaxOpens = 4
  Interval = 3
  Word = 64
  MaxClock = 14
  Party <- ThreeProcesses
  MaxMade = 3
  MaxPosts = 1
  Writers <- TwoThreads
  First = p
  Every = 3
  CountWord = 5
  MaxLines = 7
  MaxOverlaps = 1
  Name <- MCName
  XmlFiles <- MCXmlFiles
  JsonFiles <- MCJsonFiles
  Settings <- MCSettings
  Instruments = 2
  Zones <- MCZones
  FullBlock = 2
  Dates <- MCDates
  BarFiles <- MCBarFiles
  MaxDays = 3
  Stocks = 5
  Threads = 3
  Window = 2
  Bars <- MCBars
  Lengths <- MCLengths
  Growth = 4
  Stack = 8
  MaxCalls = 4
INVARIANTS
  DestroyedAtMostOnce
  NeverEarly
  NeverSleepsPastABeat
  StartsAfresh
  LinesReadRight
  AnswersAreOfTheName
  XmlBeforeJson
  BarsOfTheRange
  TicksOfEachDay
  ResultsWhole
  RoomForEveryString
CHECK_DEADLOCK FALSE
