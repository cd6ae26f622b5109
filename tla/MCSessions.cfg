SPECIFICATION MCSpec
CONSTANTS
  Modes = {"ACTIVE", "START", "CONFIG"}
  Transfers = {"READ", "WRITE", "DIR"}
  MaxMounts = 4
  MaxFaults = 1
  COUNT = 2
  BatchTarget = 2
  Wrap = 3
  MaxSamples = 4
  EVENT_COUNT = 2
  MaxEvents = 4
  CFG_HW_TS_MAX_NBR_CONCURRENT_TIMER = 4
  Altitudes = {1, 2, 4, 5}
  AltMin = 3
  StepSize = 2
  Alarms = {2}
  Windows = {1}
  MaxWords = 2
  SpRate = 2
  MaxSessions = 2
  LEN = 3
  Settings = 3
  MsgSettings = 2
  ErrorPhases = {"switch"}
  MaxTow = 2
  GnssFaults = 1
  MaxLate = 1
  GlassesLosses = 1
  GlassesFaults = 1
CONSTRAINT MCBound
INVARIANT CountsMatchHolders
INVARIANT FilesOnVolume
INVARIANT ReleasesMatch
INVARIANT PartsTypeOK
INVARIANT EventsKept
INVARIANT MeasurementsRight
INVARIANT ActiveMeasures
INVARIANT DisplayRight
INVARIANT TimesRight
PROPERTY RowsKept
PROPERTY SpeechClear
CHECK_DEADLOCK FALSE
