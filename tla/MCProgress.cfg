SPECIFICATION MCSpec
CONSTANTS
  HANDLER_COUNT = 2
  Sensors = {"baro", "mag", "hum"}
  MaxMarks = 2
  AUDIO_FRAME_LEN = 2
  Lengths = {0, 1, 3}
  Word = 16
  MaxSounds = 2
INVARIANT BusSafe
INVARIANT ReaderSafe
INVARIANT ButtonSafe
 
PROPERTY CountdownSafe
PROPERTY DriversProceed
PROPERTY RemotesProceed
CHECK_DEADLOCK FALSE
