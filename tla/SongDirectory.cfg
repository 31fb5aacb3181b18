SPECIFICATION SongsFairSpec
CONSTANTS
  Controls = {"search", "similar", "my", "playlist"}
  NumSongs = 3
  Numbers <- MCNumbers
  Intervals <- MCIntervals
  NumSearchFiles = 2
  MaxDirCalls = 4
  MaxCopies = 2
  Photo = Photo
  Refresh = Refresh
  Nested = Nested
  Similar = Similar
  NoDir = NoDir
INVARIANTS
  WindowShown
  CounterIsTrue
PROPERTIES
  HiddenAppear
CHECK_DEADLOCK FALSE
