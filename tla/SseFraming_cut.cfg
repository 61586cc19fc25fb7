SPECIFICATION FramingSpec
CONSTANTS
  Streams <- SmallStreams
  MaxLine = 8
  MaxEvent = 8
  MaxLines = 4
CHECK_DEADLOCK FALSE
INVARIANT CutCharactersRead
