SPECIFICATION AllSpec
CONSTANTS
  Unit = 2
  Native = FALSE
  Cap = 2
  Hold = 2
  Below = 3
  Scratch = 2
  Fails = TRUE
  Bytes = 9
  Bindings = {TRUE, FALSE}
  Public = 2
  Transform = 3
  Source = 3
  Units = {"CR", "LF", "x"}
  Texts <- AllTexts
  Streams <- AllStreams
  Windows = {0, 1, 2, 3}
INVARIANTS OutputInOrder InputInOrder EndsOfLines
PROPERTIES FlushShows ReadsInTurn ConversionsEnd
CHECK_DEADLOCK FALSE
