\* Two turns, answered in one piece or streamed, of a conversation with or without
\* a title, with failures and clients that leave.
SPECIFICATION FairSpec
CONSTANTS
  Turns = {c1, c2}
  Modes = {"json", "stream"}
  Untitled = Untitled
  Given = Given
  Failures = TRUE
  None = None
INVARIANTS
  IInv
  ReplyHasQuestion
  AnsweredTurnsSeen
  FailedTurnLeavesNothing
  TitleByFirstTurn
PROPERTIES
  ImplementsLog
  EveryTurnEnds
