\* Effects run in turns of their own or inside the turn of a saga.
SPECIFICATION PollSpec
CONSTANTS
  c1 = c1
  c2 = c2
  PollId <- MCPollId
  MaxRenders = 5
INVARIANTS
  RegisteredIffPolled
PROPERTY
  PollEnds
CHECK_DEADLOCK FALSE
