SPECIFICATION NotifySpec
CONSTANTS
  Sub = {s1, s2}
  Buffer = 1
  MaxStarts = 2
  MaxCalls = 2
INVARIANTS NeverSendsOnClosed ResultFollowsStart OneEnding
CHECK_DEADLOCK FALSE
