\* Two clients and a player whose handshake failed: three frames let a client
\* miss a deadline and catch up none.  Or three clients, of which the second can
\* be dropped between the sends to the first and the third: one frame shows that.
CONSTANTS
  Players = {1, 2, 3}
  Lobbies = {{1, 2}, {1, 2, 3}}
  SendBuffer = 2
  MayFragment = TRUE
  MaxFrame = 3
  Crowd = 3
SPECIFICATION FairSpec
INVARIANT TypeOK
INVARIANT PipelineConsecutive
INVARIANT LagIsMissedDeadlines
INVARIANT DroppedClientsLeave
INVARIANT VersionsDifferByDropped
PROPERTY FramesEnd
CHECK_DEADLOCK FALSE
