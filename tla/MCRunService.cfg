\* Concurrent requests and requests in turn, a follower, a restart.
SPECIFICATION FairSpec
CONSTANTS
  run = run  s1 = s1  r1 = r1  r2 = r2  r3 = r3  c1 = c1  nobody = nobody
  Run <- run
  Stages <- MCStages
  Requests <- MCRequests
  Streams <- MCStreams
  Nobody <- nobody
  MaxCrashes = 1
CHECK_DEADLOCK FALSE
INVARIANTS
  StampsAgree
  StreamsFaithful
  EventsFaithful
PROPERTIES
  StartedOnce
  FollowsMachine
  FollowersReleased
