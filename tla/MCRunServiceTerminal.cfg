\* Two transitions validated against the same status.
SPECIFICATION Spec
CONSTANTS
  run = run  s1 = s1  r1 = r1  r2 = r2  r3 = r3  c1 = c1  nobody = nobody
  Run <- run
  Stages <- MCStages
  Requests <- MCRequests
  Streams <- MCStreams
  Nobody <- nobody
  MaxCrashes = 0
CHECK_DEADLOCK FALSE
PROPERTIES
  TerminalIsFinal
