SPECIFICATION FairMainSpec
CONSTANTS
  g1 = g1
  g2 = g2
  main = main
  timer = timer
  t1 = t1
  Thread = {g1, g2, main, timer}
  Loop = g1
  Topic = {t1}
  Nobody = Nobody
  Main = main
  Timer = timer
  MaxTests = 1
INVARIANTS
  EventWithinTopic
  OneSpanPerGroup
  OpenSpansKnown
  LostOnlyByExport
PROPERTIES
  ProcessEnds
CHECK_DEADLOCK FALSE
