SPECIFICATION FairSpec
CONSTANTS
  Match = {m1, m2, m3}
  Start = {t1, t2}
  LiveAtFirst = {m1, m2}
  MaxVersion = 1
INVARIANTS TypeOK TwoLiveOnlyByOverlap
PROPERTIES StartEndsWhatItSaw StartsTerminate
CHECK_DEADLOCK FALSE
