\* All inputs of MCRules; times in quarters of a second, two letters to name with.
SPECIFICATION RulesSpec
CONSTANTS
  Recordings <- MCRecordings
  MinGap = 2
  MinSegment = 2
  MaxGap = 1
  Target = 3
  Letters = 2
  Starts <- MCStarts
  Counts <- MCCounts
  HolidaySets <- MCHolidaySets
  Glossaries <- MCGlossaries
  Limit = 19
INVARIANTS LongRunsStay NamesFollowOrder ClipIsOneVoice
           ExactPeriod
           WithinLimit LeftOutForLength FirstSpelling
PROPERTIES RunsShrink
\* All three come to an end.
CHECK_DEADLOCK FALSE
