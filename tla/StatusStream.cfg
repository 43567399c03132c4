\* Two openings of two sessions, one with speakers and one with reports; a fault or a
\* new recognition.
SPECIFICATION MCStreamSpec
CONSTANTS
  Sessions = {s1, s2}
  NoSession = NoSession
  Diarized = {s1}
  Reporting = {s2}
  MaxOpens = 2
  MaxRedos = 1
  MaxFaults = 1
INVARIANTS OwnScreen LostMeansGone
PROPERTIES SeenForward ResultIsShown SpeakersAreShown
CHECK_DEADLOCK FALSE
