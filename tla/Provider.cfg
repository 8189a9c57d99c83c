\* Three calls share a rate of two slots a window and one permit; Selcom answers
\* anything a 2xx body can say, fails at its edge, refuses, or does not answer.
SPECIFICATION Spec
CONSTANTS
  c1 = c1
  c2 = c2
  c3 = c3
  Calls <- ThreeCalls
  Mixes <- FiveMixes
  PerMinute = 2
  Concurrent = 1
  Threshold = 2
  Cooldown = 2
  Window = 3
  Poll = 2
INVARIANTS PromptedOnce RateHeld FailedMeansUndone
PROPERTIES CallEnds
