\* Two imports and two writers of the catalog; two requests and four transactions
\* on one recipe's tweaks; one slot of an event at 10:00, of at most four steps,
\* and one hand edit.  The transactions on the tweaks are bounded, so a behaviour
\* may end.
SPECIFICATION AllSpec
CONSTANTS
  Imports = {m1, m2}
  Writers = {w1, w2}
  Nobody = Nobody
  Pages = 2
  MaxWrites = 2
  Requests = {q1, q2}
  MaxBegun = 4
  Linkable <- MCRecipeSteps
  Changes <- MCDeltas
  Durations <- MCDurations
  Target = 600
  Granularity = 15
  MaxSteps = 4
  MaxEdits = 1
SYMMETRY MCSymmetry
CHECK_DEADLOCK FALSE
INVARIANTS InstalledFresh DriftFlagged TimelineCorrect OverlayFaithful
