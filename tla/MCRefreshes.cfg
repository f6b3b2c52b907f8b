\* Two verifiers, two rotations of the provider's key and one failed fetch; two
\* recipes of which the first can never be embedded, two saving requests, one
\* place in the runner, one fault and one stop.
SPECIFICATION AllSpec
CONSTANTS
  Background = Background
  NoFetch = NoFetch
  Fetches = {f1, f2}
  Verifiers = {v1, v2}
  MaxRotations = 2
  MaxFaults = 1
  Recipes = {1, 2}
  Broken = {1}
  Saves = {s1, s2}
  Sweeper = Sweeper
  Capacity = 1
  BatchSize = 2
  MaxVersion = 1
  MaxStops = 1
INVARIANTS RunnerDrains
PROPERTIES NeverOlder KeysCatchUp EventuallyEmbedded
