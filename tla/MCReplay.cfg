CONSTANTS
  Options <- TheOptions
SPECIFICATION MCSpec
INVARIANT ReplayMeansTheSame
