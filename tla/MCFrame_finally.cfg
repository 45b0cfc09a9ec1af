SPECIFICATION Spec
CONSTANTS
  Ancestors <- Tree
  Methods <- Replays
  MaxCalls = 4
  MaxReplays = 4
INVARIANT
  FollowsSource
