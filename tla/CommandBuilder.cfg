SPECIFICATION Spec
CONSTANTS
  Chars <- MCChars
  Names <- MCNames
  Lower <- MCLower
  Scenes <- MCScenes
  WithExtension <- MCWithExtension
INVARIANTS TypeOK ChildSeesEnvironment RunsWhatAShellRuns RoundTrip
\* A builder is converted and spawned once.
CHECK_DEADLOCK FALSE
