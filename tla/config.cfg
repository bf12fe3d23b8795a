CONSTANTS
  unset = unset
  Unset = unset
  Files <- AllFiles
  Requests <- AllRequests
SPECIFICATION Spec
INVARIANTS IInv LevelIsServed ProviderIsConfigured CountdownIsConfigured ServesOnlyChecked
CHECK_DEADLOCK FALSE
