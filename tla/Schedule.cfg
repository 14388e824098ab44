\* Three systems over two keys, every mix of five access declarations.
SPECIFICATION ScheduleFairSpec
CONSTANTS
  s1 = s1
  s2 = s2
  s3 = s3
  k1 = k1
  k2 = k2
  Systems <- MCSystems
  Keys <- MCKeys
  Accesses <- MCAccesses
  None = None
INVARIANTS NoConflictInFlight RunsAreDeterministic
PROPERTY RunsEnd
