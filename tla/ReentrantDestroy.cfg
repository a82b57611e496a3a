CONSTANTS
  Tracers = {a, b, c}
  Noop = Noop
SPECIFICATION FairSpec
INVARIANTS
  TypeOK
  SlotIsUsable
  LostOnlyByNesting
PROPERTIES
  OutermostIsAssigned
  OutermostWins
