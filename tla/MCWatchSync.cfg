SPECIFICATION Spec
CONSTANTS
  Episodes <- MCEpisodes
  Movie = 101
  Catalogs <- MCCatalogs
  Starts <- MCStarts
  JellyfinStates <- MCJellyfin
  StremioStates <- MCStremio
  Forms <- MCForms
  MinDelta = 30000
  MaxEvents = 2
INVARIANTS TypeOK CompletedDisables EvidenceKept SeenMeansReported
PROPERTIES EnabledForAReason FloorKept
CHECK_DEADLOCK FALSE
