SPECIFICATION Spec
CONSTANTS
  Focus = {"progress", "personal", "noting", "backup", "walk", "run", "push"}
  Script = {"crunchyroll", "plex"}
  Totals = {0, 2}
  UserStatus = {"WATCHING", "COMPLETED", "DROPPED"}
  MaxEpisode = 2
  MaxWatch = 3
  MaxEdits = 1
  MaxForced = 1
  MaxKills = 1
  User = {1, 2}
  Editor = {1}
  Title = {t1, t2}
  Text = {"drop"}
  Reason = {"drop"}
  Tag = {"comfort", "Comfort", "long"}
  Lower <- LowerCase
  TagLists <- Bulk
  Forms <- Submitted
  MaxReach = 2
  Keep = 1
  MaxWrites = 3
  MaxBackups = 2
  MaxWipes = 1
  MaxRefused = 0
  Anime = {1, 2, 3, 4}
  Franchises <- Graphs
  Listed <- Libraries
  Moves = {"PLANNING"}
  Suggested = {1}
  Season = {3}
  Lookups <- Known
  Genres <- GenresOf
  Score = {60, 100}
  MaxHops = 2
  Pool = 2
  MaxRuns = 2
  MaxActs = 2
  Browser = {b1, b2}
  Sender = {n1}
  MaxPairs = 2
  MaxSubs = 1
  MaxStops = 1
INVARIANTS
  FlagFollowsStatus
  
  RedeliveryHarmless
  PersonalLayer
  SequelsHeldBack
  RankedOnce
  Reachable
PROPERTIES
  BackwardsOnlyOnResume
  
  DecisionsKept
CHECK_DEADLOCK FALSE
