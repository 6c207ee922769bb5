\* Three users, two of them at work, three rows of attempts and sessions, two days.
CONSTANTS
  Members = 3
  Manadas = {A}
  A = A
  NoManada = NoManada  NoModule = NoModule
  Modules <- ThreeModules
  Cards <- ThreeCards
  HistoryLimit = 2  MemberCap = 2  MinAttempts = 1  WindowTicks = 1
  Profiles <- TwoProfiles  Pools <- WholePool
  Busy = {1, 2}  MaxTicks = 2  MaxRows = 3
SPECIFICATION Spec
INVARIANTS HistoriesAgree ResultsCounted RankingAccounts RankRespectsEffort MembersAreViewable
