\* Reruns of three aliases in two shards, three attempts; plans of six aliases in three
\* shards; three browser tests, builds that give other bytes, one rerun; documents of
\* five lines with fences and of four with other syntax, one edit; trees of three stanzas.
SPECIFICATION MCSpec
CONSTANTS
  AliasCount = 3
  ShardCount = 2
  Weights = {1, 2}
  MaxAttempts = 3
  PlanAliases = 6
  PlanShards = 3
  PlanWeights = {0, 1, 2, 5}
  BrowserTests = {1, 2, 3}
  Builds = {1, 2}
  BrowserAttempts = 2
  FenceLines = 5
  SyntaxLines = 4
  DocumentEdits = 1
  DuneStanzas = 3
INVARIANTS QualifiedIsTestedInReruns PlanIsValid ExecutableStaysExact
  InventoryIsExact PublishableIsTested
\* Documents and attempts are bounded.
CHECK_DEADLOCK FALSE
