------------------------------ MODULE MCPolicy ------------------------------
(***************************************************************************)
(* What the scripts of the continuous integration decide, for TLC:         *)
(* DocsDiff, FrameworkInventory, FrameworkShards and BrowserShards, which  *)
(* share no state.  One of them runs and the others rest in an initial     *)
(* state, so the states of this run are the sum of theirs.                 *)
(***************************************************************************)
EXTENDS FrameworkShards

CONSTANTS
  PlanAliases,       \* the test aliases of the larger inventory
  PlanShards,        \* its shards
  PlanWeights,       \* the weights of its timings
  BrowserTests,      \* the browser tests of the revision, numbered
  Builds,            \* the bytes a build of the site may give
  BrowserAttempts,   \* bound: attempts of the run
  FenceLines,        \* bound: lines of a document with fences
  SyntaxLines,       \* bound: lines of a document with other syntax
  DocumentEdits,     \* bound: edits of a document
  DuneStanzas        \* bound: stanzas and cram files of the tree

\* FrameworkShards' assumption, of the larger inventory.
ASSUME PlansAssumption ==
  /\ PlanAliases \in Nat /\ PlanShards \in Nat \ {0}
  /\ PlanAliases >= PlanShards
  /\ PlanWeights \subseteq Nat

VARIABLES
  before, after, edits,
  dune, cram, stanzas,
  result, runAttempt, build, shardReports, release, executed,
  subject

shardVars == <<weights, plan, job, reports, attempt, gate, last>>
documentVars == <<before, after, edits>>
inventoryVars == <<dune, cram, stanzas>>
browserVars == <<result, runAttempt, build, shardReports, release, executed>>

\* Fences of both characters and lengths, comments and prose.
Fences == INSTANCE DocsDiff WITH
  Kinds <- {"prose", "words", "ticks", "longTicks", "info", "open", "close"},
  MaxLines <- FenceLines, MaxEdits <- DocumentEdits

\* The rest of the syntax the scanner knows.
Syntax == INSTANCE DocsDiff WITH
  Kinds <- {"prose", "words", "heading", "tildes", "ticks", "dashes", "plus", "lone",
            "html", "tail", "open"},
  MaxLines <- SyntaxLines, MaxEdits <- DocumentEdits

\* The partition of more tests, for every record of timings.
Plans == INSTANCE FrameworkShards WITH
  AliasCount <- PlanAliases, ShardCount <- PlanShards, Weights <- PlanWeights, MaxAttempts <- 0

Inventory == INSTANCE FrameworkInventory WITH MaxStanzas <- DuneStanzas

\* The browser jobs of the run that builds the site.
Browser == INSTANCE BrowserShards WITH
  Tests <- BrowserTests, MaxAttempts <- BrowserAttempts,
  attempt <- runAttempt, reports <- shardReports

MCInit ==
  /\ Fences!Init /\ Inventory!Init /\ Browser!Init
  /\ \/ subject = "reruns" /\ Init
     \/ subject = "plans" /\ Plans!Init
     \/ subject \in {"fences", "syntax", "inventory", "browser"} /\ Init /\ weights = [a \in Aliases |-> 1]

MCNext ==
  /\ UNCHANGED subject
  /\ \/ subject = "reruns" /\ Next
     \/ subject = "plans" /\ Plans!Next
     \/ subject \notin {"reruns", "plans"} /\ UNCHANGED shardVars
  /\ \/ subject = "fences" /\ Fences!Next
     \/ subject = "syntax" /\ Syntax!Next
     \/ subject \notin {"fences", "syntax"} /\ UNCHANGED documentVars
  /\ IF subject = "inventory" THEN Inventory!Next ELSE UNCHANGED inventoryVars
  /\ IF subject = "browser" THEN Browser!Next ELSE UNCHANGED browserVars

MCSpec == MCInit /\ [][MCNext]_<<shardVars, documentVars, inventoryVars, browserVars, subject>>

\* FrameworkShards' properties of the partition, on its larger inventory: it is
\* complete and within one test of balance.
PlanIsValid == subject = "plans" => Plans!PlanIsComplete /\ Plans!PlanIsBalanced

\* FrameworkShards' property of the gate.
QualifiedIsTestedInReruns == subject = "reruns" => QualifiedIsTested

\* DocsDiff's property: a documentation-only change leaves every fenced block.
ExecutableStaysExact ==
  subject \in {"fences", "syntax"} => Fences!ExecutableStaysExact

\* FrameworkInventory's: the inventory runs every test once.
InventoryIsExact == subject = "inventory" => Inventory!InventoryIsExact

\* BrowserShards': what may be published was tested by its shards.
PublishableIsTested == subject = "browser" => Browser!PublishableIsTested
=============================================================================
