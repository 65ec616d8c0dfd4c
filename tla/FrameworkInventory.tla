------------------------- MODULE FrameworkInventory -------------------------
(***************************************************************************)
(* The inventory of the framework tests (.github/scripts/                  *)
(* framework-inventory.mjs): the directories whose runtest alias the plan  *)
(* of FrameworkShards names, against what Dune builds for the recursive    *)
(* runtest alias of the whole tree.                                        *)
(*                                                                         *)
(* A contributor adds stanzas to the Dune files, and cram files, one by    *)
(* one.  The parser of Dune's syntax is left out: a stanza is the aliases  *)
(* it is attached to and the references below it.  What a rule without an  *)
(* alias depends on is not followed by the code, and not here.             *)
(***************************************************************************)
EXTENDS Naturals, FiniteSets

CONSTANT MaxStanzas    \* bound: stanzas and cram files in the tree

\* Two ordinary directories, and one the root excludes.
Directories == {"lib", "test", "scratch"}
Excluded == {"scratch"}

Aliases == {"runtest", "extra", "runtest-lib"}

\* An alias of the directory, of another one, of it and all below, an inclusion.
References ==
  {[kind |-> "alias", to |-> a] : a \in {"runtest", "extra", "elsewhere"}} \cup
  {[kind |-> "alias_rec", to |-> "extra"], [kind |-> "include", to |-> "extra"]}

Below == {{}} \cup {{r} : r \in References}

\* A stanza by its kind: the aliases it names and what is below it.
Stanzas ==
  [kind : {"alias"}, names : {{"runtest"}, {"extra"}}, below : Below] \cup
  [kind : {"rule"}, names : {{"runtest"}, {"extra"}, {"runtest", "extra"}}, below : Below] \cup
  [kind : {"test", "library"}, names : {{}}, below : Below] \cup
  {[kind |-> "subdir", names |-> {}, below |-> {}]}

VARIABLES
  dune,       \* the stanzas of each directory
  cram,       \* the directories with a cram file
  stanzas     \* bound

vars == <<dune, cram, stanzas>>

Init == dune = [d \in Directories |-> {}] /\ cram = {} /\ stanzas = 0

More == stanzas < MaxStanzas /\ stanzas' = stanzas + 1

AddStanza(d) == /\ More /\ \E s \in Stanzas : dune' = [dune EXCEPT ![d] = @ \cup {s}]
                /\ UNCHANGED cram

AddCram(d) == More /\ cram' = cram \cup {d} /\ UNCHANGED dune

Next == \E d \in Directories : AddStanza(d) \/ AddCram(d)

Spec == Init /\ [][Next]_vars

(* The script *)

\* checkNormalClosure: what an alias refers to, by the stanzas of its file.
Graph(d, name) ==
  UNION {s.below : s \in {s \in dune[d] :
    \/ name \in s.names
    \/ s.kind = "test" /\ name = "runtest"
    \/ s.kind = "library" /\ name = "runtest-lib"}}
  \cup IF name = "runtest" /\ (\E s \in dune[d] : s.kind = "library")
       THEN {[kind |-> "alias", to |-> "runtest-lib"]} ELSE {}

\* Mutant: a recursive reference is as good as a direct one.
AnyAlias(r) == r.kind # "include" /\ r.to \in Aliases

LocalAlias(r) == r.kind = "alias" /\ r.to \in Aliases

\* The names whose visit ends, by the active ones above them: a cycle, and a
\* reference that leaves the directory or is not known yet, are refused.
Visit(d) ==
  LET ends[active \in SUBSET Aliases] ==
        {name \in Aliases \ active :
           \A r \in Graph(d, name) : LocalAlias(r) /\ r.to \in ends[active \cup {name}]}
  IN ends

CheckNormalClosure(d) == "runtest" \in Visit(d)[{}]

HasNormalAlias(d) ==
  \E s \in dune[d] : s.kind \in {"library", "test"} \/ "runtest" \in s.names

Owners == {d \in Directories \ Excluded : HasNormalAlias(d)}

\* inventoryFromFiles and discoverInventory end without an assertion.
Accepted ==
  /\ \A d \in Directories \ Excluded :
       CheckNormalClosure(d) /\ \A s \in dune[d] : s.kind # "subdir"
  /\ cram \ Excluded \subseteq Owners

(* What Dune builds *)

Nodes == Directories \X Aliases

\* A path names the other directories, a recursive alias all of them.
Targets(d, r) ==
  IF r.kind = "include" THEN {}
  ELSE IF r.to = "elsewhere" THEN (Directories \ {d}) \X {"extra"}
  ELSE IF r.kind = "alias_rec" THEN Directories \X {r.to}
  ELSE {<<d, r.to>>}

Built(roots) ==
  LET within[n \in 0..Cardinality(Nodes)] ==
        IF n = 0 THEN roots
        ELSE LET built == within[n - 1]
             IN built \cup
                UNION {UNION {Targets(x[1], r) : r \in Graph(x[1], x[2])} : x \in built}
  IN within[Cardinality(Nodes)]

\* The aliases that run tests.
Tests ==
  {x \in Nodes :
     \/ \E s \in dune[x[1]] :
          \/ s.kind = "rule" /\ x[2] \in s.names
          \/ s.kind = "test" /\ x[2] = "runtest"
          \/ s.kind = "library" /\ x[2] = "runtest-lib"
     \/ x[1] \in cram /\ x[2] = "runtest"}

(* Properties *)

\* The aliases of the inventory, each built on its own, run every test that the
\* runtest alias of the whole tree runs, and none of them twice
\* (framework-inventory.mjs:123-306): no shard repeats another's tests, and a
\* new test cannot escape the plan.
InventoryIsExact ==
  Accepted =>
    \A x \in Tests \cap Built((Directories \ Excluded) \X {"runtest"}) :
      Cardinality({o \in Owners : x \in Built({<<o, "runtest">>})}) = 1
=============================================================================
