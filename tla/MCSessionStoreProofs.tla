------------------------ MODULE MCSessionStoreProofs ------------------------
(***************************************************************************)
(* The properties of MCSessionStore's run, for every value of its          *)
(* constants: the theorems of SessionStoreProofs, taken for the module's own   *)
(* fault model and for the instances Faults and Buffered.                  *)
(***************************************************************************)
EXTENDS MCSessionStore

\* The invariant of the three models that promise something.
PromisedInv ==
    /\ model \in {"host crash", "faults", "buffered", "any fault"}
    /\ model = "host crash" => Base /\ RecoveryInv /\ LogInv
    /\ model = "faults" => Faults!Base /\ Faults!RecoveryInv /\ Faults!LogInv
    /\ model = "buffered" => Buffered!Base /\ Buffered!RecoveryInv /\ Buffered!LogInv

\* The constants of Faults are what the assumptions of the store allow.
LEMMA FaultsBounds ==
    /\ 5 \in Nat \ {0} /\ 1 \in Nat /\ 2 \in Nat
    /\ {"append", "checkpoint"} \subseteq
         {"append", "boundary", "directory sync", "checkpoint", "segment removal"}
  OBVIOUS

\* Both instances tolerate their faults.
LEMMA ModelsTolerated == ASSUME Tolerated PROVE Faults!Tolerated /\ Buffered!Tolerated
  BY LimitsAssumption, BoundsAssumption DEF Tolerated, Faults!Tolerated, Buffered!Tolerated

\* The model's own constants: the host may crash.
LEMMA HostCrashStep ==
    ASSUME Tolerated, Base, RecoveryInv, LogInv, [Next]_vars
    PROVE  Base' /\ RecoveryInv' /\ LogInv' /\ LogStep
  BY BaseStep, RecoveryNext, LogNext DEF Pre

\* Appends and checkpoints return errors.
LEMMA FaultsStep ==
    ASSUME Tolerated, Faults!Base, Faults!RecoveryInv, Faults!LogInv,
           [Faults!Next]_(Faults!vars)
    PROVE  Faults!Base' /\ Faults!RecoveryInv' /\ Faults!LogInv' /\ Faults!LogStep
<1>1. Faults!Pre
  BY ModelsTolerated DEF Faults!Pre
<1>2. Faults!Base'
  BY Faults!BaseStep, FaultsBounds, LimitsAssumption, BoundsAssumption
<1>3. Faults!RecoveryInv'
  BY <1>1, Faults!RecoveryNext, FaultsBounds, LimitsAssumption, BoundsAssumption
<1>4. Faults!LogInv' /\ Faults!LogStep
  BY <1>1, Faults!LogNext, FaultsBounds, LimitsAssumption, BoundsAssumption
<1> QED BY <1>2, <1>3, <1>4

\* Appends are buffered and the process may crash.
LEMMA BufferedStep ==
    ASSUME Tolerated, Buffered!Base, Buffered!RecoveryInv, Buffered!LogInv,
           [Buffered!Next]_(Buffered!vars)
    PROVE  Buffered!Base' /\ Buffered!RecoveryInv' /\ Buffered!LogInv' /\ Buffered!LogStep
<1>1. Buffered!Pre
  BY ModelsTolerated DEF Buffered!Pre
<1>2. Buffered!Base'
  BY Buffered!BaseStep, LimitsAssumption, BoundsAssumption
<1>3. Buffered!RecoveryInv'
  BY <1>1, Buffered!RecoveryNext, LimitsAssumption, BoundsAssumption
<1>4. Buffered!LogInv' /\ Buffered!LogStep
  BY <1>1, Buffered!LogNext, LimitsAssumption, BoundsAssumption
<1> QED BY <1>2, <1>3, <1>4

\* The initial state is the same for every model.
LEMMA SameInit == Init => Faults!Init /\ Buffered!Init
  BY DEF Init, Faults!Init, Buffered!Init, FirstFrames, Faults!FirstFrames, Buffered!FirstFrames,
         Synced, Faults!Synced, Buffered!Synced,
         Transaction, Faults!Transaction, Buffered!Transaction,
         Terminal, Faults!Terminal, Buffered!Terminal, NoHash, Faults!NoHash, Buffered!NoHash

\* The invariant holds of a created session.
LEMMA PromisedInit == ASSUME Tolerated, MCInit PROVE PromisedInv /\ Log!Init
<1>1. Init /\ model \in {"host crash", "faults", "buffered", "any fault"}
  BY DEF MCInit
<1>2. Base /\ RecoveryInv /\ LogInv /\ Log!Init
  BY <1>1, BaseInit, RecoveryInit, LogInit
<1>3. Faults!Base /\ Faults!RecoveryInv /\ Faults!LogInv
  <2>1. Faults!Init
    BY <1>1, SameInit
  <2>2. Faults!Base
    BY <2>1, Faults!BaseInit, FaultsBounds, LimitsAssumption, BoundsAssumption
  <2>3. Faults!RecoveryInv
    BY <2>1, Faults!RecoveryInit, FaultsBounds, LimitsAssumption, BoundsAssumption
  <2>4. Faults!LogInv
    BY <2>1, Faults!LogInit, FaultsBounds, LimitsAssumption, BoundsAssumption
  <2> QED BY <2>2, <2>3, <2>4
<1>4. Buffered!Base /\ Buffered!RecoveryInv /\ Buffered!LogInv
  <2>1. Buffered!Init
    BY <1>1, SameInit
  <2>2. Buffered!Base
    BY <2>1, Buffered!BaseInit, LimitsAssumption, BoundsAssumption
  <2>3. Buffered!RecoveryInv
    BY <2>1, Buffered!RecoveryInit, LimitsAssumption, BoundsAssumption
  <2>4. Buffered!LogInv
    BY <2>1, Buffered!LogInit, LimitsAssumption, BoundsAssumption
  <2> QED BY <2>2, <2>3, <2>4
<1> QED BY <1>1, <1>2, <1>3, <1>4 DEF PromisedInv

\* The variables of the instances are the module's own.
LEMMA SameVars == UNCHANGED <<vars, model>> =>
    UNCHANGED vars /\ UNCHANGED Faults!vars /\ UNCHANGED Buffered!vars /\ UNCHANGED model
  BY DEF vars, disk, memory, bounds, Faults!vars, Faults!disk, Faults!memory, Faults!bounds,
         Buffered!vars, Buffered!disk, Buffered!memory, Buffered!bounds

\* Every step of the run keeps the invariant and is a step of the log.
LEMMA PromisedStep ==
    ASSUME Tolerated, PromisedInv, [MCNext]_<<vars, model>>
    PROVE  PromisedInv' /\ LogStepPromised
<1>1. model' = model
  BY SameVars DEF MCNext
<1>2. CASE model = "host crash"
  <2>1. [Next]_vars
    BY <1>2, SameVars DEF MCNext
  <2>2. Base' /\ RecoveryInv' /\ LogInv' /\ LogStep
    BY <1>2, <2>1, HostCrashStep DEF PromisedInv
  <2> QED BY <1>1, <1>2, <2>2 DEF PromisedInv, LogStepPromised
<1>3. CASE model = "faults"
  <2>1. [Faults!Next]_(Faults!vars)
    BY <1>3, SameVars DEF MCNext
  <2>2. Faults!Base' /\ Faults!RecoveryInv' /\ Faults!LogInv' /\ Faults!LogStep
    BY <1>3, <2>1, FaultsStep DEF PromisedInv
  <2> QED BY <1>1, <1>3, <2>2 DEF PromisedInv, LogStepPromised
<1>4. CASE model = "buffered"
  <2>1. [Buffered!Next]_(Buffered!vars)
    BY <1>4, SameVars DEF MCNext
  <2>2. Buffered!Base' /\ Buffered!RecoveryInv' /\ Buffered!LogInv' /\ Buffered!LogStep
    BY <1>4, <2>1, BufferedStep DEF PromisedInv
  <2> QED BY <1>1, <1>4, <2>2 DEF PromisedInv, LogStepPromised
<1>5. CASE model = "any fault"
  BY <1>1, <1>5 DEF PromisedInv, LogStepPromised
<1> QED BY <1>2, <1>3, <1>4, <1>5 DEF PromisedInv

\* The invariant is what the run checks, and more.
LEMMA PromisesKept == ASSUME PromisedInv PROVE RecoveryAcceptsPromised /\ WriterFollowsPromised
<1>1. model = "host crash" => RecoveryAccepts /\ WriterFollowsJournal
  BY Recoverable, WriterFollows DEF PromisedInv
<1>2. ASSUME model = "faults" PROVE Faults!RecoveryAccepts /\ Faults!WriterFollowsJournal
  <2>1. Faults!RecoveryAccepts
    BY <1>2, Faults!Recoverable, FaultsBounds, LimitsAssumption, BoundsAssumption DEF PromisedInv
  <2>2. Faults!WriterFollowsJournal
    BY <1>2, Faults!WriterFollows, FaultsBounds, LimitsAssumption, BoundsAssumption DEF PromisedInv
  <2> QED BY <2>1, <2>2
<1>3. ASSUME model = "buffered" PROVE Buffered!RecoveryAccepts /\ Buffered!WriterFollowsJournal
  <2>1. Buffered!RecoveryAccepts
    BY <1>3, Buffered!Recoverable, LimitsAssumption, BoundsAssumption DEF PromisedInv
  <2>2. Buffered!WriterFollowsJournal
    BY <1>3, Buffered!WriterFollows, LimitsAssumption, BoundsAssumption DEF PromisedInv
  <2> QED BY <2>1, <2>2
<1> QED BY <1>1, <1>2, <1>3 DEF RecoveryAcceptsPromised, WriterFollowsPromised

\* Recovery.prepare accepts whatever a crash or an error leaves, under each fault model.
THEOREM RecoveryPromised == ASSUME Tolerated PROVE MCSpec => []RecoveryAcceptsPromised
<1>1. MCInit => PromisedInv
  BY PromisedInit
<1>2. PromisedInv /\ [MCNext]_<<vars, model>> => PromisedInv'
  BY PromisedStep
<1>3. PromisedInv => RecoveryAcceptsPromised
  BY PromisesKept
<1> QED BY <1>1, <1>2, <1>3, PTL DEF MCSpec

\* An available writer chains to the last transaction recovery would find, under each fault
\* model.
THEOREM WriterPromised == ASSUME Tolerated PROVE MCSpec => []WriterFollowsPromised
<1>1. MCInit => PromisedInv
  BY PromisedInit
<1>2. PromisedInv /\ [MCNext]_<<vars, model>> => PromisedInv'
  BY PromisedStep
<1>3. PromisedInv => WriterFollowsPromised
  BY PromisesKept
<1> QED BY <1>1, <1>2, <1>3, PTL DEF MCSpec

\* Acknowledged transactions survive, under each fault model: the recovered log changes only
\* as the abstract log may.
THEOREM LogPromised == ASSUME Tolerated PROVE MCSpec => ImplementsDurableLogPromised
<1>1. MCInit => PromisedInv /\ Log!Init
  BY PromisedInit
<1>2. PromisedInv /\ [MCNext]_<<vars, model>> => PromisedInv' /\ LogStepPromised
  BY PromisedStep
<1> QED BY <1>1, <1>2, PTL DEF MCSpec, ImplementsDurableLogPromised
=============================================================================
