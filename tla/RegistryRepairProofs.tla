------------------------- MODULE RegistryRepairProofs -------------------------
(***************************************************************************)
(* What the compensation of ModelRegistry leaves behind: that a command    *)
(* which reports "restored" restored everything, that the registry is      *)
(* clean between commands, that a dead command leaves a champion that can  *)
(* be loaded or rolled back, and that the whole protocol implements        *)
(* ChampionPointer.                                                        *)
(***************************************************************************)
EXTENDS ModelRegistryProofs

----------------------------------------------------------------------------
(* What a command works on, and how it ends. *)

\* The phases in which a command holds a snapshot of the tags.
Working == {"writing"} \cup Repairing

DecisionKept ==
  /\ session'.decision = session.decision
  /\ session'.version = session.version
  /\ session'.by = session.by
  /\ session'.previous = session.previous
  /\ session'.originals = session.originals

DecisionGoesOn ==
  \/ ForwardStep /\ session.step # LastStep
  \/ ForwardFails
  \/ ReadAliasBack
  \/ ResetAlias
  \/ ReadTags
  \/ RestoreTag /\ session'.phase = "restore"

LEMMA DecisionSteps ==
  ASSUME TypeInv, DecisionGoesOn
  PROVE  DecisionKept /\ session.phase \in Working /\ session'.phase \in Working
<1>t. session \in SessionRecords
  BY SessionTyped DEF TypeInv
<1>1. CASE ForwardStep /\ session.step # LastStep
  BY <1>t, <1>1 DEF ForwardStep, AfterStep, DecisionKept, SessionRecords, Working
<1>2. CASE ForwardFails
  BY <1>t, <1>2 DEF ForwardFails, DecisionKept, SessionRecords, Working, Repairing
<1>3. CASE ReadAliasBack
  BY <1>t, <1>3
     DEF ReadAliasBack, RestoreFrom, DecisionKept, SessionRecords, Working, Repairing
<1>4. CASE ResetAlias
  BY <1>t, <1>4
     DEF ResetAlias, RestoreFrom, DecisionKept, SessionRecords, Working, Repairing
<1>5. CASE ReadTags
  BY <1>t, <1>5 DEF ReadTags, DecisionKept, SessionRecords, Working, Repairing
<1>6. CASE RestoreTag /\ session'.phase = "restore"
  <2>1. session' # NoSession("restored")
    BY <1>6, NoSessionTyped DEF Terminal
  <2>2. QED
    BY <1>t, <1>6, <2>1
       DEF RestoreTag, AfterRestore, DecisionKept, SessionRecords, Working, Repairing
<1>7. QED
  BY <1>1, <1>2, <1>3, <1>4, <1>5, <1>6 DEF DecisionGoesOn

\* Every other step of a command opens it or ends it.
DecisionOpens ==
  \/ \E d \in Decisions, v \in Versions, a \in Approvers : BeginDecision(d, v, a)
  \/ ReadPrevious

DecisionEnds ==
  \/ Reject
  \/ ForwardStep /\ session.step = LastStep
  \/ RestoreTag /\ session'.phase # "restore"
  \/ RepairFails
  \/ Crash

LEMMA DecisionEnding ==
  ASSUME TypeInv, DecisionEnds
  PROVE  \E p \in Terminal : session' = NoSession(p) /\ session'.phase = p
<1>t. session \in SessionRecords
  BY SessionTyped DEF TypeInv
<1>1. CASE RestoreTag /\ session'.phase # "restore"
  <2>1. session' = NoSession("restored")
    BY <1>t, <1>1 DEF RestoreTag, AfterRestore, SessionRecords
  <2>2. QED
    BY <2>1, NoSessionTyped DEF Terminal
<1>2. CASE Reject \/ RepairFails \/ Crash \/ (ForwardStep /\ session.step = LastStep)
  <2>1. \/ session' = NoSession("idle")
        \/ session' = NoSession("reconcile")
        \/ session' = NoSession("done")
    BY <1>2 DEF Reject, ForwardStep, AfterStep, RepairFails, Crash
  <2>2. QED
    BY <2>1, NoSessionTyped DEF Terminal
<1>3. QED
  BY <1>1, <1>2 DEF DecisionEnds

LEMMA DecisionOpening ==
  ASSUME TypeInv, DecisionOpens
  PROVE  session'.phase \in Reading /\ UNCHANGED <<registry, trainer, history, faults>>
<1>1. ASSUME NEW d \in Decisions, NEW v \in Versions, NEW a \in Approvers,
             BeginDecision(d, v, a)
      PROVE  session'.phase = "checked"
  BY <1>1, NoSessionTyped DEF BeginDecision, SessionRecords
<1>2. ReadPrevious => session'.phase = "snapshot"
  BY SessionTyped DEF TypeInv, ReadPrevious, SessionRecords
<1>3. QED
  BY <1>1, <1>2 DEF DecisionOpens, BeginDecision, ReadPrevious, Reading

\* The steps there are while nobody disturbs the registry.
Pipeline == \E t \in Trainers :
  LoadChampion(t) \/ EnsureTenantBinding(t) \/ ResolveBenchmark(t) \/ TrainerStops(t)

LEMMA Steps ==
  ASSUME TypeInv, late = {}, Undisturbed', [Next]_vars
  PROVE  \/ UNCHANGED <<alias, tags, bench, owner, session, former, breaks>>
              /\ (Pipeline \/ UNCHANGED vars)
         \/ \E t \in Trainers : RegisterCandidate(t)
         \/ DecisionOpens
         \/ TakeSnapshot
         \/ DecisionGoesOn
         \/ DecisionEnds
<1>1. ~(\E v \in Versions : ManualAlias(v)) /\ ~LateWriteLands
  BY UndisturbedStep DEF TypeInv
<1>2. CASE \E t \in Trainers : Retraining(t)
  BY <1>2
     DEF Retraining, Pipeline, LoadChampion, EnsureTenantBinding, ResolveBenchmark,
         TrainerStops, registry, history
<1>3. CASE Deciding
  BY <1>3 DEF Deciding, DecisionOpens, DecisionGoesOn, DecisionEnds
<1>4. CASE UNCHANGED vars
  BY <1>4 DEF vars, registry, history
<1>5. QED
  BY <1>1, <1>2, <1>3, <1>4 DEF Next

----------------------------------------------------------------------------
(* Which tags a command touches. Between its snapshot and its end a command *)
(* writes tags of the version and of the previous champion only, and never *)
(* takes a lifecycle away: a version that exists goes on existing, so no   *)
(* pipeline can be given its number, and everything else is as it was.     *)

SnapshotInv ==
  session.phase \in Working =>
    /\ \A v \in Affected(session) :
         Registered(v) /\ session.originals[v]["lifecycle"] # Absent
    /\ \A v \in Versions \ Affected(session) :
         IF session.originals[v]["lifecycle"] # Absent
         THEN tags[v] = session.originals[v]
         ELSE tags[v]["lifecycle"] \in {Absent, "candidate"}

AliasInv ==
  /\ alias # NoVersion => Registered(alias)
  /\ session.phase \in {"repair", "reset"} => alias \in {session.previous, session.version}
  /\ session.phase = "restore" => alias = session.previous

\* How far restore_tags has come with version v: the keys before the step are
\* back, and the read that preceded it saw every tag that is still there.
RestoredSoFar(v) ==
  \A i \in 1..6 :
    LET key == TrackedKeys[i]
    IN  IF i < session.step THEN tags[v][key] = session.originals[v][key]
                            ELSE tags[v][key] # Absent => key \in session.seen

RestoreInv ==
  session.phase = "restore" =>
    /\ session.left \subseteq Affected(session)
    /\ \A v \in Affected(session) \ session.left : tags[v] = session.originals[v]
    /\ session.current # NoVersion =>
         session.current \in session.left /\ RestoredSoFar(session.current)

RepairInv == CurrentInv /\ SnapshotInv /\ AliasInv /\ RestoreInv

LEMMA AffectedVersions ==
  ASSUME TypeInv, session.phase \in Working
  PROVE  /\ Affected(session) \subseteq Versions
         /\ session.version \in Affected(session)
         /\ session.previous # NoVersion => session.previous \in Affected(session)
  BY SessionTyped, RegistryConstants
     DEF TypeInv, SessionWellFormed, Affected, Working, Repairing, Terminal, Versions,
         VersionOrNone, NoVersion

\* A write of a tag changes that tag and nothing else.
LEMMA TagWrite ==
  ASSUME TypeOK, NEW w \in WriteRecords, w.key # "alias", Applies(w)
  PROVE  /\ alias' = alias
         /\ \A v \in Versions : v # w.version => tags'[v] = tags[v]
         /\ \A v \in Versions, k \in Keys :
              tags'[v][k] = IF v = w.version /\ k = w.key THEN w.value ELSE tags[v][k]
<1>1. /\ tags \in [Versions -> [Keys -> TagValues]]
      /\ tags' = [tags EXCEPT ![w.version][w.key] = w.value]
      /\ alias' = alias
  BY DEF TypeOK, Applies
<1>2. \A v \in Versions : v # w.version => tags'[v] = tags[v]
  BY <1>1
<1>3. ASSUME NEW k \in Keys, w.version \in Versions
      PROVE  tags'[w.version][k] = IF k = w.key THEN w.value ELSE tags[w.version][k]
  BY <1>1, <1>3
<1>4. QED
  BY <1>1, <1>2, <1>3

\* What the three kinds of forward writes are.
LEMMA ForwardWrites ==
  ASSUME TypeInv, session.phase = "writing"
  PROVE  /\ session.step = 8 => ForwardWrite(session) = Write("alias", session.version, Absent)
         /\ session.step = 7 =>
              ForwardWrite(session) = Write("lifecycle", session.previous, "superseded")
         /\ session.step \in 1..6 =>
              /\ Order[session.step] \in Keys
              /\ ForwardWrite(session)
                   = Write(Order[session.step], session.version,
                           AuditTags(session)[Order[session.step]])
         /\ session.step \in 1..8
<1>1. session.step \in 1..8
  BY DEF TypeInv, SessionWellFormed, LastStep
<1>2. /\ Order[8] = "alias" /\ Order[7] = "supersede"
      /\ \A i \in 1..6 : Order[i] \in Keys
      /\ "supersede" \notin Keys /\ "alias" \notin Keys /\ "alias" # "supersede"
  BY DEF Order, Keys
<1>3. QED
  BY <1>1, <1>2 DEF ForwardWrite

\* Only the versions of the decision are touched, and they stay registered.
TouchesAffected ==
  /\ \A v \in Affected(session) : tags'[v]["lifecycle"] # Absent
  /\ \A v \in Versions \ Affected(session) : tags'[v] = tags[v]

LEMMA WriteTouchesAffected ==
  ASSUME TypeInv, SnapshotInv, session.phase \in Working,
         NEW w \in WriteRecords, w.version \in Affected(session),
         w.key # "alias", w.key = "lifecycle" => w.value # Absent, Applies(w)
  PROVE  TouchesAffected
<1>1. "lifecycle" \in Keys /\ Affected(session) \subseteq Versions
  BY AffectedVersions DEF Keys
<1>2. QED
  BY <1>1, TagWrite DEF TypeInv, SnapshotInv, TouchesAffected, Registered

LEMMA ForwardTouchesAffected ==
  ASSUME TypeInv, SnapshotInv, session.phase = "writing", StepApplies(session),
         Applies(ForwardWrite(session))
  PROVE  TouchesAffected
<1>1. session.phase \in Working
  BY DEF Working
<1>2. UNCHANGED tags => TouchesAffected
  BY <1>1 DEF SnapshotInv, TouchesAffected, Registered
<1>3. CASE session.step = 8
  BY <1>2, <1>3, ForwardWrites DEF Applies, Write
<1>4. CASE session.step = 7
  <2>1. session.previous \in Affected(session)
    BY <1>4, <1>1, AffectedVersions DEF StepApplies, Order
  <2>2. ForwardWrite(session) = Write("lifecycle", session.previous, "superseded")
    BY <1>4, ForwardWrites
  <2>3. "superseded" # Absent
    BY RegistryConstants DEF Lifecycles
  <2>4. QED
    BY <1>1, <2>1, <2>2, <2>3, ForwardWriteTyped, WriteTouchesAffected DEF Write
<1>5. CASE session.step \in 1..6
  <2>1. session.version \in Affected(session)
    BY <1>1, AffectedVersions
  <2>2. ForwardWrite(session) = Write(Order[session.step], session.version,
                                      AuditTags(session)[Order[session.step]])
    BY <1>5, ForwardWrites
  <2>3. AuditTags(session)["lifecycle"] = "champion" /\ "champion" # Absent
    BY RegistryConstants DEF Lifecycles, AuditTags
  <2>4. Order[session.step] # "alias"
    BY <1>5, ForwardWrites DEF Keys
  <2>5. /\ ForwardWrite(session).key = Order[session.step]
        /\ ForwardWrite(session).version = session.version
        /\ ForwardWrite(session).value = AuditTags(session)[Order[session.step]]
    BY <2>2 DEF Write
  <2>6. QED
    BY <1>1, <2>1, <2>3, <2>4, <2>5, ForwardWriteTyped, WriteTouchesAffected
<1>6. QED
  BY <1>3, <1>4, <1>5, ForwardWrites

LEMMA RestoreWriteFields ==
  /\ RestoreWrite(session).key = TrackedKeys[session.step]
  /\ RestoreWrite(session).version = session.current
  /\ RestoreWrite(session).value = session.originals[session.current][TrackedKeys[session.step]]
  BY DEF RestoreWrite, Write

LEMMA RestoreTouchesAffected ==
  ASSUME TypeInv, SnapshotInv, RestoreInv, session.phase = "restore",
         session.current # NoVersion, Applies(RestoreWrite(session))
  PROVE  TouchesAffected
<1>1. session.phase \in Working
  BY DEF Working, Repairing
<1>2. session.current \in Affected(session)
  BY DEF RestoreInv
<1>3. TrackedKeys[session.step] \in Keys /\ "alias" \notin Keys
  BY OrderedKeys DEF TypeInv, SessionWellFormed, Keys
<1>4. session.originals[session.current]["lifecycle"] # Absent
  BY <1>1, <1>2 DEF SnapshotInv
<1>5. QED
  BY <1>1, <1>2, <1>3, <1>4, RestoreWriteTyped, RestoreWriteFields, WriteTouchesAffected

\* Whatever a command does while it holds a snapshot, and however it ends.
LEMMA CommandTouchesAffected ==
  ASSUME TypeInv, SnapshotInv, RestoreInv, session.phase \in Working,
         late = {}, late' = {},
         DecisionGoesOn \/ DecisionEnds
  PROVE  TouchesAffected
<1>1. UNCHANGED tags => TouchesAffected
  BY DEF SnapshotInv, TouchesAffected, Registered
<1>2. CASE ForwardStep
  BY <1>1, <1>2, ForwardTouchesAffected DEF ForwardStep
<1>3. CASE ForwardFails
  BY <1>1, <1>3, ForwardTouchesAffected DEF ForwardFails, CallRaised
<1>4. CASE RestoreTag
  BY <1>1, <1>4, RestoreTouchesAffected DEF RestoreTag
<1>5. CASE RepairFails
  <2>1. Applies(Write("alias", session.previous, Absent)) => UNCHANGED tags
    BY DEF Applies, Write
  <2>2. QED
    BY <1>1, <1>5, <2>1, RestoreTouchesAffected DEF RepairFails, CallRaised
<1>6. CASE ReadAliasBack \/ ResetAlias \/ ReadTags \/ Reject \/ Crash
  BY <1>1, <1>6 DEF ReadAliasBack, ResetAlias, Applies, Write, ReadTags, Reject, Crash, registry
<1>7. QED
  BY <1>2, <1>3, <1>4, <1>5, <1>6 DEF DecisionGoesOn, DecisionEnds

\* What a step that leaves the snapshot alone does to the rest.
LEMMA SnapshotKept ==
  ASSUME TypeInv, SnapshotInv, session.phase \in Working, DecisionKept, TouchesAffected
  PROVE  SnapshotInv'
<1>1. Affected(session)' = Affected(session)
  BY DEF DecisionKept, Affected
<1>2. QED
  BY <1>1 DEF DecisionKept, TouchesAffected, SnapshotInv, Registered

\* A pipeline is given a number no version of the decision has.
LEMMA RegistersElsewhere ==
  ASSUME TypeInv, NEW t \in Trainers, RegisterCandidate(t)
  PROVE  \E v \in Versions :
           /\ ~Registered(v)
           /\ tags' = [tags EXCEPT ![v] = CandidateTags]
           /\ tags'[v]["lifecycle"] = "candidate"
           /\ \A u \in Versions \ {v} : tags'[u] = tags[u]
           /\ \A u \in Versions : Registered(u) => tags'[u] = tags[u] /\ bench'[u] = bench[u]
<1>1. PICK v \in Versions :
        /\ ~Registered(v)
        /\ tags' = [tags EXCEPT ![v] = CandidateTags]
        /\ bench' = [bench EXCEPT ![v] = trainer[t].bench]
  BY DEF RegisterCandidate
<1>2. CandidateTags["lifecycle"] = "candidate"
  BY DEF CandidateTags, NoTags, Keys
<1>3. tags \in [Versions -> [Keys -> TagValues]] /\ bench \in [Versions -> VersionOrNone]
  BY DEF TypeInv, TypeOK
<1>4. QED
  BY <1>1, <1>2, <1>3

LEMMA StepSnapshotInv ==
  ASSUME Undisturbed', TypeInv, RepairInv, [Next]_vars
  PROVE  SnapshotInv'
<1>l. late = {} /\ late' = {}
  BY UndisturbedStep DEF TypeInv, RepairInv, CurrentInv
<1>1. CASE UNCHANGED <<tags, session>>
  BY <1>1 DEF RepairInv, SnapshotInv, Affected, Registered
<1>2. CASE \E t \in Trainers : RegisterCandidate(t)
  <2>1. UNCHANGED session
    BY <1>2 DEF RegisterCandidate
  <2>2. PICK v \in Versions :
          /\ ~Registered(v)
          /\ tags'[v]["lifecycle"] = "candidate"
          /\ \A u \in Versions \ {v} : tags'[u] = tags[u]
    BY <1>2, RegistersElsewhere
  <2>3. CASE session.phase \in Working
    <3>1. v \notin Affected(session) /\ session.originals[v]["lifecycle"] = Absent
      BY <2>2, <2>3 DEF RepairInv, SnapshotInv, Registered
    <3>2. Affected(session) \subseteq Versions /\ Affected(session)' = Affected(session)
      BY <2>1, <2>3, AffectedVersions DEF Affected
    <3>3. QED
      BY <2>1, <2>2, <2>3, <3>1, <3>2 DEF RepairInv, SnapshotInv, Registered
  <2>4. QED
    BY <2>1, <2>3 DEF SnapshotInv
<1>3. CASE DecisionOpens \/ DecisionEnds
  BY <1>3, DecisionOpening, DecisionEnding
     DEF SnapshotInv, Working, Repairing, Reading, Terminal
<1>4. CASE TakeSnapshot
  <2>1. /\ session'.version = session.version /\ session'.previous = session.previous
        /\ session'.originals = tags
        /\ tags' = tags
        /\ session.phase = "snapshot"
    BY <1>4, SessionTyped DEF TypeInv, TakeSnapshot, SessionRecords, registry
  <2>2. Registered(session.version) /\ (session.previous # NoVersion => Registered(session.previous))
    BY <2>1 DEF RepairInv, CurrentInv, AliasInv, BeforeAlias
  <2>3. QED
    BY <2>1, <2>2 DEF SnapshotInv, Affected, Registered
<1>5. CASE DecisionGoesOn
  BY <1>l, <1>5, DecisionSteps, CommandTouchesAffected, SnapshotKept DEF RepairInv
<1>6. QED
  BY <1>l, <1>1, <1>2, <1>3, <1>4, <1>5, Steps

\* A command sends the alias to its version, or back.
LEMMA AliasMoves ==
  ASSUME TypeInv, late = {}, late' = {}, DecisionGoesOn \/ DecisionEnds
  PROVE  /\ ForwardStep => alias' = IF session.step = LastStep THEN session.version ELSE alias
         /\ ForwardFails => alias' \in {alias, session.version}
         /\ ForwardFails /\ alias' # alias => session.step = LastStep
         /\ ResetAlias => alias' = session.previous
         /\ RepairFails /\ session.phase = "reset" => alias' \in {alias, session.previous}
         /\ ForwardStep \/ ForwardFails \/ ResetAlias \/ (RepairFails /\ session.phase = "reset")
              \/ alias' = alias
<1>1. ASSUME session.phase = "writing", Applies(ForwardWrite(session))
      PROVE  alias' = IF session.step = LastStep THEN session.version ELSE alias
  <2>1. CASE session.step = 8
    BY <1>1, <2>1, ForwardWrites DEF Applies, Write, LastStep
  <2>2. CASE session.step = 7
    BY <1>1, <2>2, ForwardWrites DEF Applies, Write, LastStep
  <2>3. CASE session.step \in 1..6
    BY <1>1, <2>3, ForwardWrites DEF Applies, Write, LastStep, Keys
  <2>4. QED
    BY <1>1, <2>1, <2>2, <2>3, ForwardWrites
<1>2. ASSUME ForwardStep
      PROVE  alias' = IF session.step = LastStep THEN session.version ELSE alias
  <2>1. session.step = LastStep => StepApplies(session)
    BY DEF LastStep, StepApplies, Order
  <2>2. QED
    BY <1>1, <1>2, <2>1 DEF ForwardStep
<1>3. ASSUME ForwardFails
      PROVE  /\ alias' \in {alias, session.version}
             /\ alias' # alias => session.step = LastStep
  BY <1>1, <1>3 DEF ForwardFails, CallRaised
<1>4. ResetAlias => alias' = session.previous
  BY DEF ResetAlias, Applies, Write
<1>5. RepairFails /\ session.phase = "reset" => alias' \in {alias, session.previous}
  BY DEF RepairFails, CallRaised, Applies, Write
<1>6. ASSUME session.phase = "restore", session.current # NoVersion,
             Applies(RestoreWrite(session))
      PROVE  alias' = alias
  <2>1. RestoreWrite(session).key # "alias"
    BY <1>6, RestoreWriteFields, OrderedKeys DEF TypeInv, SessionWellFormed, Keys
  <2>2. QED
    BY <1>6, <2>1 DEF Applies
<1>7. RestoreTag \/ (RepairFails /\ session.phase # "reset") => alias' = alias
  BY <1>6 DEF RestoreTag, RepairFails, CallRaised
<1>8. ReadAliasBack \/ ReadTags \/ Reject \/ Crash => alias' = alias
  BY DEF ReadAliasBack, ReadTags, Reject, Crash, registry
<1>9. QED
  BY <1>2, <1>3, <1>4, <1>5, <1>7, <1>8 DEF DecisionGoesOn, DecisionEnds

\* A version never stops being registered.
LEMMA RegisteredStays ==
  ASSUME Undisturbed', TypeInv, RepairInv, [Next]_vars,
         NEW v \in Versions, Registered(v)
  PROVE  tags'[v]["lifecycle"] # Absent
<1>l. late = {} /\ late' = {}
  BY UndisturbedStep DEF TypeInv, RepairInv, CurrentInv
<1>1. UNCHANGED tags => tags'[v]["lifecycle"] # Absent
  BY DEF Registered
<1>2. CASE \E t \in Trainers : RegisterCandidate(t)
  BY <1>2, RegistersElsewhere DEF Registered
<1>3. CASE DecisionOpens \/ TakeSnapshot
  BY <1>1, <1>3, DecisionOpening DEF TakeSnapshot, registry
<1>4. CASE session.phase \in Working /\ (DecisionGoesOn \/ DecisionEnds)
  <2>1. TouchesAffected
    BY <1>l, <1>4, CommandTouchesAffected DEF RepairInv
  <2>2. QED
    BY <2>1 DEF TouchesAffected, Registered
<1>5. CASE session.phase \notin Working /\ DecisionEnds
  BY <1>1, <1>5
     DEF DecisionEnds, Reject, Crash, RepairFails, ForwardStep, RestoreTag, Working,
         Repairing, registry
<1>6. QED
  BY <1>l, <1>1, <1>2, <1>3, <1>4, <1>5, Steps, DecisionSteps

LEMMA StepAliasInv ==
  ASSUME Undisturbed', TypeInv, RepairInv, [Next]_vars
  PROVE  AliasInv'
<1>l. late = {} /\ late' = {}
  BY UndisturbedStep DEF TypeInv, RepairInv, CurrentInv
<1>t. alias \in VersionOrNone /\ session \in SessionRecords
  BY SessionTyped DEF TypeInv, TypeOK
<1>v. \A v \in VersionOrNone : v # NoVersion => v \in Versions
  BY RegistryConstants DEF Versions, VersionOrNone, NoVersion
<1>1. ASSUME alias' \in {alias} \cup
               (IF session.phase \in Working THEN {session.version, session.previous} ELSE {})
      PROVE  alias' # NoVersion => Registered(alias)'
  <2>1. ASSUME session.phase \in Working, alias' \in Affected(session)
        PROVE  Registered(alias)'
    BY <2>1, AffectedVersions, RegisteredStays DEF RepairInv, SnapshotInv, Registered
  <2>2. ASSUME alias' = alias, alias # NoVersion PROVE Registered(alias)'
    BY <2>2, <1>t, <1>v, RegisteredStays DEF RepairInv, AliasInv, Registered
  <2>3. QED
    BY <1>1, <2>1, <2>2, AffectedVersions
<1>2. CASE UNCHANGED <<alias, session>>
  BY <1>1, <1>2 DEF RepairInv, AliasInv
<1>3. CASE DecisionOpens \/ TakeSnapshot
  <2>1. session'.phase \in Reading \cup {"writing"} /\ alias' = alias
    BY <1>3, <1>t, DecisionOpening DEF TakeSnapshot, SessionRecords, registry
  <2>2. QED
    BY <1>1, <2>1 DEF AliasInv, Reading
<1>4. CASE DecisionEnds
  <2>1. session'.phase \notin Working
    BY <1>4, DecisionEnding DEF Terminal, Working, Repairing
  <2>2. alias' \in {alias} \cup
          (IF session.phase \in Working THEN {session.version, session.previous} ELSE {})
    BY <1>l, <1>4, AliasMoves
       DEF DecisionEnds, ForwardStep, ForwardFails, ResetAlias, Working, Repairing
  <2>3. QED
    BY <1>1, <2>1, <2>2 DEF AliasInv, Working, Repairing
<1>5. CASE DecisionGoesOn
  <2>1. DecisionKept /\ session.phase \in Working
    BY <1>5, DecisionSteps
  <2>2. alias' \in {alias, session.version, session.previous}
    BY <1>l, <1>5, AliasMoves
  <2>3. alias' # NoVersion => Registered(alias)'
    BY <1>1, <2>1, <2>2
  <2>4. CASE ForwardStep /\ session.step # LastStep
    <3>1. session'.phase = "writing"
      BY <1>t, <2>4 DEF ForwardStep, AfterStep, SessionRecords
    <3>2. QED
      BY <2>3, <3>1 DEF AliasInv
  <2>5. CASE ForwardFails
    <3>1. session'.phase = "repair" /\ session.previous = alias
      BY <1>t, <2>5 DEF ForwardFails, SessionRecords, RepairInv, CurrentInv, BeforeAlias
    <3>2. QED
      BY <1>l, <1>5, <2>1, <2>3, <2>5, <3>1, AliasMoves DEF AliasInv, DecisionKept
  <2>6. CASE ReadAliasBack
    <3>1. alias' = alias /\ session.phase = "repair"
      BY <2>6 DEF ReadAliasBack, registry
    <3>2. /\ AliasMoved(session) => session'.phase = "reset"
          /\ ~AliasMoved(session) => session'.phase = "restore"
      BY <1>t, <2>6 DEF ReadAliasBack, RestoreFrom, SessionRecords
    <3>3. QED
      BY <2>1, <2>3, <3>1, <3>2 DEF RepairInv, AliasInv, AliasMoved, DecisionKept
  <2>7. CASE ResetAlias
    <3>1. alias' = session.previous /\ session'.phase = "restore"
      BY <1>l, <1>5, <1>t, <2>7, AliasMoves DEF ResetAlias, RestoreFrom, SessionRecords
    <3>2. QED
      BY <2>1, <2>3, <3>1 DEF AliasInv, DecisionKept
  <2>8. CASE ReadTags \/ (RestoreTag /\ session'.phase = "restore")
    <3>1. alias' = alias /\ session'.phase = "restore" /\ session.phase = "restore"
      BY <1>l, <1>5, <1>t, <2>8, AliasMoves
         DEF ReadTags, RestoreTag, SessionRecords, registry, ForwardStep, ForwardFails,
             ResetAlias, RepairFails
    <3>2. QED
      BY <2>1, <2>3, <3>1 DEF RepairInv, AliasInv, DecisionKept
  <2>9. QED
    BY <1>5, <2>4, <2>5, <2>6, <2>7, <2>8 DEF DecisionGoesOn
<1>6. QED
  BY <1>l, <1>2, <1>3, <1>4, <1>5, Steps DEF RegisterCandidate

----------------------------------------------------------------------------
(* restore_tags. Six keys are written from the first to the last; the read *)
(* before them tells which absent tags there are to delete.                *)

LEMMA KeysInOrder ==
  /\ \A k \in Keys : \E i \in 1..6 : TrackedKeys[i] = k
  /\ \A i, j \in 1..6 : TrackedKeys[i] = TrackedKeys[j] => i = j
<1>1. /\ TrackedKeys[1] = "lifecycle" /\ TrackedKeys[2] = "approved_by"
      /\ TrackedKeys[3] = "approved_at" /\ TrackedKeys[4] = "approval_status"
      /\ TrackedKeys[5] = "champion_decision"
      /\ TrackedKeys[6] = "champion_decision_reason"
  BY DEF TrackedKeys
<1>2. QED
  BY <1>1 DEF Keys

\* One turn of restore_tags: the write of its key, or nothing to delete.
RestoresKey ==
  /\ session.phase = "restore"
  /\ session.current # NoVersion
  /\ IF RestoreApplies(session) THEN Applies(RestoreWrite(session)) ELSE UNCHANGED tags

\* It puts its key back and keeps the others.
LEMMA RestoreTagEffect ==
  ASSUME TypeInv, RepairInv, RestoresKey
  PROVE  LET c == session.current
         IN  /\ c \in Versions
             /\ tags'[c][TrackedKeys[session.step]]
                  = session.originals[c][TrackedKeys[session.step]]
             /\ \A j \in 1..6 : j # session.step =>
                  tags'[c][TrackedKeys[j]] = tags[c][TrackedKeys[j]]
             /\ \A v \in Versions \ {c} : tags'[v] = tags[v]
<1> DEFINE c == session.current
           key == TrackedKeys[session.step]
<1>1. /\ c \in Versions /\ c # NoVersion /\ session.phase = "restore"
      /\ session.step \in 1..6 /\ key \in Keys /\ key # "alias"
      /\ RestoredSoFar(c)
      /\ \A j \in 1..6 : TrackedKeys[j] \in Keys
  BY SessionTyped, RegistryConstants, OrderedKeys
     DEF RestoresKey, TypeInv, SessionWellFormed, Versions, VersionOrNone, NoVersion,
         RepairInv, RestoreInv, Keys
<1>2. \A j \in 1..6 : j # session.step => TrackedKeys[j] # key
  BY <1>1, KeysInOrder
<1>3. CASE RestoreApplies(session)
  <2>1. Applies(RestoreWrite(session)) /\ RestoreWrite(session) \in WriteRecords
    BY <1>1, <1>3, RestoreWriteTyped DEF RestoresKey
  <2>2. /\ RestoreWrite(session).key = key /\ RestoreWrite(session).version = c
        /\ RestoreWrite(session).value = session.originals[c][key]
    BY RestoreWriteFields
  <2>3. /\ \A v \in Versions : v # c => tags'[v] = tags[v]
        /\ \A v \in Versions, k \in Keys :
             tags'[v][k] = IF v = c /\ k = key THEN session.originals[c][key] ELSE tags[v][k]
    BY <1>1, <2>1, <2>2, TagWrite DEF TypeInv
  <2>4. QED
    BY <1>1, <1>2, <2>3
<1>4. CASE ~RestoreApplies(session)
  <2>1. tags' = tags /\ session.originals[c][key] = Absent /\ key \notin session.seen
    BY <1>4 DEF RestoresKey, RestoreApplies
  <2>2. tags[c][key] = Absent
    BY <1>1, <2>1 DEF RestoredSoFar
  <2>3. QED
    BY <1>1, <2>1, <2>2
<1>5. QED
  BY <1>3, <1>4

LEMMA TagsDiffer ==
  ASSUME NEW f \in [Keys -> TagValues], NEW g \in [Keys -> TagValues],
         \A i \in 1..6 : f[TrackedKeys[i]] = g[TrackedKeys[i]]
  PROVE  f = g
<1>1. \A k \in Keys : f[k] = g[k]
  BY KeysInOrder
<1>2. QED
  BY <1>1

\* After its sixth step the version is as the snapshot has it.
LEMMA VersionRestored ==
  ASSUME TypeInv, TypeInv', RepairInv, RestoresKey, ~(session.step < 6)
  PROVE  tags'[session.current] = session.originals[session.current]
<1> DEFINE c == session.current
<1>1. /\ session.step = 6 /\ RestoredSoFar(c) /\ c \in Versions
  BY RestoreTagEffect
     DEF RestoresKey, TypeInv, SessionWellFormed, RepairInv, RestoreInv
<1>2. \A i \in 1..6 : tags'[c][TrackedKeys[i]] = session.originals[c][TrackedKeys[i]]
  BY <1>1, RestoreTagEffect DEF RestoredSoFar
<1>3. tags'[c] \in [Keys -> TagValues] /\ session.originals[c] \in [Keys -> TagValues]
  BY <1>1, SessionTyped DEF TypeInv, TypeOK
<1>4. QED
  BY <1>2, <1>3, TagsDiffer

LEMMA StepRestoreInv ==
  ASSUME Undisturbed', TypeInv, TypeInv', RepairInv, [Next]_vars
  PROVE  RestoreInv'
<1>l. late = {} /\ late' = {}
  BY UndisturbedStep DEF TypeInv, RepairInv, CurrentInv
<1>t. session \in SessionRecords
  BY SessionTyped DEF TypeInv
<1>1. CASE UNCHANGED <<tags, session>>
  BY <1>1 DEF RepairInv, RestoreInv, Affected, RestoredSoFar
<1>2. CASE \E t \in Trainers : RegisterCandidate(t)
  <2>1. UNCHANGED session
    BY <1>2 DEF RegisterCandidate
  <2>2. CASE session.phase = "restore"
    <3>1. session.phase \in Working
      BY <2>2 DEF Working, Repairing
    <3>2. \A v \in Affected(session) : tags'[v] = tags[v]
      BY <1>2, <3>1, RegistersElsewhere, AffectedVersions DEF RepairInv, SnapshotInv
    <3>3. session.left \subseteq Affected(session)
      BY <2>2 DEF RepairInv, RestoreInv
    <3>4. QED
      BY <2>1, <2>2, <3>2, <3>3 DEF RepairInv, RestoreInv, RestoredSoFar, Affected
  <2>3. QED
    BY <2>1, <2>2 DEF RestoreInv
<1>3. CASE DecisionOpens \/ DecisionEnds
  BY <1>3, DecisionOpening, DecisionEnding DEF RestoreInv, Reading, Terminal
<1>4. CASE TakeSnapshot
  <2>1. session'.phase = "writing"
    BY <1>t, <1>4 DEF TakeSnapshot, SessionRecords
  <2>2. QED
    BY <2>1 DEF RestoreInv
<1>5. CASE (ForwardStep /\ session.step # LastStep) \/ ForwardFails
  <2>1. session'.phase # "restore"
    BY <1>t, <1>5 DEF ForwardStep, AfterStep, ForwardFails, SessionRecords
  <2>2. QED
    BY <2>1 DEF RestoreInv
<1>6. CASE ReadAliasBack \/ ResetAlias
  <2>1. session.current = NoVersion
    BY <1>6 DEF ReadAliasBack, ResetAlias, TypeInv, SessionWellFormed
  <2>2. CASE session' = RestoreFrom(session)
    <3>1. /\ session'.left = Affected(session) /\ session'.current = NoVersion
          /\ Affected(session)' = Affected(session)
      BY <1>t, <2>1, <2>2 DEF RestoreFrom, SessionRecords, Affected
    <3>2. QED
      BY <3>1 DEF RestoreInv
  <2>3. CASE session' # RestoreFrom(session)
    <3>1. session'.phase = "reset"
      BY <1>6, <1>t, <2>3 DEF ReadAliasBack, ResetAlias, SessionRecords
    <3>2. QED
      BY <3>1 DEF RestoreInv
  <2>4. QED
    BY <2>2, <2>3
<1>7. CASE ReadTags
  <2>1. PICK v \in session.left :
          session' = [session EXCEPT !.current = v, !.step = 1,
                        !.seen = {k \in Keys : tags[v][k] # Absent}]
    BY <1>7 DEF ReadTags
  <2>2. /\ session'.current = v /\ session'.step = 1 /\ session'.left = session.left
        /\ session'.seen = {k \in Keys : tags[v][k] # Absent}
        /\ DecisionKept
    BY <1>t, <2>1 DEF SessionRecords, DecisionKept
  <2>3. tags' = tags /\ session.phase = "restore"
    BY <1>7 DEF ReadTags, registry
  <2>4. Affected(session)' = Affected(session)
    BY <2>2 DEF DecisionKept, Affected
  <2>5. RestoredSoFar(session.current)'
    BY <2>2, <2>3, OrderedKeys DEF RestoredSoFar
  <2>6. QED
    BY <2>2, <2>3, <2>4, <2>5 DEF RepairInv, RestoreInv, DecisionKept
<1>8. CASE RestoreTag /\ session'.phase = "restore"
  <2> DEFINE c == session.current
  <2>0. /\ c \in session.left /\ session.left \subseteq Affected(session)
        /\ RestoredSoFar(c)
        /\ \A v \in Affected(session) \ session.left : tags[v] = session.originals[v]
        /\ session.step \in 1..6 /\ RestoresKey
    BY <1>8 DEF RestoreTag, RestoresKey, RepairInv, RestoreInv, TypeInv, SessionWellFormed
  <2>1. DecisionKept /\ Affected(session)' = Affected(session)
    BY <1>8, DecisionSteps DEF DecisionGoesOn, DecisionKept, Affected
  <2>2. Affected(session) \subseteq Versions
    BY <1>8, AffectedVersions DEF RestoreTag, Working, Repairing
  <2>3. \A v \in Affected(session) \ session.left : tags'[v] = session.originals[v]
    BY <2>0, <2>2, RestoreTagEffect
  <2>4. CASE session.step < 6
    <3>1. /\ session'.step = session.step + 1 /\ session'.left = session.left
          /\ session'.current = c /\ session'.seen = session.seen
      BY <1>8, <1>t, <2>4 DEF RestoreTag, AfterRestore, SessionRecords
    <3>2. ASSUME NEW i \in 1..6, i < session.step + 1
          PROVE  tags'[c][TrackedKeys[i]] = session.originals[c][TrackedKeys[i]]
      BY <2>0, <3>2, RestoreTagEffect DEF RestoredSoFar
    <3>3. ASSUME NEW i \in 1..6, ~(i < session.step + 1), tags'[c][TrackedKeys[i]] # Absent
          PROVE  TrackedKeys[i] \in session.seen
      BY <2>0, <3>3, RestoreTagEffect DEF RestoredSoFar
    <3>4. RestoredSoFar(session.current)'
      BY <2>1, <3>1, <3>2, <3>3 DEF RestoredSoFar, DecisionKept
    <3>5. QED
      BY <2>0, <2>1, <2>3, <3>1, <3>4 DEF RestoreInv, DecisionKept
  <2>5. CASE ~(session.step < 6)
    <3>1. /\ session'.left = session.left \ {c} /\ session'.current = NoVersion
      <4>1. session' # NoSession("restored")
        BY <1>8, NoSessionTyped DEF Terminal
      <4>2. QED
        BY <1>8, <1>t, <2>5, <4>1 DEF RestoreTag, AfterRestore, SessionRecords
    <3>2. tags'[c] = session.originals[c]
      BY <2>0, <2>5, VersionRestored
    <3>3. QED
      BY <2>0, <2>1, <2>3, <3>1, <3>2 DEF RestoreInv, DecisionKept
  <2>6. QED
    BY <2>4, <2>5
<1>9. QED
  BY <1>l, <1>1, <1>2, <1>3, <1>4, <1>5, <1>6, <1>7, <1>8, Steps DEF DecisionGoesOn

LEMMA StepRepairInv ==
  ASSUME Undisturbed', TypeInv, TypeInv', RepairInv, [Next]_vars
  PROVE  RepairInv'
BY StepCurrentInv, StepSnapshotInv, StepAliasInv, StepRestoreInv DEF RepairInv

LEMMA InitRepairInv == Init => RepairInv
  BY NoSessionTyped
     DEF Init, RepairInv, CurrentInv, SnapshotInv, AliasInv, RestoreInv, Working, Repairing,
         BeforeAlias, Terminal

LEMMA AlwaysRepairInv == Spec => [](Undisturbed => RepairInv)
<1>1. /\ TypeInv /\ TypeInv' /\ (Undisturbed => RepairInv) /\ [Next]_vars
      => (Undisturbed => RepairInv)'
  <2> SUFFICES ASSUME TypeInv, TypeInv', Undisturbed => RepairInv, [Next]_vars, Undisturbed'
               PROVE  RepairInv'
    OBVIOUS
  <2>1. Undisturbed
    BY UndisturbedBefore DEF TypeInv
  <2>2. QED
    BY <2>1, StepRepairInv
<1>2. QED
  BY <1>1, InitRepairInv, AlwaysTypeInv, PTL DEF Spec

\* The command's last turn: nothing is left, and the snapshot is back.
LEMMA LastTagRestored ==
  ASSUME TypeInv, TypeInv', RepairInv, RestoreTag, session'.phase # "restore"
  PROVE  /\ alias' = alias /\ alias = session.previous
         /\ \A v \in Affected(session) : tags'[v] = session.originals[v]
         /\ \A v \in Versions \ Affected(session) : tags'[v] = tags[v]
<1> DEFINE c == session.current
<1>1. RestoresKey /\ ~(session.step < 6) /\ session.left = {c}
  <2>1. session \in SessionRecords
    BY SessionTyped DEF TypeInv
  <2>2. session.phase = "restore"
    BY DEF RestoreTag
  <2>3. ~(session.step < 6) /\ session.left = {c}
    BY <2>1, <2>2 DEF RestoreTag, AfterRestore, SessionRecords
  <2>4. QED
    BY <2>3 DEF RestoreTag, RestoresKey
<1>2. tags'[c] = session.originals[c]
  BY <1>1, VersionRestored
<1>3. /\ session.phase \in Working /\ c \in Affected(session)
      /\ \A v \in Affected(session) \ {c} : tags[v] = session.originals[v]
      /\ Affected(session) \subseteq Versions
  BY <1>1, AffectedVersions DEF RestoresKey, RepairInv, RestoreInv, Working, Repairing
<1>4. \A v \in Versions \ {c} : tags'[v] = tags[v]
  BY <1>1, RestoreTagEffect
<1>5. RestoreWrite(session).key # "alias"
  BY <1>1, RestoreWriteFields, OrderedKeys
     DEF RestoresKey, TypeInv, SessionWellFormed, Keys
<1>6. alias' = alias /\ alias = session.previous
  BY <1>1, <1>5 DEF RestoreTag, RestoresKey, Applies, RepairInv, AliasInv
<1>7. QED
  BY <1>2, <1>3, <1>4, <1>6

\* "Prior alias and tags were restored" is true whenever it is said: whichever
\* call failed and whether or not it took effect, the alias and every tag of
\* every version the snapshot holds are as they were before the first write.
THEOREM RestoredIsRestored ==
  ASSUME OneWriter
  PROVE  Spec => RestoredMeansRestored
<1> DEFINE Restored ==
      session.phase = "restore" /\ session'.phase = "restored"
        => /\ alias' = session.previous
           /\ \A v \in Versions :
                session.originals[v]["lifecycle"] # Absent
                  => tags'[v] = session.originals[v]
<1>1. TypeInv /\ TypeInv' /\ (Undisturbed => RepairInv) /\ [Next]_vars => [Restored]_vars
  <2> SUFFICES ASSUME TypeInv, TypeInv', Undisturbed => RepairInv, [Next]_vars,
                      session.phase = "restore", session'.phase = "restored"
               PROVE  /\ alias' = session.previous
                      /\ \A v \in Versions :
                           session.originals[v]["lifecycle"] # Absent
                             => tags'[v] = session.originals[v]
    OBVIOUS
  <2>1. Undisturbed' /\ RepairInv /\ late = {}
    BY DEF OneWriter, TypeInv, TypeOK, Undisturbed, RepairInv, CurrentInv
  <2>2. RestoreTag
    <3>1. DecisionEnds
      BY <2>1, Steps, DecisionOpening, DecisionSteps, SessionTyped
         DEF TypeInv, TakeSnapshot, RegisterCandidate, Reading, Working, Repairing
    <3>2. ~Reject /\ ~ForwardStep
      BY DEF Reject, ForwardStep, Reading
    <3>3. ~RepairFails /\ ~Crash
      BY NoSessionTyped DEF RepairFails, Crash, Terminal
    <3>4. QED
      BY <3>1, <3>2, <3>3 DEF DecisionEnds
  <2>3. QED
    BY <2>1, <2>2, LastTagRestored DEF RepairInv, SnapshotInv, Working, Repairing
<1>2. QED
  BY <1>1, AlwaysRepairInv, AlwaysTypeInv, PTL DEF Spec, RestoredMeansRestored

\* Once it is said, and until the next command, the alias stays where it was
\* put: no write of the failed command is still to come. (With a late write it
\* may move: see the run that expects this property to be violated.)
THEOREM RestoredAliasIsLeftAlone ==
  ASSUME OneWriter
  PROVE  Spec => RestoredAliasStays
<1> DEFINE Stays ==
      session.phase = "restored" /\ session'.phase = "restored" /\ manual' = manual
        => alias' = alias
<1>1. TypeInv /\ TypeInv' /\ (Undisturbed => RepairInv) /\ [Next]_vars => [Stays]_vars
  <2> SUFFICES ASSUME TypeInv, TypeInv', Undisturbed => RepairInv, [Next]_vars,
                      session.phase = "restored", session'.phase = "restored"
               PROVE  alias' = alias
    OBVIOUS
  <2>1. Undisturbed' /\ late = {}
    BY DEF OneWriter, TypeInv, TypeOK, Undisturbed, RepairInv, CurrentInv
  <2>2. session.phase \in Terminal /\ session.phase \notin Working
    BY DEF Terminal, Working, Repairing
  <2>3. ~TakeSnapshot /\ ~DecisionGoesOn
    BY <2>2, DecisionSteps DEF TakeSnapshot
  <2>4. ~DecisionEnds
    BY <2>2 DEF DecisionEnds, Reject, ForwardStep, RestoreTag, RepairFails, Crash,
                Reading, Terminal
  <2>5. QED
    BY <2>1, <2>3, <2>4, Steps, DecisionOpening DEF RegisterCandidate, registry
<1>2. QED
  BY <1>1, AlwaysRepairInv, AlwaysTypeInv, PTL DEF Spec, RestoredAliasStays

----------------------------------------------------------------------------
(* Recovery. Between two calls of a command, wherever it dies, the alias   *)
(* points to a version that passes the governance check or is tagged       *)
(* superseded: the forward writes reach the previous champion's lifecycle  *)
(* only, and the version's alias comes after the whole audit.              *)

\* What _validate_champion_governance asks of the tags, and that the approver
\* and the approval time are of one decision.
GovernedTags(tg) ==
  /\ tg["lifecycle"] = "champion"
  /\ tg["approval_status"] = "approved"
  /\ tg["approved_by"] # Absent
  /\ tg["approved_at"] = tg["approved_by"]
  /\ tg["champion_decision"] \in Decisions
  /\ tg["champion_decision"] = "rollback" => tg["champion_decision_reason"] # Absent

Recoverable(tg) == GovernedTags(tg) \/ tg["lifecycle"] = "superseded"

DecisionInv ==
  /\ session.phase \notin Terminal => session.by \in Approvers
  /\ session.phase \in Reading =>
       tags[session.version]["lifecycle"] = RequiredLifecycle(session.decision)
  /\ session.phase \in Working =>
       session.originals[session.version]["lifecycle"]
         = RequiredLifecycle(session.decision)

\* The forward writes before step n are on the version.
WrittenTo(tg, n) ==
  \A i \in 1..6 : i < n /\ (i = 5 => session.decision = "rollback")
    => tg[session.version][Order[i]] = AuditTags(session)[Order[i]]

WrittenInv ==
  session.phase = "writing" =>
    /\ WrittenTo(tags, session.step)
    /\ session.step <= 6 =>
         tags[session.version]["lifecycle"] = session.originals[session.version]["lifecycle"]
    /\ session.step = 8 /\ session.previous \notin {NoVersion, session.version}
         => tags[session.previous]["lifecycle"] = "superseded"

\* The previous champion, when it is not the version itself, loses at most its
\* lifecycle, and that to "superseded".
PreviousKept(tg) ==
  session.previous \notin {NoVersion, session.version} =>
    /\ tg[session.previous]["lifecycle"] \in
         {session.originals[session.previous]["lifecycle"], "superseded"}
    /\ \A k \in Keys \ {"lifecycle"} :
         tg[session.previous][k] = session.originals[session.previous][k]

PreviousInv ==
  session.phase \in Working =>
    /\ session.previous # NoVersion => Recoverable(session.originals[session.previous])
    /\ PreviousKept(tags)

AliasRecoverable == alias # NoVersion => Recoverable(tags[alias])

RecoverInv == DecisionInv /\ WrittenInv /\ PreviousInv /\ AliasRecoverable

LEMMA Lifecycle == "lifecycle" \in Keys /\ "alias" \notin Keys
  BY DEF Keys

LEMMA StepDecisionInv ==
  ASSUME Undisturbed', TypeInv, RepairInv, DecisionInv, [Next]_vars
  PROVE  DecisionInv'
<1>l. late = {} /\ late' = {}
  BY UndisturbedStep DEF TypeInv, RepairInv, CurrentInv
<1>t. session \in SessionRecords
  BY SessionTyped DEF TypeInv
<1>1. CASE UNCHANGED <<tags, session>>
  BY <1>1 DEF DecisionInv
<1>2. CASE \E t \in Trainers : RegisterCandidate(t)
  <2>1. UNCHANGED session
    BY <1>2 DEF RegisterCandidate
  <2>2. session.phase \in Reading =>
          /\ session.version \in Versions
          /\ Registered(session.version)
    BY DEF RepairInv, CurrentInv, BeforeAlias, Reading, TypeInv, SessionWellFormed, Terminal
  <2>3. session.phase \in Reading => tags'[session.version] = tags[session.version]
    BY <1>2, <2>2, RegistersElsewhere
  <2>4. QED
    BY <2>1, <2>3 DEF DecisionInv
<1>3. ASSUME NEW d \in Decisions, NEW v \in Versions, NEW a \in Approvers,
             BeginDecision(d, v, a)
      PROVE  DecisionInv'
  <2>1. /\ session'.phase = "checked" /\ session'.version = v
        /\ session'.decision = d /\ session'.by = a
    BY <1>3, NoSessionTyped DEF BeginDecision, SessionRecords
  <2>2. tags'[v]["lifecycle"] = RequiredLifecycle(d)
    BY <1>3 DEF BeginDecision, registry
  <2>3. QED
    BY <2>1, <2>2 DEF DecisionInv, Working, Repairing
<1>4. CASE ReadPrevious
  <2>1. /\ session'.phase = "snapshot" /\ session'.version = session.version
        /\ session'.decision = session.decision /\ session'.by = session.by
        /\ tags' = tags /\ session.phase = "checked"
    BY <1>t, <1>4 DEF ReadPrevious, SessionRecords, registry
  <2>2. QED
    BY <2>1 DEF DecisionInv, Working, Repairing, Reading, Terminal
<1>5. CASE TakeSnapshot
  <2>1. /\ session'.phase = "writing" /\ session'.version = session.version
        /\ session'.decision = session.decision /\ session'.by = session.by
        /\ session'.originals = tags /\ session.phase = "snapshot"
    BY <1>t, <1>5 DEF TakeSnapshot, SessionRecords
  <2>2. QED
    BY <2>1 DEF DecisionInv, Reading, Terminal
<1>6. CASE DecisionGoesOn
  BY <1>6, DecisionSteps
     DEF DecisionInv, DecisionKept, Working, Repairing, Reading, Terminal
<1>7. CASE DecisionEnds
  BY <1>7, DecisionEnding DEF DecisionInv, Working, Repairing, Reading, Terminal
<1>8. QED
  BY <1>l, <1>1, <1>2, <1>3, <1>4, <1>5, <1>6, <1>7, Steps DEF DecisionOpens

\* One audit write brings the version one key further and touches no other
\* version.
WritesKey ==
  /\ session.phase = "writing"
  /\ session.step \in 1..6
  /\ IF StepApplies(session) THEN Applies(ForwardWrite(session)) ELSE UNCHANGED tags

LEMMA OrderIsOneToOne ==
  /\ \A i, j \in 1..6 : Order[i] = Order[j] => i = j
  /\ \A i \in 1..6 : Order[i] \in Keys /\ (Order[i] = "lifecycle" <=> i = 6)
<1>1. /\ Order[1] = "approved_by" /\ Order[2] = "approved_at"
      /\ Order[3] = "approval_status" /\ Order[4] = "champion_decision"
      /\ Order[5] = "champion_decision_reason" /\ Order[6] = "lifecycle"
  BY DEF Order
<1>2. QED
  BY <1>1 DEF Keys

LEMMA WriteKeyEffect ==
  ASSUME TypeInv, WrittenInv, WritesKey
  PROVE  /\ WrittenTo(tags', session.step + 1)
         /\ session.step <= 5 =>
              tags'[session.version]["lifecycle"] = tags[session.version]["lifecycle"]
         /\ \A v \in Versions \ {session.version} : tags'[v] = tags[v]
<1> DEFINE v == session.version
           n == session.step
<1>1. v \in Versions /\ n \in 1..6 /\ WrittenTo(tags, n)
  BY DEF WritesKey, WrittenInv, TypeInv, SessionWellFormed, Terminal
<1>2. CASE StepApplies(session)
  <2>1. /\ ForwardWrite(session).key = Order[n] /\ ForwardWrite(session).version = v
        /\ ForwardWrite(session).value = AuditTags(session)[Order[n]]
        /\ Order[n] # "alias"
        /\ ForwardWrite(session) \in WriteRecords
        /\ Applies(ForwardWrite(session))
    BY <1>2, <1>1, ForwardWrites, ForwardWriteTyped, Lifecycle DEF WritesKey, Write
  <2>2. /\ \A u \in Versions : u # v => tags'[u] = tags[u]
        /\ \A u \in Versions, k \in Keys :
             tags'[u][k] = IF u = v /\ k = Order[n] THEN AuditTags(session)[Order[n]]
                                                    ELSE tags[u][k]
    BY <2>1, TagWrite DEF TypeInv
  <2>3. ASSUME NEW i \in 1..6, i < n + 1, i = 5 => session.decision = "rollback"
        PROVE  tags'[v][Order[i]] = AuditTags(session)[Order[i]]
    <3>1. CASE i = n
      BY <1>1, <2>2, <3>1, OrderIsOneToOne
    <3>2. CASE i # n
      <4>1. i < n /\ Order[i] # Order[n] /\ Order[i] \in Keys
        BY <1>1, <2>3, <3>2, OrderIsOneToOne
      <4>2. tags[v][Order[i]] = AuditTags(session)[Order[i]]
        BY <1>1, <2>3, <4>1 DEF WrittenTo
      <4>3. QED
        BY <1>1, <2>2, <4>1, <4>2
    <3>3. QED
      BY <3>1, <3>2
  <2>4. n <= 5 => tags'[v]["lifecycle"] = tags[v]["lifecycle"]
    BY <1>1, <2>2, OrderIsOneToOne, Lifecycle
  <2>5. QED
    BY <2>2, <2>3, <2>4 DEF WrittenTo
<1>3. CASE ~StepApplies(session)
  <2>1. tags' = tags
    BY <1>3 DEF WritesKey
  <2>2. n = 5 /\ session.decision # "rollback"
    <3>1. Order[n] = "champion_decision_reason" /\ session.decision # "rollback"
      BY <1>1, <1>3, OrderIsOneToOne, ForwardWrites DEF StepApplies, Keys, WritesKey
    <3>2. Order[5] = "champion_decision_reason"
      BY DEF Order
    <3>3. QED
      BY <1>1, <3>1, <3>2, OrderIsOneToOne
  <2>3. WrittenTo(tags', n + 1)
    BY <1>1, <2>1, <2>2 DEF WrittenTo
  <2>4. QED
    BY <2>1, <2>3
<1>4. QED
  BY <1>2, <1>3

\* The supersede step touches the previous champion's lifecycle only.
LEMMA SupersedeEffect ==
  ASSUME TypeInv, session.phase = "writing", session.step = 7,
         IF StepApplies(session) THEN Applies(ForwardWrite(session)) ELSE UNCHANGED tags
  PROVE  LET p == session.previous
         IN  /\ \A v \in Versions \ {p} : tags'[v] = tags[v]
             /\ p = session.version => tags' = tags
             /\ p \notin {NoVersion, session.version} =>
                  /\ tags'[p]["lifecycle"] = "superseded"
                  /\ \A k \in Keys \ {"lifecycle"} : tags'[p][k] = tags[p][k]
<1>1. Order[7] = "supersede"
  BY DEF Order
<1>2. CASE StepApplies(session)
  <2>1. session.previous \in Versions /\ session.previous \notin {NoVersion, session.version}
    BY <1>1, <1>2, SessionTyped, RegistryConstants
       DEF StepApplies, TypeInv, Versions, VersionOrNone, NoVersion
  <2>2. ForwardWrite(session) = Write("lifecycle", session.previous, "superseded")
    BY ForwardWrites
  <2>3. /\ ForwardWrite(session).key = "lifecycle"
        /\ ForwardWrite(session).version = session.previous
        /\ ForwardWrite(session).value = "superseded"
        /\ ForwardWrite(session) \in WriteRecords
    BY <2>2, ForwardWriteTyped DEF Write
  <2>4. QED
    BY <1>2, <2>1, <2>3, TagWrite, Lifecycle DEF TypeInv
<1>3. CASE ~StepApplies(session)
  BY <1>1, <1>3 DEF StepApplies
<1>4. QED
  BY <1>2, <1>3

\* What a forward step does, by its number.
LEMMA ForwardEffect ==
  ASSUME TypeInv, session.phase = "writing",
         IF StepApplies(session) THEN Applies(ForwardWrite(session)) ELSE UNCHANGED tags
  PROVE  /\ session.step \in 1..6 => WritesKey
         /\ session.step = 8 => tags' = tags
         /\ session.step \in 1..8
<1>1. session.step = 8 => ForwardWrite(session) = Write("alias", session.version, Absent)
  BY ForwardWrites
<1>2. QED
  BY <1>1, ForwardWrites DEF WritesKey, Applies, Write

LEMMA StepWrittenInv ==
  ASSUME Undisturbed', TypeInv, RepairInv, WrittenInv, [Next]_vars
  PROVE  WrittenInv'
<1>l. late = {} /\ late' = {}
  BY UndisturbedStep DEF TypeInv, RepairInv, CurrentInv
<1>t. session \in SessionRecords
  BY SessionTyped DEF TypeInv
<1>1. CASE UNCHANGED <<tags, session>>
  BY <1>1 DEF WrittenInv, WrittenTo, AuditTags
<1>2. CASE \E t \in Trainers : RegisterCandidate(t)
  <2>1. UNCHANGED session
    BY <1>2 DEF RegisterCandidate
  <2>2. CASE session.phase = "writing"
    <3>1. \A v \in Affected(session) : Registered(v)
      BY <2>2 DEF RepairInv, SnapshotInv, Working
    <3>2. \A v \in Affected(session) : tags'[v] = tags[v]
      BY <1>2, <2>2, <3>1, RegistersElsewhere, AffectedVersions DEF Working
    <3>3. /\ tags'[session.version] = tags[session.version]
          /\ session.previous # NoVersion => tags'[session.previous] = tags[session.previous]
      BY <2>2, <3>2, AffectedVersions DEF Working
    <3>4. QED
      BY <2>1, <2>2, <3>3 DEF WrittenInv, WrittenTo, AuditTags
  <2>3. QED
    BY <2>1, <2>2 DEF WrittenInv
<1>3. CASE DecisionOpens \/ DecisionEnds
  BY <1>3, DecisionOpening, DecisionEnding DEF WrittenInv, Reading, Terminal
<1>4. CASE TakeSnapshot
  <2>1. /\ session'.step = 1 /\ session'.originals = tags /\ tags' = tags
        /\ session'.version = session.version
    BY <1>t, <1>4 DEF TakeSnapshot, SessionRecords, registry
  <2>2. QED
    BY <2>1 DEF WrittenInv, WrittenTo
<1>5. CASE ForwardStep /\ session.step # LastStep
  <2>1. /\ session'.step = session.step + 1 /\ session.phase = "writing"
        /\ DecisionKept /\ session.step \in 1..7
    BY <1>t, <1>5, DecisionSteps
       DEF ForwardStep, AfterStep, SessionRecords, DecisionGoesOn, LastStep, TypeInv,
           SessionWellFormed
  <2>2. IF StepApplies(session) THEN Applies(ForwardWrite(session)) ELSE UNCHANGED tags
    BY <1>5 DEF ForwardStep
  <2>3. ASSUME WrittenTo(tags', session.step + 1) PROVE WrittenTo(tags, session.step)'
    <3>1. AuditTags(session)' = AuditTags(session)
      BY <2>1 DEF DecisionKept, AuditTags
    <3>2. QED
      BY <2>1, <2>3, <3>1 DEF WrittenTo, DecisionKept
  <2>4. CASE session.step \in 1..6
    <3>1. WritesKey
      BY <2>1, <2>2, <2>4 DEF WritesKey
    <3>2. WrittenTo(tags, session.step)'
      BY <2>3, <3>1, WriteKeyEffect
    <3>3. session'.step <= 6 =>
            tags'[session.version]["lifecycle"] = session.originals[session.version]["lifecycle"]
      BY <2>1, <2>4, <3>1, WriteKeyEffect DEF WrittenInv
    <3>4. QED
      BY <2>1, <2>4, <3>2, <3>3 DEF WrittenInv, DecisionKept
  <2>5. CASE session.step = 7
    <3>1. session.version \in Versions /\ session.previous \in VersionOrNone
      BY <2>1, SessionTyped DEF TypeInv, SessionWellFormed, Terminal
    <3>2. /\ tags'[session.version] = tags[session.version]
          /\ session.previous \notin {NoVersion, session.version}
               => tags'[session.previous]["lifecycle"] = "superseded"
      BY <2>1, <2>2, <2>5, <3>1, SupersedeEffect
    <3>3. WrittenTo(tags', session.step + 1)
      BY <2>1, <2>5, <3>2 DEF WrittenInv, WrittenTo
    <3>4. QED
      BY <2>1, <2>3, <2>5, <3>2, <3>3 DEF WrittenInv, DecisionKept
  <2>6. QED
    BY <2>1, <2>4, <2>5
<1>6. CASE ForwardFails \/ ReadAliasBack \/ ResetAlias \/ ReadTags
             \/ (RestoreTag /\ session'.phase = "restore")
  <2>1. session'.phase # "writing"
    BY <1>t, <1>6
       DEF ForwardFails, ReadAliasBack, ResetAlias, RestoreFrom, ReadTags, SessionRecords
  <2>2. QED
    BY <2>1 DEF WrittenInv
<1>7. QED
  BY <1>l, <1>1, <1>2, <1>3, <1>4, <1>5, <1>6, Steps DEF DecisionGoesOn

\* The whole audit is what the governance check asks for.
LEMMA WrittenIsGoverned ==
  ASSUME DecisionInv, session.phase = "writing", session.decision \in Decisions,
         NEW tg, NEW n \in Nat, n > 6, WrittenTo(tg, n)
  PROVE  GovernedTags(tg[session.version])
<1> DEFINE v == session.version
<1>1. /\ Order[1] = "approved_by" /\ Order[2] = "approved_at"
      /\ Order[3] = "approval_status" /\ Order[4] = "champion_decision"
      /\ Order[5] = "champion_decision_reason" /\ Order[6] = "lifecycle"
  BY DEF Order
<1>2. /\ \A i \in {1, 2, 3, 4, 6} : tg[v][Order[i]] = AuditTags(session)[Order[i]]
      /\ session.decision = "rollback" => tg[v][Order[5]] = AuditTags(session)[Order[5]]
  BY DEF WrittenTo
<1>3. /\ tg[v]["approved_by"] = session.by /\ tg[v]["approved_at"] = session.by
      /\ tg[v]["approval_status"] = "approved"
      /\ tg[v]["champion_decision"] = session.decision
      /\ session.decision = "rollback" => tg[v]["champion_decision_reason"] = "reason"
      /\ tg[v]["lifecycle"] = "champion"
  BY <1>1, <1>2 DEF AuditTags
<1>4. session.by # Absent /\ "reason" # Absent
  BY RegistryConstants DEF DecisionInv, Terminal
<1>5. QED
  BY <1>3, <1>4 DEF GovernedTags

\* All a command can do to the tags in one step.
WritesForward ==
  /\ session.phase = "writing"
  /\ IF StepApplies(session) THEN Applies(ForwardWrite(session)) ELSE UNCHANGED tags

LEMMA CommandWrites ==
  ASSUME TypeInv, late = {}, late' = {}, session.phase \in Working,
         DecisionGoesOn \/ DecisionEnds
  PROVE  UNCHANGED tags \/ WritesForward \/ RestoresKey
<1>1. ForwardStep => WritesForward
  BY DEF ForwardStep, WritesForward
<1>2. ForwardFails => UNCHANGED tags \/ WritesForward
  BY DEF ForwardFails, WritesForward, CallRaised
<1>3. RestoreTag => UNCHANGED tags \/ RestoresKey
  BY DEF RestoreTag, RestoresKey
<1>4. RepairFails => UNCHANGED tags \/ RestoresKey
  BY DEF RepairFails, RestoresKey, CallRaised, Applies, Write
<1>5. ReadAliasBack \/ ResetAlias \/ ReadTags \/ Reject \/ Crash => UNCHANGED tags
  BY DEF ReadAliasBack, ResetAlias, Applies, Write, ReadTags, Reject, Crash, registry
<1>6. QED
  BY <1>1, <1>2, <1>3, <1>4, <1>5 DEF DecisionGoesOn, DecisionEnds

LEMMA PreviousStays ==
  ASSUME TypeInv, RepairInv, WrittenInv, PreviousInv, late = {}, late' = {},
         session.phase \in Working, DecisionGoesOn \/ DecisionEnds
  PROVE  PreviousKept(tags')
<1> DEFINE p == session.previous
<1> SUFFICES ASSUME p \notin {NoVersion, session.version}
             PROVE  /\ tags'[p]["lifecycle"] \in
                         {session.originals[p]["lifecycle"], "superseded"}
                    /\ \A k \in Keys \ {"lifecycle"} :
                         tags'[p][k] = session.originals[p][k]
  BY DEF PreviousKept
<1>1. p \in Versions
  BY SessionTyped, RegistryConstants DEF TypeInv, Versions, VersionOrNone, NoVersion
<1>2. /\ tags[p]["lifecycle"] \in {session.originals[p]["lifecycle"], "superseded"}
      /\ \A k \in Keys \ {"lifecycle"} : tags[p][k] = session.originals[p][k]
  BY DEF PreviousInv, PreviousKept
<1>3. CASE tags'[p] = tags[p]
  BY <1>2, <1>3
<1>4. CASE WritesForward
  <2>1. CASE WritesKey
    BY <1>1, <1>3, <2>1, WriteKeyEffect
  <2>2. CASE session.step = 7
    BY <1>1, <1>2, <1>4, <2>2, SupersedeEffect DEF WritesForward
  <2>3. CASE session.step = 8 /\ tags' = tags
    BY <1>3, <2>3
  <2>4. QED
    BY <1>4, <2>1, <2>2, <2>3, ForwardEffect DEF WritesForward
<1>5. CASE RestoresKey
  <2>1. CASE session.current = p
    <3>1. \A i \in 1..6 :
            tags'[p][TrackedKeys[i]] \in
              {session.originals[p][TrackedKeys[i]], tags[p][TrackedKeys[i]]}
      BY <1>5, <2>1, RestoreTagEffect
    <3>2. \A k \in Keys : tags'[p][k] \in {session.originals[p][k], tags[p][k]}
      BY <3>1, KeysInOrder
    <3>3. QED
      BY <1>2, <3>2, Lifecycle
  <2>2. CASE session.current # p
    BY <1>1, <1>3, <1>5, <2>2, RestoreTagEffect
  <2>3. QED
    BY <2>1, <2>2
<1>6. QED
  BY <1>3, <1>4, <1>5, CommandWrites

\* A previous champion that is kept is still recoverable.
LEMMA KeptIsRecoverable ==
  ASSUME PreviousInv, session.phase \in Working, NEW tg, PreviousKept(tg),
         session.previous \notin {NoVersion, session.version}
  PROVE  Recoverable(tg[session.previous])
<1>1. Recoverable(session.originals[session.previous])
  BY DEF PreviousInv
<1>2. /\ tg[session.previous]["lifecycle"] \in
           {session.originals[session.previous]["lifecycle"], "superseded"}
      /\ \A k \in Keys \ {"lifecycle"} :
           tg[session.previous][k] = session.originals[session.previous][k]
  BY DEF PreviousKept
<1>3. CASE tg[session.previous]["lifecycle"] = "superseded"
  BY <1>3 DEF Recoverable
<1>4. CASE tg[session.previous]["lifecycle"] # "superseded"
  BY <1>1, <1>2, <1>4 DEF Recoverable, GovernedTags, Keys
<1>5. QED
  BY <1>3, <1>4

\* A version that is rolled back to although the alias points to it already is
\* tagged superseded until the audit is complete, and again as soon as the
\* compensation has put its first tag back.
LEMMA SelfRollbackRecoverable ==
  ASSUME TypeInv, RepairInv, RecoverInv, late = {}, late' = {},
         session.phase \in Working, DecisionGoesOn \/ DecisionEnds,
         session.previous = session.version, alias = session.version
  PROVE  Recoverable(tags'[session.version])
<1> DEFINE v == session.version
<1>1. /\ v \in Versions /\ v # NoVersion /\ session.decision \in Decisions
      /\ session.step \in 0..LastStep
  BY SessionTyped, RegistryConstants
     DEF TypeInv, SessionWellFormed, Working, Repairing, Terminal, Versions, NoVersion
<1>2. session.originals[v]["lifecycle"] = "superseded"
  <2>1. Recoverable(session.originals[v])
    BY <1>1 DEF RecoverInv, PreviousInv
  <2>2. session.originals[v]["lifecycle"] \in {"candidate", "superseded"}
    BY DEF RecoverInv, DecisionInv, RequiredLifecycle
  <2>3. QED
    BY <2>1, <2>2 DEF Recoverable, GovernedTags
<1>3. CASE tags'[v] = tags[v]
  BY <1>1, <1>3 DEF RecoverInv, AliasRecoverable
<1>4. CASE WritesForward
  <2>1. CASE WritesKey /\ session.step <= 5
    <3>1. tags'[v]["lifecycle"] = "superseded"
      BY <1>1, <1>2, <2>1, WriteKeyEffect DEF RecoverInv, WrittenInv, WritesKey
    <3>2. QED
      BY <3>1 DEF Recoverable
  <2>2. CASE WritesKey /\ session.step = 6
    <3>1. WrittenTo(tags', 7) /\ session.phase = "writing"
      BY <2>2, WriteKeyEffect DEF RecoverInv, WritesKey
    <3>2. QED
      BY <1>1, <3>1, WrittenIsGoverned DEF RecoverInv, Recoverable
  <2>3. CASE session.step = 7
    BY <1>3, <1>4, <2>3, SupersedeEffect DEF WritesForward
  <2>4. CASE session.step = 8 /\ tags' = tags
    BY <1>3, <2>4
  <2>5. QED
    BY <1>4, <2>1, <2>2, <2>3, <2>4, ForwardEffect DEF WritesForward, WritesKey
<1>5. CASE RestoresKey
  <2>1. session.current = v /\ RestoredSoFar(v) /\ session.step \in 1..6
    BY <1>5, RestoreTagEffect
       DEF RestoresKey, RepairInv, RestoreInv, Affected, TypeInv, SessionWellFormed
  <2>2. TrackedKeys[1] = "lifecycle"
    BY DEF TrackedKeys
  <2>3. tags'[v][TrackedKeys[1]] = session.originals[v][TrackedKeys[1]]
    <3>1. CASE session.step = 1
      BY <1>5, <2>1, <3>1, RestoreTagEffect
    <3>2. CASE session.step # 1
      <4>1. tags[v][TrackedKeys[1]] = session.originals[v][TrackedKeys[1]]
        BY <2>1, <3>2 DEF RestoredSoFar
      <4>2. QED
        BY <1>5, <2>1, <3>2, <4>1, RestoreTagEffect
    <3>3. QED
      BY <3>1, <3>2
  <2>4. QED
    BY <1>2, <2>2, <2>3 DEF Recoverable
<1>6. QED
  BY <1>3, <1>4, <1>5, CommandWrites

LEMMA CommandRecoverable ==
  ASSUME TypeInv, RepairInv, RecoverInv, late = {}, late' = {},
         session.phase \in Working, DecisionGoesOn \/ DecisionEnds
  PROVE  AliasRecoverable'
<1>1. alias \in {session.previous, session.version}
  BY DEF RepairInv, CurrentInv, AliasInv, BeforeAlias, Working, Repairing
<1>2. alias' \in {session.previous, session.version}
  BY <1>1, AliasMoves
<1>3. session.version # NoVersion
  BY RegistryConstants
     DEF TypeInv, SessionWellFormed, Working, Repairing, Terminal, Versions, NoVersion
<1>4. CASE session.previous = session.version
  BY <1>1, <1>2, <1>4, SelfRollbackRecoverable DEF AliasRecoverable
<1>5. CASE session.previous # session.version /\ alias' = session.previous
  BY <1>5, PreviousStays, KeptIsRecoverable DEF RecoverInv, AliasRecoverable
<1>6. CASE session.previous # session.version /\ alias' = session.version /\ alias' = alias
  <2>1. session.phase \in {"repair", "reset"}
    BY <1>6 DEF RepairInv, CurrentInv, AliasInv, BeforeAlias, Working, Repairing
  <2>2. tags' = tags
    BY <2>1, CommandWrites DEF WritesForward, RestoresKey
  <2>3. QED
    BY <1>6, <2>2 DEF RecoverInv, AliasRecoverable
<1>7. CASE /\ session.previous # session.version
           /\ alias' = session.version /\ alias' # alias
  <2>1. ForwardStep \/ ForwardFails
    <3>1. ~(ResetAlias \/ (RepairFails /\ session.phase = "reset"))
      BY <1>7, AliasMoves
    <3>2. QED
      BY <1>7, <3>1, AliasMoves
  <2>2. session.phase = "writing" /\ session.step = 8
    BY <1>7, <2>1, AliasMoves DEF ForwardStep, ForwardFails, LastStep
  <2>3. tags' = tags
    BY <2>2, CommandWrites, ForwardEffect DEF WritesForward, RestoresKey
  <2>4. GovernedTags(tags[session.version])
    <3>1. WrittenTo(tags, 8)
      BY <2>2 DEF RecoverInv, WrittenInv
    <3>2. QED
      BY <2>2, <3>1, WrittenIsGoverned, SessionTyped DEF RecoverInv, TypeInv
  <2>5. QED
    BY <1>7, <2>3, <2>4 DEF AliasRecoverable, Recoverable
<1>8. QED
  BY <1>2, <1>4, <1>5, <1>6, <1>7

LEMMA StepRecoverInv ==
  ASSUME Undisturbed', TypeInv, RepairInv, RecoverInv, [Next]_vars
  PROVE  RecoverInv'
<1>l. late = {} /\ late' = {}
  BY UndisturbedStep DEF TypeInv, RepairInv, CurrentInv
<1>t. alias \in VersionOrNone /\ session \in SessionRecords
  BY SessionTyped DEF TypeInv, TypeOK
<1>d. DecisionInv' /\ WrittenInv'
  BY StepDecisionInv, StepWrittenInv DEF RecoverInv
<1>1. CASE UNCHANGED <<alias, tags, session>>
  BY <1>1, <1>d DEF RecoverInv, PreviousInv, PreviousKept, AliasRecoverable
<1>2. CASE \E t \in Trainers : RegisterCandidate(t)
  <2>1. UNCHANGED <<alias, session>>
    BY <1>2 DEF RegisterCandidate
  <2>2. alias # NoVersion => tags'[alias] = tags[alias]
    BY <1>2, <1>t, RegistersElsewhere, RegistryConstants
       DEF RepairInv, AliasInv, Versions, VersionOrNone, NoVersion
  <2>3. session.phase \in Working /\ session.previous # NoVersion
          => tags'[session.previous] = tags[session.previous]
    BY <1>2, RegistersElsewhere, AffectedVersions DEF RepairInv, SnapshotInv
  <2>4. QED
    BY <1>d, <2>1, <2>2, <2>3 DEF RecoverInv, PreviousInv, PreviousKept, AliasRecoverable
<1>3. CASE DecisionOpens
  <2>1. UNCHANGED <<alias, tags>> /\ session'.phase \notin Working
    BY <1>3, DecisionOpening DEF registry, Reading, Working, Repairing
  <2>2. QED
    BY <1>d, <2>1 DEF RecoverInv, PreviousInv, AliasRecoverable
<1>4. CASE TakeSnapshot
  <2>1. /\ session'.previous = alias /\ session'.originals = tags
        /\ UNCHANGED <<alias, tags>>
    BY <1>4, <1>t
       DEF TakeSnapshot, SessionRecords, registry, RepairInv, CurrentInv, BeforeAlias
  <2>2. QED
    BY <1>d, <2>1 DEF RecoverInv, PreviousInv, PreviousKept, AliasRecoverable
<1>5. CASE DecisionGoesOn
  <2>1. DecisionKept /\ session.phase \in Working
    BY <1>5, DecisionSteps
  <2>2. PreviousKept(tags')
    BY <1>l, <1>5, <2>1, PreviousStays DEF RecoverInv
  <2>3. PreviousInv'
    BY <2>1, <2>2 DEF RecoverInv, PreviousInv, PreviousKept, DecisionKept
  <2>4. QED
    BY <1>l, <1>5, <1>d, <2>1, <2>3, CommandRecoverable DEF RecoverInv
<1>6. CASE DecisionEnds
  <2>1. PreviousInv'
    BY <1>6, DecisionEnding DEF PreviousInv, Terminal, Working, Repairing
  <2>2. AliasRecoverable'
    <3>1. CASE session.phase \in Working
      BY <1>l, <1>6, <3>1, CommandRecoverable
    <3>2. CASE session.phase \notin Working
      <4>1. UNCHANGED <<alias, tags>>
        BY <1>6, <3>2
           DEF DecisionEnds, Reject, ForwardStep, RestoreTag, RepairFails, Crash, Working,
               Repairing, registry
      <4>2. QED
        BY <4>1 DEF RecoverInv, AliasRecoverable
    <3>3. QED
      BY <3>1, <3>2
  <2>3. QED
    BY <1>d, <2>1, <2>2 DEF RecoverInv
<1>7. QED
  BY <1>l, <1>1, <1>2, <1>3, <1>4, <1>5, <1>6, Steps

LEMMA InitRecoverInv == Init => RecoverInv
  BY NoSessionTyped
     DEF Init, RecoverInv, DecisionInv, WrittenInv, PreviousInv, AliasRecoverable,
         Terminal, Reading, Working, Repairing

LEMMA AlwaysRecoverInv == Spec => [](Undisturbed => RecoverInv)
<1>1. /\ TypeInv /\ (Undisturbed => RepairInv) /\ (Undisturbed => RecoverInv) /\ [Next]_vars
      => (Undisturbed => RecoverInv)'
  <2> SUFFICES ASSUME TypeInv, Undisturbed => RepairInv, Undisturbed => RecoverInv,
                      [Next]_vars, Undisturbed'
               PROVE  RecoverInv'
    OBVIOUS
  <2>1. Undisturbed
    BY UndisturbedBefore DEF TypeInv
  <2>2. QED
    BY <2>1, StepRecoverInv
<1>2. QED
  BY <1>1, InitRecoverInv, AlwaysRepairInv, AlwaysTypeInv, PTL DEF Spec

\* Governance is what the tags say and whose the version is.
LEMMA GovernedByTags ==
  ASSUME TypeInv, SingleTenantNamespace, NEW v \in Versions, GovernedTags(tags[v])
  PROVE  Governed(v)
<1>1. Registered(v)
  BY RegistryConstants DEF GovernedTags, Registered, Lifecycles
<1>2. owner[v] = binding
  BY <1>1 DEF SingleTenantNamespace
<1>3. QED
  BY <1>2 DEF GovernedTags, Governed

\* Wherever commands die, and whatever their last call did, the aliased version
\* passes the governance check of every API start or is one the rollback
\* command accepts: no death of _set_champion needs a hand edit to repair.
THEOREM DeadCommandsAreRecoverable == Spec => []RecoverableAlias
<1>1. /\ TypeInv /\ (Undisturbed => RepairInv) /\ (Undisturbed => RecoverInv)
      /\ SingleTenantNamespace
      => RecoverableAlias
  <2> SUFFICES ASSUME TypeInv, SingleTenantNamespace, RepairInv, RecoverInv,
                      alias # NoVersion
               PROVE  \/ Governed(alias)
                      \/ /\ tags[alias]["lifecycle"] = "superseded"
                         /\ owner[alias] = binding
    BY DEF RecoverableAlias, Undisturbed
  <2>1. alias \in Versions
    BY RegistryConstants DEF TypeInv, TypeOK, Versions, VersionOrNone, NoVersion
  <2>2. owner[alias] = binding
    BY <2>1 DEF RepairInv, AliasInv, SingleTenantNamespace
  <2>3. Recoverable(tags[alias])
    BY DEF RecoverInv, AliasRecoverable
  <2>4. QED
    BY <2>1, <2>2, <2>3, GovernedByTags DEF Recoverable
<1>2. QED
  BY <1>1, AlwaysTypeInv, AlwaysRepairInv, AlwaysRecoverInv, TenantsNeverMix, PTL

----------------------------------------------------------------------------
(* The clean registry. As long as no command died or gave up its repair,   *)
(* the registry is clean between commands, and a running command holds a   *)
(* snapshot of a clean one.                                                *)

CleanTags(tg, a) ==
  /\ \A v \in Versions : tg[v]["lifecycle"] = "champion" <=> a = v
  /\ a # NoVersion => GovernedTags(tg[a])

CleanInv ==
  breaks = 0 =>
    /\ session.phase \in Terminal \cup Reading => CleanTags(tags, alias)
    /\ session.phase \in Working => CleanTags(session.originals, session.previous)

\* The command that comes to its end has made one champion and retired one.
LEMMA DoneIsClean ==
  ASSUME TypeInv, RepairInv, RecoverInv, late = {}, late' = {},
         CleanTags(session.originals, session.previous),
         ForwardStep, session.step = LastStep
  PROVE  CleanTags(tags', alias')
<1> DEFINE v == session.version
           p == session.previous
<1>1. /\ session.phase = "writing" /\ session.phase \in Working /\ session.step = 8
      /\ session.decision \in Decisions
      /\ v \in Versions /\ p \in VersionOrNone
      /\ v \in Affected(session)
      /\ session.originals[v]["lifecycle"] \in {"candidate", "superseded"}
  BY SessionTyped, AffectedVersions
     DEF ForwardStep, Working, LastStep, TypeInv, SessionWellFormed, Terminal, RecoverInv,
         DecisionInv, RequiredLifecycle
<1>2. alias' = v
  BY AliasMoves DEF DecisionEnds
<1>3. tags' = tags
  BY <1>1, ForwardEffect DEF ForwardStep
<1>4. p # v
  BY <1>1 DEF CleanTags
<1>5. GovernedTags(tags[v])
  <2>1. WrittenTo(tags, 8)
    BY <1>1 DEF RecoverInv, WrittenInv
  <2>2. QED
    BY <1>1, <2>1, WrittenIsGoverned DEF RecoverInv
<1>6. ASSUME NEW u \in Versions, tags[u]["lifecycle"] = "champion", u # v
      PROVE  FALSE
  <2>1. CASE u = p
    <3>1. p # NoVersion
      BY <2>1, RegistryConstants DEF Versions, NoVersion
    <3>2. tags[p]["lifecycle"] = "superseded"
      BY <1>1, <1>4, <3>1 DEF RecoverInv, WrittenInv
    <3>3. QED
      BY <1>6, <2>1, <3>2
  <2>2. CASE u # p
    <3>1. u \notin Affected(session)
      BY <1>6, <2>2 DEF Affected
    <3>2. tags[u] = session.originals[u] \/ tags[u]["lifecycle"] \in {Absent, "candidate"}
      BY <1>1, <3>1 DEF RepairInv, SnapshotInv
    <3>3. session.originals[u]["lifecycle"] # "champion" /\ Absent # "champion"
      BY <2>2, RegistryConstants DEF CleanTags, Lifecycles
    <3>4. QED
      BY <1>6, <3>2, <3>3
  <2>3. QED
    BY <2>1, <2>2
<1>7. QED
  BY <1>1, <1>2, <1>3, <1>5, <1>6 DEF CleanTags, GovernedTags

\* The command that gives up and puts everything back leaves what it found.
LEMMA RestoredIsClean ==
  ASSUME TypeInv, TypeInv', RepairInv, CleanTags(session.originals, session.previous),
         RestoreTag, session'.phase # "restore"
  PROVE  CleanTags(tags', alias')
<1> DEFINE p == session.previous
<1>1. session.phase \in Working
  BY DEF RestoreTag, Working, Repairing
<1>2. alias' = p
  BY LastTagRestored
<1>3. p # NoVersion => p \in Affected(session) /\ tags'[p] = session.originals[p]
  BY <1>1, AffectedVersions, LastTagRestored
<1>4. ASSUME NEW u \in Versions
      PROVE  tags'[u]["lifecycle"] = "champion" <=> p = u
  <2>1. CASE u \in Affected(session)
    BY <2>1, LastTagRestored DEF CleanTags
  <2>2. CASE u \notin Affected(session)
    <3>1. tags'[u] = session.originals[u] \/ tags'[u]["lifecycle"] \in {Absent, "candidate"}
      BY <1>1, <2>2, LastTagRestored DEF RepairInv, SnapshotInv
    <3>2. u # p /\ Absent # "champion"
      <4>1. u # NoVersion
        BY RegistryConstants DEF Versions, NoVersion
      <4>2. QED
        BY <1>3, <2>2, <4>1, RegistryConstants DEF Lifecycles
    <3>3. session.originals[u]["lifecycle"] # "champion"
      BY <3>2 DEF CleanTags
    <3>4. QED
      BY <3>1, <3>2, <3>3
  <2>3. QED
    BY <2>1, <2>2
<1>5. QED
  BY <1>2, <1>3, <1>4 DEF CleanTags

LEMMA StepCleanInv ==
  ASSUME Undisturbed', TypeInv, TypeInv', RepairInv, RecoverInv, CleanInv, [Next]_vars
  PROVE  CleanInv'
<1>l. late = {} /\ late' = {}
  BY UndisturbedStep DEF TypeInv, RepairInv, CurrentInv
<1>t. alias \in VersionOrNone /\ session \in SessionRecords /\ breaks \in Nat
  BY SessionTyped, RegistryConstants DEF TypeInv, TypeOK
<1>1. CASE UNCHANGED <<alias, tags, session, breaks>>
  BY <1>1 DEF CleanInv, CleanTags
<1>2. CASE \E t \in Trainers : RegisterCandidate(t)
  <2>1. UNCHANGED <<alias, session, breaks>>
    BY <1>2 DEF RegisterCandidate, history
  <2>2. PICK v \in Versions :
          /\ ~Registered(v)
          /\ tags'[v]["lifecycle"] = "candidate"
          /\ \A u \in Versions \ {v} : tags'[u] = tags[u]
    BY <1>2, RegistersElsewhere
  <2>3. /\ alias # v
        /\ alias # NoVersion => alias \in Versions
        /\ tags[v]["lifecycle"] # "champion"
    BY <1>t, <2>2, RegistryConstants
       DEF RepairInv, AliasInv, Versions, VersionOrNone, NoVersion, Registered, Lifecycles
  <2>4. CleanTags(tags, alias) => CleanTags(tags, alias)'
    BY <2>1, <2>2, <2>3 DEF CleanTags
  <2>5. QED
    BY <2>1, <2>4 DEF CleanInv
<1>3. CASE DecisionOpens
  <2>1. UNCHANGED <<alias, tags, breaks>> /\ session'.phase \in Reading
    BY <1>3, DecisionOpening DEF registry, history
  <2>2. session.phase \in Terminal \cup Reading
    BY <1>3 DEF DecisionOpens, BeginDecision, ReadPrevious, Reading
  <2>3. QED
    BY <2>1, <2>2 DEF CleanInv, CleanTags, Reading, Working, Repairing
<1>4. CASE TakeSnapshot
  <2>1. /\ session'.previous = alias /\ session'.originals = tags
        /\ session'.phase = "writing" /\ session.phase \in Reading
        /\ UNCHANGED breaks
    BY <1>4, <1>t
       DEF TakeSnapshot, SessionRecords, history, RepairInv, CurrentInv, BeforeAlias, Reading
  <2>2. QED
    BY <2>1 DEF CleanInv, Terminal, Reading
<1>5. CASE DecisionGoesOn
  <2>1. DecisionKept /\ session.phase \in Working /\ session'.phase \in Working
    BY <1>5, DecisionSteps
  <2>2. UNCHANGED breaks
    BY <1>5
       DEF DecisionGoesOn, ForwardStep, ForwardFails, Record, ReadAliasBack, ResetAlias,
           ReadTags, RestoreTag, history
  <2>3. QED
    BY <2>1, <2>2 DEF CleanInv, DecisionKept, CleanTags, Working, Repairing, Terminal, Reading
<1>6. CASE RepairFails \/ Crash
  BY <1>6, <1>t DEF RepairFails, Crash, CleanInv
<1>7. CASE DecisionEnds /\ ~RepairFails /\ ~Crash
  <2>1. session'.phase \in Terminal
    BY <1>7, DecisionEnding
  <2>2. breaks' = breaks
    BY <1>7 DEF DecisionEnds, Reject, ForwardStep, Record, RestoreTag, history
  <2>3. ASSUME breaks = 0 PROVE CleanTags(tags, alias)'
    <3>1. CASE Reject
      BY <2>3, <3>1 DEF Reject, registry, CleanInv, CleanTags
    <3>2. CASE ForwardStep /\ session.step = LastStep
      BY <1>l, <2>3, <3>2, DoneIsClean DEF ForwardStep, CleanInv, CleanTags, Working
    <3>3. CASE RestoreTag /\ session'.phase # "restore"
      BY <2>3, <3>3, RestoredIsClean DEF RestoreTag, CleanInv, CleanTags, Working, Repairing
    <3>4. QED
      BY <1>7, <3>1, <3>2, <3>3 DEF DecisionEnds
  <2>4. QED
    BY <2>1, <2>2, <2>3 DEF CleanInv, Terminal, Working, Repairing
<1>8. QED
  BY <1>l, <1>1, <1>2, <1>3, <1>4, <1>5, <1>6, <1>7, Steps

\* Between commands that all ended as they should, by success or by a complete
\* repair, exactly the aliased version is tagged champion, it is what every API
\* start accepts, and its approver and approval time are of one decision.
THEOREM QuietRegistryIsClean == Spec => []CleanRegistry
<1>1. Init => CleanInv
  BY NoSessionTyped, RegistryConstants
     DEF Init, CleanInv, CleanTags, NoTags, Keys, Lifecycles, Versions, NoVersion, Terminal,
         Working, Repairing
<1>2. /\ TypeInv /\ TypeInv' /\ (Undisturbed => RepairInv) /\ (Undisturbed => RecoverInv)
      /\ (Undisturbed => CleanInv) /\ [Next]_vars
      => (Undisturbed => CleanInv)'
  <2> SUFFICES ASSUME TypeInv, TypeInv', Undisturbed => RepairInv, Undisturbed => RecoverInv,
                      Undisturbed => CleanInv, [Next]_vars, Undisturbed'
               PROVE  CleanInv'
    OBVIOUS
  <2>1. Undisturbed
    BY UndisturbedBefore DEF TypeInv
  <2>2. QED
    BY <2>1, StepCleanInv
<1>3. /\ TypeInv /\ (Undisturbed => CleanInv) /\ SingleTenantNamespace
      => CleanRegistry
  <2> SUFFICES ASSUME TypeInv, SingleTenantNamespace, CleanTags(tags, alias)
               PROVE  /\ \A v \in Versions : tags[v]["lifecycle"] = "champion" <=> alias = v
                      /\ alias # NoVersion
                           => /\ Governed(alias)
                              /\ tags[alias]["approved_by"] = tags[alias]["approved_at"]
    BY DEF CleanRegistry, CleanInv, Undisturbed, Quiet
  <2>1. alias # NoVersion => alias \in Versions
    BY RegistryConstants DEF TypeInv, TypeOK, Versions, VersionOrNone, NoVersion
  <2>2. QED
    BY <2>1, GovernedByTags DEF CleanTags, GovernedTags
<1>4. QED
  BY <1>1, <1>2, <1>3, AlwaysTypeInv, AlwaysRepairInv, AlwaysRecoverInv, TenantsNeverMix,
     PTL DEF Spec

----------------------------------------------------------------------------
(* Former champions. Whatever is tagged superseded, benchmarked against or *)
(* remembered as the previous champion has been one.                       *)

FormerOrNone == former \cup {NoVersion}

FormerInv ==
  /\ alias \in FormerOrNone
  /\ session.previous \in FormerOrNone
  /\ \A t \in Trainers :
       trainer[t].compared \in FormerOrNone /\ trainer[t].bench \in FormerOrNone
  /\ \A v \in Versions :
       tags[v]["lifecycle"] = "superseded" \/ session.originals[v]["lifecycle"] = "superseded"
         => v \in former
  /\ session.phase \notin Terminal /\ session.decision = "rollback"
       => session.version \in former

\* The writes of a command retire former champions only.
LEMMA CommandRetiresChampions ==
  ASSUME TypeInv, RepairInv, RecoverInv, FormerInv, late = {}, late' = {},
         session.phase \in Working, DecisionGoesOn \/ DecisionEnds,
         NEW v \in Versions, tags'[v]["lifecycle"] = "superseded"
  PROVE  v \in former
<1>1. CASE tags'[v]["lifecycle"] = tags[v]["lifecycle"]
  BY <1>1 DEF FormerInv
<1>2. CASE WritesForward
  <2>1. CASE WritesKey /\ session.step <= 5
    BY <1>1, <2>1, WriteKeyEffect DEF RecoverInv
  <2>2. CASE WritesKey /\ session.step = 6
    <3>1. v # session.version \/ tags'[v]["lifecycle"] = "champion"
      <4>1. WrittenTo(tags', 7) /\ session.phase = "writing" /\ session.decision \in Decisions
        BY <2>2, WriteKeyEffect, SessionTyped DEF RecoverInv, WritesKey, TypeInv
      <4>2. QED
        BY <4>1, WrittenIsGoverned DEF RecoverInv, GovernedTags
    <3>2. QED
      BY <1>1, <2>2, <3>1, WriteKeyEffect DEF RecoverInv
  <2>3. CASE session.step = 7
    <3>1. CASE v = session.previous
      BY <3>1, RegistryConstants DEF FormerInv, FormerOrNone, Versions, NoVersion
    <3>2. CASE v # session.previous
      BY <1>1, <1>2, <2>3, <3>2, SupersedeEffect DEF WritesForward
    <3>3. QED
      BY <3>1, <3>2
  <2>4. CASE session.step = 8 /\ tags' = tags
    BY <1>1, <2>4
  <2>5. QED
    BY <1>2, <2>1, <2>2, <2>3, <2>4, ForwardEffect DEF WritesForward, WritesKey
<1>3. CASE RestoresKey
  <2>1. CASE v = session.current
    <3>1. \A i \in 1..6 :
            tags'[v][TrackedKeys[i]] \in
              {session.originals[v][TrackedKeys[i]], tags[v][TrackedKeys[i]]}
      BY <1>3, <2>1, RestoreTagEffect
    <3>2. tags'[v]["lifecycle"] \in {session.originals[v]["lifecycle"], tags[v]["lifecycle"]}
      BY <3>1, KeysInOrder, Lifecycle
    <3>3. QED
      BY <3>2 DEF FormerInv
  <2>2. CASE v # session.current
    BY <1>1, <1>3, <2>2, RestoreTagEffect
  <2>3. QED
    BY <2>1, <2>2
<1>4. QED
  BY <1>1, <1>2, <1>3, CommandWrites

\* The version the alias is moved to is recorded in the same step.
LEMMA CommandFormers ==
  ASSUME TypeInv, RepairInv, FormerInv, late = {}, late' = {},
         DecisionGoesOn \/ DecisionEnds
  PROVE  /\ former' = IF (ForwardStep \/ ForwardFails) /\ alias' = session.version
                      THEN former \cup {session.version} ELSE former
         /\ alias' \in former' \cup {NoVersion}
         /\ trainer' = trainer
<1>1. ForwardStep \/ ForwardFails =>
        /\ former' = IF alias' = session.version
                     THEN former \cup {session.version} ELSE former
        /\ trainer' = trainer
  BY DEF ForwardStep, ForwardFails, Record, Unmoved
<1>2. ~(ForwardStep \/ ForwardFails) => former' = former /\ trainer' = trainer
  BY DEF DecisionGoesOn, DecisionEnds, ReadAliasBack, ResetAlias, ReadTags, RestoreTag,
         Reject, RepairFails, Crash, Unmoved, history
<1>3. alias' \in former' \cup {NoVersion}
  BY <1>1, <1>2, AliasMoves DEF FormerInv, FormerOrNone
<1>4. QED
  BY <1>1, <1>2, <1>3

LEMMA StepFormerInv ==
  ASSUME Undisturbed', TypeInv, RepairInv, RecoverInv, FormerInv, [Next]_vars
  PROVE  FormerInv'
<1>l. late = {} /\ late' = {}
  BY UndisturbedStep DEF TypeInv, RepairInv, CurrentInv
<1>t. /\ session \in SessionRecords
      /\ trainer \in [Trainers -> [phase : TrainerPhases, compared : VersionOrNone,
                                   bench : VersionOrNone]]
  BY SessionTyped DEF TypeInv, TypeOK
<1>1. ASSUME UNCHANGED <<alias, tags, session, former>>,
             \A t \in Trainers :
               /\ trainer'[t].compared \in {trainer[t].compared, alias, NoVersion}
               /\ trainer'[t].bench \in {trainer[t].bench, alias, NoVersion}
      PROVE  FormerInv'
  BY <1>1 DEF FormerInv, FormerOrNone
<1>2. CASE UNCHANGED <<alias, tags, session, former>> /\ (Pipeline \/ UNCHANGED vars)
  <2>1. CASE UNCHANGED vars
    BY <1>1, <1>2, <2>1 DEF vars
  <2>2. ASSUME NEW t \in Trainers,
               LoadChampion(t) \/ EnsureTenantBinding(t) \/ ResolveBenchmark(t)
                 \/ TrainerStops(t)
        PROVE  FormerInv'
    <3>1. \A u \in Trainers :
            /\ trainer'[u].compared \in {trainer[u].compared, alias, NoVersion}
            /\ trainer'[u].bench \in {trainer[u].bench, alias, NoVersion}
      BY <1>t, <2>2
         DEF LoadChampion, EnsureTenantBinding, ResolveBenchmark, TrainerStops, IdleTrainer
    <3>2. QED
      BY <1>1, <1>2, <3>1
  <2>3. QED
    BY <1>2, <2>1, <2>2 DEF Pipeline
<1>3. ASSUME NEW t \in Trainers, RegisterCandidate(t) PROVE FormerInv'
  <2>1. UNCHANGED <<alias, session, former>> /\ trainer' = [trainer EXCEPT ![t] = IdleTrainer]
    BY <1>3 DEF RegisterCandidate, history
  <2>2. PICK v \in Versions :
          /\ tags'[v]["lifecycle"] = "candidate"
          /\ \A u \in Versions \ {v} : tags'[u] = tags[u]
    BY <1>3, RegistersElsewhere
  <2>3. \A u \in Trainers :
          /\ trainer'[u].compared \in {trainer[u].compared, NoVersion}
          /\ trainer'[u].bench \in {trainer[u].bench, NoVersion}
    BY <1>t, <2>1 DEF IdleTrainer
  <2>4. QED
    BY <2>1, <2>2, <2>3 DEF FormerInv, FormerOrNone
<1>4. ASSUME NEW d \in Decisions, NEW v \in Versions, NEW a \in Approvers,
             BeginDecision(d, v, a)
      PROVE  FormerInv'
  <2>1. /\ session'.version = v /\ session'.decision = d /\ session'.previous = NoVersion
        /\ session'.originals = NoSession("checked").originals
    BY <1>4, NoSessionTyped, NoSessionOwned DEF BeginDecision, SessionRecords
  <2>2. \A u \in Versions : session'.originals[u]["lifecycle"] # "superseded"
    BY <2>1, NoSessionOwned, RegistryConstants DEF Lifecycles
  <2>3. UNCHANGED <<alias, tags, trainer, former>>
    BY <1>4 DEF BeginDecision, registry, history
  <2>4. d = "rollback" => v \in former
    BY <1>4 DEF BeginDecision, RequiredLifecycle, FormerInv
  <2>5. QED
    BY <2>1, <2>2, <2>3, <2>4 DEF FormerInv, FormerOrNone
<1>5. CASE ReadPrevious \/ TakeSnapshot
  <2>1. /\ session'.version = session.version /\ session'.decision = session.decision
        /\ session'.previous \in {session.previous, alias}
        /\ session'.originals \in {session.originals, tags}
        /\ session.phase \notin Terminal
        /\ UNCHANGED <<alias, tags, trainer, former>>
    BY <1>5, <1>t
       DEF ReadPrevious, TakeSnapshot, SessionRecords, registry, history, Terminal
  <2>2. QED
    BY <2>1 DEF FormerInv, FormerOrNone
<1>6. CASE DecisionGoesOn
  <2>1. DecisionKept /\ session.phase \in Working
    BY <1>6, DecisionSteps
  <2>2. /\ former \subseteq former' /\ trainer' = trainer
        /\ alias' \in former' \cup {NoVersion}
    BY <1>l, <1>6, CommandFormers
  <2>3. \A v \in Versions : tags'[v]["lifecycle"] = "superseded" => v \in former
    BY <1>l, <1>6, <2>1, CommandRetiresChampions
  <2>4. QED
    BY <2>1, <2>2, <2>3
       DEF FormerInv, FormerOrNone, DecisionKept, Working, Repairing, Terminal
<1>7. CASE DecisionEnds
  <2>1. PICK p \in Terminal : session' = NoSession(p) /\ session'.phase = p
    BY <1>7, DecisionEnding
  <2>2. /\ session'.previous = NoVersion
        /\ \A v \in Versions : session'.originals[v]["lifecycle"] # "superseded"
    BY <2>1, NoSessionOwned, RegistryConstants DEF Lifecycles
  <2>3. /\ former \subseteq former' /\ trainer' = trainer
        /\ alias' \in former' \cup {NoVersion}
    BY <1>l, <1>7, CommandFormers
  <2>4. \A v \in Versions : tags'[v]["lifecycle"] = "superseded" => v \in former
    <3>1. CASE session.phase \in Working
      BY <1>l, <1>7, <3>1, CommandRetiresChampions
    <3>2. CASE session.phase \notin Working
      <4>1. tags' = tags
        BY <1>7, <3>2
           DEF DecisionEnds, Reject, ForwardStep, RestoreTag, RepairFails, Crash, Working,
               Repairing, registry
      <4>2. QED
        BY <4>1 DEF FormerInv
    <3>3. QED
      BY <3>1, <3>2
  <2>5. QED
    BY <2>1, <2>2, <2>3, <2>4 DEF FormerInv, FormerOrNone
<1>8. QED
  BY <1>l, <1>2, <1>3, <1>4, <1>5, <1>6, <1>7, Steps DEF DecisionOpens

LEMMA InitFormerInv == Init => FormerInv
  BY NoSessionTyped, NoSessionOwned, RegistryConstants
     DEF Init, FormerInv, FormerOrNone, IdleTrainer, NoTags, Keys, Lifecycles, Terminal

LEMMA AlwaysFormerInv == Spec => [](Undisturbed => FormerInv)
<1>1. /\ TypeInv /\ (Undisturbed => RepairInv) /\ (Undisturbed => RecoverInv)
      /\ (Undisturbed => FormerInv) /\ [Next]_vars
      => (Undisturbed => FormerInv)'
  <2> SUFFICES ASSUME TypeInv, Undisturbed => RepairInv, Undisturbed => RecoverInv,
                      Undisturbed => FormerInv, [Next]_vars, Undisturbed'
               PROVE  FormerInv'
    OBVIOUS
  <2>1. Undisturbed
    BY UndisturbedBefore DEF TypeInv
  <2>2. QED
    BY <2>1, StepFormerInv
<1>2. QED
  BY <1>1, InitFormerInv, AlwaysRepairInv, AlwaysRecoverInv, AlwaysTypeInv, PTL DEF Spec

\* With nobody editing the alias by hand, a rollback makes champion only what a
\* command made champion before. (With a hand edit it may not: see the run that
\* expects this property to be violated.)
THEOREM RollbacksRestoreChampions ==
  ASSUME OneWriter
  PROVE  Spec => RollbackRestoresChampions
<1> DEFINE Restores ==
      session.phase = "writing" /\ session.decision = "rollback" /\ alias' # alias
        => session.version \in former
<1>1. TypeInv /\ (Undisturbed => FormerInv) /\ [Next]_vars => [Restores]_vars
  BY OneWriterUndisturbed DEF TypeInv, FormerInv, Terminal
<1>2. QED
  BY <1>1, AlwaysFormerInv, AlwaysTypeInv, PTL DEF Spec, RollbackRestoresChampions

----------------------------------------------------------------------------
(* The registry implements ChampionPointer: the alias is the champion, the *)
(* phases in which the compensation has still to ask where the alias is    *)
(* are the unsettled ones, and a registered version's evidence is the      *)
(* benchmark it carries.                                                   *)

Evidence == [v \in Versions |-> IF Registered(v) THEN {bench[v]} ELSE {}]

PointerStutters == UNCHANGED <<alias, MayUndo, Evidence, former>>

LEMMA StutterIsAllowed == PointerStutters => UNCHANGED Pointer!vars
  BY DEF PointerStutters, Pointer!vars, Evidence

LEMMA SettledUnlessRepairing ==
  session.phase \notin {"repair", "reset"} => MayUndo = {}
  BY DEF MayUndo

\* The evidence of a version changes only when it is registered.
LEMMA EvidenceStays ==
  ASSUME TypeInv, RepairInv, late = {}, late' = {},
         DecisionOpens \/ TakeSnapshot \/ DecisionGoesOn \/ DecisionEnds
  PROVE  Evidence' = Evidence
<1>1. bench' = bench
  BY DecisionOpening
     DEF TakeSnapshot, DecisionGoesOn, DecisionEnds, ForwardStep, ForwardFails,
         ReadAliasBack, ResetAlias, ReadTags, RestoreTag, Reject, RepairFails, Crash,
         Unmoved, registry
<1>2. CASE tags' = tags
  BY <1>1, <1>2 DEF Evidence, Registered
<1>3. CASE session.phase \in Working /\ (DecisionGoesOn \/ DecisionEnds)
  <2>1. TouchesAffected
    BY <1>3, CommandTouchesAffected DEF RepairInv
  <2>2. \A v \in Versions : Registered(v)' <=> Registered(v)
    BY <1>3, <2>1 DEF TouchesAffected, RepairInv, SnapshotInv, Registered
  <2>3. QED
    BY <1>1, <2>2 DEF Evidence
<1>4. CASE session.phase \notin Working \/ DecisionOpens \/ TakeSnapshot
  <2>1. tags' = tags
    BY <1>4, DecisionOpening, DecisionSteps
       DEF TakeSnapshot, DecisionEnds, Reject, ForwardStep, RestoreTag, RepairFails, Crash,
           Working, Repairing, registry
  <2>2. QED
    BY <1>2, <2>1
<1>5. QED
  BY <1>3, <1>4

\* The alias write that takes effect is a promotion on evidence against the
\* champion it replaces, or a rollback to a former champion.
LEMMA AliasWriteIsAMove ==
  ASSUME TypeInv, RepairInv, FormerInv, session.phase = "writing",
         alias' = session.version, alias' # alias,
         former' = former \cup {session.version},
         MayUndo' \in {{}, {alias}}, Evidence' = Evidence
  PROVE  Pointer!Next
<1> DEFINE v == session.version
<1>1. /\ v \in Versions /\ Registered(v) /\ session.previous = alias
      /\ session.decision \in Decisions
      /\ session.decision = "promotion" => bench[v] = alias
      /\ session.decision = "rollback" => v \in former
  BY SessionTyped
     DEF RepairInv, CurrentInv, BeforeAlias, FormerInv, TypeInv, SessionWellFormed, Terminal
<1>2. MayUndo = {}
  BY SettledUnlessRepairing
<1>3. Pointer!Move(v)
  BY <1>2 DEF Pointer!Move, Evidence
<1>4. Evidence[v] = {bench[v]}
  BY <1>1 DEF Evidence
<1>5. session.decision = "promotion" => Pointer!Promote(v)
  BY <1>1, <1>3, <1>4 DEF Pointer!Promote, Evidence
<1>6. session.decision = "rollback" => Pointer!Rollback(v)
  BY <1>1, <1>3 DEF Pointer!Rollback
<1>7. v \in Pointer!Versions
  BY <1>1 DEF Versions, Pointer!Versions
<1>8. QED
  BY <1>1, <1>5, <1>6, <1>7 DEF Pointer!Next, Decisions

LEMMA RegistrationIsAllowed ==
  ASSUME TypeInv, FormerInv, NEW t \in Trainers, RegisterCandidate(t)
  PROVE  Pointer!Next
<1>1. PICK v \in Versions :
        /\ ~Registered(v)
        /\ tags' = [tags EXCEPT ![v] = CandidateTags]
        /\ bench' = [bench EXCEPT ![v] = trainer[t].bench]
  BY DEF RegisterCandidate
<1>2. /\ tags \in [Versions -> [Keys -> TagValues]]
      /\ bench \in [Versions -> VersionOrNone]
  BY DEF TypeInv, TypeOK
<1>3. CandidateTags["lifecycle"] # Absent
  BY RegistryConstants DEF CandidateTags, NoTags, Keys, Lifecycles
<1>4. /\ Registered(v)' /\ bench'[v] = trainer[t].bench
      /\ \A u \in Versions \ {v} : (Registered(u)' <=> Registered(u)) /\ bench'[u] = bench[u]
  BY <1>1, <1>2, <1>3 DEF Registered
<1>5. Evidence' = [Evidence EXCEPT ![v] = {trainer[t].bench}]
  BY <1>4 DEF Evidence
<1>6. Evidence[v] = {}
  BY <1>1 DEF Evidence
<1>7. trainer[t].bench \in former \cup {Pointer!NoVersion}
  BY DEF FormerInv, FormerOrNone, NoVersion, Pointer!NoVersion
<1>8. UNCHANGED <<alias, MayUndo, former>>
  BY DEF RegisterCandidate, history, MayUndo
<1>9. Pointer!Register(v)
  BY <1>5, <1>6, <1>7, <1>8 DEF Pointer!Register, Evidence
<1>10. v \in Pointer!Versions
  BY DEF Versions, Pointer!Versions
<1>11. QED
  BY <1>9, <1>10 DEF Pointer!Next

\* A command that goes on or ends keeps the champion, moves it, settles the
\* move or undoes it.
LEMMA CommandIsAllowed ==
  ASSUME TypeInv, RepairInv, FormerInv, late = {}, late' = {},
         DecisionGoesOn \/ DecisionEnds
  PROVE  Pointer!Next \/ PointerStutters
<1>t. session \in SessionRecords
  BY SessionTyped DEF TypeInv
<1>e. Evidence' = Evidence
  BY EvidenceStays
<1>f. /\ former' = IF (ForwardStep \/ ForwardFails) /\ alias' = session.version
                   THEN former \cup {session.version} ELSE former
  BY CommandFormers
<1>1. CASE ForwardStep \/ ForwardFails
  <2>1. session.phase = "writing" /\ session.previous = alias
        /\ session.version \in Versions /\ session.version # NoVersion
    BY <1>1, RegistryConstants
       DEF ForwardStep, ForwardFails, RepairInv, CurrentInv, BeforeAlias, TypeInv,
           SessionWellFormed, Terminal, Versions, NoVersion
  <2>2. MayUndo = {}
    BY <2>1, SettledUnlessRepairing
  <2>3. CASE alias' = alias
    <3>1. former' = former
      BY <1>1, <1>f, <2>1, <2>3 DEF FormerInv, FormerOrNone
    <3>2. MayUndo' = {}
      <4>1. CASE ForwardStep
        <5>1. session'.phase \in {"writing", "done"}
          BY <1>t, <4>1, NoSessionTyped DEF ForwardStep, AfterStep, SessionRecords, Terminal
        <5>2. QED
          BY <5>1 DEF MayUndo
      <4>2. CASE ForwardFails
        <5>1. session'.previous = alias
          BY <1>t, <2>1, <4>2 DEF ForwardFails, SessionRecords
        <5>2. QED
          BY <2>3, <5>1 DEF MayUndo
      <4>3. QED
        BY <1>1, <4>1, <4>2
    <3>3. QED
      BY <1>e, <2>2, <2>3, <3>1, <3>2 DEF PointerStutters
  <2>4. CASE alias' # alias
    <3>1. alias' = session.version /\ session.step = LastStep
      BY <1>1, <2>4, AliasMoves
    <3>2. former' = former \cup {session.version}
      BY <1>1, <1>f, <3>1
    <3>3. MayUndo' \in {{}, {alias}}
      <4>1. CASE ForwardStep
        <5>1. session'.phase = "done"
          BY <3>1, <4>1, NoSessionTyped DEF ForwardStep, AfterStep, Terminal
        <5>2. QED
          BY <5>1 DEF MayUndo
      <4>2. CASE ForwardFails
        <5>1. session'.previous = alias
          BY <1>t, <2>1, <4>2 DEF ForwardFails, SessionRecords
        <5>2. QED
          BY <5>1 DEF MayUndo
      <4>3. QED
        BY <1>1, <4>1, <4>2
    <3>4. QED
      BY <1>e, <2>1, <2>4, <3>1, <3>2, <3>3, AliasWriteIsAMove
  <2>5. QED
    BY <2>3, <2>4
<1>2. CASE ReadAliasBack
  <2>1. UNCHANGED <<alias, former>> /\ session.phase = "repair"
    BY <1>2 DEF ReadAliasBack, registry, history
  <2>2. DecisionKept
    BY <1>2, DecisionSteps DEF DecisionGoesOn
  <2>3. MayUndo' = MayUndo
    <3>1. CASE AliasMoved(session)
      <4>1. session'.phase = "reset"
        BY <1>t, <1>2, <3>1 DEF ReadAliasBack, SessionRecords
      <4>2. QED
        BY <2>1, <2>2, <4>1 DEF MayUndo, DecisionKept
    <3>2. CASE ~AliasMoved(session)
      <4>1. session'.phase = "restore"
        BY <1>t, <1>2, <3>2 DEF ReadAliasBack, RestoreFrom, SessionRecords
      <4>2. QED
        BY <3>2, <4>1 DEF MayUndo, AliasMoved
    <3>3. QED
      BY <3>1, <3>2
  <2>4. QED
    BY <1>e, <2>1, <2>3 DEF PointerStutters
<1>3. CASE /\ alias' \in {alias, session.previous}
           /\ session.phase \in {"repair", "reset"}
           /\ session'.phase \notin {"repair", "reset"}
           /\ former' = former
  <2>1. MayUndo' = {}
    BY <1>3 DEF MayUndo
  <2>2. CASE MayUndo = {}
    <3>1. alias' = alias
      BY <1>3, <2>2 DEF MayUndo, RepairInv, AliasInv
    <3>2. QED
      BY <1>e, <1>3, <2>1, <2>2, <3>1 DEF PointerStutters
  <2>3. CASE MayUndo # {} /\ alias' = alias
    <3>1. Pointer!Settle
      BY <1>e, <1>3, <2>1, <2>3 DEF Pointer!Settle, Evidence
    <3>2. QED
      BY <3>1 DEF Pointer!Next
  <2>4. CASE MayUndo # {} /\ alias' = session.previous
    <3>1. MayUndo = {session.previous}
      BY <2>4 DEF MayUndo
    <3>2. Pointer!Undo
      BY <1>e, <1>3, <2>1, <2>4, <3>1 DEF Pointer!Undo, Evidence
    <3>3. QED
      BY <3>2 DEF Pointer!Next
  <2>5. QED
    BY <1>3, <2>2, <2>3, <2>4
<1>4. CASE ResetAlias
  <2>1. session.phase = "reset" /\ session'.phase = "restore" /\ former' = former
    BY <1>t, <1>4 DEF ResetAlias, RestoreFrom, SessionRecords, history
  <2>2. alias' = session.previous
    BY <1>4, AliasMoves
  <2>3. QED
    BY <1>3, <2>1, <2>2
<1>5. CASE RepairFails \/ Crash
  <2>1. session'.phase \notin {"repair", "reset"} /\ former' = former
    BY <1>5, NoSessionTyped DEF RepairFails, Crash, Terminal
  <2>2. alias' = alias \/ (session.phase = "reset" /\ alias' = session.previous)
    BY <1>5, AliasMoves
       DEF RepairFails, Crash, ForwardStep, ForwardFails, ResetAlias, registry, Terminal
  <2>3. CASE session.phase \in {"repair", "reset"}
    BY <1>3, <2>1, <2>2, <2>3
  <2>4. CASE session.phase \notin {"repair", "reset"}
    BY <1>e, <2>1, <2>2, <2>4 DEF MayUndo, PointerStutters
  <2>5. QED
    BY <2>3, <2>4
<1>6. CASE ReadTags \/ RestoreTag \/ Reject
  <2>1. session.phase \notin {"repair", "reset"} /\ session'.phase \notin {"repair", "reset"}
    <3>1. ReadTags => session.phase = "restore" /\ session'.phase = "restore"
      BY <1>t DEF ReadTags, SessionRecords
    <3>2. RestoreTag => session.phase = "restore" /\ session'.phase \in {"restore", "restored"}
      BY <1>t, NoSessionTyped DEF RestoreTag, AfterRestore, SessionRecords, Terminal
    <3>3. Reject => session.phase \in Reading /\ session'.phase = "idle"
      BY NoSessionTyped DEF Reject, Terminal
    <3>4. QED
      BY <1>6, <3>1, <3>2, <3>3 DEF Reading
  <2>2. alias' = alias
    BY <1>6, AliasMoves
       DEF ReadTags, RestoreTag, Reject, Reading, ForwardStep, ForwardFails, ResetAlias, registry
  <2>3. former' = former
    BY <1>6 DEF ReadTags, RestoreTag, Reject, history
  <2>4. QED
    BY <1>e, <2>1, <2>2, <2>3 DEF MayUndo, PointerStutters
<1>7. QED
  BY <1>1, <1>2, <1>4, <1>5, <1>6 DEF DecisionGoesOn, DecisionEnds

LEMMA StepIsAllowed ==
  ASSUME Undisturbed', TypeInv, RepairInv, FormerInv, [Next]_vars
  PROVE  [Pointer!Next]_(Pointer!vars)
<1>l. late = {} /\ late' = {}
  BY UndisturbedStep DEF TypeInv, RepairInv, CurrentInv
<1>1. CASE UNCHANGED <<alias, tags, bench, session, former>>
  BY <1>1, StutterIsAllowed DEF PointerStutters, MayUndo, Evidence, Registered
<1>2. CASE \E t \in Trainers : RegisterCandidate(t)
  BY <1>2, RegistrationIsAllowed
<1>3. CASE DecisionOpens \/ TakeSnapshot
  <2>1. session.phase \notin {"repair", "reset"} /\ session'.phase \notin {"repair", "reset"}
    BY <1>3, DecisionOpening, SessionTyped
       DEF DecisionOpens, BeginDecision, ReadPrevious, TakeSnapshot, Terminal, Reading,
           TypeInv, SessionRecords
  <2>2. UNCHANGED <<alias, former>>
    BY <1>3, DecisionOpening DEF TakeSnapshot, registry, history
  <2>3. PointerStutters
    BY <1>l, <1>3, <2>1, <2>2, EvidenceStays DEF PointerStutters, MayUndo
  <2>4. QED
    BY <2>3, StutterIsAllowed
<1>4. CASE DecisionGoesOn \/ DecisionEnds
  BY <1>l, <1>4, CommandIsAllowed, StutterIsAllowed
<1>5. QED
  BY <1>l, <1>1, <1>2, <1>3, <1>4, Steps

\* Retraining, promotion, rollback and compensation implement the champion
\* pointer of docs/architecture.md, whichever calls fail, whichever of them took
\* effect all the same, and wherever commands die, for one writer at a time.
THEOREM RegistryImplementsPointer ==
  ASSUME OneWriter
  PROVE  Spec => ImplementsChampionPointer
<1>1. Init => Pointer!Init
  <2> SUFFICES ASSUME Init PROVE Pointer!Init
    OBVIOUS
  <2>1. alias = Pointer!NoVersion /\ former = {}
    BY DEF Init, NoVersion, Pointer!NoVersion
  <2>2. MayUndo = {}
    BY NoSessionTyped DEF Init, MayUndo, Terminal
  <2>3. \A v \in Versions : ~Registered(v)
    BY DEF Init, Registered, NoTags, Keys
  <2>4. QED
    BY <2>1, <2>2, <2>3 DEF Pointer!Init, Versions, Pointer!Versions
<1>2. /\ TypeInv /\ TypeInv' /\ (Undisturbed => RepairInv) /\ (Undisturbed => FormerInv)
      /\ [Next]_vars
      => [Pointer!Next]_(Pointer!vars)
  BY StepIsAllowed DEF OneWriter, TypeInv, TypeOK, Undisturbed
<1>3. QED
  BY <1>1, <1>2, AlwaysTypeInv, AlwaysRepairInv, AlwaysFormerInv, PTL
     DEF Spec, ImplementsChampionPointer, Pointer!Spec
=============================================================================
