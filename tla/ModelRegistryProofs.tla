------------------------ MODULE ModelRegistryProofs ------------------------
(***************************************************************************)
(* Theorems about ModelRegistry, for any number of versions, pipelines,    *)
(* tenants and approvers, and proofs the TLA+ proof system checks.         *)
(***************************************************************************)
EXTENDS ModelRegistry, TLAPS

----------------------------------------------------------------------------
(* Type correctness. TypeOK is not inductive by itself: what a step writes *)
(* is typed only because the step counter stays inside the list the phase  *)
(* indexes, and because the command knows its version and approver.        *)

SessionWellFormed ==
  /\ session.phase \notin Terminal => session.version \in Versions
  /\ session.phase = "writing" => session.step \in 1..LastStep
  /\ session.current # NoVersion => session.phase = "restore" /\ session.step \in 1..6

TypeInv == TypeOK /\ SessionWellFormed

LEMMA InitTypeInv == Init => TypeInv
  BY RegistryConstants, SMTT(30)
     DEF Init, TypeInv, TypeOK, SessionWellFormed, NoSession, SessionRecords,
         Terminal, Phases, Reading, Repairing, Versions, NoVersion,
         VersionOrNone, NoTags, TagValues, IdleTrainer, TrainerPhases,
         Decisions, LastStep
LEMMA NoSessionTyped ==
  ASSUME NEW p \in Terminal \cup {"checked"}
  PROVE  /\ NoSession(p) \in SessionRecords
         /\ NoSession(p).phase = p
         /\ NoSession(p).current = NoVersion
  BY RegistryConstants
     DEF NoSession, SessionRecords, Terminal, Phases, Reading, Repairing,
         Versions, NoVersion, VersionOrNone, NoTags, TagValues, Decisions,
         LastStep

LEMMA OrderedKeys ==
  /\ \A i \in 1..LastStep : Order[i] \in Keys \cup {"supersede", "alias"}
  /\ \A i \in 1..6 : TrackedKeys[i] \in Keys
  BY DEF Order, TrackedKeys, Keys, LastStep

LEMMA AppliesTyped ==
  ASSUME TypeOK, NEW w \in WriteRecords, Applies(w)
  PROVE  alias' \in VersionOrNone /\ tags' \in [Versions -> [Keys -> TagValues]]
<1>1. /\ alias \in VersionOrNone
      /\ tags \in [Versions -> [Keys -> TagValues]]
      /\ w.version \in VersionOrNone
      /\ w.value \in TagValues
  BY DEF TypeOK, WriteRecords
<1>2. CASE w.key = "alias"
  BY <1>1, <1>2 DEF Applies
<1>3. CASE w.key # "alias"
  <2>1. tags' = [v \in Versions |->
                   IF v = w.version
                   THEN [k \in Keys |-> IF k = w.key THEN w.value ELSE tags[v][k]]
                   ELSE tags[v]]
    BY <1>1, <1>3 DEF Applies
  <2>2. QED
    BY <1>1, <1>3, <2>1 DEF Applies
<1>4. QED
  BY <1>2, <1>3

LEMMA CallRaisedTyped ==
  ASSUME TypeOK, NEW w \in WriteRecords, CallRaised(w)
  PROVE  /\ alias' \in VersionOrNone
         /\ tags' \in [Versions -> [Keys -> TagValues]]
         /\ late' \subseteq WriteRecords
         /\ lates' \in 0..MaxLate
<1>1. CASE UNCHANGED <<alias, tags, late, lates>>
  BY <1>1 DEF TypeOK
<1>2. CASE Applies(w) /\ UNCHANGED <<late, lates>>
  BY <1>2, AppliesTyped DEF TypeOK
<1>3. CASE /\ lates < MaxLate
           /\ late' = late \cup {w}
           /\ lates' = lates + 1
           /\ UNCHANGED <<alias, tags>>
  BY <1>3, RegistryConstants DEF TypeOK
<1>4. QED
  BY <1>1, <1>2, <1>3 DEF CallRaised

LEMMA SessionTyped ==
  ASSUME TypeOK
  PROVE  /\ session \in SessionRecords
         /\ session.phase \in Phases
         /\ session.decision \in Decisions
         /\ session.version \in VersionOrNone
         /\ session.by \in Approvers \cup {Absent}
         /\ session.previous \in VersionOrNone
         /\ session.originals \in [Versions -> [Keys -> TagValues]]
         /\ session.step \in 0..LastStep
         /\ session.left \in SUBSET Versions
         /\ session.current \in VersionOrNone
         /\ session.seen \in SUBSET Keys
  BY DEF TypeOK, SessionRecords

LEMMA ForwardWriteTyped ==
  ASSUME TypeInv, session.phase = "writing"
  PROVE  ForwardWrite(session) \in WriteRecords
<1>1. /\ session.version \in Versions
      /\ session.previous \in VersionOrNone
      /\ session.by \in TagValues
      /\ session.decision \in TagValues
      /\ session.step \in 1..LastStep
  BY DEF TypeInv, TypeOK, SessionWellFormed, SessionRecords, Terminal, TagValues
<1>2. Versions \subseteq VersionOrNone
  BY RegistryConstants DEF Versions, VersionOrNone
<1>3. \A key \in Keys : AuditTags(session)[key] \in TagValues
  BY <1>1 DEF AuditTags, Keys, TagValues, Lifecycles
<1>4. QED
  BY <1>1, <1>2, <1>3, OrderedKeys
     DEF ForwardWrite, Write, WriteRecords, Keys, TagValues, Lifecycles

LEMMA RestoreWriteTyped ==
  ASSUME TypeInv, session.phase = "restore", session.current # NoVersion
  PROVE  RestoreWrite(session) \in WriteRecords
<1>1. /\ session.current \in Versions
      /\ session.originals \in [Versions -> [Keys -> TagValues]]
  BY SessionTyped, RegistryConstants DEF TypeInv, Versions, VersionOrNone, NoVersion
<1>a. TrackedKeys[session.step] \in Keys
  BY OrderedKeys DEF TypeInv, SessionWellFormed
<1>2. QED
  BY <1>1, <1>a, RegistryConstants
     DEF RestoreWrite, Write, WriteRecords, Versions, VersionOrNone

LEMMA RestoreFromTyped ==
  ASSUME TypeInv, session.phase \in {"repair", "reset"}
  PROVE  /\ RestoreFrom(session) \in SessionRecords
         /\ RestoreFrom(session).phase = "restore"
         /\ RestoreFrom(session).version = session.version
         /\ RestoreFrom(session).current = NoVersion
<1>1. session \in SessionRecords /\ session.version \in Versions
  BY DEF TypeInv, TypeOK, SessionWellFormed, Terminal
<1>2. session.current = NoVersion
  BY DEF TypeInv, SessionWellFormed
<1>3. Affected(session) \in SUBSET Versions
  BY <1>1, RegistryConstants
     DEF Affected, SessionRecords, Versions, VersionOrNone, NoVersion
<1>4. "restore" \in Phases
  BY DEF Phases, Repairing
<1>5. RestoreFrom(session) \in SessionRecords
  BY <1>1, <1>3, <1>4 DEF RestoreFrom, SessionRecords
<1>6. QED
  BY <1>1, <1>2, <1>5 DEF RestoreFrom, SessionRecords

LEMMA StepTypeInv == TypeInv /\ [Next]_vars => TypeInv'
<1> SUFFICES ASSUME TypeInv, [Next]_vars PROVE TypeInv'
  OBVIOUS
<1> USE DEF TypeInv
<1>t. session \in SessionRecords /\ alias \in VersionOrNone
  BY DEF TypeOK
<1>r. ASSUME UNCHANGED <<session, alias, tags, late, lates, manual>>,
             UNCHANGED <<breaks, audited, former>>
      PROVE  SessionWellFormed' /\ (TypeOK' <=> 
               /\ bench' \in [Versions -> VersionOrNone]
               /\ owner' \in [Versions -> Tenants \cup {Absent}]
               /\ binding' \in Tenants \cup {Absent}
               /\ trainer' \in [Trainers -> [phase : TrainerPhases,
                                  compared : VersionOrNone, bench : VersionOrNone]]
               /\ compared' \in [Versions -> VersionOrNone])
  BY <1>r DEF TypeOK, SessionWellFormed
<1>s. ASSUME UNCHANGED <<registry, trainer, late, lates, manual, audited, former>>,
             breaks' \in 0..MaxBreaks
      PROVE  TypeOK' <=> session' \in SessionRecords
  BY <1>s DEF TypeOK, registry
<1>v. /\ session.phase \notin Terminal => session.version \in Versions
      /\ session.phase \notin Terminal => Affected(session) \in SUBSET Versions
  BY <1>t, RegistryConstants
     DEF SessionWellFormed, SessionRecords, Affected, NoVersion, Versions, VersionOrNone
<1>1. ASSUME NEW t \in Trainers, LoadChampion(t) PROVE TypeInv'
  BY <1>1, <1>r DEF LoadChampion, registry, history, faults, TypeOK, TrainerPhases
<1>2. ASSUME NEW t \in Trainers, EnsureTenantBinding(t) PROVE TypeInv'
  BY <1>2, <1>r, RegistryConstants
     DEF EnsureTenantBinding, history, faults, TypeOK, TrainerPhases
<1>3. ASSUME NEW t \in Trainers, ResolveBenchmark(t) PROVE TypeInv'
  BY <1>3, <1>r DEF ResolveBenchmark, registry, history, faults, TypeOK, TrainerPhases
<1>4. ASSUME NEW t \in Trainers, RegisterCandidate(t) PROVE TypeInv'
  <2>1. CandidateTags \in [Keys -> TagValues]
    BY DEF CandidateTags, NoTags, TagValues, Lifecycles
  <2>2. IdleTrainer \in [phase : TrainerPhases, compared : VersionOrNone,
                         bench : VersionOrNone]
    BY RegistryConstants DEF IdleTrainer, TrainerPhases, VersionOrNone, NoVersion
  <2>3. PICK v \in Versions :
          /\ tags' = [tags EXCEPT ![v] = CandidateTags]
          /\ bench' = [bench EXCEPT ![v] = trainer[t].bench]
          /\ owner' = [owner EXCEPT ![v] = TenantOf[t]]
          /\ compared' = [compared EXCEPT ![v] = trainer[t].compared]
    BY <1>4 DEF RegisterCandidate
  <2>4. /\ tags' \in [Versions -> [Keys -> TagValues]]
        /\ bench' \in [Versions -> VersionOrNone]
        /\ owner' \in [Versions -> Tenants \cup {Absent}]
        /\ compared' \in [Versions -> VersionOrNone]
    BY <2>1, <2>3, RegistryConstants DEF TypeOK
  <2>5. trainer' \in [Trainers -> [phase : TrainerPhases, compared : VersionOrNone,
                                   bench : VersionOrNone]]
    BY <1>4, <2>2 DEF RegisterCandidate, TypeOK
  <2>6. QED
    BY <1>4, <2>4, <2>5
       DEF RegisterCandidate, history, faults, TypeOK, SessionWellFormed
<1>5. ASSUME NEW t \in Trainers, TrainerStops(t) PROVE TypeInv'
  BY <1>5, <1>r, RegistryConstants
     DEF TrainerStops, registry, history, faults, TypeOK, TrainerPhases,
         IdleTrainer, VersionOrNone, NoVersion
<1>6. ASSUME NEW d \in Decisions, NEW v \in Versions, NEW a \in Approvers,
             BeginDecision(d, v, a)
      PROVE  TypeInv'
  <2>a. /\ NoSession("checked") \in SessionRecords
        /\ NoSession("checked").phase = "checked"
        /\ NoSession("checked").current = NoVersion
    BY NoSessionTyped
  <2>b. session' = [NoSession("checked") EXCEPT !.decision = d, !.version = v, !.by = a]
    BY <1>6 DEF BeginDecision
  <2>c. v \in VersionOrNone
    BY RegistryConstants DEF Versions, VersionOrNone
  <2>1. /\ session' \in SessionRecords /\ session'.phase = "checked"
        /\ session'.version = v /\ session'.current = NoVersion
    BY <2>a, <2>b, <2>c DEF SessionRecords
  <2>2. TypeOK'
    BY <1>6, <1>s, <2>1 DEF BeginDecision, history, faults, TypeOK
  <2>3. QED
    BY <2>1, <2>2 DEF SessionWellFormed
<1>7. ASSUME ReadPrevious PROVE TypeInv'
  <2>1. session' \in SessionRecords
    BY <1>7, <1>t DEF ReadPrevious, SessionRecords, Phases, Reading
  <2>2. TypeOK'
    BY <1>7, <1>s, <2>1 DEF ReadPrevious, history, faults, TypeOK
  <2>3. /\ session'.phase = "snapshot" /\ session'.version = session.version
        /\ session'.current = session.current
    BY <1>7, <1>t DEF ReadPrevious, SessionRecords
  <2>4. QED
    BY <1>7, <2>2, <2>3 DEF ReadPrevious, SessionWellFormed, Terminal
<1>8. ASSUME TakeSnapshot PROVE TypeInv'
  <2>1. session' \in SessionRecords
    <3>1. tags \in [Versions -> [Keys -> TagValues]] /\ 1 \in 0..LastStep
      BY DEF TypeOK, LastStep
    <3>2. QED
      BY <1>8, <1>t, <3>1 DEF TakeSnapshot, SessionRecords, Phases
  <2>2. TypeOK'
    BY <1>8, <1>s, <2>1 DEF TakeSnapshot, history, faults, TypeOK
  <2>3. /\ session'.phase = "writing" /\ session'.version = session.version
        /\ session'.step = 1 /\ session'.current = session.current
    BY <1>8, <1>t DEF TakeSnapshot, SessionRecords
  <2>4. QED
    BY <1>8, <2>2, <2>3 DEF TakeSnapshot, SessionWellFormed, Terminal, LastStep
<1>9. ASSUME Reject PROVE TypeInv'
  <2>1. session' \in SessionRecords /\ session'.phase = "idle" /\ session'.current = NoVersion
    BY <1>9, NoSessionTyped DEF Reject, Terminal
  <2>2. TypeOK'
    BY <1>9, <1>s, <2>1 DEF Reject, history, faults, TypeOK
  <2>3. QED
    BY <2>1, <2>2 DEF SessionWellFormed, Terminal
<1>10. ASSUME ForwardStep PROVE TypeInv'
  <2>1. alias' \in VersionOrNone /\ tags' \in [Versions -> [Keys -> TagValues]]
    BY <1>10, ForwardWriteTyped, AppliesTyped DEF ForwardStep, TypeOK
  <2>2. CASE session.step = LastStep
    <3>1. session' \in SessionRecords /\ session'.phase = "done" /\ session'.current = NoVersion
      BY <1>10, <2>2, NoSessionTyped DEF ForwardStep, AfterStep, Terminal
    <3>2. QED
      BY <1>10, <2>1, <3>1, <1>v
         DEF ForwardStep, Record, Unmoved, TypeOK, SessionWellFormed, Terminal
  <2>3. CASE session.step # LastStep
    <3>1. /\ session' = [session EXCEPT !.step = session.step + 1]
          /\ session.step + 1 \in 1..LastStep
      BY <1>10, <2>3 DEF ForwardStep, AfterStep, SessionWellFormed, LastStep
    <3>2. /\ session' \in SessionRecords /\ session'.phase = "writing"
          /\ session'.version = session.version
          /\ session'.step \in 1..LastStep
          /\ session'.current = session.current
      BY <1>10, <1>t, <3>1 DEF ForwardStep, SessionRecords, LastStep
    <3>3. QED
      BY <1>10, <2>1, <3>2, <1>v
         DEF ForwardStep, Record, Unmoved, TypeOK, SessionWellFormed, Terminal
  <2>4. QED
    BY <2>2, <2>3
<1>11. ASSUME ForwardFails PROVE TypeInv'
  <2>1. /\ alias' \in VersionOrNone /\ tags' \in [Versions -> [Keys -> TagValues]]
        /\ late' \subseteq WriteRecords /\ lates' \in 0..MaxLate
    BY <1>11, ForwardWriteTyped, CallRaisedTyped DEF ForwardFails
  <2>2. /\ session' \in SessionRecords /\ session'.phase = "repair"
        /\ session'.version = session.version
        /\ session'.current = session.current
    <3>1. session' = [session EXCEPT !.phase = "repair", !.step = 0]
      BY <1>11 DEF ForwardFails
    <3>2. "repair" \in Phases /\ 0 \in 0..LastStep
      BY DEF Phases, Repairing, LastStep
    <3>3. QED
      BY <1>t, <3>1, <3>2 DEF SessionRecords
  <2>3. QED
    BY <1>11, <2>1, <2>2, <1>v
       DEF ForwardFails, Record, Unmoved, TypeOK, SessionWellFormed, Terminal
<1>12. ASSUME ReadAliasBack PROVE TypeInv'
  <2>1. /\ session' \in SessionRecords /\ session'.phase \in {"reset", "restore"}
        /\ session'.version = session.version
        /\ session'.current = NoVersion
    <3>1. CASE AliasMoved(session)
      <4>1. session' = [session EXCEPT !.phase = "reset"] /\ session.current = NoVersion
        BY <1>12, <3>1 DEF ReadAliasBack, SessionWellFormed
      <4>2. QED
        BY <1>t, <4>1 DEF SessionRecords, Phases, Repairing
    <3>2. CASE ~AliasMoved(session)
      BY <1>12, <3>2, RestoreFromTyped DEF ReadAliasBack
    <3>3. QED
      BY <3>1, <3>2
  <2>2. TypeOK'
    BY <1>12, <1>s, <2>1 DEF ReadAliasBack, history, faults, TypeOK
  <2>3. QED
    BY <1>12, <1>v, <2>1, <2>2 DEF ReadAliasBack, SessionWellFormed, Terminal
<1>13. ASSUME ResetAlias PROVE TypeInv'
  <2>1. Write("alias", session.previous, Absent) \in WriteRecords
    BY <1>t DEF SessionRecords, Write, WriteRecords, TagValues
  <2>2. alias' \in VersionOrNone /\ tags' \in [Versions -> [Keys -> TagValues]]
    BY <1>13, <2>1, AppliesTyped DEF ResetAlias
  <2>3. /\ session' \in SessionRecords /\ session'.phase = "restore"
        /\ session'.version = session.version
        /\ session'.current = NoVersion
    BY <1>13, RestoreFromTyped DEF ResetAlias
  <2>4. TypeOK'
    BY <1>13, <2>2, <2>3 DEF ResetAlias, Unmoved, history, TypeOK
  <2>5. QED
    BY <1>13, <1>v, <2>3, <2>4 DEF ResetAlias, SessionWellFormed, Terminal
<1>14. ASSUME ReadTags PROVE TypeInv'
  <2>1. PICK v \in session.left :
          session' = [session EXCEPT !.current = v, !.step = 1,
                        !.seen = {k \in Keys : tags[v][k] # Absent}]
    BY <1>14 DEF ReadTags
  <2>2. v \in VersionOrNone /\ 1 \in 0..LastStep
    BY <1>t, RegistryConstants DEF SessionRecords, Versions, VersionOrNone, LastStep
  <2>3. /\ session' \in SessionRecords /\ session'.phase = session.phase
        /\ session'.version = session.version /\ session'.step = 1
    BY <1>t, <2>1, <2>2 DEF SessionRecords
  <2>4. TypeOK'
    BY <1>14, <1>s, <2>3 DEF ReadTags, history, faults, TypeOK
  <2>5. QED
    BY <1>14, <2>3, <2>4 DEF ReadTags, SessionWellFormed, Terminal
<1>15. ASSUME RestoreTag PROVE TypeInv'
  <2>1. alias' \in VersionOrNone /\ tags' \in [Versions -> [Keys -> TagValues]]
    BY <1>15, RestoreWriteTyped, AppliesTyped DEF RestoreTag, TypeOK
  <2>2. session' \in SessionRecords /\ SessionWellFormed'
    <3>1. session' = AfterRestore(session) /\ session.phase = "restore"
      BY <1>15 DEF RestoreTag
    <3>2. CASE session.step < 6
      <4>1. session.step + 1 \in 0..LastStep /\ session.step + 1 \in 1..6
        BY <1>15, <3>2 DEF RestoreTag, SessionWellFormed, LastStep
      <4>2. /\ session' \in SessionRecords /\ session'.phase = "restore"
            /\ session'.version = session.version
            /\ session'.step = session.step + 1
        BY <1>t, <3>1, <3>2, <4>1 DEF AfterRestore, SessionRecords
      <4>3. QED
        BY <3>1, <4>1, <4>2 DEF SessionWellFormed, Terminal
    <3>3. CASE ~(session.step < 6) /\ session.left = {session.current}
      <4>1. session' \in SessionRecords /\ session'.phase = "restored" /\ session'.current = NoVersion
        BY <3>1, <3>3, NoSessionTyped DEF AfterRestore, Terminal
      <4>2. QED
        BY <4>1 DEF SessionWellFormed, Terminal
    <3>4. CASE ~(session.step < 6) /\ session.left # {session.current}
      <4>1. /\ session' \in SessionRecords /\ session'.phase = "restore"
            /\ session'.version = session.version
            /\ session'.current = NoVersion
        <5>1. session' = [session EXCEPT !.left = session.left \ {session.current},
                             !.current = NoVersion, !.step = 0, !.seen = {}]
          BY <3>1, <3>4 DEF AfterRestore
        <5>2. NoVersion \in VersionOrNone /\ 0 \in 0..LastStep
          BY RegistryConstants DEF LastStep, NoVersion, VersionOrNone
        <5>3. QED
          BY <1>t, <3>1, <5>1, <5>2 DEF SessionRecords
      <4>2. QED
        BY <3>1, <4>1 DEF SessionWellFormed, Terminal
    <3>5. QED
      BY <3>2, <3>3, <3>4
  <2>3. QED
    BY <1>15, <2>1, <2>2 DEF RestoreTag, Unmoved, history, TypeOK
<1>16. ASSUME RepairFails PROVE TypeInv'
  <2>1. /\ alias' \in VersionOrNone /\ tags' \in [Versions -> [Keys -> TagValues]]
        /\ late' \subseteq WriteRecords /\ lates' \in 0..MaxLate
    <3>1. CASE UNCHANGED <<alias, tags, late, lates>>
      BY <3>1 DEF TypeOK
    <3>2. CASE CallRaised(Write("alias", session.previous, Absent))
      <4>1. Write("alias", session.previous, Absent) \in WriteRecords
        BY <1>t DEF SessionRecords, Write, WriteRecords, TagValues
      <4>2. QED
        BY <3>2, <4>1, CallRaisedTyped
    <3>3. CASE /\ session.phase = "restore"
               /\ session.current # NoVersion
               /\ CallRaised(RestoreWrite(session))
      BY <3>3, RestoreWriteTyped, CallRaisedTyped
    <3>4. QED
      BY <1>16, <3>1, <3>2, <3>3 DEF RepairFails
  <2>2. session' \in SessionRecords /\ session'.phase = "reconcile" /\ session'.current = NoVersion
    BY <1>16, NoSessionTyped DEF RepairFails, Terminal
  <2>3. breaks' \in 0..MaxBreaks
    BY <1>16, RegistryConstants DEF RepairFails, TypeOK
  <2>4. QED
    BY <1>16, <2>1, <2>2, <2>3
       DEF RepairFails, Unmoved, TypeOK, SessionWellFormed, Terminal
<1>17. ASSUME Crash PROVE TypeInv'
  <2>1. session' \in SessionRecords /\ session'.phase = "idle" /\ session'.current = NoVersion
    BY <1>17, NoSessionTyped DEF Crash, Terminal
  <2>2. TypeOK'
    BY <1>17, <1>s, <2>1, RegistryConstants DEF Crash, faults, TypeOK
  <2>3. QED
    BY <2>1, <2>2 DEF SessionWellFormed, Terminal
<1>18. ASSUME NEW v \in Versions, ManualAlias(v) PROVE TypeInv'
  <2>1. alias' \in VersionOrNone
    BY <1>18, RegistryConstants DEF ManualAlias, Versions, VersionOrNone
  <2>2. manual' \in 0..MaxManual
    BY <1>18, RegistryConstants DEF ManualAlias, TypeOK
  <2>3. QED
    BY <1>18, <2>1, <2>2 DEF ManualAlias, history, TypeOK, SessionWellFormed
<1>19. ASSUME LateWriteLands PROVE TypeInv'
  <2>1. PICK w \in late : Applies(w) /\ late' = late \ {w}
    BY <1>19 DEF LateWriteLands
  <2>2. alias' \in VersionOrNone /\ tags' \in [Versions -> [Keys -> TagValues]]
    BY <2>1, AppliesTyped DEF TypeOK
  <2>3. QED
    BY <1>19, <2>1, <2>2 DEF LateWriteLands, Unmoved, history, TypeOK, SessionWellFormed
<1>20. CASE UNCHANGED vars
  BY <1>20 DEF vars, registry, history, faults, TypeOK, SessionWellFormed
<1>21. QED
  BY <1>1, <1>2, <1>3, <1>4, <1>5, <1>6, <1>7, <1>8, <1>9, <1>10, <1>11, <1>12,
     <1>13, <1>14, <1>15, <1>16, <1>17, <1>18, <1>19, <1>20
     DEF Next, Retraining, Deciding

LEMMA AlwaysTypeInv == Spec => []TypeInv
  BY InitTypeInv, StepTypeInv, PTL DEF Spec

\* Every variable keeps its type: no failure or compensation path of
\* _set_champion writes a tag, an alias or a step that is not one.
THEOREM TypeCorrect == Spec => []TypeOK
<1>1. TypeInv => TypeOK
  BY DEF TypeInv
<1>2. QED
  BY <1>1, AlwaysTypeInv, PTL

----------------------------------------------------------------------------
(* Evidence. A pipeline resolves its benchmark only when it is the champion *)
(* it evaluated against, and both ends are copied to the version together. *)

EvidenceInv ==
  /\ \A t \in Trainers :
       trainer[t].phase = "resolved" => trainer[t].bench = trainer[t].compared
  /\ \A v \in Versions : bench[v] = compared[v]

LEMMA StepEvidenceInv == TypeInv /\ EvidenceInv /\ [Next]_vars => EvidenceInv'
<1> SUFFICES ASSUME TypeInv, EvidenceInv, [Next]_vars PROVE EvidenceInv'
  OBVIOUS
<1>t. /\ trainer \in [Trainers -> [phase : TrainerPhases, compared : VersionOrNone,
                                   bench : VersionOrNone]]
      /\ bench \in [Versions -> VersionOrNone]
      /\ compared \in [Versions -> VersionOrNone]
  BY DEF TypeInv, TypeOK
<1>1. ASSUME NEW t \in Trainers, LoadChampion(t) PROVE EvidenceInv'
  <2>1. /\ bench' = bench /\ compared' = compared
        /\ \A u \in Trainers \ {t} : trainer'[u] = trainer[u]
        /\ trainer'[t].phase = "evaluated"
    BY <1>1, <1>t DEF LoadChampion, registry
  <2>2. QED
    BY <2>1 DEF EvidenceInv
<1>2. ASSUME NEW t \in Trainers, EnsureTenantBinding(t) PROVE EvidenceInv'
  <2>1. /\ bench' = bench /\ compared' = compared
        /\ \A u \in Trainers \ {t} : trainer'[u] = trainer[u]
        /\ trainer'[t].phase = "bound"
    BY <1>2, <1>t DEF EnsureTenantBinding
  <2>2. QED
    BY <2>1 DEF EvidenceInv
<1>3. ASSUME NEW t \in Trainers, ResolveBenchmark(t) PROVE EvidenceInv'
  <2>1. /\ bench' = bench /\ compared' = compared
        /\ \A u \in Trainers \ {t} : trainer'[u] = trainer[u]
        /\ trainer'[t].bench = alias /\ trainer'[t].compared = trainer[t].compared
        /\ alias = trainer[t].compared
    BY <1>3, <1>t DEF ResolveBenchmark, BenchmarkIsChampion, registry
  <2>2. QED
    BY <2>1 DEF EvidenceInv
<1>4. ASSUME NEW t \in Trainers, RegisterCandidate(t) PROVE EvidenceInv'
  <2>1. PICK v \in Versions :
          /\ bench' = [bench EXCEPT ![v] = trainer[t].bench]
          /\ compared' = [compared EXCEPT ![v] = trainer[t].compared]
    BY <1>4 DEF RegisterCandidate
  <2>2. trainer[t].bench = trainer[t].compared
    BY <1>4 DEF RegisterCandidate, EvidenceInv
  <2>3. /\ \A u \in Trainers \ {t} : trainer'[u] = trainer[u]
        /\ trainer'[t].phase = "idle"
    BY <1>4, <1>t DEF RegisterCandidate, IdleTrainer
  <2>4. QED
    BY <1>t, <2>1, <2>2, <2>3 DEF EvidenceInv
<1>5. ASSUME NEW t \in Trainers, TrainerStops(t) PROVE EvidenceInv'
  <2>1. /\ bench' = bench /\ compared' = compared
        /\ \A u \in Trainers \ {t} : trainer'[u] = trainer[u]
        /\ trainer'[t].phase = "idle"
    BY <1>5, <1>t DEF TrainerStops, IdleTrainer, registry
  <2>2. QED
    BY <2>1 DEF EvidenceInv
<1>6. ASSUME UNCHANGED <<bench, compared, trainer>> PROVE EvidenceInv'
  BY <1>6 DEF EvidenceInv
<1>7. CASE Deciding
  BY <1>6, <1>7
     DEF Deciding, BeginDecision, ReadPrevious, TakeSnapshot, Reject, ForwardStep,
         ForwardFails, ReadAliasBack, ResetAlias, ReadTags, RestoreTag, RepairFails,
         Crash, Unmoved, registry
<1>8. CASE (\E v \in Versions : ManualAlias(v)) \/ LateWriteLands \/ UNCHANGED vars
  BY <1>6, <1>8 DEF ManualAlias, LateWriteLands, Unmoved, vars, registry
<1>9. QED
  BY <1>1, <1>2, <1>3, <1>4, <1>5, <1>7, <1>8 DEF Next, Retraining

\* The benchmark a version is registered with is the champion its metrics were
\* compared with, whatever promotions, failures and alias edits came between
\* load_champion and log_candidate.
THEOREM EvidenceIsTrue == Spec => []EvidenceMatchesEvaluation
<1>1. Init => EvidenceInv
  BY DEF Init, EvidenceInv, IdleTrainer
<1>2. EvidenceInv => EvidenceMatchesEvaluation
  BY DEF EvidenceInv, EvidenceMatchesEvaluation
<1>3. QED
  BY <1>1, <1>2, StepEvidenceInv, AlwaysTypeInv, PTL DEF Spec

----------------------------------------------------------------------------
(* Stale evidence. The comparison with the champion is made in             *)
(* ReadPrevious; the alias is written many calls later. With one writer    *)
(* nothing moves the alias in between: a hand edit or a late write would,  *)
(* so there are none here.                                                 *)

OneWriter == MaxManual = 0 /\ MaxLate = 0

\* So far nobody has edited the alias and no write outlived its caller.
Undisturbed == manual = 0 /\ lates = 0

LEMMA OneWriterUndisturbed == OneWriter /\ TypeOK => Undisturbed
  BY DEF OneWriter, TypeOK, Undisturbed

\* Disturbances are counted and never forgotten.
LEMMA UndisturbedBefore ==
  ASSUME TypeOK, [Next]_vars, Undisturbed'
  PROVE  /\ Undisturbed
         /\ ~(\E v \in Versions : ManualAlias(v))
         /\ LateWriteLands \/ late' = late
<1>t. manual \in Nat /\ lates \in Nat
  BY RegistryConstants DEF TypeOK
<1>1. ~(\E v \in Versions : ManualAlias(v))
  BY <1>t DEF ManualAlias, Undisturbed
<1>2. /\ manual' = manual
      /\ lates' = lates + 1 \/ (lates' = lates /\ (LateWriteLands \/ late' = late))
  <2>1. CASE \E t \in Trainers : Retraining(t)
    BY <2>1
       DEF Retraining, LoadChampion, EnsureTenantBinding, ResolveBenchmark,
           RegisterCandidate, TrainerStops, faults
  <2>2. CASE Deciding
    BY <2>2
       DEF Deciding, BeginDecision, ReadPrevious, TakeSnapshot, Reject, ForwardStep,
           ForwardFails, ReadAliasBack, ResetAlias, ReadTags, RestoreTag, RepairFails,
           Crash, CallRaised, Unmoved, faults
  <2>3. CASE LateWriteLands \/ UNCHANGED vars
    BY <2>3 DEF LateWriteLands, Unmoved, vars, faults
  <2>4. QED
    BY <1>1, <2>1, <2>2, <2>3 DEF Next
<1>3. QED
  BY <1>t, <1>1, <1>2 DEF Undisturbed

LEMMA UndisturbedStep ==
  ASSUME TypeOK, [Next]_vars, Undisturbed', late = {}
  PROVE  /\ ~(\E v \in Versions : ManualAlias(v))
         /\ ~LateWriteLands
         /\ late' = {}
<1>1. ~LateWriteLands
  BY DEF LateWriteLands
<1>2. QED
  BY <1>1, UndisturbedBefore

BeforeAlias == {"snapshot", "writing"}

CurrentInv ==
  /\ late = {}
  /\ session.phase \in {"checked"} \cup BeforeAlias => Registered(session.version)
  /\ session.phase \in BeforeAlias => session.previous = alias
  /\ session.phase \in BeforeAlias /\ session.decision = "promotion"
       => bench[session.version] = session.previous

\* What a step must leave alone for CurrentInv to survive it.
LEMMA CurrentInvFrame ==
  ASSUME TypeInv, CurrentInv, UNCHANGED <<session, alias, late>>,
         session.version \in Versions /\ Registered(session.version)
           => /\ tags'[session.version] = tags[session.version]
              /\ bench'[session.version] = bench[session.version]
  PROVE  CurrentInv'
<1>1. session.phase \in {"checked"} \cup BeforeAlias => session.version \in Versions
  BY DEF TypeInv, SessionWellFormed, Terminal, BeforeAlias
<1>2. QED
  BY <1>1 DEF CurrentInv, Registered, BeforeAlias

\* The forward writes never take the lifecycle tag away from the version.
LEMMA ForwardKeepsRegistered ==
  ASSUME TypeInv, CurrentInv, ForwardStep
  PROVE  tags'[session.version]["lifecycle"] # Absent
<1>1. /\ session.phase = "writing" /\ session.version \in Versions
      /\ Registered(session.version)
      /\ session.step \in 1..LastStep
  BY DEF ForwardStep, TypeInv, SessionWellFormed, CurrentInv, BeforeAlias, Terminal
<1>2. tags \in [Versions -> [Keys -> TagValues]] /\ "lifecycle" \in Keys
  BY DEF TypeInv, TypeOK, Keys
<1>3. "champion" # Absent /\ "superseded" # Absent
  BY RegistryConstants DEF Lifecycles
<1>4. DEFINE w == ForwardWrite(session)
<1>5. w.key = "lifecycle" => w.value \in {"champion", "superseded"}
  <2>1. CASE Order[session.step] = "supersede"
    BY <2>1 DEF ForwardWrite, Write
  <2>2. CASE Order[session.step] = "alias"
    BY <2>2 DEF ForwardWrite, Write
  <2>3. CASE Order[session.step] \notin {"supersede", "alias"}
    BY <2>3 DEF ForwardWrite, Write, AuditTags
  <2>4. QED
    BY <2>1, <2>2, <2>3
<1>6. CASE Applies(w) /\ w.key # "alias"
  <2>1. tags' = [tags EXCEPT ![w.version][w.key] = w.value]
    BY <1>6 DEF Applies
  <2>2. tags'[session.version]["lifecycle"] \in
          {w.value, tags[session.version]["lifecycle"]}
    BY <1>1, <1>2, <2>1
  <2>3. w.key # "lifecycle" =>
          tags'[session.version]["lifecycle"] = tags[session.version]["lifecycle"]
    BY <1>1, <1>2, <2>1
  <2>4. QED
    BY <1>1, <1>3, <1>5, <2>2, <2>3 DEF Registered
<1>7. CASE UNCHANGED tags
  BY <1>1, <1>7 DEF Registered
<1>8. QED
  BY <1>6, <1>7 DEF ForwardStep, Applies

LEMMA StepCurrentInv ==
  ASSUME Undisturbed', TypeInv, CurrentInv, [Next]_vars
  PROVE  CurrentInv'
<1>t. session \in SessionRecords /\ tags \in [Versions -> [Keys -> TagValues]]
  BY DEF TypeInv, TypeOK
<1>n. late' = late /\ ~(\E v \in Versions : ManualAlias(v)) /\ ~LateWriteLands
  BY UndisturbedStep DEF TypeInv, CurrentInv
<1>e. ASSUME session'.phase \notin {"checked"} \cup BeforeAlias, late' = late
      PROVE  CurrentInv'
  BY <1>e DEF CurrentInv, BeforeAlias
<1>1. ASSUME NEW t \in Trainers,
             LoadChampion(t) \/ EnsureTenantBinding(t) \/ ResolveBenchmark(t)
               \/ TrainerStops(t)
      PROVE  CurrentInv'
  BY <1>1, CurrentInvFrame
     DEF LoadChampion, EnsureTenantBinding, ResolveBenchmark, TrainerStops,
         registry, faults
<1>2. ASSUME NEW t \in Trainers, RegisterCandidate(t) PROVE CurrentInv'
  <2>1. PICK v \in Versions :
          /\ ~Registered(v)
          /\ tags' = [tags EXCEPT ![v] = CandidateTags]
          /\ bench' = [bench EXCEPT ![v] = trainer[t].bench]
    BY <1>2 DEF RegisterCandidate
  <2>2. bench \in [Versions -> VersionOrNone]
    BY DEF TypeInv, TypeOK
  <2>3. QED
    BY <1>2, <1>t, <2>1, <2>2, CurrentInvFrame DEF RegisterCandidate, faults
<1>3. ASSUME NEW d \in Decisions, NEW v \in Versions, NEW a \in Approvers,
             BeginDecision(d, v, a)
      PROVE  CurrentInv'
  <2>1. NoSession("checked") \in SessionRecords /\ NoSession("checked").phase = "checked"
    BY NoSessionTyped
  <2>2. session'.phase = "checked" /\ session'.version = v
    BY <1>3, <2>1 DEF BeginDecision, SessionRecords
  <2>3. Registered(v)
    BY <1>3, RegistryConstants DEF BeginDecision, RequiredLifecycle, Registered, Lifecycles
  <2>4. QED
    BY <1>3, <2>2, <2>3
       DEF BeginDecision, CurrentInv, BeforeAlias, Registered, registry, faults
<1>4. ASSUME ReadPrevious PROVE CurrentInv'
  <2>1. /\ session'.phase = "snapshot" /\ session'.version = session.version
        /\ session'.decision = session.decision /\ session'.previous = alias
    BY <1>4, <1>t DEF ReadPrevious, SessionRecords
  <2>2. session.decision = "promotion" => bench[session.version] = alias
    BY <1>4 DEF ReadPrevious, EvidenceIsCurrent
  <2>3. QED
    BY <1>4, <2>1, <2>2
       DEF ReadPrevious, CurrentInv, BeforeAlias, Registered, registry, faults
<1>5. ASSUME TakeSnapshot PROVE CurrentInv'
  <2>1. /\ session'.phase = "writing" /\ session'.version = session.version
        /\ session'.decision = session.decision
        /\ session'.previous = session.previous
    BY <1>5, <1>t DEF TakeSnapshot, SessionRecords
  <2>2. QED
    BY <1>5, <2>1
       DEF TakeSnapshot, CurrentInv, BeforeAlias, Registered, registry, faults
<1>6. ASSUME ForwardStep PROVE CurrentInv'
  <2>1. CASE session.step = LastStep
    BY <1>6, <1>e, <2>1, NoSessionTyped DEF ForwardStep, AfterStep, Terminal, BeforeAlias
  <2>2. CASE session.step # LastStep
    <3>1. /\ session'.phase = "writing" /\ session'.version = session.version
          /\ session'.decision = session.decision
          /\ session'.previous = session.previous
      BY <1>6, <1>t, <2>2 DEF ForwardStep, AfterStep, SessionRecords
    <3>2. ForwardWrite(session).key # "alias"
      <4>1. session.step \in 1..7
        BY <1>6, <2>2 DEF ForwardStep, TypeInv, SessionWellFormed, LastStep
      <4>2. Order[session.step] # "alias"
        BY <4>1 DEF Order
      <4>3. QED
        BY <4>2 DEF ForwardWrite, Write
    <3>3. alias' = alias /\ bench' = bench /\ late' = late
      BY <1>6, <3>2 DEF ForwardStep, Applies, Unmoved
    <3>4. QED
      BY <1>6, <3>1, <3>3, ForwardKeepsRegistered
         DEF ForwardStep, CurrentInv, BeforeAlias, Registered
  <2>3. QED
    BY <2>1, <2>2
<1>7. ASSUME ForwardFails PROVE CurrentInv'
  <2>1. session'.phase = "repair"
    BY <1>7, <1>t DEF ForwardFails, SessionRecords
  <2>2. late' = late
    BY <1>n
  <2>3. QED
    BY <1>e, <2>1, <2>2 DEF BeforeAlias
<1>8. ASSUME Reject \/ Crash PROVE CurrentInv'
  BY <1>8, <1>e, NoSessionTyped DEF Reject, Crash, Terminal, BeforeAlias, faults
<1>9. ASSUME ReadAliasBack \/ ResetAlias PROVE CurrentInv'
  <2>1. session'.phase \in {"reset", "restore"}
    BY <1>9, <1>t, RestoreFromTyped DEF ReadAliasBack, ResetAlias, SessionRecords
  <2>2. QED
    BY <1>9, <1>e, <2>1 DEF ReadAliasBack, ResetAlias, BeforeAlias, faults
<1>10. ASSUME ReadTags PROVE CurrentInv'
  <2>1. session'.phase = "restore"
    BY <1>10, <1>t DEF ReadTags, SessionRecords
  <2>2. QED
    BY <1>10, <1>e, <2>1 DEF ReadTags, BeforeAlias, faults
<1>11. ASSUME RestoreTag PROVE CurrentInv'
  <2>1. session'.phase \in {"restore", "restored"}
    BY <1>11, <1>t, NoSessionTyped DEF RestoreTag, AfterRestore, SessionRecords, Terminal
  <2>2. QED
    BY <1>11, <1>e, <2>1 DEF RestoreTag, BeforeAlias
<1>12. ASSUME RepairFails PROVE CurrentInv'
  <2>1. session'.phase = "reconcile"
    BY <1>12, NoSessionTyped DEF RepairFails, Terminal
  <2>2. late' = late
    BY <1>n
  <2>3. QED
    BY <1>e, <2>1, <2>2 DEF BeforeAlias
<1>13. CASE UNCHANGED vars
  BY <1>13, CurrentInvFrame DEF vars, registry, faults
<1>14. QED
  BY <1>1, <1>2, <1>3, <1>4, <1>5, <1>6, <1>7, <1>8, <1>9, <1>10, <1>11, <1>12,
     <1>13, <1>n
     DEF Next, Retraining, Deciding

\* No candidate replaces a champion its metrics were not compared with: the
\* check _set_champion makes before its first write still holds when it makes
\* its last, for every registry that one command at a time writes to.
THEOREM PromotionsAreCurrent ==
  ASSUME OneWriter
  PROVE  Spec => NoStalePromotion
<1>1. Init => CurrentInv
  BY NoSessionTyped DEF Init, CurrentInv, BeforeAlias, Terminal
<1>2. TypeInv /\ TypeInv' /\ CurrentInv /\ [Next]_vars => CurrentInv'
  BY StepCurrentInv, OneWriterUndisturbed DEF TypeInv, OneWriter, TypeOK, Undisturbed
<1>3. TypeInv /\ CurrentInv /\ [Next]_vars => [PromotedOnCurrentEvidence]_vars
  <2> SUFFICES ASSUME TypeInv, CurrentInv, [Next]_vars,
                      session.phase = "writing", session.decision = "promotion",
                      alias' # alias
               PROVE  alias' = session.version /\ bench[session.version] = alias
    BY DEF PromotedOnCurrentEvidence
  <2>1. ~LateWriteLands /\ ~(\E v \in Versions : ManualAlias(v))
    BY DEF LateWriteLands, CurrentInv, ManualAlias, OneWriter, TypeInv, TypeOK
  <2>2. ForwardStep \/ ForwardFails
    BY <2>1
       DEF Next, Retraining, LoadChampion, EnsureTenantBinding, ResolveBenchmark,
           RegisterCandidate, TrainerStops, Deciding, BeginDecision, ReadPrevious,
           TakeSnapshot, Reject, ReadAliasBack, ResetAlias, ReadTags, RestoreTag,
           RepairFails, Crash, Terminal, Reading, registry, vars
  <2>3. Applies(ForwardWrite(session))
    BY <2>2 DEF ForwardStep, ForwardFails, CallRaised
  <2>4. alias' = session.version
    BY <2>3 DEF Applies, ForwardWrite, Write, Order, AuditTags
  <2>5. QED
    BY <2>4 DEF CurrentInv, BeforeAlias
<1>4. QED
  BY <1>1, <1>2, <1>3, AlwaysTypeInv, PTL DEF Spec, NoStalePromotion
----------------------------------------------------------------------------
(* Tenants. A version gets its owner when it is registered and keeps it;   *)
(* tags come back from snapshots and from late writes, so "registered      *)
(* implies owned" must hold of those too.                                  *)

Owned(v) == v = NoVersion \/ owner[v] # Absent

Grounded(w) ==
  w.key = "alias" \/ (w.key = "lifecycle" /\ w.value # Absent) => Owned(w.version)

RegistryOwned ==
  /\ Owned(alias)
  /\ \A v \in Versions : Registered(v) => owner[v] # Absent

BindingInv ==
  /\ \A v \in Versions : owner[v] \in {Absent, binding}
  /\ \A t \in Trainers :
       trainer[t].phase \in {"bound", "resolved"} => binding = TenantOf[t]

SessionOwned ==
  /\ Owned(session.version) /\ Owned(session.previous)
  /\ \A v \in Versions : session.originals[v]["lifecycle"] # Absent => owner[v] # Absent

TenantInv ==
  /\ BindingInv
  /\ RegistryOwned
  /\ SessionOwned
  /\ \A w \in late : Grounded(w)

LEMMA NoSessionOwned ==
  ASSUME NEW p PROVE /\ NoSession(p).version = NoVersion
                     /\ NoSession(p).previous = NoVersion
                     /\ \A v \in Versions : NoSession(p).originals[v]["lifecycle"] = Absent
  BY DEF NoSession, NoTags, Keys

LEMMA AppliesGrounded ==
  ASSUME TypeOK, RegistryOwned, NEW w \in WriteRecords, Grounded(w), Applies(w),
         owner' = owner
  PROVE  RegistryOwned'
<1>1. CASE w.key = "alias"
  BY <1>1 DEF RegistryOwned, Applies, Grounded, Owned, Registered
<1>2. CASE w.key # "alias"
  <2>1. /\ tags \in [Versions -> [Keys -> TagValues]] /\ "lifecycle" \in Keys
        /\ tags' = [tags EXCEPT ![w.version][w.key] = w.value] /\ alias' = alias
    BY <1>2 DEF TypeOK, Keys, Applies
  <2>2. ASSUME NEW v \in Versions, tags'[v]["lifecycle"] # Absent
        PROVE  owner[v] # Absent
    <3>1. CASE tags'[v]["lifecycle"] = tags[v]["lifecycle"]
      BY <2>2, <3>1 DEF RegistryOwned, Registered
    <3>2. CASE tags'[v]["lifecycle"] # tags[v]["lifecycle"]
      <4>1. v = w.version /\ w.key = "lifecycle" /\ w.value # Absent
        BY <2>1, <2>2, <3>2
      <4>2. v # NoVersion
        BY RegistryConstants DEF Versions, NoVersion
      <4>3. QED
        BY <4>1, <4>2 DEF Grounded, Owned
    <3>3. QED
      BY <3>1, <3>2
  <2>3. QED
    BY <2>1, <2>2 DEF RegistryOwned, Registered, Owned
<1>3. QED
  BY <1>1, <1>2

LEMMA CallRaisedGrounded ==
  ASSUME TypeOK, TenantInv, NEW w \in WriteRecords, Grounded(w), CallRaised(w),
         owner' = owner
  PROVE  RegistryOwned' /\ (\A u \in late' : Grounded(u)')
<1>1. \A u : Grounded(u)' <=> Grounded(u)
  BY DEF Grounded, Owned
<1>2. late' \subseteq late \cup {w}
  BY DEF CallRaised
<1>3. RegistryOwned'
  BY AppliesGrounded DEF CallRaised, TenantInv, RegistryOwned, Owned, Registered
<1>4. QED
  BY <1>1, <1>2, <1>3 DEF TenantInv

LEMMA ForwardWriteGrounded ==
  ASSUME TypeInv, TenantInv, session.phase = "writing"
  PROVE  Grounded(ForwardWrite(session))
<1>1. Owned(session.version) /\ Owned(session.previous)
  BY DEF TenantInv, SessionOwned
<1>2. ForwardWrite(session).version \in {session.version, session.previous}
  BY DEF ForwardWrite, Write
<1>3. QED
  BY <1>1, <1>2 DEF Grounded

LEMMA RestoreWriteGrounded ==
  ASSUME TypeInv, TenantInv, session.phase = "restore", session.current # NoVersion
  PROVE  Grounded(RestoreWrite(session))
<1>1. session.current \in Versions
  BY SessionTyped, RegistryConstants DEF TypeInv, Versions, VersionOrNone, NoVersion
<1>2. /\ RestoreWrite(session).version = session.current
      /\ RestoreWrite(session).key = TrackedKeys[session.step]
      /\ RestoreWrite(session).value
           = session.originals[session.current][TrackedKeys[session.step]]
  BY DEF RestoreWrite, Write
<1>3. TrackedKeys[session.step] \in Keys /\ "alias" \notin Keys
  BY OrderedKeys DEF TypeInv, SessionWellFormed, Keys
<1>4. QED
  BY <1>1, <1>2, <1>3 DEF Grounded, TenantInv, SessionOwned, Owned

LEMMA AliasWriteGrounded ==
  ASSUME TypeInv, TenantInv
  PROVE  /\ Write("alias", session.previous, Absent) \in WriteRecords
         /\ Grounded(Write("alias", session.previous, Absent))
<1>1. session.previous \in VersionOrNone /\ Owned(session.previous)
  BY SessionTyped DEF TypeInv, TenantInv, SessionOwned
<1>2. QED
  BY <1>1 DEF Write, WriteRecords, TagValues, Grounded

LEMMA StepTenantInv == TypeInv /\ TenantInv /\ [Next]_vars => TenantInv'
<1> SUFFICES ASSUME TypeInv, TenantInv, [Next]_vars PROVE TenantInv'
  OBVIOUS
<1> USE DEF TypeInv
<1>t. /\ trainer \in [Trainers -> [phase : TrainerPhases, compared : VersionOrNone,
                                   bench : VersionOrNone]]
      /\ owner \in [Versions -> Tenants \cup {Absent}]
      /\ tags \in [Versions -> [Keys -> TagValues]]
      /\ session \in SessionRecords
  BY DEF TypeOK
<1>b. UNCHANGED <<owner, binding, trainer>> => BindingInv'
  BY DEF TenantInv, BindingInv
<1>r. UNCHANGED <<owner, alias, tags>> => RegistryOwned'
  BY DEF TenantInv, RegistryOwned, Owned, Registered
<1>s. ASSUME UNCHANGED owner, session'.version \in {NoVersion, session.version},
             session'.previous \in {NoVersion, session.previous, alias},
             \/ session'.originals = session.originals
             \/ session'.originals = tags
             \/ \A v \in Versions : session'.originals[v]["lifecycle"] = Absent
      PROVE  SessionOwned'
  BY <1>s DEF TenantInv, SessionOwned, RegistryOwned, Owned, Registered
<1>l. UNCHANGED owner /\ late' \subseteq late => \A w \in late' : Grounded(w)'
  BY DEF TenantInv, Grounded, Owned
<1>n. ASSUME NEW p, UNCHANGED owner, session' = NoSession(p) PROVE SessionOwned'
  BY <1>n, <1>s, NoSessionOwned
<1>1. ASSUME NEW t \in Trainers,
             \/ LoadChampion(t)
             \/ ResolveBenchmark(t)
             \/ TrainerStops(t)
      PROVE  TenantInv'
  <2>1. \A u \in Trainers : trainer'[u].phase \in {"bound", "resolved"}
                              => trainer[u].phase \in {"bound", "resolved"}
    BY <1>1, <1>t, SMTT(30) DEF LoadChampion, ResolveBenchmark, TrainerStops, IdleTrainer
  <2>2. UNCHANGED <<registry, session, faults>>
    BY <1>1 DEF LoadChampion, ResolveBenchmark, TrainerStops
  <2>3. BindingInv'
    BY <2>1, <2>2 DEF TenantInv, BindingInv, registry
  <2>4. QED
    BY <1>r, <1>s, <1>l, <2>2, <2>3 DEF TenantInv, registry, faults
<1>2. ASSUME NEW t \in Trainers, EnsureTenantBinding(t) PROVE TenantInv'
  <2>1. /\ binding \in {Absent, TenantOf[t]} /\ binding' = TenantOf[t]
        /\ owner' = owner
    BY <1>2 DEF EnsureTenantBinding, BindingAccepts
  <2>2. \A u \in Trainers : TenantOf[u] # Absent
    BY RegistryConstants
  <2>3. \A u \in Trainers \ {t} : trainer'[u] = trainer[u]
    BY <1>2, <1>t DEF EnsureTenantBinding
  <2>4. BindingInv'
    BY <2>1, <2>2, <2>3 DEF TenantInv, BindingInv
  <2>5. QED
    BY <1>2, <1>r, <1>s, <1>l, <2>4 DEF EnsureTenantBinding, TenantInv, faults
<1>3. ASSUME NEW t \in Trainers, RegisterCandidate(t) PROVE TenantInv'
  <2>1. PICK v \in Versions :
          /\ tags' = [tags EXCEPT ![v] = CandidateTags]
          /\ owner' = [owner EXCEPT ![v] = TenantOf[t]]
    BY <1>3 DEF RegisterCandidate
  <2>2. TenantOf[t] # Absent /\ TenantOf[t] = binding /\ binding' = binding
    BY <1>3, RegistryConstants DEF RegisterCandidate, TenantInv, BindingInv
  <2>3. /\ owner'[v] = binding
        /\ \A u \in Versions \ {v} : owner'[u] = owner[u] /\ tags'[u] = tags[u]
    BY <1>t, <2>1, <2>2
  <2>4. \A u \in VersionOrNone : Owned(u) => Owned(u)'
    BY <2>2, <2>3, RegistryConstants DEF Owned, Versions, VersionOrNone, NoVersion
  <2>5. BindingInv'
    <3>1. \A u \in Trainers : trainer'[u].phase \in {"bound", "resolved"}
                                => trainer[u].phase \in {"bound", "resolved"}
      BY <1>3, <1>t DEF RegisterCandidate, IdleTrainer
    <3>2. QED
      BY <2>2, <2>3, <3>1 DEF TenantInv, BindingInv
  <2>6. RegistryOwned'
    <3>1. alias' = alias /\ alias \in VersionOrNone
      BY <1>3 DEF RegisterCandidate, TypeOK
    <3>2. QED
      BY <2>2, <2>3, <2>4, <3>1 DEF TenantInv, RegistryOwned, Registered
  <2>7. SessionOwned'
    <3>1. /\ session' = session
          /\ session.version \in VersionOrNone /\ session.previous \in VersionOrNone
      BY <1>3, SessionTyped DEF RegisterCandidate
    <3>2. QED
      BY <2>2, <2>3, <2>4, <3>1 DEF TenantInv, SessionOwned
  <2>8. \A w \in late' : Grounded(w)'
    <3>1. late' = late /\ \A w \in late : w.version \in VersionOrNone
      BY <1>3 DEF RegisterCandidate, faults, TypeOK, WriteRecords
    <3>2. QED
      BY <2>4, <3>1 DEF TenantInv, Grounded
  <2>9. QED
    BY <2>5, <2>6, <2>7, <2>8 DEF TenantInv
<1>4. ASSUME NEW d \in Decisions, NEW v \in Versions, NEW a \in Approvers,
             BeginDecision(d, v, a)
      PROVE  TenantInv'
  <2>1. NoSession("checked") \in SessionRecords
    BY NoSessionTyped
  <2>2. /\ session'.version = v /\ session'.previous = NoVersion
        /\ session'.originals = NoSession("checked").originals
    BY <1>4, <2>1, NoSessionOwned DEF BeginDecision, SessionRecords
  <2>3. owner[v] # Absent
    <3>1. Registered(v)
      BY <1>4, RegistryConstants
         DEF BeginDecision, RequiredLifecycle, Registered, Lifecycles
    <3>2. QED
      BY <3>1 DEF TenantInv, RegistryOwned
  <2>4. SessionOwned'
    BY <1>4, <2>2, <2>3, NoSessionOwned DEF BeginDecision, registry, SessionOwned, Owned
  <2>5. QED
    BY <1>4, <1>b, <1>r, <1>l, <2>4 DEF BeginDecision, registry, faults, TenantInv
<1>5. ASSUME ReadPrevious \/ TakeSnapshot \/ ReadAliasBack \/ ReadTags PROVE TenantInv'
  <2>1. /\ session'.version = session.version
        /\ session'.previous \in {session.previous, alias}
        /\ session'.originals \in {session.originals, tags}
    BY <1>5, <1>t
       DEF ReadPrevious, TakeSnapshot, ReadAliasBack, RestoreFrom, ReadTags,
           SessionRecords
  <2>2. UNCHANGED <<registry, trainer, faults>>
    BY <1>5 DEF ReadPrevious, TakeSnapshot, ReadAliasBack, ReadTags
  <2>3. QED
    BY <1>b, <1>r, <1>s, <1>l, <2>1, <2>2 DEF registry, faults, TenantInv
<1>6. ASSUME Reject \/ Crash PROVE TenantInv'
  <2>1. UNCHANGED <<registry, trainer, faults>>
    BY <1>6 DEF Reject, Crash
  <2>2. SessionOwned'
    BY <1>6, <1>n, <2>1 DEF Reject, Crash, registry
  <2>3. QED
    BY <1>b, <1>r, <1>l, <2>1, <2>2 DEF registry, faults, TenantInv
<1>7. ASSUME ForwardStep PROVE TenantInv'
  <2>1. UNCHANGED <<owner, binding, trainer, late>>
    BY <1>7 DEF ForwardStep, Unmoved
  <2>2. RegistryOwned'
    BY <1>7, <1>r, <2>1, ForwardWriteTyped, ForwardWriteGrounded, AppliesGrounded
       DEF ForwardStep, TenantInv
  <2>3. SessionOwned'
    <3>1. CASE session.step = LastStep
      BY <1>7, <1>n, <2>1, <3>1 DEF ForwardStep, AfterStep
    <3>2. CASE session.step # LastStep
      <4>1. /\ session'.version = session.version
            /\ session'.previous = session.previous
            /\ session'.originals = session.originals
        BY <1>7, <1>t, <3>2 DEF ForwardStep, AfterStep, SessionRecords
      <4>2. QED
        BY <1>s, <2>1, <4>1
    <3>3. QED
      BY <3>1, <3>2
  <2>4. QED
    BY <1>b, <1>l, <2>1, <2>2, <2>3 DEF TenantInv
<1>8. ASSUME ForwardFails PROVE TenantInv'
  <2>1. UNCHANGED <<owner, binding, trainer>>
    BY <1>8 DEF ForwardFails, Unmoved
  <2>2. RegistryOwned' /\ (\A w \in late' : Grounded(w)')
    BY <1>8, <2>1, ForwardWriteTyped, ForwardWriteGrounded, CallRaisedGrounded
       DEF ForwardFails
  <2>3. /\ session'.version = session.version
        /\ session'.previous = session.previous
        /\ session'.originals = session.originals
    BY <1>8, <1>t DEF ForwardFails, SessionRecords
  <2>4. QED
    BY <1>b, <1>s, <2>1, <2>2, <2>3 DEF TenantInv
<1>9. ASSUME ResetAlias PROVE TenantInv'
  <2>1. UNCHANGED <<owner, binding, trainer, late>>
    BY <1>9 DEF ResetAlias, Unmoved
  <2>2. RegistryOwned'
    BY <1>9, <2>1, AliasWriteGrounded, AppliesGrounded DEF ResetAlias, TenantInv
  <2>3. /\ session'.version = session.version
        /\ session'.previous = session.previous
        /\ session'.originals = session.originals
    BY <1>9, <1>t DEF ResetAlias, RestoreFrom, SessionRecords
  <2>4. QED
    BY <1>b, <1>s, <1>l, <2>1, <2>2, <2>3 DEF TenantInv
<1>10. ASSUME RestoreTag PROVE TenantInv'
  <2>1. UNCHANGED <<owner, binding, trainer, late>>
    BY <1>10 DEF RestoreTag, Unmoved
  <2>2. RegistryOwned'
    BY <1>10, <1>r, <2>1, RestoreWriteTyped, RestoreWriteGrounded, AppliesGrounded
       DEF RestoreTag, TenantInv
  <2>3. SessionOwned'
    <3>1. CASE session' = NoSession("restored")
      BY <1>n, <2>1, <3>1
    <3>2. CASE session' # NoSession("restored")
      <4>1. /\ session'.version = session.version
            /\ session'.previous = session.previous
            /\ session'.originals = session.originals
        BY <1>10, <1>t, <3>2 DEF RestoreTag, AfterRestore, SessionRecords
      <4>2. QED
        BY <1>s, <2>1, <4>1
    <3>3. QED
      BY <3>1, <3>2
  <2>4. QED
    BY <1>b, <1>l, <2>1, <2>2, <2>3 DEF TenantInv
<1>11. ASSUME RepairFails PROVE TenantInv'
  <2>1. UNCHANGED <<owner, binding, trainer>>
    BY <1>11 DEF RepairFails, Unmoved
  <2>2. RegistryOwned' /\ (\A w \in late' : Grounded(w)')
    <3>1. CASE UNCHANGED <<alias, tags, late, lates>>
      BY <1>r, <1>l, <2>1, <3>1
    <3>2. CASE CallRaised(Write("alias", session.previous, Absent))
      BY <2>1, <3>2, AliasWriteGrounded, CallRaisedGrounded
    <3>3. CASE /\ session.phase = "restore"
               /\ session.current # NoVersion
               /\ CallRaised(RestoreWrite(session))
      BY <2>1, <3>3, RestoreWriteTyped, RestoreWriteGrounded, CallRaisedGrounded
    <3>4. QED
      BY <1>11, <3>1, <3>2, <3>3 DEF RepairFails
  <2>3. SessionOwned'
    BY <1>11, <1>n, <2>1 DEF RepairFails
  <2>4. QED
    BY <1>b, <2>1, <2>2, <2>3 DEF TenantInv
<1>12. ASSUME NEW v \in Versions, ManualAlias(v) PROVE TenantInv'
  <2>1. UNCHANGED <<owner, binding, trainer, late, tags, session>> /\ alias' = v
    BY <1>12 DEF ManualAlias
  <2>2. RegistryOwned'
    BY <1>12, <2>1 DEF ManualAlias, TenantInv, RegistryOwned, Owned, Registered
  <2>3. QED
    BY <1>b, <1>s, <1>l, <2>1, <2>2 DEF TenantInv
<1>13. ASSUME LateWriteLands PROVE TenantInv'
  <2>1. PICK w \in late : Applies(w) /\ late' = late \ {w}
    BY <1>13 DEF LateWriteLands
  <2>2. UNCHANGED <<owner, binding, trainer, session>>
    BY <1>13 DEF LateWriteLands, Unmoved
  <2>3. w \in WriteRecords /\ Grounded(w)
    BY DEF TypeOK, TenantInv
  <2>4. RegistryOwned'
    BY <2>1, <2>2, <2>3, AppliesGrounded DEF TenantInv
  <2>5. QED
    BY <1>b, <1>s, <1>l, <2>1, <2>2, <2>4 DEF TenantInv
<1>14. CASE UNCHANGED vars
  BY <1>14, <1>b, <1>r, <1>s, <1>l DEF vars, registry, faults, TenantInv
<1>15. QED
  BY <1>1, <1>2, <1>3, <1>4, <1>5, <1>6, <1>7, <1>8, <1>9, <1>10, <1>11, <1>12,
     <1>13, <1>14
     DEF Next, Retraining, Deciding

\* A namespace never holds versions of two tenants, however the pipelines of
\* several tenants race to create it and whatever the commands restore.
THEOREM TenantsNeverMix == Spec => []SingleTenantNamespace
<1>1. Init => TenantInv
  BY NoSessionOwned, RegistryConstants
     DEF Init, TenantInv, BindingInv, RegistryOwned, SessionOwned, Owned,
         Registered, NoTags, Keys, IdleTrainer
<1>2. TenantInv => SingleTenantNamespace
  BY DEF TenantInv, BindingInv, RegistryOwned, SingleTenantNamespace
<1>3. QED
  BY <1>1, <1>2, StepTenantInv, AlwaysTypeInv, PTL DEF Spec
----------------------------------------------------------------------------
(* Fail-closed serving. The lifecycle "champion" comes from the sixth      *)
(* write of a command, from a snapshot of tags or from a write that lands  *)
(* late; wherever it is found, its version had its audit completed.        *)

\* A write makes champions only of these versions.
Earned(w, versions) == w.key = "lifecycle" /\ w.value = "champion" => w.version \in versions

ChampionTagsAudited ==
  \A v \in Versions : tags[v]["lifecycle"] = "champion" => v \in audited
SnapshotAudited ==
  \A v \in Versions : session.originals[v]["lifecycle"] = "champion" => v \in audited

AuditInv ==
  /\ ChampionTagsAudited
  /\ SnapshotAudited
  /\ \A w \in late : Earned(w, audited)

LEMMA NoSessionNotChampion ==
  ASSUME NEW p, NEW v \in Versions
  PROVE  NoSession(p).originals[v]["lifecycle"] # "champion"
  BY RegistryConstants DEF NoSession, NoTags, Keys, Lifecycles

LEMMA AppliesAudited ==
  ASSUME TypeOK, ChampionTagsAudited, NEW w \in WriteRecords, Earned(w, audited'), Applies(w),
         audited \subseteq audited'
  PROVE  ChampionTagsAudited'
<1>1. CASE w.key = "alias"
  BY <1>1 DEF ChampionTagsAudited, Applies
<1>2. CASE w.key # "alias"
  <2>1. /\ tags \in [Versions -> [Keys -> TagValues]] /\ "lifecycle" \in Keys
        /\ tags' = [tags EXCEPT ![w.version][w.key] = w.value]
    BY <1>2 DEF TypeOK, Keys, Applies
  <2>2. ASSUME NEW v \in Versions, tags'[v]["lifecycle"] = "champion"
        PROVE  v \in audited'
    <3>1. CASE tags'[v]["lifecycle"] = tags[v]["lifecycle"]
      BY <2>2, <3>1 DEF ChampionTagsAudited
    <3>2. CASE tags'[v]["lifecycle"] # tags[v]["lifecycle"]
      <4>1. v = w.version /\ w.key = "lifecycle" /\ w.value = "champion"
        BY <2>1, <2>2, <3>2
      <4>2. QED
        BY <4>1 DEF Earned
    <3>3. QED
      BY <3>1, <3>2
  <2>3. QED
    BY <2>2 DEF ChampionTagsAudited
<1>3. QED
  BY <1>1, <1>2

LEMMA CallRaisedAudited ==
  ASSUME TypeOK, AuditInv, NEW w \in WriteRecords, Earned(w, audited'), CallRaised(w),
         audited \subseteq audited'
  PROVE  ChampionTagsAudited' /\ (\A u \in late' : Earned(u, audited'))
<1>1. \A u \in late : Earned(u, audited')
  BY DEF AuditInv, Earned
<1>2. late' \subseteq late \cup {w}
  BY DEF CallRaised
<1>3. UNCHANGED tags => ChampionTagsAudited'
  BY DEF AuditInv, ChampionTagsAudited
<1>4. ChampionTagsAudited'
  BY <1>3, AppliesAudited DEF CallRaised, AuditInv
<1>5. QED
  BY <1>1, <1>2, <1>4

\* The step that writes "champion" is the one that completes the audit.
LEMMA ForwardWriteEarned ==
  ASSUME TypeInv, session.phase = "writing", Record(session)
  PROVE  Earned(ForwardWrite(session), audited') /\ audited \subseteq audited'
<1>1. audited \subseteq audited'
  BY DEF Record
<1>2. CASE session.step = AuditSteps
  <2>1. session.version \in audited'
    BY <1>2 DEF Record
  <2>2. Order[session.step] = "lifecycle"
    BY <1>2 DEF Order, AuditSteps
  <2>3. ForwardWrite(session) = Write("lifecycle", session.version, AuditTags(session)["lifecycle"])
    BY <2>2 DEF ForwardWrite
  <2>4. ForwardWrite(session).version = session.version
    BY <2>3 DEF Write
  <2>5. QED
    BY <1>1, <2>1, <2>4 DEF Earned
<1>3. CASE session.step # AuditSteps
  <2>1. session.step \in 1..LastStep
    BY DEF TypeInv, SessionWellFormed
  <2>2. Order[session.step] # "lifecycle"
    BY <1>3, <2>1 DEF Order, AuditSteps, LastStep
  <2>3. ~(/\ ForwardWrite(session).key = "lifecycle"
          /\ ForwardWrite(session).value = "champion")
    <3>1. CASE Order[session.step] = "supersede"
      <4>1. ForwardWrite(session) = Write("lifecycle", session.previous, "superseded")
        BY <3>1 DEF ForwardWrite
      <4>2. QED
        BY <4>1 DEF Write
    <3>2. CASE Order[session.step] # "supersede"
      <4>1. ForwardWrite(session).key = Order[session.step]
        BY <3>2 DEF ForwardWrite, Write
      <4>2. QED
        BY <2>2, <4>1
    <3>3. QED
      BY <3>1, <3>2
  <2>4. QED
    BY <1>1, <2>3 DEF Earned
<1>4. QED
  BY <1>2, <1>3

LEMMA RestoreWriteEarned ==
  ASSUME TypeInv, AuditInv, session.phase = "restore", session.current # NoVersion
  PROVE  Earned(RestoreWrite(session), audited)
<1>1. session.current \in Versions
  BY SessionTyped, RegistryConstants DEF TypeInv, Versions, VersionOrNone, NoVersion
<1>2. /\ RestoreWrite(session).version = session.current
      /\ RestoreWrite(session).key = TrackedKeys[session.step]
      /\ RestoreWrite(session).value
           = session.originals[session.current][TrackedKeys[session.step]]
  BY DEF RestoreWrite, Write
<1>3. QED
  BY <1>1, <1>2 DEF Earned, AuditInv, SnapshotAudited

LEMMA StepAuditInv == TypeInv /\ AuditInv /\ [Next]_vars => AuditInv'
<1> SUFFICES ASSUME TypeInv, AuditInv, [Next]_vars PROVE AuditInv'
  OBVIOUS
<1> USE DEF TypeInv
<1>t. tags \in [Versions -> [Keys -> TagValues]] /\ session \in SessionRecords
  BY DEF TypeOK
<1>g. UNCHANGED <<tags, audited>> => ChampionTagsAudited'
  BY DEF AuditInv, ChampionTagsAudited
<1>l. UNCHANGED audited /\ late' \subseteq late => \A w \in late' : Earned(w, audited')
  BY DEF AuditInv, Earned
<1>s. ASSUME audited \subseteq audited',
             \/ session'.originals = session.originals
             \/ session'.originals = tags
             \/ \E p : session' = NoSession(p)
      PROVE  SnapshotAudited'
  BY <1>s, NoSessionNotChampion DEF AuditInv, SnapshotAudited, ChampionTagsAudited
<1>1. ASSUME NEW t \in Trainers,
             LoadChampion(t) \/ EnsureTenantBinding(t) \/ ResolveBenchmark(t)
               \/ TrainerStops(t)
      PROVE  AuditInv'
  <2>1. UNCHANGED <<tags, audited, late, session>>
    BY <1>1
       DEF LoadChampion, EnsureTenantBinding, ResolveBenchmark, TrainerStops,
           registry, history, faults
  <2>2. QED
    BY <1>g, <1>l, <1>s, <2>1 DEF AuditInv
<1>2. ASSUME NEW t \in Trainers, RegisterCandidate(t) PROVE AuditInv'
  <2>1. UNCHANGED <<audited, late, session>>
    BY <1>2 DEF RegisterCandidate, history, faults
  <2>2. PICK v \in Versions : tags' = [tags EXCEPT ![v] = CandidateTags]
    BY <1>2 DEF RegisterCandidate
  <2>3. CandidateTags["lifecycle"] = "candidate"
    BY DEF CandidateTags, NoTags, Keys
  <2>4. ChampionTagsAudited'
    BY <1>t, <2>1, <2>2, <2>3 DEF AuditInv, ChampionTagsAudited
  <2>5. QED
    BY <1>l, <1>s, <2>1, <2>4 DEF AuditInv
<1>3. ASSUME NEW d \in Decisions, NEW v \in Versions, NEW a \in Approvers,
             BeginDecision(d, v, a)
      PROVE  AuditInv'
  <2>1. UNCHANGED <<tags, audited, late>>
    BY <1>3 DEF BeginDecision, registry, history, faults
  <2>2. session'.originals = NoSession("checked").originals
    BY <1>3 DEF BeginDecision, NoSession
  <2>3. SnapshotAudited'
    BY <2>2, NoSessionNotChampion DEF SnapshotAudited
  <2>4. QED
    BY <1>g, <1>l, <2>1, <2>3 DEF AuditInv
<1>4. ASSUME ReadPrevious \/ TakeSnapshot \/ Reject \/ ReadAliasBack \/ ReadTags \/ Crash
      PROVE  AuditInv'
  <2>1. UNCHANGED <<tags, audited, late>>
    BY <1>4
       DEF ReadPrevious, TakeSnapshot, Reject, ReadAliasBack, ReadTags, Crash,
           registry, history, faults
  <2>2. \/ session'.originals = session.originals
        \/ session'.originals = tags
        \/ \E p : session' = NoSession(p)
    BY <1>4, <1>t
       DEF ReadPrevious, TakeSnapshot, Reject, ReadAliasBack, ReadTags, Crash,
           RestoreFrom, SessionRecords
  <2>3. QED
    BY <1>g, <1>l, <1>s, <2>1, <2>2 DEF AuditInv
<1>5. ASSUME ForwardStep PROVE AuditInv'
  <2>1. UNCHANGED late /\ Earned(ForwardWrite(session), audited') /\ audited \subseteq audited'
    BY <1>5, ForwardWriteEarned DEF ForwardStep
  <2>2. ChampionTagsAudited'
    <3>1. UNCHANGED tags => ChampionTagsAudited'
      BY <2>1 DEF AuditInv, ChampionTagsAudited
    <3>2. ForwardWrite(session) \in WriteRecords
      BY <1>5, ForwardWriteTyped DEF ForwardStep
    <3>3. QED
      BY <1>5, <2>1, <3>1, <3>2, AppliesAudited DEF ForwardStep, AuditInv
  <2>3. session'.originals = session.originals \/ \E p : session' = NoSession(p)
    BY <1>5, <1>t DEF ForwardStep, AfterStep, SessionRecords
  <2>4. \A w \in late' : Earned(w, audited')
    BY <2>1 DEF AuditInv, Earned
  <2>5. QED
    BY <1>s, <2>1, <2>2, <2>3, <2>4 DEF AuditInv
<1>6. ASSUME ForwardFails PROVE AuditInv'
  <2>1. Earned(ForwardWrite(session), audited') /\ audited \subseteq audited'
    BY <1>6, ForwardWriteEarned DEF ForwardFails
  <2>2. ChampionTagsAudited' /\ \A w \in late' : Earned(w, audited')
    BY <1>6, <2>1, ForwardWriteTyped, CallRaisedAudited DEF ForwardFails
  <2>3. session'.originals = session.originals
    BY <1>6, <1>t DEF ForwardFails, SessionRecords
  <2>4. QED
    BY <1>s, <2>1, <2>2, <2>3 DEF AuditInv
<1>7. ASSUME ResetAlias PROVE AuditInv'
  <2>1. UNCHANGED <<tags, audited, late>>
    BY <1>7 DEF ResetAlias, Applies, Write, history
  <2>2. session'.originals = session.originals
    BY <1>7, <1>t DEF ResetAlias, RestoreFrom, SessionRecords
  <2>3. QED
    BY <1>g, <1>l, <1>s, <2>1, <2>2 DEF AuditInv
<1>8. ASSUME RestoreTag PROVE AuditInv'
  <2>1. UNCHANGED <<audited, late>>
    BY <1>8 DEF RestoreTag, history
  <2>2. /\ RestoreWrite(session) \in WriteRecords
        /\ Earned(RestoreWrite(session), audited')
    BY <1>8, <2>1, RestoreWriteTyped, RestoreWriteEarned DEF RestoreTag, Earned
  <2>3. ChampionTagsAudited'
    BY <1>8, <1>g, <2>1, <2>2, AppliesAudited DEF RestoreTag, AuditInv
  <2>4. session'.originals = session.originals \/ \E p : session' = NoSession(p)
    BY <1>8, <1>t DEF RestoreTag, AfterRestore, SessionRecords
  <2>5. QED
    BY <1>l, <1>s, <2>1, <2>3, <2>4 DEF AuditInv
<1>9. ASSUME RepairFails PROVE AuditInv'
  <2>1. UNCHANGED audited /\ session' = NoSession("reconcile")
    BY <1>9 DEF RepairFails
  <2>2. ChampionTagsAudited' /\ \A w \in late' : Earned(w, audited')
    <3>1. CASE UNCHANGED <<alias, tags, late, lates>>
      BY <1>g, <1>l, <2>1, <3>1
    <3>2. CASE CallRaised(Write("alias", session.previous, Absent))
      <4>1. Write("alias", session.previous, Absent) \in WriteRecords
        BY SessionTyped DEF Write, WriteRecords, TagValues
      <4>2. Earned(Write("alias", session.previous, Absent), audited')
        BY DEF Earned, Write
      <4>3. QED
        BY <2>1, <3>2, <4>1, <4>2, CallRaisedAudited
    <3>3. CASE /\ session.phase = "restore"
               /\ session.current # NoVersion
               /\ CallRaised(RestoreWrite(session))
      <4>1. Earned(RestoreWrite(session), audited')
        BY <2>1, <3>3, RestoreWriteEarned DEF Earned
      <4>2. QED
        BY <2>1, <3>3, <4>1, RestoreWriteTyped, CallRaisedAudited
    <3>4. QED
      BY <1>9, <3>1, <3>2, <3>3 DEF RepairFails
  <2>3. QED
    BY <1>s, <2>1, <2>2 DEF AuditInv
<1>10. ASSUME NEW v \in Versions, ManualAlias(v) PROVE AuditInv'
  <2>1. UNCHANGED <<tags, audited, late, session>>
    BY <1>10 DEF ManualAlias, history
  <2>2. QED
    BY <1>g, <1>l, <1>s, <2>1 DEF AuditInv
<1>11. ASSUME LateWriteLands PROVE AuditInv'
  <2>1. PICK w \in late : Applies(w) /\ late' = late \ {w}
    BY <1>11 DEF LateWriteLands
  <2>2. UNCHANGED <<audited, session>>
    BY <1>11 DEF LateWriteLands, history
  <2>3. w \in WriteRecords /\ Earned(w, audited')
    BY <2>2 DEF TypeOK, AuditInv, Earned
  <2>4. ChampionTagsAudited'
    BY <2>1, <2>2, <2>3, AppliesAudited DEF AuditInv
  <2>5. QED
    BY <1>l, <1>s, <2>1, <2>2, <2>4 DEF AuditInv
<1>12. CASE UNCHANGED vars
  BY <1>12, <1>g, <1>l, <1>s DEF vars, registry, history, faults, AuditInv
<1>13. QED
  BY <1>1, <1>2, <1>3, <1>4, <1>5, <1>6, <1>7, <1>8, <1>9, <1>10, <1>11, <1>12
     DEF Next, Retraining, Deciding

\* Wherever a command dies or gives up its repair, whichever of its writes
\* land late, and whoever edits the alias: what an API start loads had its
\* audit completed by a command.
THEOREM ServingFailsClosed == Spec => []FailClosedServing
<1>1. Init => AuditInv
  BY NoSessionNotChampion, RegistryConstants
     DEF Init, AuditInv, ChampionTagsAudited, SnapshotAudited, NoTags, Keys, Lifecycles
<1>2. TypeInv /\ AuditInv => FailClosedServing
  BY RegistryConstants
     DEF TypeInv, TypeOK, AuditInv, ChampionTagsAudited, FailClosedServing,
         LoadedAtStart, Governed, Versions, VersionOrNone, NoVersion
<1>3. QED
  BY <1>1, <1>2, StepAuditInv, AlwaysTypeInv, PTL DEF Spec
=============================================================================
