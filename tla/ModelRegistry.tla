--------------------------- MODULE ModelRegistry ---------------------------
(***************************************************************************)
(* The MLflow model registry protocol of pricing_engine                    *)
(* (infrastructure/model_registry.py, application/retraining_service.py).  *)
(*                                                                         *)
(* One registered-model namespace is shared by                             *)
(*   - retraining pipelines, which evaluate against the champion and       *)
(*     register candidates,                                                *)
(*   - one promotion/rollback command at a time (the runbook demands a     *)
(*     single serialized writer), which audits a version with tags and     *)
(*     moves the "champion" alias last, repairing what it did on failure,  *)
(*   - API containers, which load whatever the alias points to at startup, *)
(*   - somebody with write access who edits the alias by hand.             *)
(* Every client call is one step; a call may be refused, may take effect   *)
(* although its answer is lost, or may take effect after its caller gave   *)
(* up; the command may die between any two calls.                          *)
(*                                                                         *)
(* Run parameters and artifacts are immutable once registered, so the      *)
(* evidence that does not change (run FINISHED, gate passed, fingerprint,  *)
(* content hash, feature contract) is true of every registered version and *)
(* is not a variable.                                                      *)
(***************************************************************************)
EXTENDS Naturals

CONSTANTS
  MaxVersion,  \* bound: versions the registry can number, 1..MaxVersion
  Trainers,    \* retraining pipelines
  Tenants,     \* tenant/currency bindings
  TenantOf,    \* the tenant each pipeline's frame belongs to
  Approvers,   \* values of --approved-by that pass the printable-name check
  Absent,      \* a tag (or a binding) that is not there
  MaxBreaks,   \* bound: commands that die or give up their repair
  MaxManual,   \* bound: alias edits made outside the program
  MaxLate      \* bound: writes that land after their caller gave up

Versions == 1..MaxVersion
NoVersion == 0
VersionOrNone == 0..MaxVersion

Lifecycles == {"candidate", "champion", "superseded"}
Decisions == {"promotion", "rollback"}

\* tracked_keys: the order restore_tags rewrites them in.
TrackedKeys == <<"lifecycle", "approved_by", "approved_at", "approval_status",
                 "champion_decision", "champion_decision_reason">>
Keys == {"lifecycle", "approved_by", "approved_at", "approval_status",
         "champion_decision", "champion_decision_reason"}

\* approved_at is the instant of one decision: the approver who made it
\* stands for that instant, so two tags of one decision hold equal values.
TagValues == Lifecycles \cup Decisions \cup Approvers
               \cup {"approved", "reason", Absent}

ASSUME RegistryConstants ==
  /\ MaxVersion \in Nat \ {0}
  /\ MaxBreaks \in Nat
  /\ MaxManual \in Nat
  /\ MaxLate \in Nat
  /\ TenantOf \in [Trainers -> Tenants]
  /\ Absent \notin Tenants \cup Approvers \cup Lifecycles \cup Decisions
                     \cup {"approved", "reason"}
  /\ Approvers \cap (Lifecycles \cup Decisions \cup {"approved", "reason"}) = {}

VARIABLES
  alias,    \* version the "champion" alias points to, NoVersion when missing
  tags,     \* tags[v][key]: the tracked tags of each version
  bench,    \* bench[v]: run parameter benchmark_registry_version
  owner,    \* owner[v]: tenant/currency tags of the version and its run
  binding,  \* tenant/currency tags of the registered model
  trainer,  \* trainer[t]: where a retraining pipeline stands
  session,  \* the promotion or rollback command that is running, or how it ended
  late,     \* writes sent and given up, not yet applied
  \* history, for the properties and the bounds only
  compared, \* compared[v]: the champion v's metrics were really compared with
  audited,  \* versions for which a command got to its last audit write
  former,   \* versions a command has made champion
  breaks,   \* commands that died or asked for reconciliation so far
  manual,   \* alias edits made so far
  lates     \* writes given up so far

registry == <<alias, tags, bench, owner, binding, compared>>
history == <<audited, former, breaks>>
faults == <<manual, late, lates>>
vars == <<registry, trainer, session, history, faults>>

----------------------------------------------------------------------------
(* Tags *)

NoTags == [k \in Keys |-> Absent]
CandidateTags == [NoTags EXCEPT !["lifecycle"] = "candidate"]

Registered(v) == tags[v]["lifecycle"] # Absent

\* Mutant: the lifecycle tag is not part of the check.
GovernedIgnoringLifecycle(v) ==
  /\ tags[v]["approval_status"] = "approved"
  /\ tags[v]["approved_by"] # Absent
  /\ tags[v]["approved_at"] # Absent
  /\ tags[v]["champion_decision"] \in Decisions

\* _validate_champion_governance, on the one ModelVersion object the alias
\* lookup returned.
Governed(v) ==
  /\ tags[v]["lifecycle"] = "champion"
  /\ tags[v]["approval_status"] = "approved"
  /\ tags[v]["approved_by"] # Absent
  /\ tags[v]["approved_at"] # Absent
  /\ tags[v]["champion_decision"] \in Decisions
  /\ tags[v]["champion_decision"] = "rollback"
       => tags[v]["champion_decision_reason"] # Absent
  /\ owner[v] = binding

----------------------------------------------------------------------------
(* Retraining pipelines *)

TrainerPhases == {"idle", "evaluated", "bound", "resolved"}
IdleTrainer == [phase |-> "idle", compared |-> NoVersion, bench |-> NoVersion]

\* RetrainingPipeline.execute: load_champion, then training and evaluation on
\* the same holdout. An alias that fails governance raises: no step.
LoadChampion(t) ==
  /\ trainer[t].phase = "idle"
  /\ alias # NoVersion => Governed(alias)
  /\ trainer' = [trainer EXCEPT ![t].phase = "evaluated", ![t].compared = alias]
  /\ UNCHANGED <<registry, session, history, faults>>

\* Mutant: an existing namespace is taken over without comparing its tags.
BindingUnchecked(t) == TRUE

\* _ensure_registered_model_tenant_binding: create the namespace with its
\* tags, or find the very same tags on it.
BindingAccepts(t) == binding \in {Absent, TenantOf[t]}

EnsureTenantBinding(t) ==
  /\ trainer[t].phase = "evaluated"
  /\ BindingAccepts(t)
  /\ binding' = IF binding = Absent THEN TenantOf[t] ELSE binding
  /\ trainer' = [trainer EXCEPT ![t].phase = "bound"]
  /\ UNCHANGED <<alias, tags, bench, owner, compared>>
  /\ UNCHANGED <<session, history, faults>>

\* Mutant: the model_version comparison is dropped.
BenchmarkIsAnyChampion(t) == alias # NoVersion => Governed(alias)

\* The champion seen at registration is the one that was evaluated; no alias
\* is accepted only when none was there before. model.version names a bundle
\* by its fingerprint and second of training: two versions never share it.
BenchmarkIsChampion(t) ==
  /\ alias # NoVersion => Governed(alias)
  /\ alias = trainer[t].compared

ResolveBenchmark(t) ==
  /\ trainer[t].phase = "bound"
  /\ BenchmarkIsChampion(t)
  /\ trainer' = [trainer EXCEPT ![t].phase = "resolved", ![t].bench = alias]
  /\ UNCHANGED <<registry, session, history, faults>>

\* start_run ... register_model: the run is finished before the version
\* exists, and the version appears with all its tags. The pipeline ends here
\* whether or not the answer reaches it.
RegisterCandidate(t) ==
  /\ trainer[t].phase = "resolved"
  /\ \E v \in Versions :
       /\ ~Registered(v)
       /\ \A u \in Versions : u < v => Registered(u)
       /\ tags' = [tags EXCEPT ![v] = CandidateTags]
       /\ bench' = [bench EXCEPT ![v] = trainer[t].bench]
       /\ owner' = [owner EXCEPT ![v] = TenantOf[t]]
       /\ compared' = [compared EXCEPT ![v] = trainer[t].compared]
  /\ trainer' = [trainer EXCEPT ![t] = IdleTrainer]
  /\ UNCHANGED <<alias, binding, session, history, faults>>

\* A gate that fails, an exception or the end of the process at any stage.
TrainerStops(t) ==
  /\ trainer[t].phase # "idle"
  /\ trainer' = [trainer EXCEPT ![t] = IdleTrainer]
  /\ UNCHANGED <<registry, session, history, faults>>

----------------------------------------------------------------------------
(* Promotion and rollback: _set_champion *)

Terminal == {"idle", "done", "restored", "reconcile"}
Reading == {"checked", "snapshot"}
Repairing == {"repair", "reset", "restore"}
Phases == Terminal \cup Reading \cup {"writing"} \cup Repairing

NoSession(phase) ==
  [phase |-> phase, decision |-> "promotion", version |-> NoVersion,
   by |-> Absent, previous |-> NoVersion,
   originals |-> [v \in Versions |-> NoTags],
   step |-> 0, left |-> {}, current |-> NoVersion, seen |-> {}]

\* Mutant: a rollback accepts what a promotion accepts.
RollbackOfCandidates(d) == "candidate"

RequiredLifecycle(d) == IF d = "promotion" THEN "candidate" ELSE "superseded"

\* Read the version and everything that must hold of it before any write: its
\* lifecycle, the immutable run evidence, the bundle, the namespace binding.
\* A version that fails a check is rejected without a step.
BeginDecision(d, v, a) ==
  /\ session.phase \in Terminal
  /\ tags[v]["lifecycle"] = RequiredLifecycle(d)
  /\ owner[v] = binding
  /\ session' = [NoSession("checked") EXCEPT !.decision = d, !.version = v, !.by = a]
  /\ UNCHANGED <<registry, trainer, history, faults>>

\* Mutant: a promotion is accepted whatever its evidence was measured against.
EvidenceUnchecked(s) == TRUE

EvidenceIsCurrent(s) == s.decision = "promotion" => bench[s.version] = alias

ReadPrevious ==
  /\ session.phase = "checked"
  /\ EvidenceIsCurrent(session)
  /\ session' = [session EXCEPT !.phase = "snapshot", !.previous = alias]
  /\ UNCHANGED <<registry, trainer, history, faults>>

\* Mutant: only the version that is being decided is put back.
AffectedVersionOnly(s) == {s.version}

Affected(s) == {s.version} \cup ({s.previous} \ {NoVersion})

\* One get per key and version in the code; with a single writer they read
\* one state. Only the entries of Affected are used.
TakeSnapshot ==
  /\ session.phase = "snapshot"
  /\ session' = [session EXCEPT !.phase = "writing", !.originals = tags, !.step = 1]
  /\ UNCHANGED <<registry, trainer, history, faults>>

\* A read fails or the evidence is stale: rejected before anything is written.
Reject ==
  /\ session.phase \in Reading
  /\ session' = NoSession("idle")
  /\ UNCHANGED <<registry, trainer, history, faults>>

----------------------------------------------------------------------------
(* The forward writes, in order; the alias is last. *)

\* Mutant: the alias moves before the lifecycle tag is written.
AliasBeforeLifecycle ==
  <<"approved_by", "approved_at", "approval_status", "champion_decision",
    "champion_decision_reason", "alias", "lifecycle", "supersede">>

Order ==
  <<"approved_by", "approved_at", "approval_status", "champion_decision",
    "champion_decision_reason", "lifecycle", "supersede", "alias">>
LastStep == 8
AuditSteps == 6

Write(key, v, value) == [key |-> key, version |-> v, value |-> value]
WriteRecords ==
  [key : Keys \cup {"alias"}, version : VersionOrNone, value : TagValues]

AuditTags(s) ==
  [approved_by |-> s.by, approved_at |-> s.by, approval_status |-> "approved",
   champion_decision |-> s.decision, champion_decision_reason |-> "reason",
   lifecycle |-> "champion"]

\* A promotion has no reason; nobody is superseded by the first champion or
\* by itself.
StepApplies(s) ==
  /\ Order[s.step] = "champion_decision_reason" => s.decision = "rollback"
  /\ Order[s.step] = "supersede" => s.previous \notin {NoVersion, s.version}

ForwardWrite(s) ==
  LET step == Order[s.step]
  IN  IF step = "supersede" THEN Write("lifecycle", s.previous, "superseded")
      ELSE IF step = "alias" THEN Write("alias", s.version, Absent)
      ELSE Write(step, s.version, AuditTags(s)[step])

\* The effect of a write on the server. Writing Absent deletes a tag, aliasing
\* NoVersion deletes the alias.
Applies(w) ==
  IF w.key = "alias"
  THEN alias' = w.version /\ UNCHANGED tags
  ELSE tags' = [tags EXCEPT ![w.version][w.key] = w.value] /\ UNCHANGED alias

\* How a call that raised can have ended: without effect, with its effect and
\* a lost answer, or with its effect still to come.
CallRaised(w) ==
  \/ UNCHANGED <<alias, tags, late, lates>>
  \/ Applies(w) /\ UNCHANGED <<late, lates>>
  \/ /\ lates < MaxLate
     /\ late' = late \cup {w}
     /\ lates' = lates + 1
     /\ UNCHANGED <<alias, tags>>

Unmoved == UNCHANGED <<bench, owner, binding, compared, trainer, manual>>

\* What the history records of a forward step: the last audit write is sent
\* only after the five before it were answered.
Record(s) ==
  /\ audited' = IF s.step = AuditSteps THEN audited \cup {s.version} ELSE audited
  /\ former' = IF alias' = s.version THEN former \cup {s.version} ELSE former
  /\ UNCHANGED breaks

\* Mutant: the command never comes to its end.
NeverEnds(s) == [s EXCEPT !.step = s.step + 1]

AfterStep(s) ==
  IF s.step = LastStep THEN NoSession("done") ELSE [s EXCEPT !.step = s.step + 1]

ForwardStep ==
  /\ session.phase = "writing"
  /\ IF StepApplies(session) THEN Applies(ForwardWrite(session))
                             ELSE UNCHANGED <<alias, tags>>
  /\ session' = AfterStep(session)
  /\ Record(session)
  /\ Unmoved
  /\ UNCHANGED <<late, lates>>

ForwardFails ==
  /\ session.phase = "writing"
  /\ StepApplies(session)
  /\ CallRaised(ForwardWrite(session))
  /\ session' = [session EXCEPT !.phase = "repair", !.step = 0]
  /\ Record(session)
  /\ Unmoved

----------------------------------------------------------------------------
(* Compensation: the except branch *)

RestoreFrom(s) == [s EXCEPT !.phase = "restore", !.left = Affected(s)]

\* Mutant: the alias is believed unmoved because its write raised.
TrustsTheFailure(s) == FALSE

\* The alias may point to the version although the write that put it there
\* raised.
AliasMoved(s) == alias = s.version

ReadAliasBack ==
  /\ session.phase = "repair"
  /\ session' = IF AliasMoved(session) THEN [session EXCEPT !.phase = "reset"]
                                       ELSE RestoreFrom(session)
  /\ UNCHANGED <<registry, trainer, history, faults>>

ResetAlias ==
  /\ session.phase = "reset"
  /\ Applies(Write("alias", session.previous, Absent))
  /\ session' = RestoreFrom(session)
  /\ Unmoved
  /\ UNCHANGED <<history, late, lates>>

\* restore_tags reads a version's tags once, then goes through its keys. The
\* versions come in the order of a set.
ReadTags ==
  /\ session.phase = "restore"
  /\ session.current = NoVersion
  /\ \E v \in session.left :
       session' = [session EXCEPT !.current = v, !.step = 1,
                     !.seen = {k \in Keys : tags[v][k] # Absent}]
  /\ UNCHANGED <<registry, trainer, history, faults>>

RestoreWrite(s) ==
  LET key == TrackedKeys[s.step]
  IN  Write(key, s.current, s.originals[s.current][key])

\* A tag that was absent is deleted only if the read found it.
RestoreApplies(s) ==
  LET key == TrackedKeys[s.step]
  IN  s.originals[s.current][key] # Absent \/ key \in s.seen

AfterRestore(s) ==
  IF s.step < 6 THEN [s EXCEPT !.step = s.step + 1]
  ELSE IF s.left = {s.current} THEN NoSession("restored")
  ELSE [s EXCEPT !.left = s.left \ {s.current}, !.current = NoVersion,
                 !.step = 0, !.seen = {}]

RestoreTag ==
  /\ session.phase = "restore"
  /\ session.current # NoVersion
  /\ IF RestoreApplies(session) THEN Applies(RestoreWrite(session))
                                ELSE UNCHANGED <<alias, tags>>
  /\ session' = AfterRestore(session)
  /\ Unmoved
  /\ UNCHANGED <<history, late, lates>>

\* A call of the repair raises: "requires operator reconciliation".
RepairFails ==
  /\ \/ /\ \/ session.phase = "repair"
           \/ session.phase = "restore" /\ session.current = NoVersion
        /\ UNCHANGED <<alias, tags, late, lates>>
     \/ /\ session.phase = "reset"
        /\ CallRaised(Write("alias", session.previous, Absent))
     \/ /\ session.phase = "restore"
        /\ session.current # NoVersion
        /\ RestoreApplies(session)
        /\ CallRaised(RestoreWrite(session))
  /\ session' = NoSession("reconcile")
  /\ breaks < MaxBreaks
  /\ breaks' = breaks + 1
  /\ UNCHANGED <<audited, former>>
  /\ Unmoved

\* The command's process ends (a kill, or an interrupt, which "except
\* Exception" does not catch): nothing more is written.
Crash ==
  /\ session.phase \notin Terminal
  /\ session' = NoSession("idle")
  /\ breaks < MaxBreaks
  /\ breaks' = breaks + 1
  /\ UNCHANGED <<registry, trainer, audited, former, faults>>

----------------------------------------------------------------------------
(* API containers and the world around the program *)

\* load("models:/<name>@champion") at startup: the alias and the tags come in
\* one answer, and the immutable version they name is what is downloaded. The
\* start changes nothing here; this is the version it would serve.
LoadedAtStart == IF alias # NoVersion /\ Governed(alias) THEN alias ELSE NoVersion

\* Somebody sets the alias in the MLflow UI or CLI.
ManualAlias(v) ==
  /\ manual < MaxManual
  /\ Registered(v)
  /\ v # alias
  /\ alias' = v
  /\ manual' = manual + 1
  /\ UNCHANGED <<tags, bench, owner, binding, compared>>
  /\ UNCHANGED <<trainer, session, history, late, lates>>

LateWriteLands ==
  /\ \E w \in late : Applies(w) /\ late' = late \ {w}
  /\ UNCHANGED <<session, history, lates>>
  /\ Unmoved

----------------------------------------------------------------------------
Init ==
  /\ alias = NoVersion
  /\ tags = [v \in Versions |-> NoTags]
  /\ bench = [v \in Versions |-> NoVersion]
  /\ owner = [v \in Versions |-> Absent]
  /\ binding = Absent
  /\ trainer = [t \in Trainers |-> IdleTrainer]
  /\ session = NoSession("idle")
  /\ late = {}
  /\ compared = [v \in Versions |-> NoVersion]
  /\ audited = {}
  /\ former = {}
  /\ breaks = 0
  /\ manual = 0
  /\ lates = 0

Retraining(t) ==
  \/ LoadChampion(t)
  \/ EnsureTenantBinding(t)
  \/ ResolveBenchmark(t)
  \/ RegisterCandidate(t)
  \/ TrainerStops(t)

Deciding ==
  \/ \E d \in Decisions, v \in Versions, a \in Approvers : BeginDecision(d, v, a)
  \/ ReadPrevious
  \/ TakeSnapshot
  \/ Reject
  \/ ForwardStep
  \/ ForwardFails
  \/ ReadAliasBack
  \/ ResetAlias
  \/ ReadTags
  \/ RestoreTag
  \/ RepairFails
  \/ Crash

Next ==
  \/ \E t \in Trainers : Retraining(t)
  \/ Deciding
  \/ \E v \in Versions : ManualAlias(v)
  \/ LateWriteLands

Spec == Init /\ [][Next]_vars

----------------------------------------------------------------------------
(* Properties *)

SessionRecords ==
  [phase : Phases, decision : Decisions, version : VersionOrNone,
   by : Approvers \cup {Absent}, previous : VersionOrNone,
   originals : [Versions -> [Keys -> TagValues]],
   step : 0..LastStep, left : SUBSET Versions, current : VersionOrNone,
   seen : SUBSET Keys]

TypeOK ==
  /\ alias \in VersionOrNone
  /\ tags \in [Versions -> [Keys -> TagValues]]
  /\ bench \in [Versions -> VersionOrNone]
  /\ owner \in [Versions -> Tenants \cup {Absent}]
  /\ binding \in Tenants \cup {Absent}
  /\ trainer \in [Trainers -> [phase : TrainerPhases, compared : VersionOrNone,
                               bench : VersionOrNone]]
  /\ session \in SessionRecords
  /\ late \subseteq WriteRecords
  /\ compared \in [Versions -> VersionOrNone]
  /\ audited \subseteq Versions
  /\ former \subseteq Versions
  /\ breaks \in 0..MaxBreaks
  /\ manual \in 0..MaxManual
  /\ lates \in 0..MaxLate

Quiet == session.phase \in Terminal

\* The alias is the champion of ChampionPointer. A command that finds its alias
\* write may have happened can still bring the previous champion back.
MayUndo ==
  IF /\ session.phase \in {"repair", "reset"}
     /\ alias = session.version
     /\ alias # session.previous
  THEN {session.previous} ELSE {}

Pointer == INSTANCE ChampionPointer WITH
  champion <- alias,
  undo <- MayUndo,
  evidence <- [v \in Versions |-> IF Registered(v) THEN {bench[v]} ELSE {}]

\* Retraining, promotion, rollback and compensation, with their failures and
\* crashes, implement the champion pointer the documents promise.
ImplementsChampionPointer == Pointer!Spec

\* A promotion moves the alias only from the version the candidate's metrics
\* were compared with at registration: no candidate is promoted on evidence
\* against a champion that is gone (_set_champion, the stale-evidence check
\* made several calls before the alias write).
PromotedOnCurrentEvidence ==
  session.phase = "writing" /\ session.decision = "promotion" /\ alias' # alias
    => alias' = session.version /\ bench[session.version] = alias

NoStalePromotion == [][PromotedOnCurrentEvidence]_vars

\* A command that reports "prior alias and tags were restored" leaves the
\* alias and every tag of every version as its snapshot had them, whichever
\* call failed and whether or not the failed call took effect.
RestoredMeansRestored ==
  [][ session.phase = "restore" /\ session'.phase = "restored"
      => /\ alias' = session.previous
         /\ \A v \in Versions :
              session.originals[v]["lifecycle"] # Absent
                => tags'[v] = session.originals[v] ]_vars

\* After a command has reported that the alias was restored, only a new command
\* or a hand moves it.
RestoredAliasStays ==
  [][ session.phase = "restored" /\ session'.phase = "restored" /\ manual' = manual
      => alias' = alias ]_vars

\* Between commands none of which died or gave up its repair, exactly the
\* aliased version is tagged champion, it passes the governance check every
\* API start repeats, and its approver and approval time are one decision's.
CleanRegistry ==
  Quiet /\ breaks = 0 /\ manual = 0 /\ lates = 0
    => /\ \A v \in Versions : tags[v]["lifecycle"] = "champion" <=> alias = v
       /\ alias # NoVersion
            => /\ Governed(alias)
               /\ tags[alias]["approved_by"] = tags[alias]["approved_at"]

\* Wherever a command died or gave up, the aliased version can be loaded or
\* is one the rollback command accepts: the registry is never left with a
\* champion that only hand edits can repair.
RecoverableAlias ==
  Quiet /\ alias # NoVersion /\ manual = 0 /\ lates = 0
    => \/ Governed(alias)
       \/ tags[alias]["lifecycle"] = "superseded" /\ owner[alias] = binding

\* The benchmark a version carries is the champion its metrics were really
\* compared with, although the alias is read twice with a training in between.
EvidenceMatchesEvaluation ==
  \A v \in Versions : Registered(v) => bench[v] = compared[v]

\* Pipelines of different tenants never share a namespace, whoever creates it.
SingleTenantNamespace ==
  \A v \in Versions : Registered(v) => owner[v] = binding

\* An API start never loads a version no command brought to its last audit
\* write, even when a command died halfway, one of its writes landed after it
\* gave up, and the alias was then edited by hand.
FailClosedServing == LoadedAtStart # NoVersion => LoadedAtStart \in audited

\* A rollback makes champion only a version that a command made champion
\* before.
RollbackRestoresChampions ==
  [][ session.phase = "writing" /\ session.decision = "rollback" /\ alias' # alias
      => session.version \in former ]_vars

============================================================================
