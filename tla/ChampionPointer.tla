-------------------------- MODULE ChampionPointer --------------------------
(***************************************************************************)
(* What the governed registry promises (docs/architecture.md "Model        *)
(* lifecycle", ADR 001): one champion, moved only by a promotion whose     *)
(* evidence was measured against the champion it replaces, or by a         *)
(* rollback to a version that was champion before. A decision that has     *)
(* moved the champion is either settled or undone, and undoing it brings   *)
(* back exactly the champion it replaced.                                  *)
(***************************************************************************)
EXTENDS Naturals

CONSTANT MaxVersion  \* bound: versions that can exist

Versions == 1..MaxVersion
NoVersion == 0

VARIABLES
  champion,  \* the version in charge, NoVersion before the first
  undo,      \* champions an unsettled decision can still bring back
  evidence,  \* evidence[v]: the champions v was measured against, {} before it exists
  former     \* versions that have been champion

vars == <<champion, undo, evidence, former>>

Init ==
  /\ champion = NoVersion
  /\ undo = {}
  /\ evidence = [v \in Versions |-> {}]
  /\ former = {}

\* A candidate appears, measured against a version that was champion or
\* against none.
Register(v) ==
  /\ evidence[v] = {}
  /\ \E b \in former \cup {NoVersion} : evidence' = [evidence EXCEPT ![v] = {b}]
  /\ UNCHANGED <<champion, undo, former>>

Move(v) ==
  /\ undo = {}
  /\ v # champion
  /\ champion' = v
  /\ undo' \in {{}, {champion}}
  /\ former' = former \cup {v}
  /\ UNCHANGED evidence

Promote(v) == evidence[v] = {champion} /\ Move(v)

Rollback(v) == v \in former /\ Move(v)

Undo ==
  /\ \E prior \in undo : champion' = prior
  /\ undo' = {}
  /\ UNCHANGED <<evidence, former>>

Settle ==
  /\ undo # {}
  /\ undo' = {}
  /\ UNCHANGED <<champion, evidence, former>>

Next ==
  \/ \E v \in Versions : Register(v) \/ Promote(v) \/ Rollback(v)
  \/ Undo
  \/ Settle

Spec == Init /\ [][Next]_vars
============================================================================
