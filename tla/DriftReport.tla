----------------------------- MODULE DriftReport -----------------------------
(***************************************************************************)
(* Feature drift between a baseline and recent observations                *)
(* (infrastructure/monitoring.py): the population stability index over     *)
(* categories or quantile bins, and the status a feature gets.             *)
(*                                                                         *)
(* A sample maps row labels to integers. The index is a sum of logarithms; *)
(* here it lies between two rational bounds, and a status is any that the  *)
(* bounds allow. Float rounding of a quantile is left out.                 *)
(***************************************************************************)
EXTENDS Integers, FiniteSetsExt, Functions

CONSTANTS
  Bins,            \* the number of quantile bins, and of categories at most
  MinimumSamples,  \* MINIMUM_PSI_SAMPLES
  Threshold        \* the index from which a feature has drifted, in thousandths

ASSUME DriftConstants ==
  /\ Bins \in 2..10
  /\ MinimumSamples \in Nat /\ MinimumSamples >= 8
  /\ Threshold \in 10..1000

ValuesOf(s) == {s[r] : r \in DOMAIN s}
SizeOf(s) == Cardinality(DOMAIN s)

----------------------------------------------------------------------------
(* Categories and bins *)

\* The value at an index of the sorted sample.
Sorted(s, index) ==
  CHOOSE v \in ValuesOf(s) :
    /\ Cardinality({r \in DOMAIN s : s[r] < v}) <= index
    /\ Cardinality({r \in DOMAIN s : s[r] <= v}) > index

\* Bins times the i-th quantile, linearly interpolated.
Quantile(s, i) ==
  LET position == (SizeOf(s) - 1) * i
      low == Sorted(s, position \div Bins)
      rest == position % Bins
  IN  Bins * low + (IF rest = 0 THEN 0
                    ELSE rest * (Sorted(s, (position \div Bins) + 1) - low))

Edges(s) == {Quantile(s, i) : i \in 0..Bins}

\* The first and the last edge are moved to infinity.
InnerEdges(s) == Edges(s) \ {Min(Edges(s)), Max(Edges(s))}

Few(s) == Cardinality(ValuesOf(s)) <= Bins

\* The category of a value, or the number of its bin.
ClassOf(few, inner, v) == IF few THEN v ELSE Cardinality({e \in inner : e <= Bins * v})

\* Mutant: a value that the baseline does not have is no category.
BaselineClasses(baseline, observed) ==
  IF Few(baseline) THEN ValuesOf(baseline) ELSE 0..Cardinality(InnerEdges(baseline))

Classes(baseline, observed) ==
  IF Few(baseline) THEN ValuesOf(baseline) \cup ValuesOf(observed)
                   ELSE 0..Cardinality(InnerEdges(baseline))

----------------------------------------------------------------------------
(* The index *)

\* Additive smoothing gives classes that were never counted equal shares.
Smoothed(counts) ==
  IF \A c \in DOMAIN counts : counts[c] = 0
  THEN [c \in DOMAIN counts |-> 1] ELSE counts

Counts(baseline, observed, s) ==
  LET few == Few(baseline)
      inner == InnerEdges(baseline)
      Members(c) == {r \in DOMAIN s : ClassOf(few, inner, s[r]) = c}
  IN  Smoothed([c \in Classes(baseline, observed) |-> Cardinality(Members(c))])

\* Bounds of (c - r) ln(c / r) for shares r and c of whole, in thousandths. The
\* logarithm of a share to a smoothed zero lies between 9 and 30 for samples
\* of up to ten million, neither a hundred times as large as the other.
LeastTerm(r, c, whole) ==
  IF r = c THEN 0
  ELSE IF r = 0 \/ c = 0 THEN (9000 * (r + c)) \div whole
  ELSE (2000 * (c - r) * (c - r)) \div ((c + r) * whole)

MostTerm(r, c, whole) ==
  IF r = c THEN 0
  ELSE IF r = 0 \/ c = 0 THEN (30000 * (r + c)) \div whole + 1
  ELSE (1000 * (c - r) * (c - r)) \div ((IF r < c THEN r ELSE c) * whole) + 1

\* drifted when the index is at least the threshold.
ByIndex(baseline, observed) ==
  LET reference == Counts(baseline, observed, baseline)
      current == Counts(baseline, observed, observed)
      n == SumFunction(reference)
      m == SumFunction(current)
      least == SumFunction([c \in DOMAIN reference |->
                              LeastTerm(reference[c] * m, current[c] * n, n * m)])
      most == SumFunction([c \in DOMAIN reference |->
                             MostTerm(reference[c] * m, current[c] * n, n * m)])
  IN  {status \in {"drifted", "ok"} :
         IF status = "drifted" THEN most >= Threshold ELSE least < Threshold}

----------------------------------------------------------------------------
(* The status of a feature *)

Shortage(baseline, observed, n) ==
  IF SizeOf(baseline) < n THEN {"insufficient_reference"}
  ELSE IF SizeOf(observed) < n THEN {"insufficient_current"} ELSE {}

NotComputable(baseline, observed) ==
  IF Shortage(baseline, observed, 2) # {} THEN Shortage(baseline, observed, 2)
  ELSE IF Cardinality(ValuesOf(baseline)) < 2 THEN {"constant_reference"}
  ELSE Shortage(baseline, observed, MinimumSamples)

Statuses(baseline, observed) ==
  IF NotComputable(baseline, observed) # {} THEN NotComputable(baseline, observed)
  ELSE ByIndex(baseline, observed)
============================================================================
