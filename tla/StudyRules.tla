------------------------------- MODULE StudyRules -------------------------------
(***************************************************************************)
(* How the study compares two groups of panel rows                         *)
(* (research/evaluate.py): the interval of the difference of their means   *)
(* from resampled days, and the verdict over the horizons and the halves   *)
(* of the days.  A group's rows of a day and a horizon are their sum and   *)
(* their number, as _by_day keeps them.                                    *)
(*                                                                         *)
(* The code resamples days with a fixed seed; here every resample there is *)
(* is drawn once, in no order.                                             *)
(***************************************************************************)
EXTENDS Integers, Sequences, FiniteSets, FiniteSetsExt

CONSTANTS
    DayShapes,              \* what a day may bring: group |-> horizon |-> [sum, n]
    MaxDays,                \* bound
    MinRows, MinDays,       \* MIN_ROWS, MIN_DAYS
    TailShare               \* the interval leaves out one in TailShare at either end

VARIABLES
    days,       \* the sample: one entry per day, in order
    evidence,   \* what the comparison of the groups is based on
    judged      \* its verdict, and that with the groups exchanged

studyVars == <<days, evidence, judged>>
StudyHorizons == DOMAIN (CHOOSE d \in DayShapes : TRUE).a

\* MinDays is 20 and TailShare 40 in the code.  With a day or two hardly a resample would be left.
ASSUME StudyAssumption ==
    /\ MaxDays \in Nat /\ MinRows \in Nat
    /\ MinDays \in Nat /\ MinDays >= 3 /\ TailShare \in Nat /\ TailShare >= 4
    /\ IsFiniteSet(StudyHorizons) /\ StudyHorizons \subseteq Nat
    /\ \A d \in DayShapes, h \in StudyHorizons : {d.a[h].n, d.b[h].n} \subseteq Nat
Compared == {"a", "b"}

------------------------------------------------------------------------------
(* counts, _pooled_mean and bootstrap_diff, at a horizon.                  *)

Pooled(rows, pick, what) == MapThenSumSet(LAMBDA i : rows[pick[i]][what], DOMAIN pick)
SignOf(x) == IF x > 0 THEN 1 ELSE IF x < 0 THEN -1 ELSE 0

\* The sign of mean(a) - mean(b) over the days picked; 2 if one has no rows.
Unknown == 2
Leads(a, b, pick) ==
    LET na == Pooled(a, pick, "n")
        nb == Pooled(b, pick, "n")
    IN  IF na = 0 \/ nb = 0 THEN Unknown
        ELSE SignOf(Pooled(a, pick, "sum") * nb - Pooled(b, pick, "sum") * na)

Enough(rows) ==
    /\ MapThenSumSet(LAMBDA i : rows[i].n, DOMAIN rows) >= MinRows
    /\ Cardinality({i \in DOMAIN rows : rows[i].n > 0}) >= MinDays

\* Either half of the days, in their order; each resample of the days that a
\* group has rows of.
Half(n, k) == [i \in IF k = 1 THEN 1 .. n \div 2 ELSE n \div 2 + 1 .. n |-> i]
Resamples(a, b) ==
    LET known == {i \in DOMAIN a : a[i].n + b[i].n > 0} IN [1 .. Cardinality(known) -> known]

At(sample, g, h) == [i \in DOMAIN sample |-> sample[i][g][h]]
\* How the resamples lead: all that the comparison of an end of their interval
\* with zero depends on.
EvidenceAt(a, b) ==
    LET leads == [pick \in Resamples(a, b) |-> Leads(a, b, pick)]
    IN  [enough |-> [a |-> Enough(a), b |-> Enough(b)],
         count |-> [x \in -1 .. Unknown |-> Cardinality({p \in DOMAIN leads : leads[p] = x})],
         half |-> [k \in 1 .. 2 |-> Leads(a, b, Half(Len(a), k))]]
EvidenceOf(sample) ==
    [h \in StudyHorizons |-> EvidenceAt(At(sample, "a", h), At(sample, "b", h))]

\* verdict(b, a): the same resamples, with every difference turned round.
Turned(lead) == IF lead = Unknown THEN Unknown ELSE -lead
Exchanged(e) ==
    [h \in StudyHorizons |->
        [enough |-> [a |-> e[h].enough.b, b |-> e[h].enough.a],
         count |-> [x \in -1 .. Unknown |-> e[h].count[Turned(x)]],
         half |-> [k \in 1 .. 2 |-> Turned(e[h].half[k])]]]

------------------------------------------------------------------------------
(* verdict                                                                 *)

Usable(count) == count[-1] + count[0] + count[1]
\* lo is the value at place usable \div TailShare from below, counted from zero,
\* hi the one before the like place from above.
LowAbove(count) == count[-1] + count[0] <= Usable(count) \div TailShare
HighBelow(count) == count[-1] >= ((TailShare - 1) * Usable(count)) \div TailShare

Significance(ev) ==
    LET usable == Usable(ev.count)
    IN  IF ~(ev.enough.a /\ ev.enough.b) \/ usable < (usable + ev.count[Unknown]) \div 2 THEN 0
        ELSE IF LowAbove(ev.count) THEN 1 ELSE IF HighBelow(ev.count) THEN -1 ELSE 0

MutStable(ev, sign) == \E k \in 1 .. 2 : ev.half[k] # Unknown /\ (ev.half[k] > 0 <=> sign > 0)
\* At the first horizon that is significant.
Stable(ev, sign) == \A k \in 1 .. 2 : ev.half[k] # Unknown /\ (ev.half[k] > 0 <=> sign > 0)

Verdict(e) ==
    LET found == [h \in StudyHorizons |-> Significance(e[h])]
        at == {h \in StudyHorizons : found[h] # 0}
        sign == found[Min(at)]
    IN  IF \E g \in Compared : \A h \in StudyHorizons : ~e[h].enough[g] THEN "INSUFFICIENT"
        ELSE IF Cardinality(at) < 2 \/ \E h \in at : found[h] # sign THEN "NO EVIDENCE"
        ELSE IF ~Stable(e[Min(at)], sign) THEN "NOT STABLE"
        ELSE IF sign > 0 THEN "BETTER" ELSE "WORSE"

NoDays == <<>>
StudyInit == days = NoDays /\ evidence = NoDays /\ judged = <<"INSUFFICIENT", "INSUFFICIENT">>
DayIsAdded ==
    /\ Len(days) < MaxDays
    /\ \E d \in DayShapes : days' = Append(days, d)
    /\ evidence' = EvidenceOf(days')
    /\ judged' = <<Verdict(evidence'), Verdict(Exchanged(evidence'))>>

StudySpec == StudyInit /\ [][DayIsAdded]_studyVars

------------------------------------------------------------------------------
(* Chunks of rows in the order of a score (quantile_buckets, residualize). *)

Chunk(n, q, i) == (i * n) \div q + 1 .. ((i + 1) * n) \div q

------------------------------------------------------------------------------
(* Properties.                                                             *)

Contrary == [BETTER |-> "WORSE", WORSE |-> "BETTER"]
IsFinding(v) == v \in DOMAIN Contrary

\* The resamples of a horizon with rows and days enough, one in TailShare left out,
\* all lead to one side.
Speaks(ev, sign) ==
    /\ ev.enough.a /\ ev.enough.b /\ Usable(ev.count) >= ev.count[Unknown]
    /\ TailShare * ev.count[sign] >= (TailShare - 1) * Usable(ev.count)

\* A finding has rows and days enough at two horizons where more resamples lead to its
\* side than to the other, at one of them both halves of the days do not contradict
\* it, and no horizon speaks for the other side (evaluate.py:154-155).
FindingIsEvidence ==
    IsFinding(judged[1]) =>
        LET sign == IF judged[1] = "BETTER" THEN 1 ELSE -1
            same == {h \in StudyHorizons : evidence[h].count[sign] > evidence[h].count[-sign]
                         /\ evidence[h].enough.a /\ evidence[h].enough.b}
        IN  /\ Cardinality(same) >= 2
            /\ \E h \in same : \A k \in 1 .. 2 : evidence[h].half[k] \in {sign, Max({sign, 0})}
            /\ \A h \in StudyHorizons : ~Speaks(evidence[h], -sign)

\* Up and down are judged alike: with the groups exchanged a finding is the
\* opposite one, when the resamples divide evenly and no half of the days is a tie
\* (a tie counts as stable for the worse).
JudgedAlike(ev) == Usable(ev.count) % TailShare = 0 /\ 0 \notin {ev.half[1], ev.half[2]}
FindingsMirror ==
    IsFinding(judged[1]) /\ (\A h \in StudyHorizons : JudgedAlike(evidence[h])) =>
        judged[2] = Contrary[judged[1]]

\* Every row is in one chunk, in order, and chunks differ by at most one row.
ChunksPartition ==
    \A n \in 0 .. 2 * MaxDays, q \in 1 .. MaxDays :
        LET size(i) == Cardinality(Chunk(n, q, i))
        IN  /\ UNION {Chunk(n, q, i) : i \in 0 .. q - 1} = 1 .. n
            /\ \A i, j \in 0 .. q - 1 :
                size(i) <= size(j) + 1 /\ (i < j => \A x \in Chunk(n, q, i), y \in Chunk(n, q, j) : x < y)

\* What the study finds is in its rows, and up and down are judged alike
\* (evaluate.py:153-177).
StudyIsFair == FindingIsEvidence /\ FindingsMirror /\ ChunksPartition
==============================================================================
