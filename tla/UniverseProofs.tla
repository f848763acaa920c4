---------------------------- MODULE UniverseProofs ----------------------------
(***************************************************************************)
(* What holds of the universe for every set of symbols, budget and stay:   *)
(* held stocks are followed, and the followed, streamed and prepared       *)
(* stocks agree.  The invariant speaks of the middle of a tick too: the    *)
(* newcomers still to be prepared are all that the active set has beyond   *)
(* what is resolved, and whoever is held is in the active set.             *)
(***************************************************************************)
EXTENDS Universe, FiniteSetTheorems, TLAPS

\* Newcomers are the members that are not resolved, while a tick prepares them.
NewcomersKnown ==
    /\ joining \subseteq Active /\ joining \cap resolved = {}
    /\ stage = "preparing" => Active \ Unknown \subseteq resolved \cup joining
    /\ stage = "preparing" => tickedAt # None

\* After a tick the followed stocks are the active ones that resolve.
Settled == stage = "idle" /\ tickedAt # None => stocks = Active \ Unknown

\* The feed streams the followed stocks; whatever is resolved was prepared.
Streamed == feedStocks = stocks /\ \A s \in resolved : preps[s] # "none"

\* Once a tick has begun, whoever is held is in the active set.
HeldAreActive == tickedAt # None => pinned \subseteq Active

\* Quotes are fetched by a cycle, whose minute they carry.
CycleTimed == wanted # {} => cycledAt # None

IInv == TypeOK /\ CycleTimed /\ NewcomersKnown /\ Settled /\ Streamed /\ HeldAreActive /\ NeverPoisoned

------------------------------------------------------------------------------
LEMMA Constants ==
    /\ None \notin Nat /\ None \notin Sides /\ MaxTime \in Nat /\ MaxRestarts \in Nat
    /\ Liquid \subseteq Symbols /\ Unknown \subseteq Symbols /\ IsFiniteSet(Symbols)
    /\ Fixed \in Nat /\ BatchSize \in Nat \ {0}
BY UniverseAssumption DEF Sides

\* A set of symbols has a size.
LEMMA SizeOfSymbols == ASSUME NEW S \in SUBSET Symbols PROVE Cardinality(S) \in Nat
BY Constants, FS_Subset, FS_CardinalityType

\* Rounded-down division of naturals.
LEMMA Division == ASSUME NEW a \in Nat, NEW b \in Nat \ {0} PROVE a \div b \in Nat
<1>1. b > 0 /\ b \in Nat
    OBVIOUS
<1>2. a \div b >= 0
    BY <1>1, SMTT(30)
<1>3. a \div b \in Int
    OBVIOUS
<1> QED BY <1>2, <1>3

\* Batches are counted by a natural number.
LEMMA BatchesAreCalls == pool \subseteq Symbols => BatchCalls \in Nat
<1> SUFFICES ASSUME pool \subseteq Symbols PROVE BatchCalls \in Nat
    OBVIOUS
<1> DEFINE n == Cardinality(pool) + BatchSize - 1
<1>1. n \in Nat
    BY SizeOfSymbols, Constants
<1>2. n \div BatchSize \in Nat
    BY <1>1, Constants, Division
<1> QED BY <1>2 DEF BatchCalls

------------------------------------------------------------------------------
LEMMA InitIInv == Init => IInv
<1> SUFFICES ASSUME Init PROVE IInv
    OBVIOUS
<1>1. TypeOK
    <2>1. /\ now \in 0 .. MaxTime /\ restarts \in 0 .. MaxRestarts
          /\ spent \in Nat /\ joined \in Nat
        BY Constants DEF Init
    <2>2. up \in BOOLEAN
        BY DEF Init
    <2>6. /\ pool \subseteq Symbols /\ wanted \subseteq pool
          /\ bias \in Biases /\ stage \in {"idle", "preparing"}
          /\ cycledAt \in Nat \cup {None} /\ tickedAt \in Nat \cup {None}
        BY DEF Init, Biases
    <2>3. /\ joining \subseteq Symbols /\ resolved \subseteq Symbols \ Unknown
          /\ stocks \subseteq resolved /\ feedStocks \subseteq resolved
          /\ pinned \subseteq Symbols
        BY DEF Init
    <2>4. /\ known \in [Symbols -> {"absent", "stats", "empty"}]
          /\ preps \in [Symbols -> {"none", "ready", "failed"}]
        BY DEF Init
    <2>5. /\ quotes \in [Symbols -> Quote \cup {None}]
          /\ entered \in [Symbols -> Nat \cup {None}]
          /\ direction \in [Symbols -> Sides \cup {None}]
          /\ lastSide \in [Symbols -> Sides \cup {None}]
        BY DEF Init, Nobody
    <2> QED BY <2>1, <2>2, <2>3, <2>4, <2>5, <2>6 DEF TypeOK
<1>2. CycleTimed /\ NewcomersKnown /\ Settled /\ Streamed /\ HeldAreActive /\ NeverPoisoned
    BY DEF Init, CycleTimed, NewcomersKnown, Settled, Streamed, HeldAreActive, NeverPoisoned
<1> QED BY <1>1, <1>2 DEF IInv

LEMMA StepTypeOK == IInv /\ [Next]_vars => TypeOK'
<1> SUFFICES ASSUME IInv, [Next]_vars PROVE TypeOK'
    OBVIOUS
<1> USE Constants DEF IInv, TypeOK, Biases, process, follow, scanner, history, vars
<1>1. CASE \E failed \in SUBSET Symbols : Start(failed)
    BY <1>1 DEF Start, KnownAfter, Nobody
<1>2. CASE Crash
    <2>1. restarts' \in 0 .. MaxRestarts
        BY <1>2 DEF Crash
    <2>2. up' \in BOOLEAN
        BY <1>2 DEF Crash
    <2>3. UNCHANGED <<now, scanner, bias, stage, tickedAt, follow, pinned, spent, history>>
        BY <1>2 DEF Crash
    <2> QED BY <2>1, <2>2, <2>3
<1>3. CASE NextMinute
    BY <1>3 DEF NextMinute
<1>4. CASE \E top \in SUBSET pool : Cycle(top)
    <2> PICK top \in SUBSET pool : Cycle(top)
        BY <1>4
    <2>1. spent' \in Nat
        BY SizeOfSymbols, BatchesAreCalls DEF Cycle
    <2> QED BY <2>1 DEF Cycle
<1>5. CASE \E s \in Symbols, side \in Sides \cup {None} : Quoted(s, side)
    <2> PICK s \in Symbols, side \in Sides \cup {None} : Quoted(s, side)
        BY <1>5
    <2>1. cycledAt \in Nat
        BY DEF Quoted, CycleTimed
    <2>2. side # None => [at |-> cycledAt, side |-> side] \in Quote
        BY <2>1 DEF Quote
    <2> DEFINE q == IF side = None THEN None ELSE [at |-> cycledAt, side |-> side]
    <2>3. q \in Quote \cup {None}
        BY <2>2
    <2>4. quotes' = [quotes EXCEPT ![s] = q]
        BY DEF Quoted
    <2> HIDE DEF q
    <2>5. quotes' \in [Symbols -> Quote \cup {None}]
        BY <2>3, <2>4
    <2> QED BY <2>5 DEF Quoted
<1>6. CASE \E s \in Symbols : QuoteFails(s)
    BY <1>6 DEF QuoteFails
<1>7. CASE \E top \in SUBSET Symbols : BeginTick(top)
    <2> PICK top \in SUBSET Symbols : BeginTick(top)
        BY <1>7
    <2>1. \A s \in Ranked : quotes[s].side \in Sides
        BY DEF Ranked, Fresh, Quote
    <2>2. joining' \subseteq Symbols
        BY DEF BeginTick, Members, Kept, Tops, Ranked, Fresh
    <2>3. direction' \in [Symbols -> Sides \cup {None}]
        BY <2>1 DEF BeginTick, SideOf
    <2>4. lastSide' \in [Symbols -> Sides \cup {None}]
        BY <2>1 DEF BeginTick
    <2>5. entered' \in [Symbols -> Nat \cup {None}]
        BY DEF BeginTick
    <2> QED BY <2>2, <2>3, <2>4, <2>5 DEF BeginTick
<1>8. CASE \E s \in Symbols, outcome \in {"ready", "failed"} : Prepare(s, outcome)
    BY <1>8 DEF Prepare
<1>9. CASE \E s \in Symbols : CannotResolve(s)
    BY <1>9 DEF CannotResolve
<1>10. CASE \E b \in Biases : Resubscribe(b) \/ KeepFollowing(b)
    <2> PICK b \in Biases : Resubscribe(b) \/ KeepFollowing(b)
        BY <1>10
    <2>1. stocks' \subseteq resolved /\ stocks' \subseteq Symbols /\ feedStocks' \subseteq resolved
        BY DEF Resubscribe, KeepFollowing, Followed, Active
    <2>2. Score(b)
        BY DEF Resubscribe, KeepFollowing
    <2>3. Cardinality(stocks') \in Nat /\ Cardinality(stocks' \ stocks) \in Nat
        BY <2>1, SizeOfSymbols
    <2> QED BY <2>1, <2>2, <2>3 DEF Score
<1>11. CASE \E s \in Symbols : Enter(s) \/ Leave(s)
    BY <1>11 DEF Enter, Leave
<1>12. CASE UNCHANGED vars
    BY <1>12
<1> QED BY <1>1, <1>2, <1>3, <1>4, <1>5, <1>6, <1>7, <1>8, <1>9, <1>10, <1>11, <1>12 DEF Next

------------------------------------------------------------------------------
\* A tick's members: the held ones are among them, and are all that is active.
LEMMA TickMembers ==
    ASSUME IInv, NEW top \in SUBSET Symbols, BeginTick(top)
    PROVE  /\ Active' = Members(top) /\ pinned \subseteq Active'
           /\ joining' = Active' \ resolved
<1> USE Constants DEF IInv, TypeOK
<1>1. Members(top) \subseteq Symbols
    BY DEF BeginTick, Members, Kept
<1>2. \A s \in Symbols : entered'[s] = None <=> s \notin Members(top)
    BY DEF BeginTick, process
<1> QED BY <1>1, <1>2 DEF BeginTick, Active, Members

\* What a tick's last step makes of the followed stocks.
LEMMA TickEnds ==
    ASSUME IInv, NEW b \in Biases, Resubscribe(b) \/ KeepFollowing(b)
    PROVE  /\ stocks' = Active \ Unknown /\ feedStocks' = stocks'
           /\ Active' = Active /\ Score(b)
<1> USE DEF IInv, TypeOK
<1>1. Active' = Active /\ Score(b)
    BY DEF Resubscribe, KeepFollowing, Score, Active
<1>2. Active \ Unknown \subseteq resolved
    BY DEF Resubscribe, KeepFollowing, NewcomersKnown
<1>3. Followed = Active \ Unknown
    BY <1>2 DEF Followed
<1>4. CASE Resubscribe(b)
    BY <1>1, <1>3, <1>4 DEF Resubscribe
<1>5. CASE KeepFollowing(b)
    <2>1. stocks' = Active \ Unknown
        BY <1>3, <1>5 DEF KeepFollowing
    <2>2. Active = stocks /\ feedStocks' = stocks
        BY <1>5 DEF KeepFollowing, Changed, Streamed
    <2>3. stocks' = stocks
        BY <2>2, <1>5 DEF KeepFollowing, Followed
    <2> QED BY <1>1, <2>1, <2>2, <2>3
<1> QED BY <1>4, <1>5

LEMMA StepFollow ==
    IInv /\ [Next]_vars => (CycleTimed /\ NewcomersKnown /\ Settled /\ Streamed /\ HeldAreActive)'
<1> SUFFICES ASSUME IInv, [Next]_vars
             PROVE  (CycleTimed /\ NewcomersKnown /\ Settled /\ Streamed /\ HeldAreActive)'
    OBVIOUS
<1> USE DEF IInv, CycleTimed, NewcomersKnown, Settled, Streamed, HeldAreActive
<1>0. now \in Nat /\ None \notin Nat
    BY Constants DEF TypeOK
<1>1. CASE \E failed \in SUBSET Symbols : Start(failed)
    BY <1>1 DEF Start, Nobody, Active
<1>2. CASE Crash \/ NextMinute \/ UNCHANGED vars
    BY <1>2 DEF Crash, NextMinute, vars, process, scanner, follow, history, Active
<1>3. CASE \E top \in SUBSET pool : Cycle(top)
    BY <1>0, <1>3 DEF Cycle, follow, Active
<1>4. CASE \E s \in Symbols : QuoteFails(s) \/ \E side \in Sides \cup {None} : Quoted(s, side)
    BY <1>4 DEF Quoted, QuoteFails, follow, Active
<1>5. CASE \E top \in SUBSET Symbols : BeginTick(top)
    <2> PICK top \in SUBSET Symbols : BeginTick(top)
        BY <1>5
    <2>1. /\ pinned \subseteq Active' /\ joining' = Active' \ resolved
        BY TickMembers
    <2>2. /\ UNCHANGED <<wanted, cycledAt, resolved, stocks, feedStocks, preps, pinned>>
          /\ stage' = "preparing" /\ tickedAt' # None
        BY <1>0 DEF BeginTick, scanner
    <2> QED BY <2>1, <2>2
<1>6. CASE \E s \in Symbols, outcome \in {"ready", "failed"} : Prepare(s, outcome)
    <2> PICK s \in Symbols, outcome \in {"ready", "failed"} : Prepare(s, outcome)
        BY <1>6
    <2>1. Active' = Active /\ joining' = joining \ {s} /\ resolved' = resolved \cup {s}
        BY DEF Prepare, Active
    <2>2. \A t \in resolved' : preps'[t] # "none"
        BY <2>1 DEF Prepare, TypeOK
    <2>3. UNCHANGED <<wanted, cycledAt, stage, tickedAt, stocks, feedStocks, pinned>>
        BY DEF Prepare, scanner
    <2>4. stage = "preparing"
        BY DEF Prepare
    <2> QED BY <2>1, <2>2, <2>3, <2>4
<1>7. CASE \E s \in Symbols : CannotResolve(s)
    <2> PICK s \in Symbols : CannotResolve(s)
        BY <1>7
    <2>1. Active' = Active /\ joining' = joining \ {s} /\ s \in Unknown
        BY DEF CannotResolve, Active
    <2>2. UNCHANGED <<wanted, cycledAt, stage, tickedAt, resolved, preps, stocks,
                      feedStocks, pinned>>
        BY DEF CannotResolve, scanner
    <2> QED BY <2>1, <2>2 DEF CannotResolve
<1>8. CASE \E b \in Biases : Resubscribe(b) \/ KeepFollowing(b)
    <2> PICK b \in Biases : Resubscribe(b) \/ KeepFollowing(b)
        BY <1>8
    <2>1. /\ stocks' = Active \ Unknown /\ feedStocks' = stocks' /\ Active' = Active
        BY TickEnds
    <2>2. /\ UNCHANGED <<wanted, cycledAt, tickedAt, joining, resolved, preps, pinned>>
          /\ stage' = "idle" /\ joining = {}
        BY TickEnds DEF Score, scanner, Resubscribe, KeepFollowing
    <2> QED BY <2>1, <2>2
<1>9. CASE \E s \in Symbols : Enter(s) \/ Leave(s)
    <2> PICK s \in Symbols : Enter(s) \/ Leave(s)
        BY <1>9
    <2>1. UNCHANGED <<scanner, stage, tickedAt, follow>>
        BY DEF Enter, Leave
    <2>2. Active' = Active
        BY <2>1 DEF follow, Active
    <2>3. pinned' \subseteq pinned \cup {s}
        BY DEF Enter, Leave
    <2>4. tickedAt # None => pinned' \subseteq Active
        <3>1. CASE Enter(s)
            BY <3>1, <2>3 DEF Enter
        <3>2. CASE Leave(s)
            BY <3>2 DEF Leave
        <3> QED BY <3>1, <3>2
    <2> QED BY <2>1, <2>2, <2>4 DEF follow, scanner
<1> QED BY <1>1, <1>2, <1>3, <1>4, <1>5, <1>6, <1>7, <1>8, <1>9 DEF Next

LEMMA StepNeverPoisoned == IInv /\ [Next]_vars => NeverPoisoned'
<1> SUFFICES ASSUME IInv, [Next]_vars PROVE NeverPoisoned'
    OBVIOUS
<1>1. CASE \E failed \in SUBSET Symbols : Start(failed)
    BY <1>1 DEF Start, KnownAfter, NeverPoisoned, IInv
<1>2. CASE UNCHANGED known
    BY <1>2 DEF NeverPoisoned, IInv
<1> QED BY <1>1, <1>2
        DEF Next, vars, scanner, Crash, NextMinute, Cycle, Quoted, QuoteFails, BeginTick,
            Prepare, CannotResolve, Resubscribe, KeepFollowing, Score, Enter, Leave

\* The invariant holds in every reachable state.
THEOREM Inductive == Spec => []IInv
<1>1. IInv /\ [Next]_vars => IInv'
    BY StepTypeOK, StepFollow, StepNeverPoisoned DEF IInv
<1> QED BY InitIInv, <1>1, PTL DEF Spec

\* Every variable keeps its type, in particular only symbols that resolve are
\* ever followed or streamed.
THEOREM TypeCorrect == Spec => []TypeOK
<1>1. IInv => TypeOK
    BY DEF IInv
<1> QED BY Inductive, <1>1, PTL

\* A stock with an open position is followed from the first tick on, whatever
\* the ranking, the budget and the restarts.
THEOREM HeldFollowed == Spec => []HeldAreFollowed
<1>1. IInv => HeldAreFollowed
    BY DEF IInv, HeldAreFollowed, Ticked, HeldAreActive, Settled
<1> QED BY Inductive, <1>1, PTL

\* Followed, streamed and prepared stocks agree after each tick.
THEOREM FollowedAgreement == Spec => []FollowedAgree
<1>1. IInv => FollowedAgree
    BY DEF IInv, FollowedAgree, Ticked, Settled, Streamed, TypeOK
<1> QED BY Inductive, <1>1, PTL

\* The day's file of statistics never turns a failure into "no history".
THEOREM CacheHonest == Spec => []NeverPoisoned
<1>1. IInv => NeverPoisoned
    BY DEF IInv
<1> QED BY Inductive, <1>1, PTL

------------------------------------------------------------------------------
(* What a minute costs, and on which side its stocks are researched.  The  *)
(* cost adds up over the two threads in either order: the scan before the  *)
(* tick leaves room for the stocks followed until then, the one after it   *)
(* for those it follows.  In the middle of a tick each call paid for a     *)
(* newcomer stands for one that is prepared and not yet followed.          *)

\* What the scan of this minute may have cost, if it has been.
ScanCost == IF cycledAt = now THEN BatchCalls + QuoteBudget ELSE 0
Prepared == Cardinality((Active \cap resolved) \ stocks)
OwnCost == Fixed + Cardinality(stocks)
Base == IF BatchCalls + OwnCost > ApiCalls THEN BatchCalls + OwnCost ELSE ApiCalls

Spending ==
    /\ stage = "idle" /\ tickedAt # now => spent <= ScanCost
    /\ stage = "preparing" => tickedAt = now /\ spent <= ScanCost + Prepared
    /\ stage = "idle" /\ tickedAt = now =>
           spent <= (IF cycledAt = now THEN Base ELSE OwnCost) + 2 * joined

\* A member is followed on the side it last qualified on; before the first tick
\* there is none.
SidesAgree ==
    /\ \A s \in Active : direction[s] = lastSide[s]
    /\ tickedAt = None => \A s \in Symbols : direction[s] = None /\ lastSide[s] = None

PanelIInv == Spending /\ SidesAgree

\* All that a cost is made of is a natural number, and the scan leaves room for
\* the worker's own calls.
LEMMA Costs ==
    ASSUME TypeOK
    PROVE  /\ BatchCalls \in Nat /\ Fixed \in Nat /\ ApiCalls \in Nat /\ Cardinality(stocks) \in Nat
           /\ QuoteBudget \in Nat /\ OwnCost \in Nat /\ Base \in Nat /\ ScanCost \in Nat
           /\ Prepared \in Nat /\ spent \in Nat /\ joined \in Nat
           /\ BatchCalls + QuoteBudget <= Base /\ BatchCalls + QuoteBudget + OwnCost <= Base
<1>1. BatchCalls \in Nat /\ Fixed \in Nat /\ ApiCalls \in Nat
    BY Constants, BatchesAreCalls, UniverseAssumption DEF TypeOK
<1>2. Cardinality(stocks) \in Nat /\ Prepared \in Nat
    BY SizeOfSymbols DEF TypeOK, Active, Prepared
<1>3. spent \in Nat /\ joined \in Nat
    BY DEF TypeOK
<1> QED BY <1>1, <1>2, <1>3 DEF QuoteBudget, OwnCost, Base, ScanCost

CostsAreNat == {ScanCost, Prepared, joined, OwnCost, Base} \subseteq Nat
LEMMA CostsNat == TypeOK => CostsAreNat
BY Costs DEF CostsAreNat

\* A set that a second one enlarges has at most as many more elements.
LEMMA SizeAfter ==
    ASSUME NEW S \in SUBSET Symbols, NEW T \in SUBSET Symbols
    PROVE  Cardinality(T) <= Cardinality(S) + Cardinality(T \ S)
<1>1. IsFiniteSet(S) /\ IsFiniteSet(T) /\ IsFiniteSet(T \ S)
    BY Constants, FS_Subset
<1>2. Cardinality(S \cup (T \ S)) = Cardinality(S) + Cardinality(T \ S) - Cardinality(S \cap (T \ S))
    BY <1>1, FS_Union
<1>3. Cardinality(S \cap (T \ S)) = 0
    BY <1>1, FS_EmptySet
<1>4. Cardinality(T) <= Cardinality(S \cup (T \ S))
    BY <1>1, FS_Subset, FS_Union
<1> QED BY <1>2, <1>3, <1>4, SizeOfSymbols

LEMMA StepSpending == IInv /\ Spending /\ [Next]_vars => Spending'
<1> SUFFICES ASSUME IInv, Spending, [Next]_vars PROVE Spending'
    OBVIOUS
<1>0. TypeOK /\ TypeOK'
    BY StepTypeOK DEF IInv
<1>c. /\ now \in Nat /\ None \notin Nat
      /\ ScanCost' \in Nat /\ Prepared' \in Nat /\ joined' \in Nat /\ OwnCost' \in Nat /\ Base' \in Nat
    <2>1. now \in Nat /\ None \notin Nat
        BY <1>0, Constants DEF TypeOK
    <2>2. ScanCost' \in Nat /\ Prepared' \in Nat /\ joined' \in Nat /\ OwnCost' \in Nat /\ Base' \in Nat
        <3>1. TypeOK' => CostsAreNat'
            BY CostsNat, PTL
        <3> QED BY <1>0, <3>1 DEF CostsAreNat
    <2> QED BY <2>1, <2>2
<1>1. CASE \E failed \in SUBSET Symbols : Start(failed)
    <2>1. spent' = 0 /\ stage' = "idle" /\ tickedAt' = None /\ now' \in Nat
        BY <1>c, <1>1 DEF Start
    <2>2. tickedAt' # now'
        BY <1>c, <2>1
    <2>3. spent' <= ScanCost'
        BY <1>c, <2>1
    <2> QED BY <2>1, <2>2, <2>3 DEF Spending
<1>2. CASE NextMinute
    <2>1. spent' = 0 /\ stage' = "idle" /\ tickedAt' = now /\ now' = now + 1
        BY <1>2 DEF NextMinute
    <2>2. tickedAt' # now'
        BY <1>c, <2>1
    <2>3. spent' <= ScanCost'
        BY <1>c, <2>1
    <2> QED BY <2>1, <2>2, <2>3 DEF Spending
<1>3. CASE \E top \in SUBSET pool : Cycle(top)
    <2> PICK top \in SUBSET pool : Cycle(top)
        BY <1>3
    <2>1. /\ UNCHANGED <<now, pool, stocks, stage, tickedAt, entered, resolved, joined>>
          /\ cycledAt # now /\ cycledAt' = now /\ spent' = spent + BatchCalls + Cardinality(top)
          /\ Cardinality(top) <= QuoteBudget /\ Cardinality(top) \in Nat
        BY <1>0, SizeOfSymbols DEF Cycle, process, follow, history, TypeOK
    <2>2. /\ BatchCalls' = BatchCalls /\ QuoteBudget' = QuoteBudget /\ OwnCost' = OwnCost
          /\ Base' = Base /\ Prepared' = Prepared
        BY <2>1 DEF BatchCalls, QuoteBudget, OwnCost, Base, Prepared, Active
    <2>3. ScanCost = 0 /\ ScanCost' = BatchCalls + QuoteBudget
        BY <2>1, <2>2 DEF ScanCost
    <2> HIDE DEF ScanCost, Prepared, OwnCost, Base, QuoteBudget, BatchCalls
    <2> QED BY <1>0, Costs, <2>1, <2>2, <2>3 DEF Spending
<1>4. CASE \E top \in SUBSET Symbols : BeginTick(top)
    <2> PICK top \in SUBSET Symbols : BeginTick(top)
        BY <1>4
    <2>1. /\ UNCHANGED <<now, pool, stocks, cycledAt, spent>>
          /\ stage = "idle" /\ tickedAt # now /\ stage' = "preparing" /\ tickedAt' = now
        BY DEF BeginTick, process, scanner
    <2>2. ScanCost' = ScanCost
        BY <2>1 DEF ScanCost, BatchCalls, QuoteBudget
    <2> QED BY <1>0, <1>c, Costs, <2>1, <2>2 DEF Spending
<1>5. CASE \E s \in Symbols, outcome \in {"ready", "failed"} : Prepare(s, outcome)
    <2> PICK s \in Symbols, outcome \in {"ready", "failed"} : Prepare(s, outcome)
        BY <1>5
    <2>1. /\ UNCHANGED <<now, pool, stocks, cycledAt, stage, tickedAt, entered>>
          /\ spent' = spent + 1 /\ stage = "preparing" /\ resolved' = resolved \cup {s}
          /\ s \in Active /\ s \notin resolved
        BY DEF Prepare, process, scanner, IInv, NewcomersKnown
    <2>2. ScanCost' = ScanCost
        BY <2>1 DEF ScanCost, BatchCalls, QuoteBudget
    <2>3. Prepared' = Prepared + 1
        <3> DEFINE P == (Active \cap resolved) \ stocks
        <3>1. IsFiniteSet(P) /\ s \notin P
            BY <2>1, Constants, FS_Subset DEF Active
        <3>2. ((Active \cap resolved) \ stocks)' = P \cup {s}
            BY <1>0, <2>1 DEF Active, TypeOK
        <3> HIDE DEF P
        <3>3. Cardinality(P \cup {s}) = Cardinality(P) + 1
            BY <3>1, FS_AddElement
        <3> QED BY <3>2, <3>3 DEF Prepared, P
    <2> QED BY <1>0, Costs, <2>1, <2>2, <2>3 DEF Spending
<1>6. CASE \E b \in Biases : Resubscribe(b) \/ KeepFollowing(b)
    <2> PICK b \in Biases : Resubscribe(b) \/ KeepFollowing(b)
        BY <1>6
    <2>1. stage = "preparing" /\ stocks' = Followed
        BY DEF Resubscribe, KeepFollowing
    <2>2. /\ UNCHANGED <<now, pool, cycledAt, tickedAt>> /\ stage' = "idle"
          /\ spent' = spent + Fixed + Cardinality(stocks') /\ joined' = Cardinality(stocks' \ stocks)
        BY TickEnds DEF Score, process, scanner
    <2>3. joined' = Prepared
        BY <2>1, <2>2 DEF Prepared, Followed
    <2>4. Cardinality(stocks') <= Cardinality(stocks) + joined'
        BY <1>0, <2>2, SizeAfter DEF TypeOK
    <2>5. spent' = spent + OwnCost' /\ BatchCalls' = BatchCalls
        <3>1. Cardinality(stocks') \in Nat
            BY <1>0, SizeOfSymbols DEF TypeOK
        <3> QED BY <1>0, Costs, <2>2, <3>1 DEF OwnCost, BatchCalls
    <2>6. BatchCalls + QuoteBudget + OwnCost' <= Base' + joined'
        <3>1. Cardinality(stocks) \in Nat /\ Cardinality(stocks') \in Nat /\ joined' \in Nat
              /\ BatchCalls \in Nat /\ Fixed \in Nat /\ ApiCalls \in Nat
            BY <1>0, SizeOfSymbols, Costs DEF TypeOK
        <3> QED BY <2>4, <2>5, <3>1 DEF QuoteBudget, OwnCost, Base
    <2>7. spent <= ScanCost + joined' /\ tickedAt' = now'
        BY <2>1, <2>2, <2>3 DEF Spending
    <2>8. CASE cycledAt = now
        <3>1. spent <= BatchCalls + QuoteBudget + joined'
            BY <2>7, <2>8 DEF ScanCost
        <3>2. spent' <= Base' + 2 * joined'
            BY <1>0, <1>c, Costs, <2>5, <2>6, <3>1
        <3> QED BY <2>2, <2>7, <2>8, <3>2 DEF Spending
    <2>9. CASE cycledAt # now
        <3>1. spent <= joined'
            BY <1>0, <1>c, Costs, <2>7, <2>9 DEF ScanCost
        <3>2. spent' <= OwnCost' + 2 * joined'
            BY <1>0, <1>c, Costs, <2>5, <3>1
        <3> QED BY <2>2, <2>7, <2>9, <3>2 DEF Spending
    <2> QED BY <2>8, <2>9
<1>7. CASE UNCHANGED <<now, pool, cycledAt, stage, tickedAt, entered, resolved, stocks, spent, joined>>
    <2>1. /\ ScanCost' = ScanCost /\ Prepared' = Prepared /\ OwnCost' = OwnCost /\ Base' = Base
        BY <1>7 DEF ScanCost, Prepared, OwnCost, Base, BatchCalls, QuoteBudget, Active
    <2> QED BY <1>7, <2>1 DEF Spending
<1> QED
    BY <1>1, <1>2, <1>3, <1>4, <1>5, <1>6, <1>7
       DEF Next, vars, process, scanner, follow, history, Crash, Quoted, QuoteFails, CannotResolve,
           Enter, Leave

LEMMA StepSides == IInv /\ SidesAgree /\ [Next]_vars => SidesAgree'
<1> SUFFICES ASSUME IInv, SidesAgree, [Next]_vars PROVE SidesAgree'
    OBVIOUS
<1>1. CASE \E failed \in SUBSET Symbols : Start(failed)
    BY <1>1 DEF Start, SidesAgree, Nobody, Active
<1>2. CASE \E top \in SUBSET Symbols : BeginTick(top)
    <2> PICK top \in SUBSET Symbols : BeginTick(top)
        BY <1>2
    <2>1. Active' = Members(top) /\ tickedAt' # None
        BY TickMembers, Constants DEF BeginTick, IInv, TypeOK
    <2>2. SUFFICES ASSUME NEW s \in Members(top), s \in Symbols
                   PROVE  direction'[s] = lastSide'[s]
        BY <2>1 DEF SidesAgree, Active
    <2>3. CASE s \in Ranked
        BY <2>2, <2>3 DEF BeginTick, SideOf
    <2>4. CASE s \notin Ranked
        <3>1. direction'[s] = direction[s] /\ lastSide'[s] = lastSide[s]
            BY <2>2, <2>4 DEF BeginTick, SideOf
        <3>2. s \in Active \/ s \in pinned
            BY <2>2, <2>4 DEF BeginTick, Members, Tops, Kept, Active
        <3>3. s \in Active \/ tickedAt = None
            BY <3>2 DEF IInv, HeldAreActive
        <3> QED BY <3>1, <3>3, <2>2 DEF SidesAgree
    <2> QED BY <2>3, <2>4
<1>3. CASE UNCHANGED <<tickedAt, entered, direction, lastSide>>
    BY <1>3 DEF SidesAgree, Active
<1>4. CASE NextMinute
    BY <1>4 DEF NextMinute, follow, SidesAgree, Active
<1> QED
    BY <1>1, <1>2, <1>3, <1>4
       DEF Next, vars, process, scanner, follow, history, Crash, Cycle, Quoted, QuoteFails, Prepare,
           CannotResolve, Resubscribe, KeepFollowing, Score, Enter, Leave

LEMMA InitPanel == Init => PanelIInv
<1> SUFFICES ASSUME Init PROVE PanelIInv
    OBVIOUS
<1>1. Spending
    <2>1. ScanCost = 0
        BY Constants DEF Init, ScanCost
    <2> QED BY <2>1, Constants DEF Init, Spending
<1>2. SidesAgree
    BY DEF Init, SidesAgree, Nobody, Active
<1> QED BY <1>1, <1>2 DEF PanelIInv

\* Whatever order the scan and the tick of a minute come in, and whatever crashes:
\* the minute costs no more than its budget and its newcomers, and no stock that
\* last qualified as a falling one is researched.
THEOREM MinuteHonest == Spec => []PanelInv
<1>1. IInv /\ PanelIInv /\ [Next]_vars => PanelIInv'
    BY StepSpending, StepSides DEF PanelIInv
<1>2. Spec => []PanelIInv
    BY Inductive, InitPanel, <1>1, PTL DEF Spec
<1>3. IInv /\ PanelIInv => PanelInv
    <2> SUFFICES ASSUME IInv, PanelIInv PROVE PanelInv
        OBVIOUS
    <2>0. TypeOK
        BY DEF IInv
    <2>1. SpentIsBounded
        <3> SUFFICES ASSUME Ticked PROVE spent <= Base + 2 * joined
            BY <2>0, Costs DEF SpentIsBounded, Base, OwnCost
        <3>1. OwnCost <= Base /\ ScanCost <= Base
            BY <2>0, Costs DEF Base, ScanCost
        <3> QED BY <2>0, Costs, <3>1 DEF PanelIInv, Spending, Ticked
    <2>2. ShortsStayOut
        BY DEF ShortsStayOut, Ticked, Researched, IInv, Settled, PanelIInv, SidesAgree
    <2> QED BY <2>1, <2>2 DEF PanelInv
<1> QED BY Inductive, <1>2, <1>3, PTL

\* The action property: who joins has a fresh quote on the market's side or is
\* held, and who leaves has stayed its time and is not held.
THEOREM Membership == Spec => MembershipChanges
<1> DEFINE changes ==
        up /\ up' =>
            \A s \in Symbols :
                /\ s \notin Active /\ s \in Active' =>
                      \/ s \in pinned
                      \/ /\ now - quotes[s].at <= QuoteMaxAge
                         /\ quotes[s].side \in Directions(bias)
                /\ s \in Active /\ s \notin Active' =>
                      now - entered[s] >= MinStay /\ s \notin pinned
<1>1. IInv /\ [Next]_vars => [changes]_vars
    <2> SUFFICES ASSUME IInv, Next PROVE changes
        OBVIOUS
    <2>1. CASE \E top \in SUBSET Symbols : BeginTick(top)
        <3> PICK top \in SUBSET Symbols : BeginTick(top)
            BY <2>1
        <3>1. Active' = Members(top) /\ top \subseteq Ranked
            BY TickMembers DEF BeginTick, Tops
        <3>2. \A s \in Symbols : s \in Active => entered[s] \in Nat
            BY DEF IInv, TypeOK, Active
        <3>3. now \in Nat /\ MinStay \in Nat
            BY Constants, UniverseAssumption DEF IInv, TypeOK
        <3>4. \A s \in Symbols : s \in Active /\ s \notin Active' =>
                  now - entered[s] >= MinStay /\ s \notin pinned
            BY <3>1, <3>2, <3>3 DEF Members, Kept, Active
        <3>5. \A s \in Symbols : s \notin Active /\ s \in Active' =>
                  \/ s \in pinned
                  \/ now - quotes[s].at <= QuoteMaxAge /\ quotes[s].side \in Directions(bias)
            BY <3>1 DEF Members, Kept, Active, Ranked, Fresh
        <3> QED BY <3>4, <3>5
    <2>2. CASE \E failed \in SUBSET Symbols : Start(failed)
        BY <2>2 DEF Start
    <2>3. CASE UNCHANGED entered
        BY <2>3 DEF Active
    <2> QED
        BY <2>1, <2>2, <2>3
           DEF Next, follow, scanner, Crash, NextMinute, Cycle, Quoted, QuoteFails, Prepare,
               CannotResolve, Resubscribe, KeepFollowing, Score, Enter, Leave
<1> QED BY Inductive, <1>1, PTL DEF Spec, MembershipChanges
==============================================================================
