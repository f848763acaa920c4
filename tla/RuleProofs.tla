------------------------------ MODULE RuleProofs ------------------------------
(***************************************************************************)
(* What is proved of the rules: the record of the rows of a day            *)
(* (Snapshots) and the download of the market's history (HistoryDownload), *)
(* for every market, set of stocks and bound, the fills and charges of the *)
(* simulated broker (FillChecks), for every price, level and rate, the     *)
(* journal of a strategy over its restarts (TradeJournal), and the study's *)
(* verdict on every sample (StudyRules).                                   *)
(***************************************************************************)
EXTENDS FillChecks, HistoryDownload, Snapshots, TradeJournal, StudyRules, FiniteSetTheorems, TLAPS

------------------------------------------------------------------------------
(* The record.                                                             *)

\* The minutes told, and the rows of the record.
MinuteViews == [at : Nat, life : Nat, view : [Recorded -> Categories \cup {None}], written : BOOLEAN]
\* The rows there can be in the record.
RecordRows ==
    [stock : Recorded, at : Nat, life : Nat, trigger : {"panel", "event"}, level : Categories,
     prev : Categories \cup {None}]

\* What the record's variables range over.
RecordTypeOK ==
    /\ told \in Seq(MinuteViews) /\ latest \in [Recorded -> Categories \cup {None}]
    /\ record \in SUBSET RecordRows /\ starts \in Nat

\* Minutes are told in order, and lives too; a minute once in a life.
ToldInOrder ==
    /\ \A i \in DOMAIN told : told[i].life <= starts
    /\ \A i, j \in DOMAIN told : i < j =>
           /\ told[i].life <= told[j].life /\ told[i].at <= told[j].at
           /\ told[i].life = told[j].life => told[i].at < told[j].at

\* A row is of a minute that its life has told.
RowsAreTold ==
    \A r \in record :
        /\ r.life <= starts
        /\ \E i \in DOMAIN told : told[i].life = r.life /\ told[i].at = r.at

\* What is remembered of a stock is what this life last saw of it in the session.
LatestIsLast ==
    \A s \in Recorded : latest[s] # None => \E i \in DOMAIN told :
        /\ told[i].life = starts /\ InSession(told[i].at) /\ told[i].view[s] = latest[s]
        /\ \A j \in DOMAIN told : j > i /\ InSession(told[j].at) => told[j].view[s] = None

\* What has risen since a panel row of this life and is remembered has its event,
\* or a minute in between could not be written.
RisesSoFar ==
    \A p \in Panel : p.life = starts =>
        /\ latest[p.stock] # None
        /\ latest[p.stock] > p.level /\ latest[p.stock] >= WatchLevel =>
               \/ Missed(p.life, p.at, LastTold.at)
               \/ \E e \in Events :
                      /\ e.stock = p.stock /\ e.life = p.life
                      /\ p.at < e.at /\ e.level >= latest[p.stock]

\* The invariant that a step of the record keeps.
RecordIInv ==
    /\ RecordTypeOK /\ ToldInOrder /\ RowsAreTold /\ LatestIsLast /\ RisesSoFar
    /\ RecordTells

\* The constants of the record, as the proofs use them.
LEMMA RecordConstants ==
    /\ \A c \in Categories : c \in Nat /\ c # None
    /\ WatchLevel \in Nat /\ SessionOpen \in Nat /\ SessionEnd \in Nat /\ LastTick \in Nat
    /\ 0 .. LastTick \subseteq Nat
BY RecordAssumption, NoneAssumption

\* What an Append leaves as it is, and what it adds.
LEMMA Appended ==
    ASSUME NEW V, NEW old \in Seq(V), NEW x \in V, NEW new, new = Append(old, x)
    PROVE  /\ new \in Seq(V) /\ Len(old) \in Nat /\ Len(new) = Len(old) + 1
           /\ DOMAIN old = 1 .. Len(old) /\ DOMAIN new = 1 .. Len(old) + 1
           /\ \A i \in DOMAIN old : i \in DOMAIN new /\ new[i] = old[i] /\ old[i] \in V /\ i < Len(new)
           /\ \A i \in DOMAIN new : i \in Int /\ (i \in DOMAIN old \/ i = Len(new))
           /\ Len(new) \in DOMAIN new /\ Len(new) \notin DOMAIN old /\ new[Len(new)] = x
           /\ new[Len(new)] = x
    OBVIOUS

\* The step of a minute's record, with its minute named.
RecordStep(m, view, written) ==
    /\ m \in 0 .. LastTick /\ view \in [Recorded -> Categories \cup {None}] /\ written \in BOOLEAN
    /\ Records(m, view, written)

\* The rows of a minute are rows of it and of what it shows.
LEMMA RecordRowsType ==
    ASSUME RecordTypeOK, NEW m, NEW view, NEW written, RecordStep(m, view, written)
    PROVE  /\ m \in Nat
           /\ PanelRows(m, view) \in SUBSET RecordRows
           /\ EventRows(m, view) \in SUBSET RecordRows
           /\ \A r \in PanelRows(m, view) :
                  /\ r.at = m /\ r.life = starts /\ r.trigger = "panel"
                  /\ view[r.stock] = r.level /\ r.level # None
           /\ \A r \in EventRows(m, view) :
                  /\ r.at = m /\ r.life = starts /\ r.trigger = "event"
                  /\ view[r.stock] = r.level /\ latest[r.stock] = r.prev /\ r.prev # None
<1>1. m \in Nat /\ starts \in Nat /\ latest \in [Recorded -> Categories \cup {None}]
      /\ view \in [Recorded -> Categories \cup {None}]
    BY RecordConstants DEF RecordStep, RecordTypeOK
<1>2. ASSUME NEW r \in PanelRows(m, view)
      PROVE  /\ r \in RecordRows /\ r.at = m /\ r.life = starts /\ r.trigger = "panel"
             /\ view[r.stock] = r.level /\ r.level # None
    BY <1>1 DEF PanelRows, Row, RecordRows
<1>3. ASSUME NEW r \in EventRows(m, view)
      PROVE  /\ r \in RecordRows /\ r.at = m /\ r.life = starts /\ r.trigger = "event"
             /\ view[r.stock] = r.level /\ latest[r.stock] = r.prev /\ r.prev # None
    BY <1>1 DEF EventRows, Rises, Row, RecordRows
<1> QED BY <1>1, <1>2, <1>3

\* A minute's record keeps the types.
LEMMA RecordStepType ==
    ASSUME RecordTypeOK, NEW m, NEW view, NEW written, RecordStep(m, view, written)
    PROVE  RecordTypeOK'
<1>1. m \in Nat /\ PanelRows(m, view) \in SUBSET RecordRows
      /\ EventRows(m, view) \in SUBSET RecordRows
    BY RecordRowsType
<1>2. told' \in Seq(MinuteViews)
    <2>1. [at |-> m, life |-> starts, view |-> view, written |-> written] \in MinuteViews
        BY <1>1 DEF RecordStep, RecordTypeOK, MinuteViews
    <2> QED BY <2>1, Appended DEF RecordStep, Records, RecordTypeOK
<1>3. latest' \in [Recorded -> Categories \cup {None}]
    BY DEF RecordStep, Records, Remembered, RecordTypeOK
<1>4. record' \in SUBSET RecordRows
    BY <1>1 DEF RecordStep, Records, RecordTypeOK
<1>5. starts' \in Nat
    BY DEF RecordStep, Records, RecordTypeOK
<1> QED BY <1>2, <1>3, <1>4, <1>5 DEF RecordTypeOK

\* The minute before the next one is the new minute.
LEMMA RecordStepBefore ==
    ASSUME RecordTypeOK, NEW m, NEW view, NEW written, RecordStep(m, view, written)
    PROVE  LastTold.at' = m
<1> DEFINE x == [at |-> m, life |-> starts, view |-> view, written |-> written]
           new == told'
<1>1. x \in MinuteViews /\ told \in Seq(MinuteViews)
    BY RecordRowsType DEF RecordStep, RecordTypeOK, MinuteViews
<1>2. new = Append(told, x)
    BY DEF RecordStep, Records
<1>3. x.at = m
    OBVIOUS
<1>4. LastTold' = IF new = <<>> THEN [at |-> -1, life |-> 0] ELSE new[Len(new)]
    BY DEF LastTold
<1> HIDE DEF x, new
<1>5. new # <<>> /\ new[Len(new)] = x
    BY <1>1, <1>2
<1>6. LastTold' = x
    BY <1>4, <1>5
<1> QED BY <1>3, <1>6

\* Where the next minute will be told.
NextPlace == Len(told) + 1

\* What the new minute is to those before it.
LEMMA RecordStepTold ==
    ASSUME RecordTypeOK, ToldInOrder, NEW m, NEW view, NEW written, RecordStep(m, view, written)
    PROVE  /\ NextPlace \in Nat /\ NextPlace \notin DOMAIN told
           /\ DOMAIN told' = DOMAIN told \cup {NextPlace}
           /\ told'[NextPlace].at = m /\ told'[NextPlace].life = starts
           /\ told'[NextPlace].view = view /\ told'[NextPlace].written = written
           /\ \A i \in DOMAIN told :
                  /\ told'[i] = told[i] /\ i \in Nat /\ i < NextPlace
                  /\ told[i].at \in Nat /\ told[i].life \in Nat
                  /\ told[i].at <= m /\ told[i].at <= LastTold.at
                  /\ told[i].life = starts => told[i].at < m
<1> DEFINE k == NextPlace
<1>0. k = Len(told) + 1
    BY DEF NextPlace
<1> HIDE DEF k
<1> DEFINE x == [at |-> m, life |-> starts, view |-> view, written |-> written]
<1>1. x \in MinuteViews /\ told \in Seq(MinuteViews) /\ m \in Nat /\ starts \in Nat
    BY RecordRowsType DEF RecordStep, RecordTypeOK, MinuteViews
<1>2. told' = Append(told, x)
    BY DEF RecordStep, Records
<1>3. x.at = m /\ x.life = starts /\ x.view = view /\ x.written = written
    OBVIOUS
<1> HIDE DEF x
<1> DEFINE new == told'
<1>4. /\ Len(told) \in Nat /\ Len(new) = k /\ DOMAIN told = 1 .. Len(told)
      /\ DOMAIN new = 1 .. k /\ new[k] = x
      /\ \A i \in DOMAIN told : new[i] = told[i] /\ told[i] \in MinuteViews /\ i < k
    <2>1. new = Append(told, x)
        BY <1>2
    <2> HIDE DEF new
    <2> QED BY <1>0, <1>1, <2>1, Appended
<1>5. ASSUME NEW i \in DOMAIN told
      PROVE  /\ told[i].at <= m /\ told[i].at <= LastTold.at
             /\ told[i].life = starts => told[i].at < m
    <2> DEFINE last == Len(told)
    <2>1. last \in DOMAIN told /\ told # <<>> /\ LastTold = told[last] /\ i <= last
        BY <1>4 DEF LastTold
    <2>2. /\ m > told[last].at \/ (m = told[last].at /\ starts > told[last].life)
        BY <2>1 DEF RecordStep, Records
    <2>3. /\ told[last].life <= starts
          /\ i < last => /\ told[i].life <= told[last].life /\ told[i].at <= told[last].at
                         /\ told[i].life = told[last].life => told[i].at < told[last].at
        BY <2>1 DEF ToldInOrder
    <2>4. told[i] \in MinuteViews /\ told[last] \in MinuteViews
        BY <1>4, <2>1
    <2>5. /\ told[i].at \in Nat /\ told[i].life \in Nat /\ told[last].at \in Nat /\ told[last].life \in Nat
        BY <2>4 DEF MinuteViews
    <2> HIDE DEF last
    <2>6. CASE i = last
        BY <1>1, <2>1, <2>2, <2>3, <2>5, <2>6
    <2>7. CASE i < last
        BY <1>1, <2>1, <2>2, <2>3, <2>5, <2>7
    <2> QED BY <1>4, <2>1, <2>6, <2>7
<1>6. \A i \in DOMAIN told : told[i].at \in Nat /\ told[i].life \in Nat
    BY <1>4 DEF MinuteViews
<1> QED BY <1>0, <1>1, <1>3, <1>4, <1>5, <1>6 DEF k

\* A further minute comes after those that were told.
LEMMA StepToldInOrder ==
    ASSUME RecordTypeOK, ToldInOrder, NEW m, NEW view, NEW written, RecordStep(m, view, written)
    PROVE  ToldInOrder'
<1> DEFINE k == NextPlace
<1>1. /\ k \in Nat /\ DOMAIN told' = DOMAIN told \cup {k} /\ k \notin DOMAIN told
      /\ told'[k].at = m /\ told'[k].life = starts
      /\ \A i \in DOMAIN told :
             /\ told'[i] = told[i] /\ i \in Nat /\ i < k /\ told[i].at \in Nat /\ told[i].life \in Nat
             /\ told[i].at <= m
             /\ told[i].life = starts => told[i].at < m
    BY RecordStepTold
<1>2. starts' = starts /\ starts \in Nat
    BY DEF RecordStep, Records, RecordTypeOK
<1> HIDE DEF k
<1>3. \A i \in DOMAIN told' : told'[i].life <= starts'
    BY <1>1, <1>2 DEF ToldInOrder
<1>4. ASSUME NEW i \in DOMAIN told', NEW j \in DOMAIN told', i < j
      PROVE  /\ told'[i].life <= told'[j].life /\ told'[i].at <= told'[j].at
             /\ told'[i].life = told'[j].life => told'[i].at < told'[j].at
    <2>1. i \in DOMAIN told
        BY <1>1, <1>4
    <2>2. CASE j \in DOMAIN told
        BY <1>1, <1>4, <2>1, <2>2 DEF ToldInOrder
    <2>3. CASE j = k
        BY <1>1, <1>2, <2>1, <2>3 DEF ToldInOrder
    <2> QED BY <1>1, <2>2, <2>3
<1> QED BY <1>3, <1>4 DEF ToldInOrder

\* A minute's rows are of that minute, and the rows there were remain.
LEMMA RecordStepRows ==
    ASSUME RecordTypeOK, ToldInOrder, NEW m, NEW view, NEW written, RecordStep(m, view, written)
    PROVE  /\ record \subseteq record' /\ record' \in SUBSET RecordRows
           /\ \A r \in record' : r \notin record =>
                  /\ r.at = m /\ r.life = starts /\ InSession(m) /\ written
                  /\ view[r.stock] = r.level /\ r.level # None
                  /\ r.trigger = "event" => latest[r.stock] = r.prev /\ r.prev # None
           /\ \A s \in Rises(view) : InSession(m) /\ written =>
                  \E e \in record' :
                      /\ e.trigger = "event" /\ e.stock = s /\ e.at = m /\ e.life = starts
                      /\ e.level = view[s]
<1>1. /\ \A r \in PanelRows(m, view) :
             /\ r.at = m /\ r.life = starts /\ r.trigger = "panel"
             /\ view[r.stock] = r.level /\ r.level # None
      /\ \A r \in EventRows(m, view) :
             /\ r.at = m /\ r.life = starts /\ r.trigger = "event"
             /\ view[r.stock] = r.level /\ latest[r.stock] = r.prev /\ r.prev # None
    BY RecordRowsType
<1>2. \A r \in EventRows(m, view) : r.level # None
    BY DEF EventRows, Rises, Row
<1>3. /\ record' = IF written
                   THEN record \cup (IF InSession(m)
                                     THEN PanelRows(m, view) \cup EventRows(m, view)
                                     ELSE {})
                   ELSE record
    BY DEF RecordStep, Records
<1>4. record' \in SUBSET RecordRows
    BY RecordStepType DEF RecordTypeOK
<1>5. ASSUME NEW s \in Rises(view), InSession(m), written
      PROVE  \E e \in record' :
                 /\ e.trigger = "event" /\ e.stock = s /\ e.at = m /\ e.life = starts
                 /\ e.level = view[s]
    <2> DEFINE e == Row(s, m, "event", view[s], latest[s])
    <2>1. e \in EventRows(m, view)
        BY DEF EventRows
    <2>2. e.trigger = "event" /\ e.stock = s /\ e.at = m /\ e.life = starts /\ e.level = view[s]
        BY DEF Row
    <2> HIDE DEF e
    <2> QED BY <1>3, <1>5, <2>1, <2>2
<1>6. \A r \in record' : r \notin record =>
         /\ r.at = m /\ r.life = starts /\ InSession(m) /\ written
         /\ view[r.stock] = r.level /\ r.level # None
         /\ r.trigger = "event" => latest[r.stock] = r.prev /\ r.prev # None
    BY <1>1, <1>2, <1>3
<1> QED BY <1>3, <1>4, <1>5, <1>6

\* The rows of a further minute are told with it.
LEMMA StepRowsAreTold ==
    ASSUME RecordTypeOK, ToldInOrder, RowsAreTold,
           NEW m, NEW view, NEW written, RecordStep(m, view, written)
    PROVE  RowsAreTold'
<1> DEFINE k == NextPlace
<1>1. /\ DOMAIN told' = DOMAIN told \cup {k} /\ told'[k].at = m /\ told'[k].life = starts
      /\ \A i \in DOMAIN told : told'[i] = told[i]
    BY RecordStepTold
<1>2. starts' = starts /\ starts \in Nat
    BY DEF RecordStep, Records, RecordTypeOK
<1> HIDE DEF k
<1>3. \A r \in record' : r \notin record => r.at = m /\ r.life = starts
    BY RecordStepRows
<1> QED BY <1>1, <1>2, <1>3 DEF RowsAreTold

\* What is remembered after a further minute is what it showed, or what was there.
LEMMA StepLatestIsLast ==
    ASSUME RecordTypeOK, ToldInOrder, LatestIsLast,
           NEW m, NEW view, NEW written, RecordStep(m, view, written)
    PROVE  LatestIsLast'
<1> DEFINE k == NextPlace
<1>1. /\ DOMAIN told' = DOMAIN told \cup {k} /\ told'[k].at = m /\ told'[k].life = starts
      /\ told'[k].view = view /\ k \in Nat
      /\ \A i \in DOMAIN told : told'[i] = told[i] /\ i \in Nat /\ i < k
    BY RecordStepTold
<1>2. starts' = starts
      /\ latest' = IF InSession(m) THEN Remembered(view) ELSE latest
    BY DEF RecordStep, Records
<1> HIDE DEF k
<1>3. SUFFICES ASSUME NEW s \in Recorded, latest'[s] # None
               PROVE  \E i \in DOMAIN told' :
                   /\ told'[i].life = starts /\ InSession(told'[i].at)
                   /\ told'[i].view[s] = latest'[s]
                   /\ \A j \in DOMAIN told' : j > i /\ InSession(told'[j].at) =>
                          told'[j].view[s] = None
    BY <1>2 DEF LatestIsLast, InSession
<1>4. CASE InSession(m) /\ view[s] # None
    <2>1. latest'[s] = view[s]
        BY <1>2, <1>4 DEF Remembered
    <2>2. \A j \in DOMAIN told' : ~(j > k)
        BY <1>1
    <2> QED BY <1>1, <1>4, <2>1, <2>2
<1>5. CASE ~(InSession(m) /\ view[s] # None)
    <2>1. latest'[s] = latest[s]
        BY <1>2, <1>5 DEF Remembered
    <2>2. PICK i \in DOMAIN told :
              /\ told[i].life = starts /\ InSession(told[i].at)
              /\ told[i].view[s] = latest[s]
              /\ \A j \in DOMAIN told : j > i /\ InSession(told[j].at) =>
                     told[j].view[s] = None
        BY <1>3, <2>1 DEF LatestIsLast
    <2>3. ASSUME NEW j \in DOMAIN told', j > i, InSession(told'[j].at)
          PROVE  told'[j].view[s] = None
        BY <1>1, <1>5, <2>2, <2>3
    <2> QED BY <1>1, <2>1, <2>2, <2>3
<1> QED BY <1>4, <1>5

\* The rises since each panel row, after a further minute.
LEMMA StepRisesSoFar ==
    ASSUME RecordTypeOK, ToldInOrder, RowsAreTold, RisesSoFar,
           NEW m, NEW view, NEW written, RecordStep(m, view, written)
    PROVE  RisesSoFar'
<1> DEFINE k == NextPlace
<1>1. /\ DOMAIN told' = DOMAIN told \cup {k} /\ told'[k].at = m /\ told'[k].life = starts
      /\ told'[k].written = written
      /\ \A i \in DOMAIN told :
             /\ told'[i] = told[i] /\ told[i].at \in Nat
             /\ told[i].at <= m
             /\ told[i].at <= LastTold.at
             /\ told[i].life = starts => told[i].at < m
    BY RecordStepTold
<1>0. LastTold.at' = m
    BY RecordStepBefore
<1>2. /\ starts' = starts /\ m \in Nat
      /\ latest' = IF InSession(m) THEN Remembered(view) ELSE latest
      /\ latest \in [Recorded -> Categories \cup {None}]
      /\ view \in [Recorded -> Categories \cup {None}]
    BY RecordConstants DEF RecordStep, Records, RecordTypeOK
<1> HIDE DEF k
<1>3. /\ record \subseteq record' /\ record' \in SUBSET RecordRows
      /\ \A r \in record' : r \notin record =>
             /\ r.at = m /\ r.life = starts /\ InSession(m)
             /\ view[r.stock] = r.level /\ r.level # None
      /\ \A s \in Rises(view) : InSession(m) /\ written =>
             \E e \in record' :
                 /\ e.trigger = "event" /\ e.stock = s /\ e.at = m /\ e.life = starts
                 /\ e.level = view[s]
    BY RecordStepRows
<1>4. SUFFICES ASSUME NEW p \in record', p.trigger = "panel", p.life = starts
               PROVE  /\ latest'[p.stock] # None
                      /\ latest'[p.stock] > p.level /\ latest'[p.stock] >= WatchLevel =>
                             \/ \E i \in DOMAIN told' :
                                    /\ told'[i].life = p.life /\ p.at < told'[i].at
                                    /\ told'[i].at <= m /\ ~told'[i].written
                             \/ \E e \in record' :
                                    /\ e.trigger = "event" /\ e.stock = p.stock /\ e.life = p.life
                                    /\ p.at < e.at /\ e.level >= latest'[p.stock]
    BY <1>1, <1>0, <1>2 DEF RisesSoFar, Panel, Events, Missed
<1>5. p.stock \in Recorded /\ p.level \in Categories /\ p.level \in Nat /\ p.at \in Nat
    BY <1>3, RecordConstants DEF RecordRows
<1>6. CASE p \notin record
    <2>1. latest'[p.stock] = p.level
        BY <1>2, <1>3, <1>5, <1>6 DEF Remembered
    <2> QED BY <1>3, <1>5, <1>6, <2>1
<1>7. CASE p \in record
    <2>1. /\ latest[p.stock] # None
          /\ latest[p.stock] > p.level /\ latest[p.stock] >= WatchLevel =>
                 \/ \E i \in DOMAIN told :
                        /\ told[i].life = p.life /\ p.at < told[i].at
                        /\ told[i].at <= LastTold.at /\ ~told[i].written
                 \/ \E e \in record :
                        /\ e.trigger = "event" /\ e.stock = p.stock /\ e.life = p.life
                        /\ p.at < e.at /\ e.level >= latest[p.stock]
        BY <1>4, <1>7 DEF RisesSoFar, Panel, Events, Missed
    <2>2. p.at < m
        BY <1>1, <1>4, <1>7 DEF RowsAreTold
    <2>3. latest[p.stock] \in Nat
        BY <1>2, <1>5, <2>1, RecordConstants
    <2>4. CASE ~InSession(m) \/ view[p.stock] = None
        <3>1. latest'[p.stock] = latest[p.stock]
            BY <1>2, <1>5, <2>4 DEF Remembered
        <3> QED BY <1>1, <1>3, <2>1, <3>1
    <2>5. CASE InSession(m) /\ view[p.stock] # None
        <3>1. latest'[p.stock] = view[p.stock] /\ view[p.stock] \in Nat
            BY <1>2, <1>5, <2>5, RecordConstants DEF Remembered
        <3>2. SUFFICES ASSUME view[p.stock] > p.level, view[p.stock] >= WatchLevel
                       PROVE  \/ \E i \in DOMAIN told' :
                                    /\ told'[i].life = p.life /\ p.at < told'[i].at
                                    /\ told'[i].at <= m /\ ~told'[i].written
                              \/ \E e \in record' :
                                    /\ e.trigger = "event" /\ e.stock = p.stock /\ e.life = p.life
                                    /\ p.at < e.at /\ e.level >= view[p.stock]
            BY <2>5, <3>1
        <3>3. CASE view[p.stock] > latest[p.stock] /\ ~written
            <4>1. m <= m
                BY <1>2
            <4> QED BY <1>1, <1>4, <2>2, <3>3, <4>1
        <3>4. CASE view[p.stock] > latest[p.stock] /\ written
            <4>1. p.stock \in Rises(view)
                BY <1>5, <2>1, <2>5, <3>2, <3>4 DEF Rises
            <4>2. PICK e \in record' :
                      /\ e.trigger = "event" /\ e.stock = p.stock /\ e.at = m /\ e.life = starts
                      /\ e.level = view[p.stock]
                BY <1>3, <2>5, <3>4, <4>1
            <4>3. e.level >= view[p.stock]
                BY <3>1, <4>2
            <4> QED BY <1>4, <2>2, <4>2, <4>3
        <3>5. CASE ~(view[p.stock] > latest[p.stock])
            <4>1. latest[p.stock] > p.level /\ latest[p.stock] >= WatchLevel
                BY <1>5, <2>3, <3>1, <3>2, <3>5, RecordConstants
            <4>2. CASE \E i \in DOMAIN told :
                          /\ told[i].life = p.life /\ p.at < told[i].at
                          /\ told[i].at <= LastTold.at /\ ~told[i].written
                BY <1>1, <4>2
            <4>3. CASE \E e \in record :
                          /\ e.trigger = "event" /\ e.stock = p.stock /\ e.life = p.life
                          /\ p.at < e.at /\ e.level >= latest[p.stock]
                <5>1. PICK e \in record :
                          /\ e.trigger = "event" /\ e.stock = p.stock /\ e.life = p.life
                          /\ p.at < e.at /\ e.level >= latest[p.stock]
                    BY <4>3
                <5>2. e \in record' /\ e.level \in Nat
                    BY <1>3, <5>1, RecordConstants DEF RecordRows
                <5>3. e.level >= view[p.stock]
                    BY <2>3, <3>1, <3>5, <5>1, <5>2
                <5> QED BY <5>1, <5>2, <5>3
            <4> QED BY <2>1, <4>1, <4>2, <4>3
        <3> QED BY <3>3, <3>4, <3>5
    <2> QED BY <2>4, <2>5
<1> QED BY <1>6, <1>7

\* A rise between two panel rows of one life has its event, after a further minute.
LEMMA StepRisesAreTold ==
    ASSUME RecordTypeOK, ToldInOrder, RowsAreTold, RisesSoFar, RisesAreTold,
           NEW m, NEW view, NEW written, RecordStep(m, view, written)
    PROVE  RisesAreTold'
<1> DEFINE k == NextPlace
<1>1. /\ DOMAIN told' = DOMAIN told \cup {k}
      /\ \A i \in DOMAIN told :
             /\ told'[i] = told[i] /\ told[i].at \in Nat
             /\ told[i].at <= m
             /\ told[i].at <= LastTold.at
             /\ told[i].life = starts => told[i].at < m
    BY RecordStepTold
<1>2. starts' = starts /\ m \in Nat
    BY RecordConstants DEF RecordStep, Records
<1> HIDE DEF k
<1>3. /\ record \subseteq record' /\ record' \in SUBSET RecordRows
      /\ \A r \in record' : r \notin record =>
             /\ r.at = m /\ r.life = starts /\ InSession(m)
             /\ view[r.stock] = r.level /\ r.level # None
    BY RecordStepRows
<1>4. SUFFICES ASSUME NEW p \in record', p.trigger = "panel", NEW q \in record', q.trigger = "panel",
                      p.stock = q.stock, p.life = q.life, p.at < q.at, p.level < q.level,
                      q.level >= WatchLevel
               PROVE  \/ \E i \in DOMAIN told' :
                             /\ told'[i].life = p.life /\ p.at < told'[i].at
                             /\ told'[i].at <= q.at /\ ~told'[i].written
                      \/ \E e \in record' :
                             /\ e.trigger = "event" /\ e.stock = p.stock /\ e.life = p.life
                             /\ p.at < e.at /\ e.at <= q.at /\ e.level >= q.level
    BY DEF RisesAreTold, Panel, Events, Missed
<1>5. \A r \in record' : r.at \in Nat /\ r.level \in Nat /\ r.stock \in Recorded
    BY <1>3, RecordConstants DEF RecordRows
<1>6. \A r \in record : r.life = starts => r.at < m
    BY <1>1 DEF RowsAreTold
<1>7. CASE p \in record /\ q \in record
    <2>1. \/ \E i \in DOMAIN told :
                 /\ told[i].life = p.life /\ p.at < told[i].at
                 /\ told[i].at <= q.at /\ ~told[i].written
          \/ \E e \in record :
                 /\ e.trigger = "event" /\ e.stock = p.stock /\ e.life = p.life
                 /\ p.at < e.at /\ e.at <= q.at /\ e.level >= q.level
        BY <1>4, <1>7 DEF RisesAreTold, Panel, Events, Missed
    <2> QED BY <1>1, <1>3, <2>1
<1>8. CASE p \notin record
    <2>1. p.at = m /\ p.life = starts
        BY <1>3, <1>8
    <2>2. q.at <= m
        <3>1. q.life = starts /\ q.at \in Nat
            BY <1>4, <1>5, <2>1
        <3>2. q \notin record => q.at = m
            BY <1>3
        <3>3. q \in record => q.at < m
            BY <1>6, <3>1
        <3> QED BY <1>2, <3>1, <3>2, <3>3
    <2> QED BY <1>2, <1>4, <1>5, <2>1, <2>2
<1>9. CASE p \in record /\ q \notin record
    <2>1. q.at = m /\ q.life = starts /\ InSession(m) /\ view[q.stock] = q.level
          /\ q.level # None
        BY <1>3, <1>9
    <2>2. RisesSoFar'
        BY StepRisesSoFar
    <2>3. latest'[p.stock] = q.level
        BY <1>4, <1>5, <2>1 DEF RecordStep, Records, Remembered
    <2>4. LastTold.at' = m
        BY RecordStepBefore
    <2>5. \/ \E i \in DOMAIN told' :
                 /\ told'[i].life = p.life /\ p.at < told'[i].at
                 /\ told'[i].at <= m /\ ~told'[i].written
          \/ \E e \in record' :
                 /\ e.trigger = "event" /\ e.stock = p.stock /\ e.life = p.life
                 /\ p.at < e.at /\ e.level >= q.level
        <3>1. p \in Panel' /\ p.life = starts'
            BY <1>2, <1>4, <2>1 DEF Panel
        <3>2. latest'[p.stock] > p.level /\ latest'[p.stock] >= WatchLevel
            BY <1>4, <1>5, <2>3
        <3> QED BY <2>2, <2>3, <2>4, <3>1, <3>2 DEF RisesSoFar, Events, Missed
    <2>6. \A e \in record' : e.life = p.life => e.at <= m
        BY <1>2, <1>3, <1>4, <1>5, <1>6, <2>1
    <2> QED BY <2>1, <2>5, <2>6
<1> QED BY <1>7, <1>8, <1>9

\* An event starts from where its stock was last seen, after a further minute.
LEMMA StepEventsStartWhereLeft ==
    ASSUME RecordTypeOK, ToldInOrder, RowsAreTold, LatestIsLast, EventsStartWhereLeft,
           NEW m, NEW view, NEW written, RecordStep(m, view, written)
    PROVE  EventsStartWhereLeft'
<1> DEFINE k == NextPlace
<1>1. /\ DOMAIN told' = DOMAIN told \cup {k} /\ told'[k].at = m /\ told'[k].life = starts
      /\ \A i \in DOMAIN told :
             /\ told'[i] = told[i] /\ i \in Nat /\ i < k /\ told[i].at \in Nat
             /\ told[i].at <= m
             /\ told[i].life = starts => told[i].at < m
    BY RecordStepTold
<1>2. m \in Nat /\ SessionOpen \in Nat /\ SessionEnd \in Nat
    BY RecordConstants DEF RecordStep
<1> HIDE DEF k
<1>3. /\ record \subseteq record' /\ record' \in SUBSET RecordRows
      /\ \A r \in record' : r \notin record =>
             /\ r.at = m /\ r.life = starts /\ InSession(m)
             /\ r.trigger = "event" => latest[r.stock] = r.prev /\ r.prev # None
    BY RecordStepRows
<1>4. SUFFICES ASSUME NEW e \in record', e.trigger = "event"
               PROVE  \E i \in DOMAIN told' :
                   /\ told'[i].life = e.life /\ told'[i].at < e.at
                   /\ InSession(told'[i].at) /\ told'[i].view[e.stock] = e.prev
                   /\ \A j \in DOMAIN told' :
                          j > i /\ told'[j].life = e.life /\ told'[j].at < e.at =>
                              told'[j].view[e.stock] = None
    BY DEF EventsStartWhereLeft, Events, InSession
<1>5. e.at \in Nat /\ e.stock \in Recorded
    BY <1>3 DEF RecordRows
<1>6. CASE e \in record
    <2>1. PICK i \in DOMAIN told :
              /\ told[i].life = e.life /\ told[i].at < e.at
              /\ InSession(told[i].at) /\ told[i].view[e.stock] = e.prev
              /\ \A j \in DOMAIN told : j > i /\ told[j].life = e.life /\ told[j].at < e.at =>
                     told[j].view[e.stock] = None
        BY <1>4, <1>6 DEF EventsStartWhereLeft, Events
    <2>2. e.at <= m
        BY <1>1, <1>6 DEF RowsAreTold
    <2>3. ASSUME NEW j \in DOMAIN told', j > i, told'[j].life = e.life, told'[j].at < e.at
          PROVE  told'[j].view[e.stock] = None
        <3>1. j # k
            BY <1>1, <1>2, <1>5, <2>2, <2>3
        <3> QED BY <1>1, <2>1, <2>3, <3>1
    <2> QED BY <1>1, <2>1, <2>3
<1>7. CASE e \notin record
    <2>1. e.at = m /\ e.life = starts /\ InSession(m)
          /\ latest[e.stock] = e.prev /\ e.prev # None
        BY <1>3, <1>4, <1>7
    <2>2. PICK i \in DOMAIN told :
              /\ told[i].life = starts /\ InSession(told[i].at)
              /\ told[i].view[e.stock] = latest[e.stock]
              /\ \A j \in DOMAIN told : j > i /\ InSession(told[j].at) =>
                     told[j].view[e.stock] = None
        BY <1>5, <2>1 DEF LatestIsLast
    <2>3. ASSUME NEW j \in DOMAIN told', j > i, told'[j].life = e.life, told'[j].at < e.at
          PROVE  told'[j].view[e.stock] = None
        <3>1. j \in DOMAIN told
            BY <1>1, <1>2, <2>1, <2>3
        <3>2. told[i].at <= told[j].at
            BY <1>1, <2>3, <3>1 DEF ToldInOrder
        <3>3. told[j].at <= m /\ told[j].at \in Nat /\ told[i].at \in Nat
            BY <1>1, <3>1
        <3>4. InSession(told[j].at)
            BY <1>2, <2>1, <2>2, <3>2, <3>3 DEF InSession
        <3> QED BY <1>1, <2>2, <2>3, <3>1, <3>4
    <2>4. told[i].at < m
        BY <1>1, <2>2
    <2> QED BY <1>1, <2>1, <2>2, <2>3, <2>4
<1> QED BY <1>6, <1>7

\* The worker is started again: what it remembers is gone, and its life is new.
LEMMA StartsAgainIInv ==
    ASSUME RecordIInv, StartsAgain
    PROVE  RecordIInv'
<1>1. /\ starts' = starts + 1 /\ latest' = [s \in Recorded |-> None]
      /\ told' = told /\ record' = record
    BY DEF StartsAgain
<1>2. /\ told \in Seq(MinuteViews) /\ record \in SUBSET RecordRows /\ starts \in Nat
      /\ ToldInOrder /\ RowsAreTold /\ RecordTells
    BY DEF RecordIInv, RecordTypeOK
<1>3. RecordTypeOK'
    BY <1>1, <1>2 DEF RecordTypeOK
<1>4. ToldInOrder'
    <2>1. \A i \in DOMAIN told : told[i] \in MinuteViews
        BY <1>2
    <2>2. \A i \in DOMAIN told : told[i].life \in Nat
        BY <2>1 DEF MinuteViews
    <2> QED BY <1>1, <1>2, <2>2 DEF ToldInOrder
<1>5. RowsAreTold'
    <2>1. \A r \in record : r.life \in Nat
        BY <1>2 DEF RecordRows
    <2> QED BY <1>1, <1>2, <2>1 DEF RowsAreTold
<1>6. LatestIsLast'
    BY <1>1 DEF LatestIsLast
<1>7. RisesSoFar'
    <2>1. \A r \in record : r.life \in Nat /\ r.life <= starts
        BY <1>2 DEF RecordRows, RowsAreTold
    <2> QED BY <1>1, <1>2, <2>1 DEF RisesSoFar, Panel
<1>8. RecordTells'
    BY <1>1, <1>2 DEF RecordTells, RisesAreTold, EventsStartWhereLeft,
                      Panel, Events, Missed, InSession
<1> QED BY <1>3, <1>4, <1>5, <1>6, <1>7, <1>8 DEF RecordIInv

\* A record begins with nothing told.
LEMMA RecordInitIInv == RecordInit => RecordIInv
<1> SUFFICES ASSUME RecordInit PROVE RecordIInv
    OBVIOUS
<1>1. told = <<>> /\ latest = [s \in Recorded |-> None] /\ record = {} /\ starts = 1
    BY DEF RecordInit
<1>2. told \in Seq(MinuteViews) /\ DOMAIN told = {}
    BY <1>1
<1>3. RecordTypeOK /\ ToldInOrder /\ RowsAreTold /\ LatestIsLast /\ RisesSoFar
    BY <1>1, <1>2 DEF RecordTypeOK, ToldInOrder, RowsAreTold, LatestIsLast, RisesSoFar, Panel
<1>4. RecordTells
    BY <1>1 DEF RecordTells, RisesAreTold, EventsStartWhereLeft, Panel, Events
<1> QED BY <1>3, <1>4 DEF RecordIInv

\* Every step keeps the invariant.
LEMMA RecordInductive == RecordIInv /\ [RecordNext]_recordVars => RecordIInv'
<1> SUFFICES ASSUME RecordIInv, [RecordNext]_recordVars PROVE RecordIInv'
    OBVIOUS
<1>1. CASE RecordNext
    <2>1. ASSUME NEW m \in 0 .. LastTick, NEW view \in [Recorded -> Categories \cup {None}],
                 NEW written \in BOOLEAN, Records(m, view, written)
          PROVE  RecordIInv'
        <3>1. RecordStep(m, view, written)
            BY <2>1 DEF RecordStep
        <3>2. /\ RecordTypeOK /\ ToldInOrder /\ RowsAreTold /\ LatestIsLast /\ RisesSoFar
              /\ RisesAreTold /\ EventsStartWhereLeft
            BY DEF RecordIInv, RecordTells
        <3>3. RecordTypeOK' /\ ToldInOrder' /\ RowsAreTold' /\ LatestIsLast' /\ RisesSoFar'
            BY <3>1, <3>2, RecordStepType, StepToldInOrder, StepRowsAreTold, StepLatestIsLast,
               StepRisesSoFar
        <3>4. RisesAreTold' /\ EventsStartWhereLeft'
            BY <3>1, <3>2, StepRisesAreTold, StepEventsStartWhereLeft
        <3> QED BY <3>3, <3>4 DEF RecordIInv, RecordTells
    <2> QED BY <1>1, <2>1, StartsAgainIInv DEF RecordNext
<1>2. CASE UNCHANGED recordVars
    <2>1. told' = told /\ latest' = latest /\ record' = record /\ starts' = starts
        BY <1>2 DEF recordVars
    <2> QED BY <2>1 DEF RecordIInv, RecordTypeOK, ToldInOrder, RowsAreTold, LatestIsLast, RisesSoFar,
                        RecordTells, RisesAreTold, EventsStartWhereLeft, Panel, Events, Missed,
                        InSession, LastTold
<1> QED BY <1>1, <1>2

\* Nothing rises unseen between two panel rows of one life, and an event starts from
\* where its stock was last seen, whatever minutes are skipped, fail to be written or
\* are repeated by a worker that is started again (research/snapshots.py).
THEOREM RecordAlwaysTells == RecordSpec => []RecordTells
<1>1. RecordIInv => RecordTells
    BY DEF RecordIInv
<1> QED BY <1>1, RecordInitIInv, RecordInductive, PTL DEF RecordSpec

------------------------------------------------------------------------------
(* The download of the history: what a set of days in order is.            *)

\* The numbers of a set up to one of them, and its place among them.
Below(S, x) == {y \in S : y <= x}
Place(S, x) == Cardinality({y \in S : y <= x})

\* InOrder puts at n the number whose place is n.
LEMMA InOrderPlaces ==
    \A S : /\ InOrder(S) = [n \in 1 .. Cardinality(S) |-> CHOOSE x \in S : Place(S, x) = n]
           /\ \A x : Place(S, x) = Cardinality(Below(S, x))
BY DEF InOrder, Place, Below

\* A greater number has a later place.
LEMMA PlacesGrow ==
    ASSUME NEW S \in SUBSET Int, IsFiniteSet(S)
    PROVE  /\ Cardinality(S) \in Nat
           /\ \A x \in S : Place(S, x) \in 1 .. Cardinality(S)
           /\ \A x, y \in S : x < y => Place(S, x) < Place(S, y)
<1>1. \A x \in S : /\ IsFiniteSet(Below(S, x)) /\ Place(S, x) \in Nat /\ Place(S, x) # 0
                   /\ Place(S, x) <= Cardinality(S)
    <2> TAKE x \in S
    <2>1. Below(S, x) \in SUBSET S /\ x \in Below(S, x)
        BY DEF Below
    <2> QED BY <2>1, FS_Subset, FS_CardinalityType, FS_EmptySet, InOrderPlaces
<1>2. ASSUME NEW x \in S, NEW y \in S, x < y
      PROVE  Place(S, x) < Place(S, y)
    <2>1. Below(S, x) \in SUBSET Below(S, y) /\ Below(S, x) # Below(S, y)
        <3>1. x \in Int /\ y \in Int /\ \A z \in S : z \in Int
            OBVIOUS
        <3>2. y \in Below(S, y) /\ y \notin Below(S, x)
            BY <1>2, <3>1 DEF Below
        <3>3. \A z \in S : z <= x => z <= y
            BY <1>2, <3>1
        <3> QED BY <3>2, <3>3 DEF Below
    <2>2. Cardinality(Below(S, x)) <= Cardinality(Below(S, y))
          /\ Cardinality(Below(S, x)) # Cardinality(Below(S, y))
        BY <1>1, <2>1, FS_Subset
    <2> QED BY <1>1, <2>2, InOrderPlaces
<1> QED BY <1>1, <1>2, FS_CardinalityType

\* Every place is taken: as many places as numbers, and no two numbers share one.
LEMMA EveryPlace ==
    ASSUME NEW S \in SUBSET Int, IsFiniteSet(S), NEW n \in 1 .. Cardinality(S)
    PROVE  \E x \in S : Place(S, x) = n
<1> DEFINE T == 1 .. Cardinality(S)
           f == [x \in S |-> Place(S, x)]
<1>1. f \in [S -> T] /\ \A x, y \in S : f[x] = f[y] => x = y
    <2>1. /\ Cardinality(S) \in Nat
          /\ \A x \in S : Place(S, x) \in 1 .. Cardinality(S)
          /\ \A x, y \in S : x < y => Place(S, x) < Place(S, y)
        BY PlacesGrow
    <2>2. f \in [S -> T]
        BY <2>1
    <2>3. ASSUME NEW x \in S, NEW y \in S, Place(S, x) = Place(S, y)
          PROVE  x = y
        <3>1. x < y \/ y < x \/ x = y
            OBVIOUS
        <3>2. Place(S, x) \in Int /\ Place(S, y) \in Int
            BY <2>1
        <3> QED BY <2>1, <2>3, <3>1, <3>2
    <2> QED BY <2>2, <2>3
<1>2. IsFiniteSet(T) /\ Cardinality(T) = Cardinality(S)
    BY FS_Interval, PlacesGrow
<1> HIDE DEF f, T
<1>3. f \in Injection(S, T)
    BY <1>1 DEF Injection, IsInjective
<1>4. f \in Surjection(S, T)
    BY <1>2, <1>3, FS_Injection
<1>5. PICK x \in S : f[x] = n
    BY <1>4 DEF Surjection, T
<1> QED BY <1>5 DEF f

\* What InOrder returns: every number once, each greater than the one before.
LEMMA InOrderIs ==
    ASSUME NEW S \in SUBSET Int, IsFiniteSet(S), NEW q, q = InOrder(S)
    PROVE  /\ q \in Seq(S) /\ q \in [1 .. Cardinality(S) -> S] /\ Len(q) = Cardinality(S)
           /\ Cardinality(S) \in Nat
           /\ \A n \in 1 .. Cardinality(S) : Place(S, q[n]) = n
           /\ \A m, n \in 1 .. Cardinality(S) : m < n => q[m] < q[n]
           /\ \A x \in S : \E n \in 1 .. Cardinality(S) : q[n] = x
<1>1. q = [n \in 1 .. Cardinality(S) |-> CHOOSE x \in S : Place(S, x) = n]
    BY InOrderPlaces
<1>2. /\ Cardinality(S) \in Nat
      /\ \A x \in S : Place(S, x) \in 1 .. Cardinality(S)
      /\ \A x, y \in S : x < y => Place(S, x) < Place(S, y)
    BY PlacesGrow
<1>3. \A n \in 1 .. Cardinality(S) : q[n] \in S /\ Place(S, q[n]) = n
    BY <1>1, EveryPlace
<1>4. q \in [1 .. Cardinality(S) -> S]
    BY <1>1, <1>3
<1>5. q \in Seq(S) /\ Len(q) = Cardinality(S)
    BY <1>2, <1>4
<1>6. ASSUME NEW m \in 1 .. Cardinality(S), NEW n \in 1 .. Cardinality(S), m < n
      PROVE  q[m] < q[n]
    <2>1. q[m] \in S /\ q[n] \in S /\ Place(S, q[m]) = m /\ Place(S, q[n]) = n
        BY <1>3
    <2>2. q[m] \in Int /\ q[n] \in Int /\ m \in Int /\ n \in Int
        <3>1. \A x \in S : x \in Int
            OBVIOUS
        <3>2. m \in Int /\ n \in Int
            BY <1>2
        <3> QED BY <2>1, <3>1, <3>2
    <2>3. q[m] # q[n] /\ ~(q[n] < q[m])
        BY <1>2, <1>6, <2>1, <2>2
    <2> QED BY <2>2, <2>3
<1>7. ASSUME NEW x \in S
      PROVE  \E n \in 1 .. Cardinality(S) : q[n] = x
    <2> DEFINE n == Place(S, x)
    <2>1. n \in 1 .. Cardinality(S) /\ q[n] \in S /\ Place(S, q[n]) = n
        BY <1>2, <1>3
    <2>2. q[n] \in Int /\ x \in Int /\ n \in Int
        <3>1. \A y \in S : y \in Int
            OBVIOUS
        <3>2. n \in Int
            BY <1>2, <2>1
        <3> HIDE DEF n
        <3> QED BY <2>1, <3>1, <3>2
    <2>3. ~(q[n] < x) /\ ~(x < q[n])
        BY <1>2, <2>1, <2>2
    <2> QED BY <2>1, <2>2, <2>3
<1> QED BY <1>2, <1>3, <1>4, <1>5, <1>6, <1>7

\* A sequence with its n-th number at the n-th place is the set in order.
LEMMA InOrderUnique ==
    ASSUME NEW S \in SUBSET Int, IsFiniteSet(S), NEW c \in [1 .. Cardinality(S) -> S],
           \A n \in 1 .. Cardinality(S) : Place(S, c[n]) = n
    PROVE  InOrder(S) = c
<1> DEFINE q == InOrder(S)
<1>1. /\ q \in [1 .. Cardinality(S) -> S]
      /\ \A n \in 1 .. Cardinality(S) : Place(S, q[n]) = n
    BY InOrderIs
<1>2. \A x, y \in S : x < y => Place(S, x) < Place(S, y)
    BY PlacesGrow
<1>3. \A x \in S : x \in Int /\ Place(S, x) \in Int
    BY PlacesGrow
<1> HIDE DEF q
<1>4. ASSUME NEW n \in 1 .. Cardinality(S) PROVE q[n] = c[n]
    <2>1. q[n] \in S /\ c[n] \in S /\ Place(S, q[n]) = Place(S, c[n])
        BY <1>1
    <2>2. q[n] \in Int /\ c[n] \in Int /\ Place(S, q[n]) \in Int
        BY <1>3, <2>1
    <2>3. q[n] < c[n] => Place(S, q[n]) < Place(S, c[n])
        BY <1>2, <2>1
    <2>4. c[n] < q[n] => Place(S, c[n]) < Place(S, q[n])
        BY <1>2, <2>1
    <2> QED BY <2>1, <2>2, <2>3, <2>4
<1>5. q = c
    <2>1. q \in [1 .. Cardinality(S) -> S] /\ c \in [1 .. Cardinality(S) -> S]
        BY <1>1
    <2>2. \A n \in 1 .. Cardinality(S) : q[n] = c[n]
        BY <1>4
    <2>3. DOMAIN q = 1 .. Cardinality(S) /\ DOMAIN c = 1 .. Cardinality(S)
        BY <2>1
    <2>4. q = [n \in DOMAIN q |-> q[n]] /\ c = [n \in DOMAIN c |-> c[n]]
        BY <2>1
    <2> HIDE <2>1
    <2> QED BY <2>2, <2>3, <2>4
<1> QED BY <1>5 DEF q

\* Two sets in order, the one before the other, are their union in order.
LEMMA InOrderJoins ==
    ASSUME NEW A \in SUBSET Int, IsFiniteSet(A), NEW B \in SUBSET Int, IsFiniteSet(B),
           \A x \in A, y \in B : x < y
    PROVE  InOrder(A) \o InOrder(B) = InOrder(A \cup B)
<1> DEFINE a == InOrder(A)
           b == InOrder(B)
           C == A \cup B
           c == a \o b
           k == Cardinality(A)
           l == Cardinality(B)
<1>1. /\ a \in Seq(A) /\ Len(a) = k /\ k \in Nat /\ a \in [1 .. k -> A]
      /\ \A n \in 1 .. k : Place(A, a[n]) = n
    BY InOrderIs
<1>2. /\ b \in Seq(B) /\ Len(b) = l /\ l \in Nat /\ b \in [1 .. l -> B]
      /\ \A n \in 1 .. l : Place(B, b[n]) = n
    BY InOrderIs
<1>3. IsFiniteSet(C) /\ Cardinality(C) = k + l /\ C \in SUBSET Int
    <2>1. A \cap B = {}
        <3>1. \A x \in A : x \in Int /\ ~(x < x)
            OBVIOUS
        <3> QED BY <3>1
    <2>2. Cardinality(A \cap B) = 0
        BY <2>1, FS_EmptySet
    <2>3. IsFiniteSet(C) /\ Cardinality(C) = k + l - Cardinality(A \cap B)
        BY FS_Union
    <2>4. k \in Nat /\ l \in Nat
        BY <1>1, <1>2
    <2> HIDE DEF k, l
    <2> QED BY <2>2, <2>3, <2>4
<1>4. \A x \in A : Place(C, x) = Place(A, x)
    <2> TAKE x \in A
    <2>1. \A y \in B : ~(y <= x)
        <3> TAKE y \in B
        <3>1. x \in Int /\ y \in Int /\ x < y
            OBVIOUS
        <3> QED BY <3>1
    <2>2. Below(C, x) = Below(A, x)
        BY <2>1 DEF Below
    <2> QED BY <2>2, InOrderPlaces
<1>5. \A y \in B : Place(C, y) = k + Place(B, y)
    <2> TAKE y \in B
    <2>1. \A x \in A : x <= y /\ x \notin Below(B, y)
        <3> TAKE x \in A
        <3>1. x \in Int /\ y \in Int /\ x < y
            OBVIOUS
        <3>2. x \notin B
            <4>1. ASSUME x \in B PROVE x < x
                BY <4>1
            <4> QED BY <3>1, <4>1
        <3> QED BY <3>1, <3>2 DEF Below
    <2>2. Below(C, y) = A \cup Below(B, y) /\ A \cap Below(B, y) = {}
        BY <2>1 DEF Below
    <2>3. IsFiniteSet(Below(B, y))
        <3>1. Below(B, y) \in SUBSET B
            BY DEF Below
        <3> QED BY <3>1, FS_Subset
    <2>4. Cardinality(Below(C, y)) = k + Cardinality(Below(B, y))
        <3>1. Cardinality(A \cap Below(B, y)) = 0
            BY <2>2, FS_EmptySet
        <3>2. Cardinality(Below(B, y)) \in Nat
            BY <2>3, FS_CardinalityType
        <3>3. Cardinality(A \cup Below(B, y))
              = k + Cardinality(Below(B, y)) - Cardinality(A \cap Below(B, y))
            BY <2>3, FS_Union
        <3>4. k \in Nat
            BY <1>1
        <3>5. Cardinality(Below(C, y)) = k + Cardinality(Below(B, y)) - Cardinality(A \cap Below(B, y))
            BY <2>2, <3>3
        <3> HIDE DEF k
        <3> QED BY <3>1, <3>2, <3>4, <3>5
    <2> QED BY <2>4, InOrderPlaces
<1> HIDE DEF a, b, k, l
<1>6. /\ c \in [1 .. k + l -> C] /\ \A n \in 1 .. k : c[n] = a[n]
      /\ \A n \in 1 .. l : c[k + n] = b[n]
    <2>1. c \in Seq(C) /\ Len(c) = k + l
        BY <1>1, <1>2
    <2>2. k \in Nat /\ l \in Nat /\ k + l \in Nat
        BY <1>1, <1>2
    <2> HIDE DEF c
    <2>3. c \in [1 .. k + l -> C]
        BY <2>1, <2>2
    <2> USE DEF c
    <2>4. \A n \in 1 .. k : c[n] = a[n]
        BY <1>1, <1>2
    <2>5. \A n \in 1 .. l : c[k + n] = b[n]
        BY <1>1, <1>2
    <2> QED BY <2>3, <2>4, <2>5
<1> HIDE DEF c
<1>7. ASSUME NEW n \in 1 .. k + l PROVE Place(C, c[n]) = n
    <2>1. CASE n <= k
        <3>1. n \in 1 .. k /\ c[n] = a[n] /\ a[n] \in A
            BY <1>1, <1>2, <1>6, <2>1
        <3> QED BY <1>1, <1>4, <3>1
    <2>2. CASE n > k
        <3> DEFINE m == n - k
        <3>1. m \in 1 .. l /\ n = k + m /\ m \in Int
            BY <1>1, <1>2, <2>2
        <3> HIDE DEF m
        <3>2. c[n] = b[m] /\ b[m] \in B /\ Place(B, b[m]) = m
            BY <1>2, <1>6, <3>1
        <3> QED BY <1>5, <3>1, <3>2
    <2> QED BY <1>1, <1>2, <2>1, <2>2
<1> HIDE DEF C
<1>8. InOrder(C) = c
    BY <1>3, <1>6, <1>7, InOrderUnique
<1> QED BY <1>8 DEF a, b, c, C

\* Nothing in order is the empty sequence.
LEMMA InOrderEmpty == InOrder({}) = <<>>
<1>1. Cardinality({}) = 0 /\ IsFiniteSet({}) /\ {} \in SUBSET Int
    BY FS_EmptySet
<1>2. InOrder({}) \in Seq({}) /\ Len(InOrder({})) = 0
    BY <1>1, InOrderIs
<1> QED BY <1>2

\* The greatest of a set of numbers.
LEMMA MaxIs ==
    ASSUME NEW S \in SUBSET Int, NEW x \in S, \A y \in S : y <= x
    PROVE  Max(S) = x
<1>1. \A y \in S : y \in Int
    OBVIOUS
<1>2. \A y \in S : (\A z \in S : y >= z) <=> y = x
    BY <1>1
<1> QED BY <1>2 DEF Max

\* The least of a set of numbers.
LEMMA MinIs ==
    ASSUME NEW S \in SUBSET Int, NEW x \in S, \A y \in S : x <= y
    PROVE  Min(S) = x
<1>1. \A y \in S : y \in Int
    OBVIOUS
<1>2. \A y \in S : (\A z \in S : y <= z) <=> y = x
    BY <1>1
<1> QED BY <1>2 DEF Min

\* The greater of two numbers.
LEMMA MaxOfTwo == \A a, b \in Int : Max({a, b}) = IF a >= b THEN a ELSE b
<1> TAKE a, b \in Int
<1>1. CASE a >= b
    BY <1>1, MaxIs
<1>2. CASE ~(a >= b)
    BY <1>2, MaxIs
<1> QED BY <1>1, <1>2

\* The lesser of two numbers.
LEMMA MinOfTwo == \A a, b \in Int : Min({a, b}) = IF a <= b THEN a ELSE b
<1> TAKE a, b \in Int
<1>1. CASE a <= b
    BY <1>1, MinIs
<1>2. CASE ~(a <= b)
    BY <1>2, MinIs
<1> QED BY <1>1, <1>2

\* A set of naturals that is not empty has a least one.
LEMMA MinOfNaturals == ASSUME NEW S \in SUBSET Nat, S # {} PROVE Min(S) \in S
<1> DEFINE R == OpToRel(<, Nat)
<1>1. IsWellFoundedOn(R, Nat)
    BY NatLessThanWellFounded
<1>2. \A x, y \in Nat : <<x, y>> \in R <=> x < y
    BY DEF OpToRel
<1> HIDE DEF R
<1>3. PICK x \in S : \A y \in S : <<y, x>> \notin R
    BY <1>1, WFMin
<1>4. \A y \in S : x <= y
    <2> TAKE y \in S
    <2>1. x \in Nat /\ y \in Nat
        OBVIOUS
    <2>2. ~(y < x)
        BY <1>2, <1>3, <2>1
    <2> QED BY <2>1, <2>2
<1>5. S \in SUBSET Int
    OBVIOUS
<1> QED BY <1>4, <1>5, MinIs

------------------------------------------------------------------------------
(* The download of the history: its invariant.                              *)

\* What the history's variables range over.
HistoryTypeOK ==
    /\ market \in Markets /\ today \in Nat /\ runs \in Nat /\ DOMAIN daily = HistoryStocks
    /\ done \in [HistoryStocks \cup Indices -> Nat \cup {None}]
    /\ files \in [HistoryStocks \cup Indices -> [Dates -> {None, "whole", "part", "empty"}]]

\* The candles read so far are the sessions before the next window, in order.
BatchIsWhole ==
    step = "daily" =>
        from \in Int /\ batch = InOrder({d \in Sessions(Stock) : d < from})

\* The days of the pools are days that were asked for.
PoolDaysAreDates ==
    Readable \/ step = "bars" => DOMAIN pools \subseteq Dates

\* The first run finds no pools.
FirstRunHasNoPools ==
    /\ runs = 0 \/ (runs = 1 /\ step \in {"daily", "pools"}) => pools = None
    /\ step # "off" => runs # 0

\* The last n sessions of an instrument.
LastSessions(i, n) ==
    {d \in Sessions(i) :
        Cardinality({e \in Sessions(i) : e > d}) < n}
\* What counts as done has its last sessions, as many as its file in _done says.
DoneIsSaved ==
    \A i \in HistoryStocks \cup Indices :
        done[i] # None => LastSessions(i, done[i]) \cap Dates \subseteq Saved(i)

\* The invariant that a step of the history keeps.
HistoryIInv ==
    /\ HistoryTypeOK /\ BatchIsWhole /\ DailyIsWhole /\ PoolDaysAreDates
    /\ PoolsKnowThePast /\ FirstRunHasNoPools /\ PoolsFollowFiles
    /\ DoneIsSaved /\ FilesTellTheDay

\* The constants of the history, as the proofs use them.
LEMMA HistoryConstants ==
    /\ FirstDay \in Nat /\ LastDay \in Nat /\ Lead \in Nat /\ Span \in Nat /\ Prior \in Nat
    /\ Slack \in Nat /\ Start \in Int /\ Dates \subseteq Nat
    /\ \A s \in HistoryStocks : s \in Nat
BY HistoryAssumption DEF Start, Dates

\* The sessions of an instrument, and any of them, are finitely many days.
LEMMA SessionsAreDays ==
    \A i : /\ Sessions(i) \in SUBSET Int /\ IsFiniteSet(Sessions(i))
           /\ \A d \in Sessions(i) : Start <= d /\ d <= LastDay
           /\ \A D \in SUBSET Sessions(i) : D \in SUBSET Int /\ IsFiniteSet(D)
<1> TAKE i
<1>1. Start \in Int /\ LastDay \in Int
    BY HistoryConstants
<1>2. Sessions(i) \in SUBSET (Start .. LastDay)
    BY DEF Sessions
<1>3. IsFiniteSet(Start .. LastDay)
    BY <1>1, FS_Interval
<1>4. \A d \in Start .. LastDay : d \in Int /\ Start <= d /\ d <= LastDay
    BY <1>1
<1> HIDE DEF Start
<1> QED BY <1>2, <1>3, <1>4, FS_Subset

\* The first positions of a set in order are those of its numbers before one.
FirstPositions(S, d) ==
    LET q == InOrder(S)
        B == {x \in S : x < d}
        k == Cardinality(B)
    IN  /\ k \in Nat /\ B \in SUBSET Int /\ IsFiniteSet(B)
        /\ \A n \in DOMAIN q : n \in Int /\ (q[n] < d <=> n <= k)
        /\ {n \in DOMAIN q : q[n] < d} = 1 .. k

\* So they are of every finite set.
LEMMA FirstPlaces ==
    ASSUME NEW S \in SUBSET Int, IsFiniteSet(S), NEW d \in Int
    PROVE  FirstPositions(S, d)
<1> DEFINE q == InOrder(S)
           B == {x \in S : x < d}
           k == Cardinality(B)
<1>1. /\ Cardinality(S) \in Nat /\ DOMAIN q = 1 .. Cardinality(S)
      /\ \A n \in DOMAIN q : q[n] \in S /\ Place(S, q[n]) = n
    <2>1. /\ q \in [1 .. Cardinality(S) -> S] /\ Cardinality(S) \in Nat
          /\ \A n \in 1 .. Cardinality(S) : Place(S, q[n]) = n
        BY InOrderIs
    <2> QED BY <2>1
<1>2. B \in SUBSET S /\ IsFiniteSet(B) /\ k \in Nat /\ k <= Cardinality(S)
    <2>1. B \in SUBSET S
        OBVIOUS
    <2> QED BY <2>1, FS_Subset, FS_CardinalityType
<1>3. \A x \in S : x \in Int
    OBVIOUS
<1>4. ASSUME NEW n \in DOMAIN q PROVE q[n] < d => n <= k
    <2> HAVE q[n] < d
    <2> DEFINE m == q[n]
    <2>1. m \in S /\ m \in Int /\ m < d
        BY <1>1, <1>3
    <2> HIDE DEF m
    <2>2. \A x \in Int : x <= m => x < d
        BY <2>1
    <2>3. \A x \in S : x <= m => x < d
        BY <1>3, <2>2
    <2>4. q[n] \in S /\ q[n] \in Int /\ \A x \in S : x <= q[n] => x < d
        BY <2>1, <2>3 DEF m
    <2>5. Below(S, q[n]) \in SUBSET B
        BY <2>4 DEF Below
    <2>6. Cardinality(Below(S, q[n])) <= k
        BY <1>2, <2>5, FS_Subset
    <2> QED BY <1>1, <2>6, InOrderPlaces
<1>5. ASSUME NEW n \in DOMAIN q PROVE ~(q[n] < d) => k < n
    <2> HAVE ~(q[n] < d)
    <2> DEFINE m == q[n]
    <2>1. m \in S /\ m \in Int /\ ~(m < d)
        BY <1>1, <1>3
    <2> HIDE DEF m
    <2>2. (\A x \in Int : x < d => x <= m) /\ m <= m
        BY <2>1
    <2>3. B \in SUBSET Below(S, m) /\ m \in Below(S, m) /\ m \notin B
        BY <1>3, <2>1, <2>2 DEF Below
    <2>4. B \in SUBSET Below(S, q[n]) /\ q[n] \in Below(S, q[n]) /\ q[n] \notin B
        BY <2>3 DEF m
    <2>5. q[n] \in S
        BY <1>1
    <2>6. IsFiniteSet(Below(S, q[n]))
        <3>1. Below(S, q[n]) \in SUBSET S
            BY DEF Below
        <3> QED BY <3>1, FS_Subset
    <2>7. k <= Cardinality(Below(S, q[n])) /\ k # Cardinality(Below(S, q[n]))
        BY <2>4, <2>6, FS_Subset
    <2>8. Cardinality(Below(S, q[n])) = n /\ n \in Int
        BY <1>1, InOrderPlaces
    <2> QED BY <1>2, <2>7, <2>8
<1>6. \A n \in DOMAIN q : n \in Int /\ 1 <= n /\ n <= Cardinality(S)
    BY <1>1
<1>7. \A n \in DOMAIN q : q[n] < d <=> n <= k
    BY <1>2, <1>4, <1>5, <1>6
<1>8. \A n \in 1 .. k : n \in DOMAIN q
    BY <1>1, <1>2
<1>9. {n \in DOMAIN q : q[n] < d} = 1 .. k
    <2>1. \A n \in DOMAIN q : q[n] < d => n \in 1 .. k
        BY <1>2, <1>6, <1>7
    <2>2. \A n \in 1 .. k : q[n] < d
        BY <1>2, <1>7, <1>8
    <2> QED BY <1>8, <2>1, <2>2
<1>10. B \in SUBSET Int
    BY <1>2
<1> HIDE DEF q, B, k
<1>11. q = InOrder(S) /\ B = {x \in S : x < d} /\ k = Cardinality(B)
    BY DEF q, B, k
<1> QED BY <1>2, <1>6, <1>7, <1>9, <1>10, <1>11 DEF FirstPositions

\* The first numbers in order are themselves.
LEMMA InOrderCounts ==
    ASSUME NEW k \in Nat
    PROVE  InOrder(1 .. k) = [n \in 1 .. k |-> n]
<1>1. IsFiniteSet(1 .. k) /\ Cardinality(1 .. k) = k /\ 1 .. k \in SUBSET Int
    BY FS_Interval
<1>2. ASSUME NEW n \in 1 .. k PROVE Place(1 .. k, n) = n
    <2>1. Below(1 .. k, n) = 1 .. n
        BY DEF Below
    <2>2. Cardinality(1 .. n) = n
        BY FS_Interval
    <2> QED BY <2>1, <2>2, InOrderPlaces
<1> DEFINE c == [n \in 1 .. k |-> n]
<1>3. c \in [1 .. k -> 1 .. k] /\ \A n \in 1 .. k : Place(1 .. k, c[n]) = n
    BY <1>2
<1> HIDE DEF c
<1>4. InOrder(1 .. k) = c
    BY <1>1, <1>3, InOrderUnique
<1> QED BY <1>4 DEF c

\* What is before a day, of a set in order, is what is before it of the set, in order.
LEMMA BeforeInOrder ==
    ASSUME NEW S \in SUBSET Int, IsFiniteSet(S), NEW q, q = InOrder(S), NEW d \in Int,
           NEW B, B = {x \in S : x < d}, NEW rows, rows = InOrder({n \in DOMAIN q : q[n] < d})
    PROVE  [n \in DOMAIN rows |-> q[rows[n]]] = InOrder(B)
<1> DEFINE k == Cardinality(B)
<1>1. /\ k \in Nat /\ B \in SUBSET Int /\ IsFiniteSet(B)
      /\ \A n \in DOMAIN q : n \in Int /\ (q[n] < d <=> n <= k)
      /\ {n \in DOMAIN q : q[n] < d} = 1 .. k
    <2>1. FirstPositions(S, d)
        BY FirstPlaces
    <2> QED BY <2>1 DEF FirstPositions
<1>2. rows = [n \in 1 .. k |-> n]
    BY <1>1, InOrderCounts
<1> DEFINE c == [n \in 1 .. k |-> q[n]]
<1>3. [n \in DOMAIN rows |-> q[rows[n]]] = c
    BY <1>2
<1>4. ASSUME NEW n \in 1 .. k PROVE q[n] \in B /\ Place(B, q[n]) = n
    <2>1. n \in DOMAIN q /\ q[n] < d
        BY <1>1
    <2>2. DOMAIN q = 1 .. Cardinality(S) /\ \A m \in DOMAIN q : q[m] \in S /\ Place(S, q[m]) = m
        <3>1. /\ q \in [1 .. Cardinality(S) -> S]
              /\ \A m \in 1 .. Cardinality(S) : Place(S, q[m]) = m
            BY InOrderIs
        <3> QED BY <3>1
    <2>3. q[n] \in B
        BY <2>1, <2>2
    <2>4. \A x \in S : x \in Int
        OBVIOUS
    <2> DEFINE m == q[n]
    <2>5. m \in Int /\ m < d
        BY <2>1, <2>2, <2>4
    <2> HIDE DEF m
    <2>6. \A x \in Int : x <= m => x < d
        BY <2>5
    <2>7. \A x \in S : x <= q[n] => x < d
        BY <2>4, <2>6 DEF m
    <2>8. Below(B, q[n]) = Below(S, q[n])
        BY <2>7 DEF Below
    <2> QED BY <2>1, <2>2, <2>3, <2>8, InOrderPlaces
<1> HIDE DEF k
<1>5. c \in [1 .. k -> B] /\ \A n \in 1 .. k : Place(B, c[n]) = n
    BY <1>4
<1> HIDE DEF c
<1>6. InOrder(B) = c
    BY <1>1, <1>5, InOrderUnique DEF k
<1> QED BY <1>3, <1>6

\* The last of a set in order, as many as Prior or all there are.
LEMMA PriorIs ==
    ASSUME NEW B \in SUBSET Int, IsFiniteSet(B), NEW c, c = InOrder(B),
           NEW prior, prior = LastOf(c, Prior), prior # <<>>
    PROVE  /\ prior[Len(prior)] = Max(B)
           /\ Len(prior) = Min({Prior, Cardinality(B)})
<1> DEFINE k == Cardinality(B)
           first == Max({1, k - Prior + 1})
<1>1. /\ c \in Seq(B) /\ Len(c) = k /\ k \in Nat /\ DOMAIN c = 1 .. k
      /\ \A m, n \in 1 .. k : m < n => c[m] < c[n]
      /\ \A x \in B : \E n \in 1 .. k : c[n] = x
    <2>1. /\ c \in Seq(B) /\ c \in [1 .. Cardinality(B) -> B] /\ Len(c) = Cardinality(B)
          /\ Cardinality(B) \in Nat
          /\ \A m, n \in 1 .. Cardinality(B) : m < n => c[m] < c[n]
          /\ \A x \in B : \E n \in 1 .. Cardinality(B) : c[n] = x
        BY InOrderIs
    <2> QED BY <2>1
<1>2. Prior \in Nat /\ k - Prior + 1 \in Int
    BY <1>1, HistoryConstants
<1>3. first = (IF 1 >= k - Prior + 1 THEN 1 ELSE k - Prior + 1)
    BY <1>2, MaxOfTwo
<1>4. prior = SubSeq(c, first, k)
    BY <1>1 DEF LastOf
<1> HIDE DEF k
<1>5. first \in Int /\ 1 <= first
    BY <1>1, <1>2, <1>3
<1>6. /\ first <= k /\ Len(prior) = k - first + 1
      /\ \A n \in 1 .. k - first + 1 : prior[n] = c[first + n - 1]
    <2> HIDE DEF first
    <2>1. CASE first <= k
        BY <1>1, <1>4, <1>5, <2>1
    <2>2. CASE ~(first <= k)
        BY <1>1, <1>4, <1>5, <2>2
    <2> QED BY <2>1, <2>2
<1>7. prior[Len(prior)] = c[k] /\ c[k] \in B /\ k \in 1 .. k
    <2> HIDE DEF first
    <2>1. k - first + 1 \in 1 .. k - first + 1 /\ first + (k - first + 1) - 1 = k
        BY <1>1, <1>5, <1>6
    <2>2. prior[k - first + 1] = c[first + (k - first + 1) - 1]
        BY <1>6, <2>1
    <2>3. k \in 1 .. k
        BY <1>1, <1>5, <1>6
    <2>4. c[k] \in B
        BY <1>1, <2>3
    <2> QED BY <1>6, <2>1, <2>2, <2>3, <2>4
<1>8. c[k] = Max(B)
    <2>1. \A x \in B : x <= c[k]
        <3> TAKE x \in B
        <3>1. PICK n \in 1 .. k : c[n] = x
            BY <1>1
        <3>2. \A y \in B : y \in Int
            OBVIOUS
        <3>3. n = k \/ n < k
            BY <1>1
        <3>4. n < k => c[n] < c[k]
            BY <1>1, <1>7
        <3>5. x \in Int /\ c[k] \in Int
            BY <1>7, <3>2
        <3>6. x = c[k] \/ x < c[k]
            BY <3>1, <3>3, <3>4
        <3> QED BY <3>5, <3>6
    <2> QED BY <1>7, <2>1, MaxIs
<1>9. Len(prior) = Min({Prior, k})
    <2>1. Min({Prior, k}) = IF Prior <= k THEN Prior ELSE k
        BY <1>1, <1>2, MinOfTwo
    <2> QED BY <1>1, <1>2, <1>3, <1>6, <2>1
<1>10. Cardinality(B) = k
    BY DEF k
<1> QED BY <1>7, <1>8, <1>9, <1>10

\* The statistics of a stock for a day: the close before it, and how many sessions.
LEMMA StatsTellThePast ==
    ASSUME DailyIsWhole, NEW s \in HistoryStocks, daily[s] # None, NEW d \in Int,
           Stats(s, d) # None,
           NEW B, B = {x \in Sessions(s) : x < d}
    PROVE  /\ Stats(s, d).prev_close = Max(B)
           /\ Stats(s, d).sessions = Min({Prior, Cardinality(B)})
<1> DEFINE prior == LastOf(DatesBefore(s, d), Prior)
<1>1. B \in SUBSET Int /\ IsFiniteSet(B)
    BY SessionsAreDays
<1>2. DatesBefore(s, d) = InOrder(B)
    <2> DEFINE q == daily[s]
               S == Sessions(s)
               rows == InOrder({n \in DOMAIN q : q[n] < d})
    <2>1. q = InOrder(S) /\ S \in SUBSET Int /\ IsFiniteSet(S)
        BY SessionsAreDays DEF DailyIsWhole
    <2>2. DatesBefore(s, d) = [n \in DOMAIN rows |-> q[rows[n]]]
        BY DEF DatesBefore
    <2>3. B = {x \in S : x < d}
        OBVIOUS
    <2> HIDE DEF q, S
    <2>4. [n \in DOMAIN rows |-> q[rows[n]]] = InOrder(B)
        BY <2>1, <2>3, BeforeInOrder
    <2> QED BY <2>2, <2>4
<1>3. /\ prior # <<>> /\ Stats(s, d).prev_close = prior[Len(prior)]
      /\ Stats(s, d).sessions = Len(prior)
    BY DEF Stats
<1>4. prior = LastOf(InOrder(B), Prior)
    BY <1>2
<1> HIDE DEF prior
<1>5. /\ prior[Len(prior)] = Max(B)
      /\ Len(prior) = Min({Prior, Cardinality(B)})
    BY <1>1, <1>3, <1>4, PriorIs
<1> QED BY <1>3, <1>5

\* Pools that are built are of the dates asked for and know only the past.
LEMMA BuiltPools ==
    ASSUME DailyIsWhole
    PROVE  /\ DOMAIN BuildPools \subseteq Dates
           /\ \A d \in DOMAIN BuildPools : \A s \in DOMAIN BuildPools[d] :
                  LET before == {x \in Sessions(s) : x < d}
                  IN  /\ BuildPools[d][s].prev_close = Max(before)
                      /\ BuildPools[d][s].sessions
                         = Min({Prior, Cardinality(before)})
<1>1. /\ DOMAIN BuildPools = TradingDays
      /\ TradingDays \subseteq Dates
    BY DEF BuildPools, TradingDays
<1>2. ASSUME NEW d \in DOMAIN BuildPools, NEW s \in DOMAIN BuildPools[d]
      PROVE  /\ s \in HistoryStocks /\ daily[s] # None /\ d \in Int
             /\ Stats(s, d) # None /\ BuildPools[d][s] = Stats(s, d)
    <2>1. d \in Int /\ BuildPools[d] = PoolOf(d)
        BY <1>1, HistoryConstants DEF BuildPools
    <2>2. s \in DOMAIN PoolOf(d)
        BY <2>1
    <2>3. /\ s \in Have /\ Admits(Stats(s, d))
          /\ PoolOf(d)[s] = Stats(s, d)
        BY <2>2 DEF PoolOf
    <2> QED BY <2>1, <2>3 DEF Have, Admits
<1> QED BY <1>1, <1>2, StatsTellThePast

\* The last sessions of an instrument are in every set of them that has as many and
\* leaves out none that is later than one of it.
LEMMA LastAreLatest ==
    ASSUME NEW i, NEW K \in SUBSET Sessions(i),
           \A d \in K : \A e \in Sessions(i) : e > d => e \in K
    PROVE  LastSessions(i, Cardinality(K)) \subseteq K
<1> DEFINE S == Sessions(i)
           later(d) == {e \in S : e > d}
<1>1. S \in SUBSET Int /\ IsFiniteSet(S) /\ \A D \in SUBSET S : D \in SUBSET Int /\ IsFiniteSet(D)
    BY SessionsAreDays
<1>2. SUFFICES ASSUME NEW d \in LastSessions(i, Cardinality(K)), d \notin K
               PROVE  FALSE
    OBVIOUS
<1>3. d \in S /\ Cardinality(later(d)) < Cardinality(K)
    BY DEF LastSessions
<1>4. K \in SUBSET later(d)
    <2> SUFFICES ASSUME NEW e \in K PROVE e \in later(d)
        OBVIOUS
    <2>1. e \in S /\ e \in Int /\ d \in Int
        BY <1>1, <1>3
    <2>2. ~(d > e) /\ d # e
        BY <1>2, <1>3
    <2> HIDE DEF S
    <2>3. e > d
        BY <2>1, <2>2
    <2> QED BY <2>1, <2>3
<1>5. Cardinality(K) <= Cardinality(later(d)) /\ Cardinality(K) \in Nat /\ Cardinality(later(d)) \in Nat
    <2>1. later(d) \in SUBSET S
        OBVIOUS
    <2>2. IsFiniteSet(later(d))
        BY <1>1, <2>1
    <2> HIDE DEF later
    <2> QED BY <1>4, <2>2, FS_Subset, FS_CardinalityType
<1> HIDE DEF later
<1> QED BY <1>3, <1>5

\* How many sessions are asked for, and how far back.
LEMMA AskedIsNat ==
    ASSUME DOMAIN pools \subseteq Dates
    PROVE  /\ IsFiniteSet(DOMAIN pools) /\ Asked = Cardinality(DOMAIN pools)
           /\ Asked \in Nat /\ Reach \in Int
<1>1. IsFiniteSet(Dates)
    BY HistoryConstants, FS_Interval DEF Dates
<1>2. IsFiniteSet(DOMAIN pools) /\ Asked = Cardinality(DOMAIN pools)
    BY <1>1, FS_Subset DEF Asked
<1>3. Asked \in Nat
    BY <1>2, FS_CardinalityType
<1>4. Slack \in Nat
    BY HistoryConstants
<1>5. Reach \in Int
    BY <1>3, <1>4 DEF Reach
<1> QED BY <1>2, <1>3, <1>5

\* What a download keeps: sessions, finitely many, and with one every later one.
LEMMA KeptAreLatest ==
    ASSUME DOMAIN pools \subseteq Dates, NEW i
    PROVE  /\ Kept(i) \in SUBSET Sessions(i)
           /\ Cardinality(Kept(i)) \in Nat
           /\ \A d \in Kept(i) : \A e \in Sessions(i) : e > d => e \in Kept(i)
           /\ \A d \in Found(i) : \A e \in Sessions(i) : e > d => e \in Found(i)
<1> DEFINE F == Found(i)
           later(d) == {e \in F : e > d}
<1>1. Asked \in Nat /\ Reach \in Int /\ LastDay \in Int
    BY AskedIsNat, HistoryConstants
<1>2. /\ F \in SUBSET Sessions(i) /\ IsFiniteSet(F)
      /\ \A d \in Sessions(i) : d \in Int
    <2>1. F \in SUBSET Sessions(i)
        BY DEF Found
    <2> QED BY <2>1, SessionsAreDays
<1>3. ASSUME NEW d \in F, NEW e \in Sessions(i), e > d
      PROVE  e \in F
    <2>1. d \in Int /\ e \in Int /\ d + Reach >= LastDay
        BY <1>2 DEF Found
    <2>2. e + Reach >= LastDay
        BY <1>1, <1>3, <2>1
    <2> QED BY <2>2 DEF Found
<1>4. /\ Kept(i) = {d \in F : Cardinality(later(d)) < Asked}
      /\ \A d \in F : IsFiniteSet(later(d)) /\ Cardinality(later(d)) \in Nat
    <2>1. Kept(i) = {d \in F : Cardinality(later(d)) < Asked}
        BY DEF Kept
    <2>2. ASSUME NEW d \in F PROVE IsFiniteSet(later(d))
        <3>1. later(d) \in SUBSET F
            OBVIOUS
        <3> HIDE DEF F, later
        <3> QED BY <1>2, <3>1, FS_Subset
    <2> HIDE DEF F, later
    <2> QED BY <2>1, <2>2, FS_CardinalityType
<1>5. ASSUME NEW d \in Kept(i), NEW e \in Sessions(i), e > d
      PROVE  e \in Kept(i)
    <2>1. d \in F /\ e \in F /\ d \in Int /\ e \in Int
        BY <1>2, <1>3, <1>4, <1>5
    <2>2. later(e) \in SUBSET later(d)
        <3>1. \A x \in F : x \in Int
            BY <1>2
        <3> HIDE DEF F
        <3>2. \A x \in Int : x > e => x > d
            BY <1>5, <2>1
        <3> QED BY <3>1, <3>2
    <2>3. Cardinality(later(e)) <= Cardinality(later(d))
        BY <1>4, <2>1, <2>2, FS_Subset
    <2>4. /\ Cardinality(later(d)) < Asked
          /\ Cardinality(later(d)) \in Nat /\ Cardinality(later(e)) \in Nat
        BY <1>4, <2>1
    <2> HIDE DEF later
    <2>5. Cardinality(later(e)) < Asked
        BY <1>1, <2>3, <2>4
    <2> QED BY <1>4, <2>1, <2>5
<1>6. Kept(i) \in SUBSET Sessions(i)
    BY <1>2, <1>4
<1>7. Cardinality(Kept(i)) \in Nat
    <2>1. IsFiniteSet(Kept(i))
        BY <1>6, SessionsAreDays
    <2> QED BY <2>1, FS_CardinalityType
<1> QED BY <1>3, <1>5, <1>6, <1>7

\* What has been saved of an instrument is what its file in _done promises.
LEMMA DoneTellsPools ==
    ASSUME HistoryTypeOK, PoolDaysAreDates, DoneIsSaved
    PROVE  DoneIsDownloaded
<1>1. SUFFICES ASSUME Readable, NEW i \in HistoryStocks \cup Indices,
                      NEW d \in DOMAIN pools \cap Sessions(i), done[i] # None,
                      ~(d + Reach < LastDay),
                      ~ \E e \in Sessions(i) \ DOMAIN pools : e > d,
                      ~(done[i] < Cardinality(Kept(i)))
               PROVE  d \in Saved(i)
    BY DEF DoneIsDownloaded
<1> DEFINE S == Sessions(i)
           P == DOMAIN pools
           later == {e \in S : e > d}
<1>2. /\ P \subseteq Dates /\ d \in Dates /\ d \in S /\ d \in P
      /\ \A x \in S : x \in Int
    BY <1>1, SessionsAreDays DEF PoolDaysAreDates
<1>3. /\ IsFiniteSet(P) /\ Asked = Cardinality(P) /\ Asked \in Nat
      /\ Reach \in Int /\ LastDay \in Int
    BY <1>2, AskedIsNat, HistoryConstants
<1>4. d \in Found(i)
    <2>1. d + Reach >= LastDay
        BY <1>1, <1>2, <1>3
    <2> QED BY <1>2, <2>1 DEF Found
<1>5. later \in SUBSET P /\ IsFiniteSet(later) /\ d \notin later
    <2>1. later \in SUBSET P
        BY <1>1
    <2>2. ~(d > d)
        BY <1>2
    <2>3. IsFiniteSet(later)
        BY <1>3, <2>1, FS_Subset
    <2> QED BY <2>1, <2>2, <2>3
<1>6. Cardinality(later) \in Nat /\ Cardinality(later) < Asked
    <2>1. Cardinality(later) <= Cardinality(P) /\ Cardinality(later) # Cardinality(P)
        BY <1>2, <1>3, <1>5, FS_Subset
    <2>2. Cardinality(later) \in Nat
        BY <1>5, FS_CardinalityType
    <2> HIDE DEF later, P
    <2> QED BY <1>3, <2>1, <2>2
<1>7. d \in Kept(i) /\ later \in SUBSET Kept(i)
    <2>1. {e \in Found(i) : e > d} = later
        <3>1. \A e \in later : e \in Found(i)
            BY <1>2, <1>4, KeptAreLatest
        <3>2. Found(i) \in SUBSET S
            BY DEF Found
        <3> QED BY <3>1, <3>2
    <2>2. d \in Kept(i)
        BY <1>4, <1>6, <2>1 DEF Kept
    <2> QED BY <1>2, <2>2, KeptAreLatest
<1>8. Cardinality(later) < done[i] /\ done[i] \in Nat
    <2>1. IsFiniteSet(Kept(i)) /\ Cardinality(Kept(i)) \in Nat
        BY <1>2, KeptAreLatest, SessionsAreDays
    <2>2. /\ Cardinality(later) <= Cardinality(Kept(i))
          /\ Cardinality(later) # Cardinality(Kept(i))
        BY <1>5, <1>7, <2>1, FS_Subset
    <2>3. done[i] \in Nat
        BY <1>1 DEF HistoryTypeOK
    <2>4. Cardinality(Kept(i)) = Cardinality(Kept(i))
        OBVIOUS
    <2> HIDE DEF later
    <2>5. Cardinality(later) < done[i]
        BY <1>1, <1>6, <2>1, <2>2, <2>3, <2>4
    <2> QED BY <2>3, <2>5
<1>9. d \in LastSessions(i, done[i])
    BY <1>2, <1>8 DEF LastSessions
<1> QED BY <1>1, <1>2, <1>9 DEF DoneIsSaved

\* What a step of the history changes, and which step it is then.
LEMMA HistoryChanges ==
    ASSUME HistoryNext
    PROVE  /\ market' = market /\ (today' = today \/ today' = today + 1)
           /\ daily' = daily \/ SaveDaily
           /\ \/ pools' = pools
              \/ step = "pools" /\ WritePools
              \/ step = "pools" /\ step' = "off" /\ pools' \in {<<>>, Torn}
           /\ done' = done \/ \E i \in HistoryStocks \cup Indices : MarkDone(i)
           /\ \/ files' = files
              \/ \E i \in HistoryStocks \cup Indices :
                     SaveSession(i) \/ EnsureCached(i, Dates)
           /\ (runs' = runs /\ (step' # "off" => step # "off")) \/ RunBegins
<1>1. CASE RunBegins
    BY <1>1 DEF RunBegins
<1>2. CASE Killed
    BY <1>2 DEF Killed, RunEnds
<1>3. CASE KeepDaily
    BY <1>3 DEF KeepDaily, NextStock
<1>4. CASE FetchWindow
    BY <1>4 DEF FetchWindow
<1>5. CASE SaveDaily
    BY <1>5 DEF SaveDaily, NextStock
<1>6. CASE DailyFails
    BY <1>6 DEF DailyFails, NextStock
<1>7. CASE ReusePools
    BY <1>7 DEF ReusePools, ToBars
<1>8. CASE WritePools
    BY <1>8 DEF WritePools, ToBars
<1>9. CASE PoolsRaise
    BY <1>9 DEF PoolsRaise, RunEnds
<1>10. CASE KilledWriting
    BY <1>10 DEF KilledWriting, RunEnds
<1>11. CASE \E i \in HistoryStocks \cup Indices : SaveSession(i)
    BY <1>11 DEF SaveSession
<1>12. CASE \E i \in HistoryStocks \cup Indices : MarkDone(i)
    BY <1>12 DEF MarkDone
<1>13. CASE \E i \in HistoryStocks \cup Indices : BarsFail(i)
    BY <1>13 DEF BarsFail
<1>14. CASE \E i \in HistoryStocks \cup Indices : EnsureCached(i, Dates)
    BY <1>14 DEF EnsureCached
<1>15. CASE AllFetched
    BY <1>15 DEF AllFetched, RunEnds
<1>16. CASE DayPasses
    BY <1>16 DEF DayPasses
<1> QED BY <1>1, <1>2, <1>3, <1>4, <1>5, <1>6, <1>7, <1>8, <1>9, <1>10, <1>11, <1>12, <1>13, <1>14,
           <1>15, <1>16 DEF HistoryNext

\* Where the step of a run, and what it has read, come from.
LEMMA HistorySteps ==
    ASSUME HistoryNext
    PROVE  /\ step' = "daily" =>
                  \/ from' = Start /\ batch' = <<>>
                  \/ FetchWindow
                  \/ step = "daily" /\ left' = left /\ from' = from /\ batch' = batch
           /\ step' \in {"daily", "pools"} =>
                  pools' = pools /\ (step \in {"daily", "pools"} \/ RunBegins)
           /\ step' = "bars" =>
                  \/ WritePools
                  \/ ReusePools
                  \/ step = "bars" /\ pools' = pools /\ daily' = daily /\ errors' = errors /\ runs' = runs
<1>1. CASE RunBegins
    BY <1>1 DEF RunBegins
<1>2. CASE Killed \/ PoolsRaise \/ KilledWriting \/ AllFetched
    BY <1>2 DEF Killed, PoolsRaise, KilledWriting, AllFetched, RunEnds
<1>3. CASE KeepDaily \/ SaveDaily \/ DailyFails
    BY <1>3 DEF KeepDaily, SaveDaily, DailyFails, NextStock
<1>4. CASE FetchWindow
    BY <1>4 DEF FetchWindow
<1>5. CASE ReusePools \/ WritePools
    BY <1>5 DEF ReusePools, WritePools, ToBars
<1>6. CASE \E i \in HistoryStocks \cup Indices :
              SaveSession(i) \/ MarkDone(i) \/ BarsFail(i)
    BY <1>6 DEF SaveSession, MarkDone, BarsFail
<1>7. CASE \/ \E i \in HistoryStocks \cup Indices : EnsureCached(i, Dates)
           \/ DayPasses
    BY <1>7 DEF EnsureCached, DayPasses
<1> QED BY <1>1, <1>2, <1>3, <1>4, <1>5, <1>6, <1>7 DEF HistoryNext

\* A step of the history keeps the types.
LEMMA StepHistoryTypeOK ==
    ASSUME HistoryTypeOK, PoolDaysAreDates, HistoryNext
    PROVE  HistoryTypeOK'
<1>1. market' \in Markets /\ today' \in Nat /\ runs' \in Nat
    <2>1. RunBegins => runs' = runs + 1
        BY DEF RunBegins
    <2> QED BY <2>1, HistoryChanges DEF HistoryTypeOK
<1>2. DOMAIN daily' = HistoryStocks
    <2>1. SaveDaily => DOMAIN daily' = DOMAIN daily
        BY DEF SaveDaily
    <2> QED BY <2>1, HistoryChanges DEF HistoryTypeOK
<1>3. done' \in [HistoryStocks \cup Indices -> Nat \cup {None}]
    <2>1. ASSUME NEW i \in HistoryStocks \cup Indices, MarkDone(i)
          PROVE  done' \in [HistoryStocks \cup Indices -> Nat \cup {None}]
        <3>1. DOMAIN pools \subseteq Dates
            BY <2>1 DEF PoolDaysAreDates, MarkDone
        <3>2. Cardinality(Kept(i)) \in Nat
            BY <3>1, KeptAreLatest
        <3>3. done' = [done EXCEPT ![i] = Cardinality(Kept(i))]
            BY <2>1 DEF MarkDone
        <3> QED BY <3>2, <3>3 DEF HistoryTypeOK
    <2> QED BY <2>1, HistoryChanges DEF HistoryTypeOK
<1>4. files' \in [HistoryStocks \cup Indices -> [Dates -> {None, "whole", "part", "empty"}]]
    <2> DEFINE F == [Dates -> {None, "whole", "part", "empty"}]
    <2>1. ASSUME NEW i \in HistoryStocks \cup Indices, SaveSession(i)
          PROVE  files' \in [HistoryStocks \cup Indices -> F]
        <3>1. PICK d : files' = [files EXCEPT ![i][d] = "whole"]
            BY <2>1 DEF SaveSession
        <3> QED BY <3>1 DEF HistoryTypeOK
    <2>2. ASSUME NEW i \in HistoryStocks \cup Indices, EnsureCached(i, Dates)
          PROVE  files' \in [HistoryStocks \cup Indices -> F]
        <3>1. PICK missing : files' = [files EXCEPT ![i] =
                  [d \in Dates |-> IF d \in missing THEN Answer(i, d) ELSE @[d]]]
            BY <2>2 DEF EnsureCached
        <3>2. \A d : Answer(i, d) \in {"whole", "part", "empty"}
            BY DEF Answer
        <3> DEFINE row == [d \in Dates |->
                               IF d \in missing THEN Answer(i, d) ELSE files[i][d]]
        <3>3. row \in F
            BY <3>2 DEF HistoryTypeOK
        <3>4. files' = [files EXCEPT ![i] = row]
            BY <3>1
        <3> HIDE DEF row
        <3> QED BY <3>3, <3>4 DEF HistoryTypeOK
    <2> QED BY <2>1, <2>2, HistoryChanges DEF HistoryTypeOK
<1>5. Dates' = Dates
    BY DEF Dates
<1> QED BY <1>1, <1>2, <1>3, <1>4, <1>5 DEF HistoryTypeOK

\* A window of candles joins those before it without a gap or a day twice.
LEMMA StepBatchIsWhole ==
    ASSUME BatchIsWhole, HistoryNext
    PROVE  BatchIsWhole'
<1> SUFFICES ASSUME step' = "daily"
             PROVE  /\ from' \in Int
                    /\ batch' = InOrder({d \in Sessions(Stock) : d < from})'
    BY DEF BatchIsWhole
<1>0. /\ InOrder({d \in Sessions(Stock) : d < from})' =
             InOrder({d \in Sessions(Stock') : d < from'})
      /\ Start \in Int /\ LastDay \in Int /\ Span \in Int
    <2>1. market' = market
        BY HistoryChanges
    <2>2. Sessions(Stock)' = Sessions(Stock')
        BY <2>1 DEF Sessions, Start
    <2>3. {d \in Sessions(Stock) : d < from}' =
          {d \in Sessions(Stock') : d < from'}
        BY <2>2
    <2>4. InOrder({d \in Sessions(Stock) : d < from})' =
          InOrder({d \in Sessions(Stock') : d < from'})
        BY <2>3
    <2> QED BY <2>4, HistoryConstants
<1>1. CASE from' = Start /\ batch' = <<>>
    <2> DEFINE j == Stock'
    <2>1. {d \in Sessions(j) : d < from'} = {}
        <3>1. \A d \in Sessions(j) : d \in Int /\ Start <= d
            BY SessionsAreDays
        <3> QED BY <1>0, <1>1, <3>1
    <2> QED BY <1>0, <1>1, <2>1, InOrderEmpty
<1>2. CASE FetchWindow
    <2> DEFINE S == Sessions(Stock)
               end == Min({LastDay, from + Span})
               A == {d \in S : d < from}
               B == {d \in S : from <= d /\ d <= end}
    <2>1. /\ step = "daily" /\ from <= LastDay /\ from' = end + 1
          /\ batch' = batch \o InOrder(B) /\ Stock' = Stock
        BY <1>2 DEF FetchWindow, NextWindow, Stock, Min
    <2>2. from \in Int /\ batch = InOrder(A)
        BY <2>1 DEF BatchIsWhole
    <2>3. end \in Int /\ from <= end
        <3>1. end = IF LastDay <= from + Span THEN LastDay ELSE from + Span
            BY <1>0, <2>2, MinOfTwo
        <3>2. Span \in Nat
            BY HistoryConstants
        <3> QED BY <1>0, <2>1, <2>2, <3>1, <3>2
    <2>4. /\ A \in SUBSET Int /\ IsFiniteSet(A) /\ B \in SUBSET Int /\ IsFiniteSet(B)
          /\ \A x \in S : x \in Int
        BY SessionsAreDays
    <2> HIDE DEF S, end
    <2>5. \A x \in A, y \in B : x < y
        BY <2>2, <2>4
    <2>6. A \cup B = {d \in S : d < from'}
        BY <2>1, <2>2, <2>3, <2>4
    <2>7. batch' = InOrder(A \cup B)
        BY <2>1, <2>2, <2>4, <2>5, InOrderJoins
    <2>8. from' \in Int
        BY <2>1, <2>3
    <2> QED BY <1>0, <2>1, <2>6, <2>7, <2>8 DEF S
<1>3. CASE step = "daily" /\ left' = left /\ from' = from /\ batch' = batch
    <2>1. Stock' = Stock
        BY <1>3 DEF Stock, Min
    <2> QED BY <1>0, <1>3, <2>1 DEF BatchIsWhole
<1> QED BY <1>1, <1>2, <1>3, HistorySteps

\* What the market was is not changed by what is fetched of it.
LEMMA SessionsStay ==
    ASSUME HistoryNext
    PROVE  \A i : Sessions(i)' = Sessions(i)
BY HistoryChanges DEF Sessions, Start

\* A file of daily candles is saved when its last window is read.
LEMMA StepDailyIsWhole ==
    ASSUME HistoryTypeOK, BatchIsWhole, DailyIsWhole, HistoryNext
    PROVE  DailyIsWhole'
<1> SUFFICES ASSUME NEW s \in HistoryStocks, daily'[s] # None
             PROVE  daily'[s] = InOrder(Sessions(s))
    BY SessionsStay DEF DailyIsWhole
<1>1. CASE daily' = daily
    BY <1>1 DEF DailyIsWhole
<1>2. CASE SaveDaily
    <2>1. /\ step = "daily" /\ from > LastDay
          /\ daily' = [daily EXCEPT ![Stock] = batch] /\ DOMAIN daily = HistoryStocks
        BY <1>2 DEF SaveDaily, HistoryTypeOK
    <2>2. CASE s = Stock
        <3>1. from \in Int /\ batch = InOrder({d \in Sessions(s) : d < from})
            BY <2>1, <2>2 DEF BatchIsWhole
        <3>2. \A d \in Sessions(s) : d \in Int /\ d <= LastDay
            BY SessionsAreDays
        <3>3. {d \in Sessions(s) : d < from} = Sessions(s)
            BY <2>1, <3>1, <3>2, HistoryConstants
        <3> QED BY <2>1, <2>2, <3>1, <3>3
    <2>3. CASE s # Stock
        BY <2>1, <2>3 DEF DailyIsWhole
    <2> QED BY <2>2, <2>3
<1> QED BY <1>1, <1>2, HistoryChanges

\* What writing the pools does, and what it leaves alone.
LEMMA PoolsOfWrite ==
    ASSUME WritePools
    PROVE  /\ pools' = BuildPools /\ step = "pools" /\ daily' = daily /\ market' = market
           /\ runs' = runs /\ errors' = errors
BY DEF WritePools, ToBars

\* A step keeps the days of the pools among the dates.
LEMMA StepPoolDaysAreDates ==
    ASSUME DailyIsWhole, PoolDaysAreDates, HistoryNext
    PROVE  PoolDaysAreDates'
<1> SUFFICES ASSUME Readable' \/ step' = "bars"
             PROVE  DOMAIN pools' \subseteq Dates
    BY DEF PoolDaysAreDates, Dates
<1>1. CASE pools' = pools
    <2>1. CASE Readable'
        BY <1>1, <2>1 DEF Readable, PoolDaysAreDates
    <2>2. CASE step' = "bars" /\ ~Readable'
        <3>1. CASE WritePools
            BY <3>1, PoolsOfWrite, BuiltPools
        <3>2. CASE ReusePools
            BY <1>1, <2>2, <3>2 DEF ReusePools, Readable
        <3>3. CASE step = "bars"
            BY <1>1, <3>3 DEF PoolDaysAreDates
        <3> QED BY <2>2, <3>1, <3>2, <3>3, HistorySteps
    <2> QED BY <2>1, <2>2
<1>2. CASE WritePools
    BY <1>2, PoolsOfWrite, BuiltPools
<1>3. CASE step' = "off" /\ pools' \in {<<>>, Torn}
    BY <1>3 DEF Readable
<1> QED BY <1>1, <1>2, <1>3, HistoryChanges

\* Pools that are written know only the past, and those that are kept did.
LEMMA StepPoolsKnowThePast ==
    ASSUME DailyIsWhole, PoolsKnowThePast, HistoryNext
    PROVE  PoolsKnowThePast'
<1> SUFFICES ASSUME Readable', NEW d \in DOMAIN pools', NEW s \in DOMAIN pools'[d],
                    NEW before, before = {x \in Sessions(s) : x < d}
             PROVE  /\ pools'[d][s].prev_close = Max(before)
                    /\ pools'[d][s].sessions = Min({Prior, Cardinality(before)})
    BY SessionsStay DEF PoolsKnowThePast
<1>1. CASE pools' = pools
    BY <1>1 DEF PoolsKnowThePast, Readable
<1>2. CASE WritePools
    BY <1>2, PoolsOfWrite, BuiltPools
<1>3. CASE pools' \in {<<>>, Torn}
    BY <1>3 DEF Readable
<1> QED BY <1>1, <1>2, <1>3, HistoryChanges

\* Pools come into being in the step after the first run's daily candles.
LEMMA StepFirstRunHasNoPools ==
    ASSUME HistoryTypeOK, FirstRunHasNoPools, HistoryNext
    PROVE  FirstRunHasNoPools'
<1>1. CASE RunBegins
    <2>1. step = "off" /\ step' = "daily" /\ runs' = runs + 1 /\ pools' = pools /\ runs \in Nat
        BY <1>1 DEF RunBegins, HistoryTypeOK
    <2>2. runs' # 0 /\ (runs' = 1 => runs = 0)
        BY <2>1
    <2> QED BY <2>1, <2>2 DEF FirstRunHasNoPools
<1>2. CASE runs' = runs /\ (step' # "off" => step # "off")
    <2>1. runs = 0 => pools' = pools
        BY HistoryChanges DEF FirstRunHasNoPools
    <2>2. step' \in {"daily", "pools"} =>
              pools' = pools /\ (step \in {"daily", "pools"} \/ RunBegins)
        BY HistorySteps
    <2>3. RunBegins => step = "off"
        BY DEF RunBegins
    <2> QED BY <1>2, <2>1, <2>2, <2>3 DEF FirstRunHasNoPools
<1> QED BY <1>1, <1>2, HistoryChanges

\* The pools of the same daily files in the same market are the same.
LEMMA PoolsStay ==
    ASSUME market' = market, daily' = daily
    PROVE  BuildPools' = BuildPools
<1>1. Have' = Have
    BY DEF Have
<1>2. TradingDays' = TradingDays
    BY <1>1 DEF TradingDays, TradedOn, Dates
<1>3. ASSUME NEW s, NEW d PROVE Stats(s, d)' = Stats(s, d)
    <2>1. DatesBefore(s, d)' = DatesBefore(s, d)
        BY DEF DatesBefore
    <2>2. LastOf(DatesBefore(s, d), Prior)' = LastOf(DatesBefore(s, d), Prior)
        BY <2>1
    <2> QED BY <2>2 DEF Stats
<1>4. ASSUME NEW d PROVE PoolOf(d)' = PoolOf(d)
    BY <1>1, <1>3 DEF PoolOf
<1> QED BY <1>2, <1>4 DEF BuildPools

\* Bars are fetched for the pools of the daily files, or for older ones that a run
\* without errors has found.
LEMMA StepPoolsFollowFiles ==
    ASSUME HistoryTypeOK, FirstRunHasNoPools, PoolsFollowFiles, HistoryNext
    PROVE  PoolsFollowFiles'
<1> SUFFICES ASSUME step' = "bars"
             PROVE  pools' = BuildPools' \/ (errors' = {} /\ runs' > 1)
    BY DEF PoolsFollowFiles
<1>1. daily' = daily => BuildPools' = BuildPools
    BY HistoryChanges, PoolsStay
<1>2. CASE WritePools
    BY <1>1, <1>2, PoolsOfWrite
<1>3. CASE ReusePools
    <2>1. /\ errors = {} /\ errors' = errors /\ pools # None /\ step = "pools" /\ runs' = runs
          /\ runs \in Nat
        BY <1>3 DEF ReusePools, Reused, ToBars, HistoryTypeOK
    <2>2. runs # 0 /\ runs # 1
        BY <2>1 DEF FirstRunHasNoPools
    <2> QED BY <2>1, <2>2
<1>4. CASE step = "bars" /\ pools' = pools /\ daily' = daily /\ errors' = errors /\ runs' = runs
    BY <1>1, <1>4 DEF PoolsFollowFiles
<1> QED BY <1>2, <1>3, <1>4, HistorySteps

\* What is marked as done was saved, and what was saved stays.
LEMMA StepDoneIsSaved ==
    ASSUME HistoryTypeOK, PoolDaysAreDates, DoneIsSaved, HistoryNext
    PROVE  DoneIsSaved'
<1>0. \A i, n : LastSessions(i, n)' = LastSessions(i, n)
    BY SessionsStay DEF LastSessions
<1> SUFFICES ASSUME NEW i \in HistoryStocks \cup Indices, done'[i] # None
             PROVE  LastSessions(i, done'[i]) \cap Dates \subseteq Saved(i)'
    BY <1>0 DEF DoneIsSaved, Dates
<1>1. Saved(i) \subseteq Saved(i)'
    <2>1. ASSUME NEW j \in HistoryStocks \cup Indices, SaveSession(j), NEW d \in Saved(i)
          PROVE  d \in Saved(i)'
        <3>1. PICK e : files' = [files EXCEPT ![j][e] = "whole"]
            BY <2>1 DEF SaveSession
        <3>2. d \in Dates /\ files[i][d] = "whole"
            BY <2>1 DEF Saved
        <3>3. files'[i][d] = "whole"
            BY <3>1, <3>2 DEF HistoryTypeOK
        <3> QED BY <3>2, <3>3 DEF Saved, Dates
    <2>2. ASSUME NEW j \in HistoryStocks \cup Indices, EnsureCached(j, Dates),
                 NEW d \in Saved(i)
          PROVE  d \in Saved(i)'
        <3> DEFINE missing == {x \in Dates : Past(x) /\ files[j][x] = None}
        <3>1. files' = [files EXCEPT ![j] =
                  [x \in Dates |-> IF x \in missing THEN Answer(j, x) ELSE @[x]]]
            BY <2>2 DEF EnsureCached
        <3>2. d \in Dates /\ files[i][d] = "whole"
            BY <2>2 DEF Saved
        <3>3. "whole" # None
            BY HistoryAssumption
        <3>4. CASE j = i
            <4>1. d \notin missing
                BY <3>2, <3>3, <3>4
            <4> HIDE DEF missing
            <4>2. files'[i][d] = files[i][d]
                BY <3>1, <3>2, <3>4, <4>1 DEF HistoryTypeOK
            <4> QED BY <3>2, <4>2 DEF Saved, Dates
        <3>5. CASE j # i
            <4> HIDE DEF missing
            <4>1. files'[i] = files[i]
                BY <3>1, <3>5 DEF HistoryTypeOK
            <4> QED BY <3>2, <4>1 DEF Saved, Dates
        <3> QED BY <3>4, <3>5
    <2>3. files' = files => Saved(i)' = Saved(i)
        BY DEF Saved, Dates
    <2> QED BY <2>1, <2>2, <2>3, HistoryChanges
<1>2. CASE done' = done
    BY <1>1, <1>2 DEF DoneIsSaved
<1>3. ASSUME NEW j \in HistoryStocks \cup Indices, MarkDone(j)
      PROVE  LastSessions(i, done'[i]) \cap Dates \subseteq Saved(i)'
    <2> DEFINE K == Kept(j)
    <2>1. /\ done' = [done EXCEPT ![j] = Cardinality(K)]
          /\ K \cap Dates \subseteq Saved(j)
          /\ DOMAIN pools \subseteq Dates
        BY <1>3 DEF MarkDone, PoolDaysAreDates
    <2>2. CASE i = j
        <3>1. done'[i] = Cardinality(K)
            BY <2>1, <2>2 DEF HistoryTypeOK
        <3>2. /\ K \in SUBSET Sessions(j)
              /\ \A d \in K : \A e \in Sessions(j) : e > d => e \in K
            BY <2>1, KeptAreLatest
        <3> HIDE DEF K
        <3>3. LastSessions(j, Cardinality(K)) \subseteq K
            BY <3>2, LastAreLatest
        <3> QED BY <1>1, <2>1, <2>2, <3>1, <3>3
    <2>3. CASE i # j
        <3>1. done'[i] = done[i]
            BY <2>1, <2>3 DEF HistoryTypeOK
        <3> QED BY <1>1, <3>1 DEF DoneIsSaved
    <2> QED BY <2>2, <2>3
<1> QED BY <1>2, <1>3, HistoryChanges

\* A file is written once, of a day that is over, and says what was traded.
LEMMA StepFilesTellTheDay ==
    ASSUME HistoryTypeOK, FilesTellTheDay, HistoryNext
    PROVE  FilesTellTheDay'
<1> DEFINE Tells(i, d) == IF market[i][d] > 0 THEN "whole" ELSE "empty"
<1>1. SUFFICES ASSUME NEW i \in HistoryStocks \cup Indices, NEW d \in Dates, files'[i][d] # None
               PROVE  files'[i][d] = Tells(i, d)
    BY HistoryChanges DEF FilesTellTheDay, Dates
<1>2. files[i][d] # None => files[i][d] = Tells(i, d)
    BY DEF FilesTellTheDay
<1>3. CASE files' = files
    BY <1>1, <1>2, <1>3
<1>4. ASSUME NEW j \in HistoryStocks \cup Indices, SaveSession(j)
      PROVE  files'[i][d] = Tells(i, d)
    <2> DEFINE missing == (Kept(j) \cap Dates) \ Saved(j)
               e == Min(missing)
    <2>1. missing # {} /\ files' = [files EXCEPT ![j][e] = "whole"]
        BY <1>4 DEF SaveSession
    <2>2. e \in missing
        <3>1. missing \in SUBSET Nat
            BY HistoryConstants
        <3> HIDE DEF missing
        <3> QED BY <2>1, <3>1, MinOfNaturals
    <2>3. market[j][e] > 0
        BY <2>2 DEF Kept, Found, Sessions
    <2> HIDE DEF e
    <2>4. CASE i = j /\ d = e
        <3>1. files'[i][d] = "whole"
            BY <2>1, <2>4 DEF HistoryTypeOK
        <3> QED BY <2>3, <2>4, <3>1
    <2>5. CASE ~(i = j /\ d = e)
        <3>1. files'[i][d] = files[i][d]
            BY <2>1, <2>5 DEF HistoryTypeOK
        <3> QED BY <1>1, <1>2, <3>1
    <2> QED BY <2>4, <2>5
<1>5. ASSUME NEW j \in HistoryStocks \cup Indices, EnsureCached(j, Dates)
      PROVE  files'[i][d] = Tells(i, d)
    <2> DEFINE missing == {x \in Dates : Past(x) /\ files[j][x] = None}
    <2>1. files' = [files EXCEPT ![j] =
              [x \in Dates |-> IF x \in missing THEN Answer(j, x) ELSE @[x]]]
        BY <1>5 DEF EnsureCached
    <2>2. d \in missing => d < today
        BY DEF Past
    <2> HIDE DEF missing
    <2>3. CASE i = j /\ d \in missing
        <3>1. files'[i][d] = Answer(i, d)
            BY <2>1, <2>3 DEF HistoryTypeOK
        <3>2. market[i][d] \in Nat
            <4>1. d \in FirstDay - Lead .. LastDay
                BY HistoryConstants DEF Dates
            <4> QED BY <4>1, HistoryAssumption DEF HistoryTypeOK
        <3>3. Answer(i, d) = Tells(i, d)
            BY <2>2, <2>3, <3>2 DEF Answer
        <3> QED BY <3>1, <3>3
    <2>4. CASE ~(i = j /\ d \in missing)
        <3>1. files'[i][d] = files[i][d]
            BY <2>1, <2>4 DEF HistoryTypeOK
        <3> QED BY <1>1, <1>2, <3>1
    <2> QED BY <2>3, <2>4
<1> QED BY <1>3, <1>4, <1>5, HistoryChanges

\* A history begins with nothing downloaded.
LEMMA HistoryInitIInv ==
    ASSUME HistoryInit
    PROVE  HistoryIInv
<1>1. HistoryTypeOK
    <2>1. LastDay \in Nat /\ LastDay + 1 \in Nat /\ \A t \in LastDay .. LastDay + 1 : t \in Nat
        BY HistoryConstants
    <2> QED BY <2>1 DEF HistoryInit, HistoryTypeOK
<1>2. \A s \in HistoryStocks : daily[s] = None
    BY DEF HistoryInit
<1>3. \A i \in HistoryStocks \cup Indices : done[i] = None /\ \A d \in Dates : files[i][d] = None
    BY DEF HistoryInit
<1>4. pools = None /\ step = "off" /\ runs = 0
    BY DEF HistoryInit
<1>5. BatchIsWhole /\ DailyIsWhole /\ PoolDaysAreDates
    BY <1>2, <1>4 DEF BatchIsWhole, DailyIsWhole, PoolDaysAreDates, Readable
<1>6. PoolsKnowThePast /\ FirstRunHasNoPools /\ PoolsFollowFiles
    BY <1>4 DEF PoolsKnowThePast, Readable, FirstRunHasNoPools, PoolsFollowFiles
<1>7. DoneIsSaved /\ FilesTellTheDay
    BY <1>3 DEF DoneIsSaved, FilesTellTheDay
<1> QED BY <1>1, <1>5, <1>6, <1>7 DEF HistoryIInv

\* Every step of the history keeps the invariant.
LEMMA HistoryStaysSound ==
    ASSUME HistoryIInv, HistoryNext
    PROVE  HistoryIInv'
<1> USE DEF HistoryIInv
<1>1. HistoryTypeOK'
    BY StepHistoryTypeOK
<1>2. BatchIsWhole'
    BY StepBatchIsWhole
<1>3. DailyIsWhole'
    BY StepDailyIsWhole
<1>4. PoolDaysAreDates'
    BY StepPoolDaysAreDates
<1>5. PoolsKnowThePast'
    BY StepPoolsKnowThePast
<1>6. FirstRunHasNoPools'
    BY StepFirstRunHasNoPools
<1>7. PoolsFollowFiles'
    BY StepPoolsFollowFiles
<1>8. DoneIsSaved'
    BY StepDoneIsSaved
<1>9. FilesTellTheDay'
    BY StepFilesTellTheDay
<1> QED BY <1>1, <1>2, <1>3, <1>4, <1>5, <1>6, <1>7, <1>8, <1>9

\* The invariant is about the history's variables only.
LEMMA HistoryStutters ==
    ASSUME HistoryIInv, UNCHANGED historyVars
    PROVE  HistoryIInv'
<1>1. /\ market' = market /\ today' = today /\ runs' = runs /\ daily' = daily /\ done' = done
      /\ files' = files /\ step' = step /\ from' = from /\ batch' = batch /\ left' = left
      /\ pools' = pools /\ errors' = errors
    BY DEF historyVars
<1>2. \A i : Sessions(i)' = Sessions(i)
    BY <1>1 DEF Sessions, Start
<1>3. HistoryTypeOK' /\ PoolDaysAreDates' /\ FirstRunHasNoPools'
    BY <1>1 DEF HistoryIInv, HistoryTypeOK, PoolDaysAreDates, FirstRunHasNoPools, Readable,
       Dates
<1>4. BatchIsWhole'
    <2>1. Stock' = Stock
        BY <1>1 DEF Stock
    <2>2. Sessions(Stock)' = Sessions(Stock)
        BY <1>1, <2>1 DEF Sessions, Start
    <2> QED BY <1>1, <2>2 DEF HistoryIInv, BatchIsWhole
<1>5. DailyIsWhole' /\ PoolsKnowThePast'
    BY <1>1, <1>2 DEF HistoryIInv, DailyIsWhole, PoolsKnowThePast, Readable
<1>6. PoolsFollowFiles'
    BY <1>1, PoolsStay DEF HistoryIInv, PoolsFollowFiles
<1>7. DoneIsSaved' /\ FilesTellTheDay'
    BY <1>1, <1>2 DEF HistoryIInv, DoneIsSaved, LastSessions, Saved, Dates, FilesTellTheDay
<1> QED BY <1>3, <1>4, <1>5, <1>6, <1>7 DEF HistoryIInv

\* Whatever fails, is killed and is run again, in any market: daily files are whole,
\* pools know only the past, what counts as done has been downloaded but for the
\* exceptions that DoneIsDownloaded names, and a file tells its day
\* (scripts/fetch_universe_history.py, ensure_cached of paper/backtest.py).
THEOREM HistoryTellsTheMarket == HistorySpec => []HistoryIsSound
<1>1. HistoryIInv /\ [HistoryNext]_historyVars => HistoryIInv'
    BY HistoryStaysSound, HistoryStutters
<1>2. HistoryIInv => HistoryIsSound
    BY DoneTellsPools DEF HistoryIsSound, HistoryIInv
<1> QED BY <1>1, <1>2, HistoryInitIInv, PTL DEF HistorySpec

------------------------------------------------------------------------------
(* The fills and the charges.                                              *)

\* A finite set of numbers that is not empty has a greatest and a least one.
LEMMA GreatestAndLeast ==
    ASSUME NEW S \in SUBSET Nat, IsFiniteSet(S), S # {}
    PROVE  /\ Max(S) \in S /\ \A x \in S : x <= Max(S)
           /\ Min(S) \in S /\ \A x \in S : Min(S) <= x
<1> DEFINE n == Cardinality(S)
<1>1. S \in SUBSET Int /\ n \in Nat /\ n # 0
    <2>1. S \in SUBSET Int
        OBVIOUS
    <2> QED BY <2>1, FS_CardinalityType, FS_EmptySet
<1>2. PICK x \in S : Place(S, x) = n
    <2>1. n \in 1 .. n
        BY <1>1
    <2> QED BY <1>1, <2>1, EveryPlace
<1>3. Below(S, x) = S
    <2>1. Below(S, x) \in SUBSET S /\ Cardinality(Below(S, x)) = Cardinality(S)
        BY <1>2, InOrderPlaces DEF Below
    <2> QED BY <2>1, FS_Subset
<1>4. \A y \in S : y <= x
    BY <1>3 DEF Below
<1>5. \A y \in S : y \in Int
    OBVIOUS
<1>6. Max(S) = x
    <2>1. \A y \in S : (\A z \in S : y >= z) <=> y = x
        BY <1>4, <1>5
    <2> QED BY <2>1 DEF Max
<1>7. PICK y \in S : Place(S, y) = 1
    <2>1. 1 \in 1 .. n
        BY <1>1
    <2> QED BY <1>1, <2>1, EveryPlace
<1>8. \A z \in S : y <= z
    <2> SUFFICES ASSUME NEW z \in S, z < y PROVE FALSE
        BY <1>5
    <2>1. Place(S, z) \in 1 .. n /\ Place(S, z) < Place(S, y)
        BY <1>1, PlacesGrow
    <2> QED BY <1>1, <1>7, <2>1
<1>9. Min(S) = y
    <2>1. \A z \in S : (\A w \in S : z <= w) <=> z = y
        BY <1>5, <1>8
    <2> QED BY <2>1 DEF Min
<1> QED BY <1>4, <1>6, <1>8, <1>9

\* What the minute ranges over, and a minute with a tick.
TicksTypeOK == ticks \in Seq(Prices)
Ticked == TicksTypeOK /\ ticks # <<>>

\* The bar of a minute has its low below and its high above its other prices.
LEMMA MinuteIsABar ==
    ASSUME Ticked
    PROVE  /\ DOMAIN ticks = 1 .. Len(ticks) /\ Len(ticks) \in Nat /\ 1 \in DOMAIN ticks
           /\ \A k \in DOMAIN ticks : /\ k \in Nat /\ ticks[k] \in Nat /\ ticks[k] \in Prices
                                      /\ MinuteBar.low <= ticks[k] /\ ticks[k] <= MinuteBar.high
           /\ \E k \in DOMAIN ticks : ticks[k] = MinuteBar.low
           /\ \E k \in DOMAIN ticks : ticks[k] = MinuteBar.high
           /\ MinuteBar.open = ticks[1] /\ MinuteBar.low \in Nat /\ MinuteBar.high \in Nat
<1>1. /\ DOMAIN ticks = 1 .. Len(ticks) /\ Len(ticks) \in Nat /\ 1 \in DOMAIN ticks
      /\ \A k \in DOMAIN ticks : k \in Nat /\ ticks[k] \in Prices
    BY DEF Ticked, TicksTypeOK
<1>2. Printed \in SUBSET Nat /\ Printed # {}
    BY <1>1, InputAssumption DEF Printed
<1>3. IsFiniteSet(Printed)
    <2>1. IsFiniteSet(1 .. Len(ticks))
        BY <1>1, FS_Interval
    <2>2. ticks \in Surjection(1 .. Len(ticks), Printed)
        <3>1. ticks \in [1 .. Len(ticks) -> Printed] /\ \A x \in Printed : \E k \in 1 .. Len(ticks) : ticks[k] = x
            BY <1>1 DEF Printed, Ticked, TicksTypeOK
        <3> QED BY <3>1 DEF Surjection
    <2> QED BY <2>1, <2>2, FS_Surjection
<1>4. /\ Max(Printed) \in Printed /\ \A x \in Printed : x <= Max(Printed)
      /\ Min(Printed) \in Printed /\ \A x \in Printed : Min(Printed) <= x
    BY <1>2, <1>3, GreatestAndLeast
<1>5. /\ MinuteBar.open = ticks[1] /\ MinuteBar.low = Min(Printed) /\ MinuteBar.high = Max(Printed)
    BY DEF MinuteBar
<1>6. \A k \in DOMAIN ticks : ticks[k] \in Printed
    BY DEF Printed
<1>7. \A x \in Printed : \E k \in DOMAIN ticks : ticks[k] = x
    BY DEF Printed
<1> QED BY <1>1, <1>2, <1>4, <1>5, <1>6, <1>7

\* The orders that are put to a minute have a level and a quantity.
LEMMA OrdersOfAMinute ==
    \A o \in Kind : o[1] \in {"BUY", "SELL"} /\ o[2] \in {"LIMIT", "STOP"} /\ o[3] \in Nat
BY InputAssumption DEF Kind, Side

\* The tick fills what the bar fills.
LEMMA TicksFillTheBar == Ticked => SameFillsOnTicksAndBar
<1> SUFFICES ASSUME Ticked, NEW o \in Kind
             PROVE  BarTouches(o) <=> \E k \in DOMAIN ticks : TickTouches(k, o)
    BY DEF SameFillsOnTicksAndBar
<1> DEFINE side == o[1]  type == o[2]  level == o[3]
<1>1. side \in {"BUY", "SELL"} /\ type \in {"LIMIT", "STOP"} /\ level \in Nat
    BY OrdersOfAMinute
<1>2. /\ \A k \in DOMAIN ticks : ticks[k] \in Nat /\ MinuteBar.low <= ticks[k] /\ ticks[k] <= MinuteBar.high
      /\ \E k \in DOMAIN ticks : ticks[k] = MinuteBar.low
      /\ \E k \in DOMAIN ticks : ticks[k] = MinuteBar.high
      /\ MinuteBar.low \in Nat /\ MinuteBar.high \in Nat
    BY MinuteIsABar
<1>3. \A k \in DOMAIN ticks : TickBar(ticks[k]).low = ticks[k] /\ TickBar(ticks[k]).high = ticks[k]
    BY DEF TickBar
<1> HIDE DEF side, type, level
<1>4. CASE side = "BUY" /\ type = "LIMIT"
    BY <1>1, <1>2, <1>3, <1>4 DEF BarTouches, TickTouches, Touched, side, type, level
<1>5. CASE side = "SELL" /\ type = "LIMIT"
    BY <1>1, <1>2, <1>3, <1>5 DEF BarTouches, TickTouches, Touched, side, type, level
<1>6. CASE side = "BUY" /\ type = "STOP"
    BY <1>1, <1>2, <1>3, <1>6 DEF BarTouches, TickTouches, Touched, side, type, level
<1>7. CASE side = "SELL" /\ type = "STOP"
    BY <1>1, <1>2, <1>3, <1>7 DEF BarTouches, TickTouches, Touched, side, type, level
<1> QED BY <1>1, <1>4, <1>5, <1>6, <1>7

\* What fills on the bar fills between its low and its high.
LEMMA BarFillsInside == Ticked => FillsInsideTheBar
<1> SUFFICES ASSUME Ticked, NEW o \in Kind, BarTouches(o)
             PROVE  /\ MinuteBar.low <= RawPrice(o[1], o[2], o[3], MinuteBar)
                    /\ RawPrice(o[1], o[2], o[3], MinuteBar) <= MinuteBar.high
    BY DEF FillsInsideTheBar
<1>1. o[1] \in {"BUY", "SELL"} /\ o[2] \in {"LIMIT", "STOP"} /\ o[3] \in Nat
    BY OrdersOfAMinute
<1>2. /\ MinuteBar.low <= MinuteBar.open /\ MinuteBar.open <= MinuteBar.high
      /\ MinuteBar.low \in Nat /\ MinuteBar.high \in Nat /\ MinuteBar.open \in Nat
    BY MinuteIsABar
<1>3. Touched(o[1], o[2], o[3], MinuteBar)
    BY DEF BarTouches
<1> QED BY <1>1, <1>2, <1>3 DEF Touched, RawPrice, Lower, Higher

\* What a rounding is: the nearest unit, a tie upwards.
LEMMA RoundDivIs ==
    ASSUME NEW a \in Nat, NEW b \in Nat \ {0}, NEW q, q = RoundDiv(a, b)
    PROVE  /\ q \in Nat /\ 2 * (b * q) <= 2 * a + b /\ 2 * a + b < 2 * (b * q) + 2 * b
<1> DEFINE x == 2 * a + b
           d == 2 * b
<1>1. x \in Nat /\ d \in Nat /\ d > 0 /\ q = x \div d
    BY DEF RoundDiv
<1> HIDE DEF x, d
<1>2. q \in Nat /\ d * q <= x /\ x < d * q + d
    BY <1>1
<1>3. d * q = 2 * (b * q) /\ d = 2 * b
    BY <1>2 DEF d
<1> QED BY <1>2, <1>3 DEF x

\* On the bar a limit fills at its level or better, a stop at its level or worse.
LEMMA BarNeverGives == Ticked => NoGiftFromTheBar
<1> SUFFICES ASSUME Ticked, NEW o \in Kind, BarTouches(o),
                    NEW price, price = FillPrice(o[1], o[2], o[3], MinuteBar)
             PROVE  IF o[2] = "LIMIT" THEN IF o[1] = "BUY" THEN o[3] >= price ELSE o[3] <= price
                                      ELSE IF o[1] = "BUY" THEN price >= o[3] ELSE price <= o[3]
    BY DEF NoGiftFromTheBar
<1> DEFINE raw == RawPrice(o[1], o[2], o[3], MinuteBar)
<1>1. o[1] \in {"BUY", "SELL"} /\ o[2] \in {"LIMIT", "STOP"} /\ o[3] \in Nat
    BY OrdersOfAMinute
<1>2. MinuteBar.open \in Nat
    BY MinuteIsABar
<1>3. raw \in Nat /\ price = IF o[2] = "LIMIT" THEN raw ELSE Slip(raw, o[1])
    BY <1>1, <1>2 DEF FillPrice, RawPrice, Lower, Higher
<1>4. raw * SlipNum \in Nat /\ SlipDen \in Nat \ {0}
    BY <1>3, SlipAssumption
<1>5. RoundDiv(raw * SlipNum, SlipDen) \in Nat
    BY <1>4, RoundDivIs
<1>6. CASE o[2] = "LIMIT"
    BY <1>1, <1>2, <1>3, <1>6 DEF RawPrice, Lower, Higher
<1>7. CASE o[2] = "STOP" /\ o[1] = "BUY"
    <2>1. raw >= o[3]
        BY <1>1, <1>2, <1>7 DEF RawPrice, Higher
    <2>2. price = raw + 1 * RoundDiv(raw * SlipNum, SlipDen)
        BY <1>3, <1>7 DEF Slip, Sign
    <2> HIDE DEF raw
    <2> QED BY <1>1, <1>3, <1>5, <1>7, <2>1, <2>2
<1>8. CASE o[2] = "STOP" /\ o[1] = "SELL"
    <2>1. raw <= o[3]
        BY <1>1, <1>2, <1>8 DEF RawPrice, Lower
    <2>2. price = raw + (-1) * RoundDiv(raw * SlipNum, SlipDen)
        BY <1>3, <1>8 DEF Slip, Sign
    <2> HIDE DEF raw
    <2> QED BY <1>1, <1>3, <1>5, <1>8, <2>1, <2>2
<1> QED BY <1>1, <1>6, <1>7, <1>8

\* A limit order gets no better price from the bar than from the tick it fills on.
LEMMA BarIsNoKinder == Ticked => BarLimitIsConservative
<1> SUFFICES ASSUME Ticked, NEW o \in Kind, o[2] = "LIMIT", BarTouches(o),
                    NEW k, k = Min({j \in DOMAIN ticks : TickTouches(j, o)})
             PROVE  IF o[1] = "BUY"
                    THEN FillPrice(o[1], "LIMIT", o[3], TickBar(ticks[k]))
                         <= FillPrice(o[1], "LIMIT", o[3], MinuteBar)
                    ELSE FillPrice(o[1], "LIMIT", o[3], MinuteBar)
                         <= FillPrice(o[1], "LIMIT", o[3], TickBar(ticks[k]))
    BY DEF BarLimitIsConservative
<1> DEFINE J == {j \in DOMAIN ticks : TickTouches(j, o)}
           t == ticks[k]
           first == ticks[1]
           level == o[3]
<1>1. o[1] \in {"BUY", "SELL"} /\ level \in Nat
    BY OrdersOfAMinute
<1>2. /\ DOMAIN ticks = 1 .. Len(ticks) /\ Len(ticks) \in Nat /\ 1 \in DOMAIN ticks
      /\ MinuteBar.open = first /\ \A j \in DOMAIN ticks : j \in Nat /\ ticks[j] \in Nat
    BY MinuteIsABar
<1>3. k \in J /\ \A j \in J : k <= j
    <2>1. J \in SUBSET Nat /\ J # {}
        BY <1>2, TicksFillTheBar DEF SameFillsOnTicksAndBar
    <2>2. IsFiniteSet(J)
        <3>1. IsFiniteSet(1 .. Len(ticks)) /\ J \in SUBSET (1 .. Len(ticks))
            BY <1>2, FS_Interval
        <3> HIDE DEF J
        <3> QED BY <3>1, FS_Subset
    <2>3. k = Min(J)
        OBVIOUS
    <2> HIDE DEF J
    <2>4. Min(J) \in J /\ \A x \in J : Min(J) <= x
        BY <2>1, <2>2, GreatestAndLeast
    <2> QED BY <2>3, <2>4
<1>4. 1 \in J => k = 1
    <2>1. k \in Nat /\ 1 <= k
        BY <1>2, <1>3
    <2> HIDE DEF J
    <2> QED BY <1>3, <2>1
<1>5. t \in Nat /\ first \in Nat
    BY <1>2, <1>3
<1>6. \A p : TickBar(p).open = p /\ TickBar(p).low = p /\ TickBar(p).high = p
    BY DEF TickBar
<1>7. CASE o[1] = "BUY"
    <2>1. t < level
        BY <1>3, <1>6, <1>7 DEF TickTouches, Touched
    <2>2. first < level => t = first
        <3>1. first < level => 1 \in J
            BY <1>2, <1>6, <1>7 DEF TickTouches, Touched
        <3> QED BY <1>4, <3>1
    <2>3. /\ FillPrice(o[1], "LIMIT", level, TickBar(t)) = Lower(t, level)
          /\ FillPrice(o[1], "LIMIT", level, MinuteBar) = Lower(first, level)
        BY <1>2, <1>6, <1>7 DEF FillPrice, RawPrice
    <2>4. Lower(t, level) <= Lower(first, level)
        <3> HIDE DEF t, first, level
        <3> QED BY <1>1, <1>5, <2>1, <2>2 DEF Lower
    <2> QED BY <1>7, <2>3, <2>4
<1>8. CASE o[1] = "SELL"
    <2>1. t > level
        BY <1>3, <1>6, <1>8 DEF TickTouches, Touched
    <2>2. first > level => t = first
        <3>1. first > level => 1 \in J
            BY <1>2, <1>6, <1>8 DEF TickTouches, Touched
        <3> QED BY <1>4, <3>1
    <2>3. /\ FillPrice(o[1], "LIMIT", level, TickBar(t)) = Higher(t, level)
          /\ FillPrice(o[1], "LIMIT", level, MinuteBar) = Higher(first, level)
        BY <1>2, <1>6, <1>8 DEF FillPrice, RawPrice
    <2>4. Higher(first, level) <= Higher(t, level)
        <3> HIDE DEF t, first, level
        <3> QED BY <1>1, <1>5, <2>1, <2>2 DEF Higher
    <2> QED BY <1>8, <2>3, <2>4
<1> QED BY <1>1, <1>7, <1>8

\* Two roundings lose less than a unit and a half of one of the sum.
LEMMA RoundDivSplits ==
    ASSUME NEW a \in Nat, NEW c \in Nat, NEW e \in Nat, e <= a + c, NEW b \in Nat \ {0}
    PROVE  RoundDiv(e, b) <= RoundDiv(a, b) + RoundDiv(c, b) + 1
<1> DEFINE p == RoundDiv(a, b)
           q == RoundDiv(c, b)
           s == RoundDiv(e, b)
<1>1. /\ p \in Nat /\ 2 * a + b < 2 * (b * p) + 2 * b
      /\ q \in Nat /\ 2 * c + b < 2 * (b * q) + 2 * b
      /\ s \in Nat /\ 2 * (b * s) <= 2 * e + b
    BY RoundDivIs
<1> HIDE DEF p, q, s
<1>2. SUFFICES ASSUME s >= p + q + 2 PROVE FALSE
    <2>1. s <= p + q + 1
        BY <1>1, <1>2
    <2> QED BY <2>1 DEF p, q, s
<1>3. b * s >= b * (p + q + 2)
    BY <1>1, <1>2
<1>4. b * (p + q + 2) = b * p + b * q + 2 * b
    BY <1>1
<1>5. b * p \in Nat /\ b * q \in Nat /\ b * s \in Nat
    BY <1>1
<1> QED BY <1>1, <1>3, <1>4, <1>5

\* The turnover of two executions is that of the one they make up.
LEMMA TurnoverAdds ==
    ASSUME NEW p \in Nat, NEW q \in Nat, NEW r \in Nat
    PROVE  /\ Turnover(q, p) \in Nat /\ Turnover(r, p) \in Nat
           /\ Turnover(q + r, p) = Turnover(q, p) + Turnover(r, p)
BY DEF Turnover

\* A rate of two turnovers adds.
LEMMA RateAdds ==
    ASSUME NEW t \in Nat, NEW u \in Nat, NEW x \in Nat
    PROVE  t * x \in Nat /\ u * x \in Nat /\ (t + u) * x = t * x + u * x
OBVIOUS

\* Rates are fractions of naturals.
LEMMA RatesAreNaturals ==
    /\ Rates.flat \in Nat /\ Rates.min \in Nat /\ Rates.pct \in Nat /\ Rates.stt \in Nat
    /\ Rates.stamp \in Nat /\ Rates.txn \in Nat /\ Rates.sebi \in Nat /\ Rates.ipft \in Nat
    /\ Rates.gst \in Nat /\ RateDen \in Nat \ {0} /\ RateDen * RateDen \in Nat \ {0}
<1>1. RateDen \in Nat \ {0} /\ Rates \in CostRates
    BY RateAssumption
<1>2. RateDen * RateDen \in Nat \ {0}
    BY <1>1
<1> QED BY <1>1, <1>2 DEF CostRates

\* The capped brokerage of two executions is no less than that of one.
LEMMA BrokerageOfTwo ==
    ASSUME NEW t \in Nat, NEW u \in Nat
    PROVE  /\ BrokerageNum(t) \in Nat /\ BrokerageNum(u) \in Nat /\ BrokerageNum(t + u) \in Nat
           /\ BrokerageNum(t + u) <= BrokerageNum(t) + BrokerageNum(u)
<1> DEFINE m == Rates.min * RateDen
           f == Rates.flat * RateDen
           x == t * Rates.pct
           y == u * Rates.pct
           z == (t + u) * Rates.pct
<1>1. m \in Nat /\ f \in Nat
    BY RatesAreNaturals
<1>2. x \in Nat /\ y \in Nat /\ z = x + y
    BY RatesAreNaturals, RateAdds
<1>3. /\ BrokerageNum(t) = Higher(m, Lower(f, x)) /\ BrokerageNum(u) = Higher(m, Lower(f, y))
      /\ BrokerageNum(t + u) = Higher(m, Lower(f, z))
    BY DEF BrokerageNum
<1> HIDE DEF m, f, x, y, z
<1> QED BY <1>1, <1>2, <1>3 DEF Higher, Lower

\* Neither is the tax on it, rounded.
LEMMA GstOfTwo ==
    ASSUME NEW t \in Nat, NEW u \in Nat
    PROVE  /\ GstNum(t) \in Nat /\ GstNum(u) \in Nat /\ GstNum(t + u) \in Nat
           /\ GstNum(t + u) <= GstNum(t) + GstNum(u)
<1> DEFINE x == Rates.txn + Rates.sebi + Rates.ipft
           g == Rates.gst
           a == BrokerageNum(t) + t * x
           b == BrokerageNum(u) + u * x
           c == BrokerageNum(t + u) + (t + u) * x
<1>1. x \in Nat /\ g \in Nat
    BY RatesAreNaturals
<1>2. GstNum(t) = a * g /\ GstNum(u) = b * g /\ GstNum(t + u) = c * g
    BY DEF GstNum
<1> HIDE DEF x, g
<1>3. t * x \in Nat /\ u * x \in Nat /\ (t + u) * x = t * x + u * x
    BY <1>1, RateAdds
<1>4. a \in Nat /\ b \in Nat /\ c \in Nat /\ c <= a + b
    <2> DEFINE k == BrokerageNum(t)
               l == BrokerageNum(u)
               n == BrokerageNum(t + u)
    <2>1. k \in Nat /\ l \in Nat /\ n \in Nat /\ n <= k + l
        BY BrokerageOfTwo
    <2>2. a = k + t * x /\ b = l + u * x /\ c = n + (t + u) * x
        OBVIOUS
    <2> HIDE DEF k, l, n, a, b, c
    <2> QED BY <1>3, <2>1, <2>2
<1> HIDE DEF a, b, c
<1>5. PICK d \in Nat : a + b = c + d
    <2>1. (a + b) - c \in Nat
        BY <1>4
    <2> QED BY <1>4, <2>1
<1>6. a * g \in Nat /\ b * g \in Nat /\ c * g \in Nat /\ d * g \in Nat
    BY <1>1, <1>4, <1>5
<1>7. (a + b) * g = a * g + b * g /\ (c + d) * g = c * g + d * g
    BY <1>1, <1>4, <1>5, RateAdds
<1> QED BY <1>2, <1>4, <1>5, <1>6, <1>7

\* A component that is a rate of the turnover.
LEMMA RateSplits ==
    ASSUME NEW t \in Nat, NEW u \in Nat, NEW x \in Nat
    PROVE  /\ RoundDiv((t + u) * x, RateDen) <= RoundDiv(t * x, RateDen) + RoundDiv(u * x, RateDen) + 1
           /\ RoundDiv(t * x, RateDen) \in Nat /\ RoundDiv(u * x, RateDen) \in Nat
           /\ RoundDiv((t + u) * x, RateDen) \in Nat
<1> DEFINE a == t * x
           c == u * x
           e == (t + u) * x
<1>1. a \in Nat /\ c \in Nat /\ e \in Nat /\ e <= a + c
    BY RateAdds
<1>2. RateDen \in Nat \ {0}
    BY RatesAreNaturals
<1> HIDE DEF a, c, e
<1>3. RoundDiv(e, RateDen) <= RoundDiv(a, RateDen) + RoundDiv(c, RateDen) + 1
    BY <1>1, <1>2, RoundDivSplits
<1>4. RoundDiv(a, RateDen) \in Nat /\ RoundDiv(c, RateDen) \in Nat /\ RoundDiv(e, RateDen) \in Nat
    BY <1>1, <1>2, RoundDivIs
<1> QED BY <1>3, <1>4 DEF a, c, e

\* Each charge is rounded, and the sum of them is no less for two executions but for the roundings.
LEMMA SplitsNeverPay == Ticked => SplittingNeverPays
<1> SUFFICES ASSUME Ticked,
                    NEW side \in Side, NEW p \in Printed, NEW q \in Quantities, NEW r \in Quantities
             PROVE  Charges(side, q + r, p) <= Charges(side, q, p) + Charges(side, r, p) + 6
    BY DEF SplittingNeverPays
<1> DEFINE t == Turnover(q, p)
           u == Turnover(r, p)
           own == IF side = "SELL" THEN Rates.stt ELSE Rates.stamp
           Part(a, x) == RoundDiv(a * x, RateDen)
           Brokerage(a) == RoundDiv(BrokerageNum(a), RateDen)
           Gst(a) == RoundDiv(GstNum(a), RateDen * RateDen)
<1>1. t \in Nat /\ u \in Nat /\ Turnover(q + r, p) = t + u
    <2>1. p \in Nat /\ q \in Nat /\ r \in Nat
        BY MinuteIsABar, InputAssumption DEF Printed
    <2> QED BY <2>1, TurnoverAdds
<1>2. own \in Nat
    BY RatesAreNaturals
<1> HIDE DEF t, u
<1>3. /\ \A x \in Nat : /\ Part(t + u, x) <= Part(t, x) + Part(u, x) + 1
                        /\ Part(t + u, x) \in Nat /\ Part(t, x) \in Nat /\ Part(u, x) \in Nat
    BY <1>1, RateSplits
<1>4. /\ Brokerage(t + u) <= Brokerage(t) + Brokerage(u) + 1
      /\ Brokerage(t + u) \in Nat /\ Brokerage(t) \in Nat /\ Brokerage(u) \in Nat
    BY <1>1, BrokerageOfTwo, RatesAreNaturals, RoundDivSplits, RoundDivIs
<1>5. /\ Gst(t + u) <= Gst(t) + Gst(u) + 1
      /\ Gst(t + u) \in Nat /\ Gst(t) \in Nat /\ Gst(u) \in Nat
    BY <1>1, GstOfTwo, RatesAreNaturals, RoundDivSplits, RoundDivIs
<1>6. \A a, n : Turnover(n, p) = a =>
        Charges(side, n, p) = Brokerage(a) + Part(a, own) + Part(a, Rates.txn) + Part(a, Rates.sebi)
                              + Part(a, Rates.ipft) + Gst(a)
    BY DEF Charges
<1>7. Turnover(q, p) = t /\ Turnover(r, p) = u
    BY DEF t, u
<1> HIDE DEF Part, Brokerage, Gst, own
<1>8. Rates.txn \in Nat /\ Rates.sebi \in Nat /\ Rates.ipft \in Nat
    BY RatesAreNaturals
<1>9. /\ Part(t + u, own) <= Part(t, own) + Part(u, own) + 1
      /\ Part(t + u, Rates.txn) <= Part(t, Rates.txn) + Part(u, Rates.txn) + 1
      /\ Part(t + u, Rates.sebi) <= Part(t, Rates.sebi) + Part(u, Rates.sebi) + 1
      /\ Part(t + u, Rates.ipft) <= Part(t, Rates.ipft) + Part(u, Rates.ipft) + 1
      /\ \A x \in {own, Rates.txn, Rates.sebi, Rates.ipft} :
            Part(t + u, x) \in Nat /\ Part(t, x) \in Nat /\ Part(u, x) \in Nat
    BY <1>2, <1>3, <1>8
<1>10. /\ Charges(side, q + r, p) = Brokerage(t + u) + Part(t + u, own) + Part(t + u, Rates.txn)
                                    + Part(t + u, Rates.sebi) + Part(t + u, Rates.ipft) + Gst(t + u)
       /\ Charges(side, q, p) = Brokerage(t) + Part(t, own) + Part(t, Rates.txn) + Part(t, Rates.sebi)
                                + Part(t, Rates.ipft) + Gst(t)
       /\ Charges(side, r, p) = Brokerage(u) + Part(u, own) + Part(u, Rates.txn) + Part(u, Rates.sebi)
                                + Part(u, Rates.ipft) + Gst(u)
    BY <1>1, <1>6, <1>7
<1> QED BY <1>4, <1>5, <1>9, <1>10

\* Whatever is printed, a backtest fills a minute's orders honestly and a split
\* execution is charged no less than a whole one but for the rounding
\* (paper/fills.py, paper/costs.py).
THEOREM FillsAreAlwaysHonest == Spec => []FillsAreHonest
<1>1. Init => TicksTypeOK
    BY DEF Init, TicksTypeOK
<1>2. TicksTypeOK /\ [Next]_ticks => TicksTypeOK'
    <2> SUFFICES ASSUME TicksTypeOK, [Next]_ticks PROVE TicksTypeOK'
        OBVIOUS
    <2>1. CASE Next
        <3>1. PICK p \in Prices : ticks' = Append(ticks, p)
            BY <2>1 DEF Next
        <3> QED BY <3>1 DEF TicksTypeOK
    <2>2. CASE ticks' = ticks
        BY <2>2 DEF TicksTypeOK
    <2> QED BY <2>1, <2>2
<1>3. TicksTypeOK => FillsAreHonest
    BY TicksFillTheBar, BarFillsInside, BarNeverGives, BarIsNoKinder, SplitsNeverPay
       DEF FillsAreHonest, BarIsHonest, Ticked
<1> QED BY <1>1, <1>2, <1>3, PTL DEF Spec
------------------------------------------------------------------------------
(* The journal of a strategy over restarts.  First what the rows of the    *)
(* ledger say, and what rows more say.                                     *)

LedgerRows == [symbol : Traded, signal : Nat, side : {"BUY", "SELL"}]
Of(rows, s) == {i \in DOMAIN rows : rows[i].symbol = s}
LastRow(rows, s, i) == i \in Of(rows, s) /\ \A j \in Of(rows, s) : j <= i
Bought(rows) == Cardinality({i \in DOMAIN rows : rows[i].side = "BUY"})

LEMMA JournalConstants ==
    /\ IsFiniteSet(Traded) /\ None \notin Int /\ None \notin Nat
    /\ None \notin Statuses /\ None \notin Limits
    /\ PerSymbol \in Nat /\ DayLength \in Nat
BY JournalAssumption, NoneAssumption

\* The greatest of some places.
LEMMA GreatestPlace ==
    ASSUME NEW k \in Nat, NEW T \in SUBSET (1 .. k), T # {}
    PROVE  Max(T) \in T /\ \A i \in T : i <= Max(T)
<1> DEFINE R == OpToRel(<, Nat)
           U == {k - m : m \in T}
<1>1. IsWellFoundedOn(R, Nat)
    BY NatLessThanWellFounded
<1>2. \A x, y \in Nat : <<x, y>> \in R <=> x < y
    BY DEF OpToRel
<1> HIDE DEF R
<1>3. U \in SUBSET Nat /\ U # {}
    <2>1. \A m \in T : k - m \in Nat
        OBVIOUS
    <2>2. PICK m \in T : TRUE
        OBVIOUS
    <2> QED BY <2>1, <2>2
<1>4. PICK x \in U : \A y \in U : <<y, x>> \notin R
    BY <1>1, <1>3, WFMin
<1>5. PICK m \in T : x = k - m
    BY <1>4
<1>6. \A i \in T : i <= m
    <2> TAKE i \in T
    <2>1. k - i \in U /\ k - i \in Nat /\ k - m \in Nat /\ i \in Int /\ m \in Int
        OBVIOUS
    <2>2. ~(k - i < k - m)
        BY <1>2, <1>4, <1>5, <2>1
    <2> QED BY <2>1, <2>2
<1>7. T \in SUBSET Int
    OBVIOUS
<1> QED BY <1>6, <1>7, MaxIs

\* The position of a stock is what its last row leaves.
LEMMA PositionIs ==
    ASSUME NEW rows \in Seq(LedgerRows), NEW s
    PROVE  /\ Of(rows, s) = {} => PositionOf(rows, s) = None
           /\ Of(rows, s) # {} => \E i \in DOMAIN rows : LastRow(rows, s, i)
           /\ \A i \in DOMAIN rows : LastRow(rows, s, i) =>
                  PositionOf(rows, s) = IF rows[i].side = "BUY" THEN rows[i].signal ELSE None
<1>1. Len(rows) \in Nat /\ DOMAIN rows = 1 .. Len(rows) /\ Of(rows, s) \in SUBSET (1 .. Len(rows))
    BY DEF Of
<1>2. Of(rows, s) # {} => LastRow(rows, s, Max(Of(rows, s)))
    BY <1>1, GreatestPlace DEF LastRow
<1>3. ASSUME NEW i \in DOMAIN rows, LastRow(rows, s, i)
      PROVE  Max(Of(rows, s)) = i /\ Of(rows, s) # {}
    <2>1. Of(rows, s) \in SUBSET Int
        BY <1>1
    <2> QED BY <1>3, <2>1, MaxIs DEF LastRow
<1>4. PositionOf(rows, s) = IF Of(rows, s) = {} THEN None
                            ELSE IF rows[Max(Of(rows, s))].side = "BUY"
                                 THEN rows[Max(Of(rows, s))].signal ELSE None
    BY DEF PositionOf, Of
<1> QED BY <1>1, <1>2, <1>3, <1>4 DEF LastRow

\* A position is a trade that was bought.
LEMMA PositionIsTrade ==
    ASSUME NEW rows \in Seq(LedgerRows), NEW s \in Traded
    PROVE  /\ PositionOf(rows, s) \in Nat \cup {None}
           /\ PositionOf(rows, s) # None =>
                /\ <<s, PositionOf(rows, s)>> \in Trades(rows, "BUY")
                /\ Of(rows, s) # {}
<1>1. CASE Of(rows, s) = {}
    BY <1>1, PositionIs
<1>2. CASE Of(rows, s) # {}
    <2>1. PICK i \in DOMAIN rows : LastRow(rows, s, i)
        BY <1>2, PositionIs
    <2>2. PositionOf(rows, s) = IF rows[i].side = "BUY" THEN rows[i].signal ELSE None
        BY <2>1, PositionIs
    <2>3. rows[i] \in LedgerRows /\ rows[i].symbol = s
        BY <2>1 DEF LastRow, Of
    <2> QED BY <1>2, <2>2, <2>3 DEF Trades, LedgerRows
<1> QED BY <1>1, <1>2


LEMMA RowCounts ==
    ASSUME NEW rows \in Seq(LedgerRows), NEW s
    PROVE  /\ IsFiniteSet(Rows(rows, s, "BUY")) /\ Cardinality(Rows(rows, s, "BUY")) \in Nat
           /\ IsFiniteSet({i \in DOMAIN rows : rows[i].side = "BUY"}) /\ Bought(rows) \in Nat
           /\ IsFiniteSet(Of(rows, s))
<1>1. DOMAIN rows = 1 .. Len(rows) /\ IsFiniteSet(1 .. Len(rows))
    BY FS_Interval
<1>2. /\ Rows(rows, s, "BUY") \in SUBSET (1 .. Len(rows))
      /\ {i \in DOMAIN rows : rows[i].side = "BUY"} \in SUBSET (1 .. Len(rows))
      /\ Of(rows, s) \in SUBSET (1 .. Len(rows))
    BY <1>1 DEF Rows, Of
<1> QED BY <1>1, <1>2, FS_Subset, FS_CardinalityType DEF Bought

\* One row more, of a buy.
LEMMA BuyAppended ==
    ASSUME NEW rows \in Seq(LedgerRows), NEW s \in Traded, NEW t \in Nat
    PROVE  LET more == Append(rows, LedgerRow(s, t, "BUY"))
           IN  /\ more \in Seq(LedgerRows)
               /\ Trades(more, "BUY") = Trades(rows, "BUY") \cup {<<s, t>>}
               /\ Trades(more, "SELL") = Trades(rows, "SELL")
               /\ \A u \in Traded :
                    /\ PositionOf(more, u) = IF u = s THEN t ELSE PositionOf(rows, u)
                    /\ Cardinality(Rows(more, u, "BUY")) =
                           Cardinality(Rows(rows, u, "BUY")) + (IF u = s THEN 1 ELSE 0)
               /\ Bought(more) = Bought(rows) + 1
<1> DEFINE row == LedgerRow(s, t, "BUY")
           more == Append(rows, row)
           k == Len(rows)
<1>1. row \in LedgerRows /\ row.symbol = s /\ row.signal = t /\ row.side = "BUY"
    BY DEF LedgerRow, LedgerRows
<1> HIDE DEF row
<1>2. /\ more \in Seq(LedgerRows) /\ k \in Nat /\ DOMAIN rows = 1 .. k /\ DOMAIN more = 1 .. k + 1
      /\ more[k + 1] = row /\ \A i \in 1 .. k : more[i] = rows[i]
    BY <1>1
<1>3. /\ 1 .. k + 1 = (1 .. k) \cup {k + 1} /\ k + 1 \notin 1 .. k
      /\ \A i \in 1 .. k : i <= k + 1
    BY <1>2
<1> HIDE DEF more, k
<1>4. Trades(more, "BUY") = Trades(rows, "BUY") \cup {<<s, t>>}
    BY <1>1, <1>2, <1>3 DEF Trades
<1>5. Trades(more, "SELL") = Trades(rows, "SELL")
    BY <1>1, <1>2, <1>3 DEF Trades
<1>6. Bought(more) = Bought(rows) + 1
    <2> DEFINE A == {i \in DOMAIN rows : rows[i].side = "BUY"}
               B == {i \in DOMAIN more : more[i].side = "BUY"}
    <2>1. B = A \cup {k + 1} /\ k + 1 \notin A
        BY <1>1, <1>2, <1>3
    <2>2. IsFiniteSet(A)
        BY RowCounts
    <2>3. Cardinality(B) = Cardinality(A) + 1
        BY <2>1, <2>2, FS_AddElement
    <2> QED BY <2>3 DEF Bought
<1>7. ASSUME NEW u \in Traded
      PROVE  /\ PositionOf(more, u) = IF u = s THEN t ELSE PositionOf(rows, u)
             /\ Cardinality(Rows(more, u, "BUY")) =
                    Cardinality(Rows(rows, u, "BUY")) + (IF u = s THEN 1 ELSE 0)
    <2>1. CASE u = s
        <3>1. LastRow(more, s, k + 1)
            BY <1>1, <1>2, <1>3 DEF LastRow, Of
        <3>2. k + 1 \in DOMAIN more
            BY <1>2, <1>3
        <3>3. PositionOf(more, s) = t
            BY <1>1, <1>2, <3>1, <3>2, PositionIs
        <3>4. Rows(more, s, "BUY") = Rows(rows, s, "BUY") \cup {k + 1} /\ k + 1 \notin Rows(rows, s, "BUY")
            BY <1>1, <1>2, <1>3 DEF Rows
        <3>5. IsFiniteSet(Rows(rows, s, "BUY"))
            BY RowCounts
        <3>6. Cardinality(Rows(more, s, "BUY")) = Cardinality(Rows(rows, s, "BUY")) + 1
            BY <3>4, <3>5, FS_AddElement
        <3> QED BY <2>1, <3>3, <3>6
    <2>2. CASE u # s
        <3>1. Rows(more, u, "BUY") = Rows(rows, u, "BUY") /\ Of(more, u) = Of(rows, u)
            BY <1>1, <1>2, <1>3, <2>2 DEF Rows, Of
        <3>2. PositionOf(more, u) = PositionOf(rows, u)
            <4>1. CASE Of(rows, u) = {}
                BY <1>2, <3>1, <4>1, PositionIs
            <4>2. CASE Of(rows, u) # {}
                <5>1. PICK i \in DOMAIN rows : LastRow(rows, u, i)
                    BY <4>2, PositionIs
                <5>2. i \in DOMAIN more /\ LastRow(more, u, i) /\ more[i] = rows[i]
                    BY <1>2, <1>3, <3>1, <5>1 DEF LastRow
                <5> QED BY <1>2, <5>1, <5>2, PositionIs
            <4> QED BY <4>1, <4>2
        <3>3. Cardinality(Rows(rows, u, "BUY")) \in Nat
            BY RowCounts
        <3> QED BY <2>2, <3>1, <3>2, <3>3
    <2> QED BY <2>1, <2>2
<1> QED BY <1>2, <1>4, <1>5, <1>6, <1>7 DEF more, row

\* Rows with sales of some stocks after those there were.
SoldTo(more, rows, C, h) ==
    /\ more \in Seq(LedgerRows)
    /\ Trades(more, "BUY") = Trades(rows, "BUY")
    /\ Trades(more, "SELL") = Trades(rows, "SELL") \cup {<<s, h[s]>> : s \in C}
    /\ \A u \in Traded :
         /\ PositionOf(more, u) = IF u \in C THEN None ELSE PositionOf(rows, u)
         /\ Rows(more, u, "BUY") = Rows(rows, u, "BUY")
    /\ Bought(more) = Bought(rows)

\* Rows more, one or more of a sale for each of some stocks.
LEMMA SalesAppended ==
    ASSUME NEW rows \in Seq(LedgerRows), NEW C \in SUBSET Traded, NEW turn \in Seq(C),
           \A s \in C : \E n \in DOMAIN turn : turn[n] = s,
           NEW h, \A s \in C : h[s] \in Nat
    PROVE  SoldTo(rows \o [n \in DOMAIN turn |-> LedgerRow(turn[n], h[turn[n]], "SELL")], rows, C, h)
<1> DEFINE sells == [n \in DOMAIN turn |-> LedgerRow(turn[n], h[turn[n]], "SELL")]
           more == rows \o sells
           k == Len(rows)
           m == Len(turn)
<1>0. /\ k \in Nat /\ m \in Nat /\ DOMAIN turn = 1 .. m /\ DOMAIN rows = 1 .. k
      /\ \A n \in 1 .. m : turn[n] \in C /\ turn[n] \in Traded
    OBVIOUS
<1>1. \A n \in 1 .. m : /\ sells[n] \in LedgerRows /\ sells[n].symbol = turn[n]
                        /\ sells[n].signal = h[turn[n]] /\ sells[n].side = "SELL"
    BY <1>0 DEF LedgerRow, LedgerRows
<1>2. sells \in Seq(LedgerRows) /\ Len(sells) = m
    BY <1>0, <1>1
<1> HIDE DEF sells
<1>3. more \in Seq(LedgerRows) /\ Len(more) = k + m /\ DOMAIN more = 1 .. k + m
    BY <1>0, <1>2
<1>4. \A i \in 1 .. k + m : more[i] = IF i <= k THEN rows[i] ELSE sells[i - k]
    BY <1>0, <1>2
<1> HIDE DEF more, k, m
<1>5. /\ \A i \in DOMAIN rows : i \in DOMAIN more /\ more[i] = rows[i]
      /\ \A i \in DOMAIN more : i \in DOMAIN rows \/
             /\ more[i].side = "SELL" /\ more[i].symbol \in C
             /\ more[i].signal = h[more[i].symbol] /\ \A j \in DOMAIN rows : ~(i <= j)
      /\ \A s \in C : \E i \in DOMAIN more : more[i].symbol = s /\ i \notin DOMAIN rows
    <2>1. ASSUME NEW i \in DOMAIN rows PROVE i \in DOMAIN more /\ more[i] = rows[i]
        <3>1. i \in 1 .. k /\ i \in 1 .. k + m /\ i <= k
            BY <1>0
        <3> QED BY <1>3, <1>4, <3>1
    <2>2. ASSUME NEW i \in DOMAIN more, i \notin DOMAIN rows
          PROVE  /\ more[i].side = "SELL" /\ more[i].symbol \in C
                 /\ more[i].signal = h[more[i].symbol] /\ \A j \in DOMAIN rows : ~(i <= j)
        <3>1. i \in 1 .. k + m /\ ~(i <= k) /\ i - k \in 1 .. m /\ \A j \in DOMAIN rows : ~(i <= j)
            BY <1>0, <1>3, <2>2
        <3>2. more[i] = sells[i - k]
            BY <1>4, <3>1
        <3> QED BY <1>0, <1>1, <3>1, <3>2
    <2>3. ASSUME NEW s \in C
          PROVE  \E i \in DOMAIN more : more[i].symbol = s /\ i \notin DOMAIN rows
        <3>1. PICK n \in 1 .. m : turn[n] = s
            BY <1>0
        <3>2. k + n \in 1 .. k + m /\ ~(k + n <= k) /\ (k + n) - k = n /\ k + n \notin 1 .. k
            BY <1>0
        <3>3. more[k + n] = sells[n]
            BY <1>4, <3>2
        <3>4. more[k + n].symbol = s
            BY <1>1, <3>1, <3>3
        <3> QED BY <1>0, <1>3, <3>2, <3>4
    <2> QED BY <2>1, <2>2, <2>3
<1>6. Trades(more, "BUY") = Trades(rows, "BUY")
    <2>1. {i \in DOMAIN more : more[i].side = "BUY"} = {i \in DOMAIN rows : rows[i].side = "BUY"}
        BY <1>5
    <2> QED BY <1>5, <2>1 DEF Trades
<1>7. Trades(more, "SELL") = Trades(rows, "SELL") \cup {<<s, h[s]>> : s \in C}
    <2> DEFINE sold == {<<s, h[s]>> : s \in C}
    <2>1. ASSUME NEW t \in Trades(more, "SELL") PROVE t \in Trades(rows, "SELL") \cup sold
        <3>1. PICK i \in DOMAIN more : more[i].side = "SELL" /\ t = <<more[i].symbol, more[i].signal>>
            BY DEF Trades
        <3>2. CASE i \in DOMAIN rows
            BY <1>5, <3>1, <3>2 DEF Trades
        <3>3. CASE i \notin DOMAIN rows
            <4>1. more[i].symbol \in C /\ more[i].signal = h[more[i].symbol]
                BY <1>5, <3>3
            <4> QED BY <3>1, <4>1
        <3> QED BY <3>2, <3>3
    <2>2. Trades(rows, "SELL") \subseteq Trades(more, "SELL")
        BY <1>5 DEF Trades
    <2>3. ASSUME NEW s \in C PROVE <<s, h[s]>> \in Trades(more, "SELL")
        <3>1. PICK i \in DOMAIN more : more[i].symbol = s /\ i \notin DOMAIN rows
            BY <1>5
        <3>2. more[i].side = "SELL" /\ more[i].signal = h[s]
            BY <1>5, <3>1
        <3> QED BY <3>1, <3>2 DEF Trades
    <2> QED BY <2>1, <2>2, <2>3
<1>8. Bought(more) = Bought(rows)
    <2>1. {i \in DOMAIN more : more[i].side = "BUY"} = {i \in DOMAIN rows : rows[i].side = "BUY"}
        BY <1>5
    <2> QED BY <2>1 DEF Bought
<1>9. ASSUME NEW u \in Traded
      PROVE  /\ PositionOf(more, u) = IF u \in C THEN None ELSE PositionOf(rows, u)
             /\ Rows(more, u, "BUY") = Rows(rows, u, "BUY")
    <2>1. Rows(more, u, "BUY") = Rows(rows, u, "BUY")
        BY <1>5 DEF Rows
    <2>2. CASE u \in C
        <3>1. PICK n \in DOMAIN more : more[n].symbol = u /\ n \notin DOMAIN rows
            BY <1>5, <2>2
        <3>2. n \in Of(more, u)
            BY <3>1 DEF Of
        <3>3. PICK i \in DOMAIN more : LastRow(more, u, i)
            BY <1>3, <3>2, PositionIs
        <3>4. n <= i /\ \A j \in DOMAIN rows : ~(n <= j)
            BY <1>5, <3>1, <3>2, <3>3 DEF LastRow
        <3>5. more[i].side = "SELL"
            BY <1>5, <3>4
        <3> QED BY <1>3, <2>1, <2>2, <3>3, <3>5, PositionIs
    <2>3. CASE u \notin C
        <3>1. Of(more, u) = Of(rows, u)
            BY <1>5, <2>3 DEF Of
        <3>2. PositionOf(more, u) = PositionOf(rows, u)
            <4>1. CASE Of(rows, u) = {}
                BY <1>3, <3>1, <4>1, PositionIs
            <4>2. CASE Of(rows, u) # {}
                <5>1. PICK i \in DOMAIN rows : LastRow(rows, u, i)
                    BY <4>2, PositionIs
                <5>2. i \in DOMAIN more /\ LastRow(more, u, i) /\ more[i] = rows[i]
                    BY <1>5, <3>1, <5>1 DEF LastRow
                <5> QED BY <1>3, <5>1, <5>2, PositionIs
            <4> QED BY <4>1, <4>2
        <3> QED BY <2>1, <2>3, <3>2
    <2> QED BY <2>2, <2>3
<1>10. SoldTo(more, rows, C, h)
    BY <1>3, <1>6, <1>7, <1>8, <1>9 DEF SoldTo
<1> QED BY <1>10 DEF more, sells

\* The turn of the stocks that are closed: each of them, and no other.
LEMMA TurnIs ==
    ASSUME fills \in Seq(LedgerRows), NEW C \in SUBSET Traded, \A s \in C : Of(fills, s) # {}
    PROVE  /\ InTurn(C) \in Seq(C)
           /\ \A s \in C : \E n \in DOMAIN InTurn(C) : InTurn(C)[n] = s
           /\ \A s \in C : FirstRow(s) \in Nat
<1> DEFINE S == {FirstRow(s) : s \in C}
           q == InOrder(S)
<1>1. \A s \in C : FirstRow(s) \in Of(fills, s)
    <2> TAKE s \in C
    <2>1. Of(fills, s) \in SUBSET Nat /\ FirstRow(s) = Min(Of(fills, s))
        BY DEF Of, FirstRow
    <2> QED BY <2>1, MinOfNaturals
<1>2. \A s \in C : FirstRow(s) \in DOMAIN fills /\ fills[FirstRow(s)].symbol = s /\ FirstRow(s) \in Nat
    BY <1>1 DEF Of
<1>3. S \in SUBSET Int /\ IsFiniteSet(S)
    <2>1. IsFiniteSet(1 .. Len(fills)) /\ DOMAIN fills = 1 .. Len(fills)
        BY FS_Interval
    <2>2. S \in SUBSET (1 .. Len(fills))
        BY <1>2, <2>1
    <2>3. S \in SUBSET Int
        BY <1>2
    <2> QED BY <2>1, <2>2, <2>3, FS_Subset
<1>4. \A x \in S : fills[x].symbol \in C
    BY <1>2
<1>5. \A s \in C : FirstRow(s) \in S
    OBVIOUS
<1> HIDE DEF S
<1>6. /\ q \in [1 .. Cardinality(S) -> S] /\ Cardinality(S) \in Nat
      /\ \A x \in S : \E n \in 1 .. Cardinality(S) : q[n] = x
    BY <1>3, InOrderIs
<1>7. InTurn(C) = [n \in 1 .. Cardinality(S) |-> fills[q[n]].symbol]
    <2>1. DOMAIN q = 1 .. Cardinality(S)
        BY <1>6
    <2> QED BY <2>1 DEF InTurn, S
<1> HIDE DEF q
<1>8. InTurn(C) \in [1 .. Cardinality(S) -> C]
    BY <1>4, <1>6, <1>7
<1>9. InTurn(C) \in Seq(C)
    BY <1>6, <1>8
<1>10. ASSUME NEW s \in C PROVE \E n \in DOMAIN InTurn(C) : InTurn(C)[n] = s
    <2>1. PICK n \in 1 .. Cardinality(S) : q[n] = FirstRow(s)
        BY <1>5, <1>6
    <2>2. InTurn(C)[n] = s /\ n \in DOMAIN InTurn(C)
        BY <1>2, <1>7, <2>1
    <2> QED BY <2>2
<1> QED BY <1>2, <1>9, <1>10

\* What the strategy's variables range over.
JournalTypeOK ==
    /\ clock \in Nat /\ order \in [Traded -> Statuses \cup {None}]
    /\ held \in [Traded -> Nat \cup {None}] /\ pending \in [Traded -> Nat \cup {None}]
    /\ open \in [Traded -> Nat \cup {None}] /\ traded \in [Traded -> Nat]
    /\ entries \in Seq(Traded \X Nat)
    /\ fills \in Seq(LedgerRows) /\ saved \in Seq(LedgerRows)

\* The last line of a stock.
LastEntry(lines, s, t) ==
    \E i \in DOMAIN lines :
        lines[i] = <<s, t>> /\ \A j \in DOMAIN lines : lines[j][1] = s => j <= i

\* The rows of a ledger, whether written or committed: every trade has its line, is
\* bought before it is sold, and is sold or is the position of its stock.  A position
\* is not sold, and is the last entry of its stock.
BooksSound(rows) ==
    /\ Trades(rows, "BUY") \subseteq ToSet(entries)
    /\ Trades(rows, "SELL") \subseteq Trades(rows, "BUY")
    /\ \A s \in Traded : Cardinality(Rows(rows, s, "BUY")) <= PerSymbol
    /\ \A t \in Trades(rows, "BUY") : t[2] = PositionOf(rows, t[1]) \/ t \in Trades(rows, "SELL")
    /\ ~again =>
        /\ Trades(rows, "SELL") \subseteq exits
        /\ \A s \in Traded : PositionOf(rows, s) # None =>
              /\ <<s, PositionOf(rows, s)>> \notin Trades(rows, "SELL")
              /\ LastEntry(entries, s, PositionOf(rows, s))

\* An entry order works only for a stock without a position, whether written or
\* committed, that may still be traded, and a dead one waits for its line.
OrdersSound ==
    \A s \in Traded :
        /\ order[s] = "OPEN" => /\ pending[s] # None /\ held[s] = None /\ traded[s] < PerSymbol
                                /\ PositionOf(saved, s) = None
        /\ pending[s] # None => order[s] \in {"OPEN", "REJECTED", "CANCELLED"}
        /\ ~again /\ order[s] \in {"REJECTED", "CANCELLED"} /\ pending[s] = None =>
              <<s, Reasons[order[s]]>> \in missed
        /\ over => (~again => pending[s] = None) /\ order[s] # "OPEN"

\* The books of the strategy are those of the broker's ledger.
BooksFollow ==
    \A s \in Traded : held[s] = PositionOf(fills, s) /\ traded[s] = Cardinality(Rows(fills, s, "BUY"))

JournalIInv ==
    /\ JournalTypeOK
    /\ JournalTellsTheLedger /\ NothingUntold
    /\ BooksSound(fills) /\ BooksSound(saved) /\ OrdersSound /\ BooksFollow
    /\ exits \subseteq ToSet(entries) /\ missed_seen \subseteq missed

LEMMA EntriesAre == ASSUME JournalTypeOK PROVE ToSet(entries) = {entries[i] : i \in DOMAIN entries}
BY DEF ToSet

\* With the orders sound, no placed signal vanishes.
LEMMA JournalIInvHolds == JournalIInv => JournalHolds
<1> SUFFICES ASSUME JournalIInv PROVE JournalHolds
    OBVIOUS
<1>1. TradedAsAllowed
    BY DEF JournalIInv, BooksSound, TradedAsAllowed
<1>2. ASSUME NEW s \in Traded
      PROVE  /\ order[s] = "OPEN" <=> pending[s] # None /\ s \notin DeadIn(order)
             /\ over /\ ~again /\ order[s] \in {"REJECTED", "CANCELLED"} =>
                    <<s, Reasons[order[s]]>> \in missed
    BY DEF JournalIInv, OrdersSound, DeadIn
<1>3. NoSignalVanishes
    BY <1>2 DEF NoSignalVanishes
<1> QED BY <1>1, <1>3 DEF JournalIInv, JournalHolds

\* The rows that are committed stay sound while the journal's exits grow.
LEMMA SavedStaySound ==
    ASSUME BooksSound(saved), exits \subseteq exits', UNCHANGED <<entries, again, saved>>
    PROVE  BooksSound(saved)'
BY DEF BooksSound

\* Nothing that is closed while each trade id was given once is refused.
LEMMA NothingRefused ==
    ASSUME JournalIInv, ~again, NEW s \in Traded, held[s] # None
    PROVE  /\ ~Refused(s)
           /\ <<s, held[s]>> \in exits \/ open[s] = held[s]
<1>1. <<s, held[s]>> \in ToSet(entries)
    BY PositionIsTrade DEF JournalIInv, JournalTypeOK, BooksSound, BooksFollow
<1>2. IF <<s, held[s]>> \notin exits THEN open[s] = held[s]
      ELSE open[s] # None => Follows(s) \in ToSet(entries) \ (exits \cup Trades(fills, "BUY"))
    BY DEF JournalIInv, NothingUntold
<1> QED BY <1>1, <1>2 DEF Refused, Follows

\* What closing positions does.
LEMMA ClosedRows ==
    ASSUME JournalIInv, NEW C \in SUBSET Traded, \A s \in C : held[s] # None, Closed(C)
    PROVE  /\ fills' \in Seq(LedgerRows)
           /\ Trades(fills', "BUY") = Trades(fills, "BUY")
           /\ Trades(fills', "SELL") = Trades(fills, "SELL") \cup {<<s, held[s]>> : s \in C}
           /\ \A u \in Traded :
                /\ PositionOf(fills', u) = IF u \in C THEN None ELSE PositionOf(fills, u)
                /\ Rows(fills', u, "BUY") = Rows(fills, u, "BUY")
           /\ Bought(fills') = Bought(fills)
<1> DEFINE turn == InTurn(C)
<1>1. fills \in Seq(LedgerRows) /\ \A s \in C : held[s] \in Nat /\ Of(fills, s) # {}
    BY PositionIsTrade DEF JournalIInv, JournalTypeOK, BooksFollow
<1>2. turn \in Seq(C) /\ \A s \in C : \E n \in DOMAIN turn : turn[n] = s
    BY <1>1, TurnIs
<1>3. fills' = fills \o [n \in DOMAIN turn |-> LedgerRow(turn[n], held[turn[n]], "SELL")]
    BY DEF Closed
<1> HIDE DEF turn
<1>4. \A h, q : (\A s \in C : h[s] \in Nat) /\ q \in Seq(C) /\ (\A s \in C : \E n \in DOMAIN q : q[n] = s) =>
          SoldTo(fills \o [n \in DOMAIN q |-> LedgerRow(q[n], h[q[n]], "SELL")], fills, C, h)
    BY <1>1, SalesAppended
<1>5. SoldTo(fills', fills, C, held)
    BY <1>1, <1>2, <1>3, <1>4
<1> QED BY <1>5 DEF SoldTo

\* What closing them tells the journal, while each trade id was given once.
LEMMA ClosedTold ==
    ASSUME JournalIInv, NEW C \in SUBSET Traded, \A s \in C : held[s] # None, Closed(C), ~again
    PROVE  /\ ~Raises(C)
           /\ open' = [s \in Traded |-> IF s \in C THEN None ELSE open[s]]
           /\ exits' = exits \cup {Follows(s) : s \in {t \in C : open[t] # None}}
<1>1. \A s \in C : ~Refused(s)
    BY NothingRefused
<1>2. Told(C) = C
    BY <1>1 DEF Told
<1> QED BY <1>1, <1>2 DEF Closed, Raises

\* What is kept whether or not a trade id was given twice.
LEMMA ClosedKeeps ==
    ASSUME JournalIInv, NEW C \in SUBSET Traded, \A s \in C : held[s] # None, Closed(C),
           entries' = entries, again' = again
    PROVE  /\ held' \in [Traded -> Nat \cup {None}] /\ open' \in [Traded -> Nat \cup {None}]
           /\ exits \subseteq exits' /\ exits' \subseteq ToSet(entries')
           /\ \A s \in Traded :
                /\ held'[s] = PositionOf(fills', s)
                /\ held[s] = None => held'[s] = None
                /\ Cardinality(Rows(fills', s, "BUY")) = Cardinality(Rows(fills, s, "BUY"))
<1>1. held' = [s \in Traded |-> IF s \in C THEN None ELSE held[s]]
    BY DEF Closed
<1>2. open' = [s \in Traded |-> IF s \in Told(C) THEN None ELSE open[s]]
    BY DEF Closed
<1>3. exits' = exits \cup {Follows(s) : s \in {t \in Told(C) : open[t] # None /\ ~Refused(t)}}
    BY DEF Closed
<1>4. held' \in [Traded -> Nat \cup {None}] /\ open' \in [Traded -> Nat \cup {None}]
    BY <1>1, <1>2 DEF JournalIInv, JournalTypeOK
<1>5. exits \subseteq exits' /\ exits' \subseteq ToSet(entries')
    <2>1. \A s : open[s] # None /\ ~Refused(s) => Follows(s) \in ToSet(entries)
        BY DEF Refused
    <2>2. exits \subseteq ToSet(entries)
        BY DEF JournalIInv
    <2> QED BY <1>3, <2>1, <2>2
<1>6. ASSUME NEW s \in Traded
      PROVE  /\ held'[s] = PositionOf(fills', s)
             /\ held[s] = None => held'[s] = None
             /\ Cardinality(Rows(fills', s, "BUY")) = Cardinality(Rows(fills, s, "BUY"))
    <2>1. held[s] = PositionOf(fills, s)
        BY DEF JournalIInv, BooksFollow
    <2> QED BY <1>1, <2>1, ClosedRows
<1> QED BY <1>4, <1>5, <1>6

LEMMA ClosedBooks ==
    ASSUME JournalIInv, NEW C \in SUBSET Traded, \A s \in C : held[s] # None, Closed(C),
           entries' = entries, again' = again
    PROVE  BooksSound(fills)'
<1>1. /\ Trades(fills', "BUY") = Trades(fills, "BUY")
      /\ Trades(fills', "SELL") = Trades(fills, "SELL") \cup {<<s, held[s]>> : s \in C}
      /\ \A u \in Traded : /\ PositionOf(fills', u) = IF u \in C THEN None ELSE PositionOf(fills, u)
                           /\ Rows(fills', u, "BUY") = Rows(fills, u, "BUY")
    BY ClosedRows
<1>2. exits \subseteq exits' /\ \A s \in C : held[s] = PositionOf(fills, s) /\ held[s] \in Nat
    BY ClosedKeeps DEF JournalIInv, BooksFollow, JournalTypeOK
<1>3. fills \in Seq(LedgerRows) /\ BooksSound(fills)
    BY DEF JournalIInv, JournalTypeOK
<1>4. Trades(fills, "BUY") \in SUBSET (Traded \X Nat)
    <2>1. \A i \in DOMAIN fills : fills[i].symbol \in Traded /\ fills[i].signal \in Nat
        <3>1. \A i \in DOMAIN fills : fills[i] \in LedgerRows
            BY <1>3
        <3> QED BY <3>1 DEF LedgerRows
    <2> QED BY <2>1 DEF Trades
<1>5. \A s \in C : <<s, held[s]>> \in Trades(fills, "BUY")
    BY <1>2, <1>3, PositionIsTrade, JournalConstants
<1>6. Trades(fills', "SELL") \subseteq Trades(fills', "BUY")
    BY <1>1, <1>3, <1>5 DEF BooksSound
<1>7. \A t \in Trades(fills', "BUY") : t[2] = PositionOf(fills', t[1]) \/ t \in Trades(fills', "SELL")
    <2> TAKE t \in Trades(fills', "BUY")
    <2>1. t \in Trades(fills, "BUY") /\ t[1] \in Traded /\ t = <<t[1], t[2]>>
        BY <1>1, <1>4
    <2>2. t[2] = PositionOf(fills, t[1]) \/ t \in Trades(fills, "SELL")
        BY <1>3, <2>1 DEF BooksSound
    <2>3. CASE t[1] \in C
        BY <1>1, <1>2, <2>1, <2>2, <2>3
    <2>4. CASE t[1] \notin C
        BY <1>1, <2>1, <2>2, <2>4
    <2> QED BY <2>3, <2>4
<1>8. ASSUME ~again
      PROVE  /\ Trades(fills', "SELL") \subseteq exits'
             /\ \A s \in Traded : PositionOf(fills', s) # None =>
                    /\ <<s, PositionOf(fills', s)>> \notin Trades(fills', "SELL")
                    /\ LastEntry(entries', s, PositionOf(fills', s))
    <2>1. Trades(fills, "SELL") \subseteq exits
        BY <1>3, <1>8 DEF BooksSound
    <2>2. \A s \in C : <<s, held[s]>> \in exits'
        <3> TAKE s \in C
        <3>1. <<s, held[s]>> \in exits \/ open[s] = held[s]
            BY <1>8, NothingRefused
        <3>2. exits' = exits \cup {Follows(t) : t \in {u \in C : open[u] # None}}
            BY <1>8, ClosedTold
        <3> QED BY <3>1, <3>2 DEF Follows
    <2>3. ASSUME NEW s \in Traded, PositionOf(fills', s) # None
          PROVE  /\ <<s, PositionOf(fills', s)>> \notin Trades(fills', "SELL")
                 /\ LastEntry(entries', s, PositionOf(fills', s))
        <3>1. s \notin C /\ PositionOf(fills', s) = PositionOf(fills, s)
            BY <1>1, <2>3
        <3>2. <<s, PositionOf(fills, s)>> \notin Trades(fills, "SELL") /\ LastEntry(entries, s, PositionOf(fills, s))
            BY <1>3, <1>8, <2>3, <3>1 DEF BooksSound
        <3>3. LastEntry(entries', s, PositionOf(fills', s))
            BY <3>1, <3>2
        <3> QED BY <1>1, <3>1, <3>2, <3>3
    <2>4. Trades(fills', "SELL") \subseteq exits'
        BY <1>1, <1>2, <2>1, <2>2
    <2> QED BY <2>3, <2>4
<1> QED BY <1>1, <1>3, <1>6, <1>7, <1>8 DEF BooksSound

LEMMA ClosedTells ==
    ASSUME JournalIInv, NEW C \in SUBSET Traded, \A s \in C : held[s] # None, Closed(C),
           entries' = entries, again' = again, lost' = lost
    PROVE  JournalTellsTheLedger' /\ NothingUntold'
<1>1. /\ Trades(fills', "BUY") = Trades(fills, "BUY") /\ Bought(fills') = Bought(fills)
      /\ Trades(fills', "SELL") = Trades(fills, "SELL") \cup {<<s, held[s]>> : s \in C}
    BY ClosedRows
<1>2. held' = [s \in Traded |-> IF s \in C THEN None ELSE held[s]]
    BY DEF Closed
<1>3. ~again => /\ open' = [s \in Traded |-> IF s \in C THEN None ELSE open[s]]
                /\ exits' = exits \cup {Follows(s) : s \in {t \in C : open[t] # None}}
    BY ClosedTold
<1>4. BooksSound(fills)'
    BY ClosedBooks
<1>5. ASSUME ~lost', ~again'
      PROVE  /\ ToSet(entries') = Trades(fills', "BUY")
             /\ Len(entries') = Bought(fills')
             /\ exits' = Trades(fills', "SELL") /\ open' = held'
    <2>1. /\ ToSet(entries) = Trades(fills, "BUY") /\ Len(entries) = Bought(fills)
          /\ exits = Trades(fills, "SELL") /\ open = held
        BY <1>5 DEF JournalIInv, JournalTellsTheLedger, Bought
    <2>2. {Follows(s) : s \in {t \in C : open[t] # None}} = {<<s, held[s]>> : s \in C}
        BY <2>1 DEF Follows
    <2> QED BY <1>1, <1>2, <1>3, <1>5, <2>1, <2>2
<1>6. JournalTellsTheLedger'
    BY <1>5 DEF JournalTellsTheLedger, Bought
<1>7. ASSUME ~again', NEW s \in Traded
      PROVE  IF held'[s] = None THEN open'[s] = None
             ELSE IF <<s, held'[s]>> \notin exits' THEN open'[s] = held'[s]
             ELSE open'[s] # None =>
                      <<s, open'[s]>> \in ToSet(entries') \ (exits' \cup Trades(fills', "BUY"))
    <2>1. IF held[s] = None THEN open[s] = None
          ELSE IF <<s, held[s]>> \notin exits THEN open[s] = held[s]
          ELSE open[s] # None => <<s, open[s]>> \in ToSet(entries) \ (exits \cup Trades(fills, "BUY"))
        BY <1>7 DEF JournalIInv, NothingUntold, Follows
    <2>2. CASE s \in C
        BY <1>2, <1>3, <1>7, <2>2
    <2>3. CASE s \notin C
        <3>1. held'[s] = held[s] /\ open'[s] = open[s]
            BY <1>2, <1>3, <1>7, <2>3
        <3>2. \A t : <<s, t>> \in exits' <=> <<s, t>> \in exits
            BY <1>3, <1>7, <2>3 DEF Follows
        <3> QED BY <1>1, <2>1, <3>1, <3>2
    <2> QED BY <2>2, <2>3
<1>8. NothingUntold'
    <2>1. Trades(fills', "BUY") \subseteq ToSet(entries') /\ (~again' => Trades(fills', "SELL") \subseteq exits')
        BY <1>4 DEF BooksSound
    <2> QED BY <1>7, <2>1 DEF NothingUntold, Follows
<1> QED BY <1>6, <1>8

\* A fill of an entry.
LEMMA FilledKeeps ==
    ASSUME JournalIInv, NEW s \in Traded, Filled(s)
    PROVE  JournalIInv'
<1> DEFINE p == pending[s]
<1>1. /\ order[s] = "OPEN" /\ p \in Nat /\ held[s] = None /\ traded[s] < PerSymbol
      /\ PositionOf(saved, s) = None /\ PositionOf(fills, s) = None /\ ~over
      /\ traded[s] = Cardinality(Rows(fills, s, "BUY"))
    BY DEF Filled, JournalIInv, JournalTypeOK, OrdersSound, BooksFollow
<1>2. /\ order' = [order EXCEPT ![s] = "FILLED"] /\ held' = [held EXCEPT ![s] = p]
      /\ fills' = Append(fills, LedgerRow(s, p, "BUY"))
      /\ pending' = [pending EXCEPT ![s] = None] /\ open' = [open EXCEPT ![s] = p]
      /\ traded' = [traded EXCEPT ![s] = @ + 1]
      /\ UNCHANGED <<clock, squared, over, missed_seen, exits, missed, saved, lives, lost>>
    BY DEF Filled
<1>3. \/ <<s, p>> \in ToSet(entries) /\ again' = TRUE /\ entries' = entries
      \/ <<s, p>> \notin ToSet(entries) /\ again' = again /\ entries' = Append(entries, <<s, p>>)
    BY DEF Filled
<1>4. JournalTypeOK /\ fills \in Seq(LedgerRows) /\ entries \in Seq(Traded \X Nat)
    BY DEF JournalIInv, JournalTypeOK
<1> HIDE DEF p
<1>5. /\ fills' \in Seq(LedgerRows)
      /\ Trades(fills', "BUY") = Trades(fills, "BUY") \cup {<<s, p>>}
      /\ Trades(fills', "SELL") = Trades(fills, "SELL")
      /\ \A u \in Traded :
           /\ PositionOf(fills', u) = IF u = s THEN p ELSE PositionOf(fills, u)
           /\ Cardinality(Rows(fills', u, "BUY")) =
                  Cardinality(Rows(fills, u, "BUY")) + (IF u = s THEN 1 ELSE 0)
      /\ Bought(fills') = Bought(fills) + 1
    BY <1>1, <1>2, <1>4, BuyAppended
<1>6. /\ ToSet(entries') = ToSet(entries) \cup {<<s, p>>}
      /\ entries' \in Seq(Traded \X Nat)
      /\ ~again' => ~again /\ <<s, p>> \notin ToSet(entries) /\ entries' = Append(entries, <<s, p>>)
      /\ again => again'
    <2> DEFINE e == <<s, p>>
               more == Append(entries, e)
               k == Len(entries)
    <2>1. e \in Traded \X Nat
        BY <1>1
    <2> HIDE DEF e
    <2>2. /\ more \in Seq(Traded \X Nat) /\ k \in Nat /\ DOMAIN entries = 1 .. k /\ DOMAIN more = 1 .. k + 1
          /\ more[k + 1] = e /\ \A i \in 1 .. k : more[i] = entries[i]
        BY <1>4, <2>1
    <2>3. 1 .. k + 1 = (1 .. k) \cup {k + 1}
        BY <2>2
    <2> HIDE DEF more, k
    <2>4. ToSet(more) = ToSet(entries) \cup {e}
        BY <2>2, <2>3 DEF ToSet
    <2>5. \/ e \in ToSet(entries) /\ again' = TRUE /\ entries' = entries
          \/ e \notin ToSet(entries) /\ again' = again /\ entries' = more
        BY <1>3 DEF e, more
    <2>6. /\ ToSet(entries') = ToSet(entries) \cup {e} /\ entries' \in Seq(Traded \X Nat)
          /\ ~again' => ~again /\ e \notin ToSet(entries) /\ entries' = more
          /\ again => again'
        BY <1>4, <2>2, <2>4, <2>5
    <2> QED BY <2>6 DEF e, more
<1>7. JournalTypeOK'
    BY <1>1, <1>2, <1>4, <1>5, <1>6 DEF JournalTypeOK, Statuses
<1>8. BooksFollow'
    BY <1>1, <1>2, <1>4, <1>5 DEF JournalIInv, BooksFollow, JournalTypeOK
<1>9. OrdersSound'
    <2> SUFFICES ASSUME NEW u \in Traded
                 PROVE  /\ order'[u] = "OPEN" => /\ pending'[u] # None /\ held'[u] = None
                                                 /\ traded'[u] < PerSymbol /\ PositionOf(saved', u) = None
                        /\ pending'[u] # None => order'[u] \in {"OPEN", "REJECTED", "CANCELLED"}
                        /\ ~again' /\ order'[u] \in {"REJECTED", "CANCELLED"} /\ pending'[u] = None =>
                              <<u, Reasons[order'[u]]>> \in missed'
                        /\ over' => (~again' => pending'[u] = None) /\ order'[u] # "OPEN"
        BY DEF OrdersSound
    <2>1. CASE u = s
        BY <1>1, <1>2, <1>4, <2>1 DEF JournalTypeOK
    <2>2. CASE u # s
        <3>1. order'[u] = order[u] /\ pending'[u] = pending[u] /\ held'[u] = held[u] /\ traded'[u] = traded[u]
            BY <1>2, <1>4, <2>2 DEF JournalTypeOK
        <3> QED BY <1>1, <1>2, <1>6, <3>1 DEF JournalIInv, OrdersSound
    <2> QED BY <2>1, <2>2
\* The journal has the entry last.
<1>10. ASSUME ~again'
       PROVE  /\ LastEntry(entries', s, p)
              /\ \A u \in Traded : \A t : u # s /\ LastEntry(entries, u, t) => LastEntry(entries', u, t)
    <2> DEFINE k == Len(entries)
    <2>1. /\ k \in Nat /\ DOMAIN entries = 1 .. k /\ DOMAIN entries' = 1 .. k + 1
          /\ entries'[k + 1] = <<s, p>> /\ \A i \in 1 .. k : entries'[i] = entries[i]
        <3> DEFINE e == <<s, p>>
        <3>1. e \in Traded \X Nat /\ entries' = Append(entries, e)
            BY <1>1, <1>6, <1>10
        <3> HIDE DEF e
        <3>2. /\ k \in Nat /\ DOMAIN entries = 1 .. k /\ DOMAIN entries' = 1 .. k + 1
              /\ entries'[k + 1] = e /\ \A i \in 1 .. k : entries'[i] = entries[i]
            BY <1>4, <3>1
        <3> QED BY <3>2 DEF e
    <2>2. \A i \in 1 .. k + 1 : i <= k + 1 /\ (i \in 1 .. k \/ i = k + 1)
        BY <2>1
    <2>3. k + 1 \in 1 .. k + 1 /\ \A i \in 1 .. k : i \in 1 .. k + 1
        BY <2>1
    <2> HIDE DEF k
    <2>4. LastEntry(entries', s, p)
        BY <2>1, <2>2, <2>3 DEF LastEntry
    <2>5. ASSUME NEW u \in Traded, NEW t, u # s, LastEntry(entries, u, t) PROVE LastEntry(entries', u, t)
        <3>1. PICK i \in 1 .. k : entries[i] = <<u, t>> /\ \A j \in 1 .. k : entries[j][1] = u => j <= i
            BY <2>1, <2>5 DEF LastEntry
        <3>2. i \in 1 .. k + 1 /\ entries'[i] = <<u, t>>
            BY <2>1, <2>3, <3>1
        <3>3. \A j \in 1 .. k + 1 : entries'[j][1] = u => j <= i
            BY <2>1, <2>2, <2>5, <3>1
        <3> QED BY <2>1, <3>2, <3>3 DEF LastEntry
    <2> QED BY <2>4, <2>5
<1>11. /\ BooksSound(fills) /\ BooksSound(saved) /\ exits \subseteq ToSet(entries)
       /\ saved \in Seq(LedgerRows)
    BY DEF JournalIInv, JournalTypeOK
<1>12. BooksSound(fills)'
    <2>1. Trades(fills', "BUY") \subseteq ToSet(entries') /\ Trades(fills', "SELL") \subseteq Trades(fills', "BUY")
        BY <1>5, <1>6, <1>11 DEF BooksSound
    <2>2. \A u \in Traded : Cardinality(Rows(fills', u, "BUY")) <= PerSymbol
        <3> TAKE u \in Traded
        <3>1. Cardinality(Rows(fills, u, "BUY")) <= PerSymbol /\ Cardinality(Rows(fills, u, "BUY")) \in Nat
            BY <1>4, <1>11, RowCounts DEF BooksSound
        <3> QED BY <1>1, <1>5, <3>1, JournalConstants
    <2>3. \A t \in Trades(fills', "BUY") : t[2] = PositionOf(fills', t[1]) \/ t \in Trades(fills', "SELL")
        <3> TAKE t \in Trades(fills', "BUY")
        <3>1. CASE t = <<s, p>>
            BY <1>5, <3>1
        <3>2. CASE t # <<s, p>>
            <4>1. t \in Trades(fills, "BUY")
                BY <1>5, <3>2
            <4>2. t[1] \in Traded /\ t[2] \in Nat
                <5>1. PICK i \in DOMAIN fills : t = <<fills[i].symbol, fills[i].signal>>
                    BY <4>1 DEF Trades
                <5>2. fills[i] \in LedgerRows
                    BY <1>4
                <5> QED BY <5>1, <5>2 DEF LedgerRows
            <4>3. t[2] = PositionOf(fills, t[1]) \/ t \in Trades(fills, "SELL")
                BY <1>11, <4>1 DEF BooksSound
            <4>4. t[1] = s => t[2] # PositionOf(fills, t[1])
                BY <1>1, <4>2, JournalConstants
            <4> QED BY <1>5, <4>2, <4>3, <4>4
        <3> QED BY <3>1, <3>2
    <2>4. ASSUME ~again'
          PROVE  /\ Trades(fills', "SELL") \subseteq exits'
                 /\ \A u \in Traded : PositionOf(fills', u) # None =>
                       /\ <<u, PositionOf(fills', u)>> \notin Trades(fills', "SELL")
                       /\ LastEntry(entries', u, PositionOf(fills', u))
        <3>1. /\ ~again /\ Trades(fills, "SELL") \subseteq exits
              /\ <<s, p>> \notin Trades(fills, "SELL")
            BY <1>6, <1>11, <2>4 DEF BooksSound
        <3>2. ASSUME NEW u \in Traded, PositionOf(fills', u) # None
              PROVE  /\ <<u, PositionOf(fills', u)>> \notin Trades(fills', "SELL")
                     /\ LastEntry(entries', u, PositionOf(fills', u))
            <4>1. CASE u = s
                <5>1. LastEntry(entries', s, p)
                    BY <1>10, <2>4
                <5>2. PositionOf(fills', u) = p
                    BY <1>5, <4>1
                <5> QED BY <1>5, <3>1, <4>1, <5>1, <5>2
            <4>2. CASE u # s
                <5>1. /\ PositionOf(fills', u) = PositionOf(fills, u)
                      /\ <<u, PositionOf(fills, u)>> \notin Trades(fills, "SELL")
                      /\ LastEntry(entries, u, PositionOf(fills, u))
                    BY <1>5, <1>11, <3>1, <3>2, <4>2 DEF BooksSound
                <5> QED BY <1>5, <1>10, <2>4, <4>2, <5>1
            <4> QED BY <4>1, <4>2
        <3> QED BY <1>2, <1>5, <3>1, <3>2
    <2> QED BY <1>5, <2>1, <2>2, <2>3, <2>4 DEF BooksSound
<1>13. BooksSound(saved)'
    <2>1. Trades(saved, "BUY") \subseteq ToSet(entries')
        BY <1>6, <1>11 DEF BooksSound
    <2>2. ASSUME ~again'
          PROVE  /\ Trades(saved, "SELL") \subseteq exits
                 /\ \A u \in Traded : PositionOf(saved, u) # None =>
                       /\ <<u, PositionOf(saved, u)>> \notin Trades(saved, "SELL")
                       /\ LastEntry(entries', u, PositionOf(saved, u))
        <3>1. /\ Trades(saved, "SELL") \subseteq exits
              /\ \A u \in Traded : PositionOf(saved, u) # None =>
                    /\ <<u, PositionOf(saved, u)>> \notin Trades(saved, "SELL")
                    /\ LastEntry(entries, u, PositionOf(saved, u))
            BY <1>6, <1>11, <2>2 DEF BooksSound
        <3>2. \A u \in Traded : PositionOf(saved, u) # None => u # s
            BY <1>1
        <3> QED BY <1>10, <2>2, <3>1, <3>2
    <2> QED BY <1>2, <1>11, <2>1, <2>2 DEF BooksSound
<1>14. JournalTellsTheLedger'
    <2> SUFFICES ASSUME ~lost', ~again'
                 PROVE  /\ ToSet(entries') = Trades(fills', "BUY") /\ Len(entries') = Bought(fills')
                        /\ exits' = Trades(fills', "SELL") /\ open' = held'
        BY DEF JournalTellsTheLedger, Bought
    <2>1. /\ ToSet(entries) = Trades(fills, "BUY") /\ Len(entries) = Bought(fills)
          /\ exits = Trades(fills, "SELL") /\ open = held
        BY <1>2, <1>6 DEF JournalIInv, JournalTellsTheLedger, Bought
    <2>2. Len(entries') = Len(entries) + 1
        BY <1>4, <1>6
    <2> QED BY <1>2, <1>5, <1>6, <2>1, <2>2
<1>15. NothingUntold'
    <2>1. ASSUME ~again', NEW u \in Traded
          PROVE  IF held'[u] = None THEN open'[u] = None
                 ELSE IF <<u, held'[u]>> \notin exits' THEN open'[u] = held'[u]
                 ELSE open'[u] # None =>
                          <<u, open'[u]>> \in ToSet(entries') \ (exits' \cup Trades(fills', "BUY"))
        <3>1. CASE u = s
            <4>1. held'[s] = p /\ open'[s] = p /\ p # None
                BY <1>1, <1>2, <1>4, JournalConstants DEF JournalTypeOK
            <4>2. <<s, p>> \notin exits'
                BY <1>2, <1>6, <1>11, <2>1
            <4> QED BY <3>1, <4>1, <4>2
        <3>2. CASE u # s
            <4>1. held'[u] = held[u] /\ open'[u] = open[u]
                BY <1>2, <1>4, <3>2 DEF JournalTypeOK
            <4>2. IF held[u] = None THEN open[u] = None
                  ELSE IF <<u, held[u]>> \notin exits THEN open[u] = held[u]
                  ELSE open[u] # None => <<u, open[u]>> \in ToSet(entries) \ (exits \cup Trades(fills, "BUY"))
                BY <1>6, <2>1 DEF JournalIInv, NothingUntold, Follows
            <4> QED BY <1>2, <1>5, <1>6, <3>2, <4>1, <4>2
        <3> QED BY <3>1, <3>2
    <2>2. Trades(fills', "BUY") \subseteq ToSet(entries') /\ (~again' => Trades(fills', "SELL") \subseteq exits')
        BY <1>12 DEF BooksSound
    <2> QED BY <2>1, <2>2 DEF NothingUntold, Follows
<1>16. exits' \subseteq ToSet(entries') /\ missed_seen' \subseteq missed'
    BY <1>2, <1>6, <1>11 DEF JournalIInv
<1> QED BY <1>7, <1>8, <1>9, <1>12, <1>13, <1>14, <1>15, <1>16 DEF JournalIInv

------------------------------------------------------------------------------
(* The list of a minute is worked through from the top: a fold.            *)

Latest(S) == Max(S)
Taking(offer, dealt) == Offered(dealt, offer)
Offering == INSTANCE FoldFacts WITH Op <- Taking, Base <- MinuteStart, Pick <- Latest

Why == Limits \cup {"broker", "broker at fill", "no fill"}
Free == {s \in Traded : s \notin InUse /\ traded[s] < PerSymbol}
\* What the list has come to: placed are stocks that were free.
Standing ==
    [placed : SUBSET Free, missed : {m \in SUBSET (Traded \X Why) : DeadSignals(order) \subseteq m}]

Tell(dealt, line) == [dealt EXCEPT !.missed = @ \cup {line}]
Placing(dealt, s) == [dealt EXCEPT !.placed = @ \cup {s}]

LEMMA StandingMore ==
    ASSUME NEW dealt \in Standing
    PROVE  /\ \A line \in Traded \X Why : Tell(dealt, line) \in Standing
           /\ \A s \in Free : Placing(dealt, s) \in Standing
<1> DEFINE Lines == {m \in SUBSET (Traded \X Why) : DeadSignals(order) \subseteq m}
<1>0. Standing = [placed : SUBSET Free, missed : Lines]
    BY DEF Standing
<1>4. \A m \in Lines, line \in Traded \X Why : m \cup {line} \in Lines
    OBVIOUS
<1> HIDE DEF Lines
<1>1. PICK p \in SUBSET Free, m \in Lines : dealt = [placed |-> p, missed |-> m]
    BY <1>0
<1>2. ASSUME NEW line \in Traded \X Why PROVE Tell(dealt, line) \in Standing
    <2>1. Tell(dealt, line) = [placed |-> p, missed |-> m \cup {line}]
        BY <1>1 DEF Tell
    <2> QED BY <1>0, <1>4, <2>1
<1>3. ASSUME NEW s \in Free PROVE Placing(dealt, s) \in Standing
    <2>1. Placing(dealt, s) = [placed |-> p \cup {s}, missed |-> m]
        BY <1>1 DEF Placing
    <2> QED BY <1>0, <2>1
<1> QED BY <1>2, <1>3

LEMMA OneOffer ==
    ASSUME NEW offer \in [stock : Traded, refused : BOOLEAN], NEW dealt \in Standing,
           traded \in [Traded -> Nat]
    PROVE  Taking(offer, dealt) \in Standing
<1> DEFINE s == offer.stock
           why == Refusal(s, InUse \cup dealt.placed)
<1>1. s \in Traded
    OBVIOUS
<1>2. why # None => why \in Why
    BY DEF Refusal, Why, Limits
<1>3. why = None => s \in Free
    <2>1. why = None => s \notin InUse /\ ~(traded[s] >= PerSymbol)
        BY JournalConstants DEF Refusal, Limits
    <2>2. traded[s] \in Nat /\ PerSymbol \in Nat
        BY <1>1, JournalConstants
    <2> QED BY <1>1, <2>1, <2>2 DEF Free
<1>4. Offered(dealt, offer) =
          IF why = "position already open" THEN dealt
          ELSE IF why # None THEN Tell(dealt, <<s, why>>)
          ELSE IF offer.refused THEN Tell(dealt, <<s, "broker">>)
          ELSE Placing(dealt, s)
    BY DEF Offered, Tell, Placing
<1>5. "broker" \in Why
    BY DEF Why
<1> HIDE DEF s, why
<1> QED BY <1>1, <1>2, <1>3, <1>4, <1>5, StandingMore DEF Taking

LEMMA WorkedStands ==
    ASSUME JournalTypeOK, NEW list \in Offers
    PROVE  Worked(list) \in Standing
<1> DEFINE k == Len(list)
<1>1. /\ k \in Nat /\ DOMAIN list = 1 .. k
      /\ \A i \in 1 .. k : list[i] \in [stock : Traded, refused : BOOLEAN]
    <2>1. IsFiniteSet(Traded) /\ Cardinality(Traded) \in Nat
        BY JournalConstants, FS_CardinalityType
    <2>2. PICK n \in 0 .. Cardinality(Traded) : list \in [1 .. n -> [stock : Traded, refused : BOOLEAN]]
        BY DEF Offers
    <2>3. n \in Nat
        BY <2>1
    <2> QED BY <2>2, <2>3
<1> HIDE DEF k
<1>2. Worked(list) = Offering!Fold(list, 1 .. k)
    BY <1>1 DEF Worked, FoldLeft, MapThenFoldSet, Offering!Fold, Offering!MapThenFoldSet, Taking, Latest
<1>3. MinuteStart \in Standing
    <2>1. DeadSignals(order) \in SUBSET (Traded \X Why)
        <3>1. \A s \in DeadIn(order) : s \in Traded /\ Reasons[order[s]] \in Why
            <4>1. \A s \in DeadIn(order) : s \in Traded /\ order[s] \in {"REJECTED", "CANCELLED"}
                BY DEF DeadIn
            <4>2. Reasons["REJECTED"] \in Why /\ Reasons["CANCELLED"] \in Why
                BY DEF Reasons, Why
            <4> QED BY <4>1, <4>2
        <3> QED BY <3>1 DEF DeadSignals
    <2> QED BY <2>1 DEF MinuteStart, Standing
<1>4. Offering!IsFiniteSet(1 .. k) /\ Offering!Picks(1 .. k)
    <2>1. IsFiniteSet(1 .. k)
        <3>1. 1 \in Int /\ k \in Int
            BY <1>1
        <3> QED BY <3>1, FS_Interval
    <2>2. \A T \in SUBSET (1 .. k) : T # {} => Latest(T) \in T
        BY <1>1, GreatestPlace DEF Latest
    <2> QED BY <2>1, <2>2 DEF IsFiniteSet, Offering!IsFiniteSet, Offering!Picks
<1>5. \A i \in 1 .. k, dealt \in Standing : Taking(list[i], dealt) \in Standing
    BY <1>1, OneOffer DEF JournalTypeOK
<1>6. Offering!Fold(list, 1 .. k) \in Standing
    BY <1>3, <1>4, <1>5, Offering!FoldType
<1> QED BY <1>2, <1>6

------------------------------------------------------------------------------
(* The other actions.                                                      *)

\* The orders of a minute: working ones that were there, and the ones placed now.
LEMMA MinuteOrders ==
    ASSUME JournalIInv, NEW list \in Offers, Minute(list)
    PROVE  OrdersSound'
<1> DEFINE dealt == Worked(list)
<1>1. JournalTypeOK /\ OrdersSound /\ BooksFollow
    BY DEF JournalIInv
<1>2. dealt.placed \in SUBSET Free /\ DeadSignals(order) \subseteq dealt.missed
    BY <1>1, WorkedStands DEF Standing
<1>3. /\ missed' = missed \cup (dealt.missed \ missed_seen)
      /\ pending' = [s \in Traded |-> IF s \in dealt.placed THEN clock' ELSE WithoutDead[s]]
      /\ order' = [s \in Traded |-> IF s \in dealt.placed THEN "OPEN" ELSE order[s]]
      /\ saved' = fills /\ clock' = clock + 1 /\ ~over
      /\ UNCHANGED <<over, held, traded, fills, again>>
    BY DEF Minute, MinuteBegins, AllMissed
<1> HIDE DEF dealt
<1>4. clock' \in Nat /\ clock' # None
    BY <1>1, <1>3, JournalConstants DEF JournalTypeOK
<1>5. missed \cup dealt.missed \subseteq missed'
    BY <1>3 DEF JournalIInv
<1> SUFFICES ASSUME NEW s \in Traded
             PROVE  /\ order'[s] = "OPEN" => /\ pending'[s] # None /\ held'[s] = None
                                             /\ traded'[s] < PerSymbol /\ PositionOf(saved', s) = None
                    /\ pending'[s] # None => order'[s] \in {"OPEN", "REJECTED", "CANCELLED"}
                    /\ ~again' /\ order'[s] \in {"REJECTED", "CANCELLED"} /\ pending'[s] = None =>
                          <<s, Reasons[order'[s]]>> \in missed'
                    /\ over' => (~again' => pending'[s] = None) /\ order'[s] # "OPEN"
    BY DEF OrdersSound
<1>6. held[s] = PositionOf(saved', s)
    BY <1>1, <1>3 DEF BooksFollow
<1>7. CASE s \in dealt.placed
    <2>1. held[s] = None /\ traded[s] < PerSymbol
        BY <1>2, <1>7 DEF Free, InUse
    <2> QED BY <1>3, <1>4, <1>6, <1>7, <2>1
<1>8. CASE s \notin dealt.placed
    <2>1. order'[s] = order[s] /\ pending'[s] = WithoutDead[s]
        BY <1>3, <1>8
    <2>2. WithoutDead[s] = IF pending[s] # None /\ order[s] \in {"REJECTED", "CANCELLED"}
                           THEN None ELSE pending[s]
        BY DEF WithoutDead, DeadIn
    <2>3. pending[s] # None /\ order[s] \in {"REJECTED", "CANCELLED"} =>
              <<s, Reasons[order[s]]>> \in missed'
        BY <1>2, <1>5 DEF DeadSignals, DeadIn
    <2>4. /\ order[s] = "OPEN" => pending[s] # None /\ held[s] = None /\ traded[s] < PerSymbol
          /\ pending[s] # None => order[s] \in {"OPEN", "REJECTED", "CANCELLED"}
          /\ ~again /\ order[s] \in {"REJECTED", "CANCELLED"} /\ pending[s] = None =>
                <<s, Reasons[order[s]]>> \in missed
        BY <1>1 DEF OrdersSound
    <2> QED BY <1>3, <1>5, <1>6, <2>1, <2>2, <2>3, <2>4
<1> QED BY <1>7, <1>8

LEMMA MinuteKeeps ==
    ASSUME JournalIInv, NEW list \in Offers, Minute(list)
    PROVE  JournalIInv'
<1> DEFINE dealt == Worked(list)
<1>1. JournalTypeOK /\ DayLength \in Nat
    BY JournalConstants DEF JournalIInv
<1>2. dealt.placed \in SUBSET Free
    BY <1>1, WorkedStands DEF Standing
<1>3. /\ missed' = missed \cup (dealt.missed \ missed_seen) /\ missed_seen' = missed_seen \cup dealt.missed
      /\ pending' = [s \in Traded |-> IF s \in dealt.placed THEN clock' ELSE WithoutDead[s]]
      /\ order' = [s \in Traded |-> IF s \in dealt.placed THEN "OPEN" ELSE order[s]]
      /\ saved' = fills /\ clock' = clock + 1
      /\ UNCHANGED <<held, open, traded, entries, exits, fills, lost, again>>
    BY DEF Minute, MinuteBegins, AllMissed
<1> HIDE DEF dealt
<1>4. JournalTypeOK'
    <2>1. WithoutDead \in [Traded -> Nat \cup {None}]
        BY <1>1 DEF WithoutDead, JournalTypeOK
    <2>2. clock' \in Nat
        BY <1>1, <1>3 DEF JournalTypeOK
    <2>3. pending' \in [Traded -> Nat \cup {None}]
        BY <1>3, <2>1, <2>2
    <2>4. order' \in [Traded -> Statuses \cup {None}]
        BY <1>1, <1>3 DEF JournalTypeOK, Statuses
    <2> QED BY <1>1, <1>3, <2>2, <2>3, <2>4 DEF JournalTypeOK
<1>5. BooksSound(fills)' /\ BooksSound(saved)'
    BY <1>3 DEF JournalIInv, BooksSound
<1>6. JournalTellsTheLedger' /\ NothingUntold' /\ BooksFollow'
    BY <1>3 DEF JournalIInv, JournalTellsTheLedger, NothingUntold, BooksFollow, Follows
<1>7. exits' \subseteq ToSet(entries') /\ missed_seen' \subseteq missed'
    BY <1>3 DEF JournalIInv
<1> QED BY <1>4, <1>5, <1>6, <1>7, MinuteOrders DEF JournalIInv

LEMMA RefusedAtFillKeeps ==
    ASSUME JournalIInv, NEW s \in Traded, RefusedAtFill(s)
    PROVE  JournalIInv'
<1>1. /\ order[s] = "OPEN" /\ ~over /\ order' = [order EXCEPT ![s] = "REJECTED"]
      /\ UNCHANGED <<clock, over, held, pending, open, traded, missed_seen, entries, exits, missed,
                     fills, saved, lost, again>>
    BY DEF RefusedAtFill, books, journal
<1>2. JournalTypeOK /\ OrdersSound
    BY DEF JournalIInv
<1>3. JournalTypeOK'
    BY <1>1, <1>2 DEF JournalTypeOK, Statuses
<1>4. OrdersSound'
    <2> SUFFICES ASSUME NEW u \in Traded
                 PROVE  /\ order'[u] = "OPEN" => /\ pending[u] # None /\ held[u] = None
                                                 /\ traded[u] < PerSymbol /\ PositionOf(saved, u) = None
                        /\ pending[u] # None => order'[u] \in {"OPEN", "REJECTED", "CANCELLED"}
                        /\ ~again /\ order'[u] \in {"REJECTED", "CANCELLED"} /\ pending[u] = None =>
                              <<u, Reasons[order'[u]]>> \in missed
        BY <1>1 DEF OrdersSound
    <2>1. order'[u] = IF u = s THEN "REJECTED" ELSE order[u]
        BY <1>1, <1>2 DEF JournalTypeOK
    <2> QED BY <1>1, <1>2, <2>1 DEF OrdersSound
<1>5. BooksSound(fills)' /\ BooksSound(saved)'
    BY <1>1 DEF JournalIInv, BooksSound
<1>6. JournalTellsTheLedger' /\ NothingUntold' /\ BooksFollow'
    BY <1>1 DEF JournalIInv, JournalTellsTheLedger, NothingUntold, BooksFollow, Follows
<1>7. exits' \subseteq ToSet(entries') /\ missed_seen' \subseteq missed'
    BY <1>1 DEF JournalIInv
<1> QED BY <1>3, <1>4, <1>5, <1>6, <1>7 DEF JournalIInv

\* Closing some positions, whatever else happens to orders and books.
LEMMA ClosedSound ==
    ASSUME JournalIInv, NEW C \in SUBSET Traded, \A s \in C : held[s] # None, Closed(C),
           UNCHANGED <<traded, entries, lost, again>>
    PROVE  /\ fills' \in Seq(LedgerRows)
           /\ held' \in [Traded -> Nat \cup {None}] /\ open' \in [Traded -> Nat \cup {None}]
           /\ BooksSound(fills)' /\ JournalTellsTheLedger' /\ NothingUntold' /\ BooksFollow'
           /\ exits \subseteq exits' /\ exits' \subseteq ToSet(entries')
           /\ \A s \in Traded : held[s] = None => held'[s] = None /\ PositionOf(fills', s) = None
           /\ ~again => ~Raises(C)
<1>1. BooksFollow'
    BY ClosedKeeps DEF JournalIInv, BooksFollow
<1>2. fills' \in Seq(LedgerRows)
    BY ClosedRows
<1>3. ~again => ~Raises(C)
    BY ClosedTold
<1>4. BooksSound(fills)' /\ JournalTellsTheLedger' /\ NothingUntold'
    BY ClosedBooks, ClosedTells
<1> QED BY <1>1, <1>2, <1>3, <1>4, ClosedKeeps

LEMMA ExitedKeeps ==
    ASSUME JournalIInv, NEW s \in Traded, Exited(s)
    PROVE  JournalIInv'
<1>1. /\ held[s] # None /\ Closed({s})
      /\ UNCHANGED <<clock, over, order, pending, traded, missed_seen, entries, missed, saved, lost, again>>
    BY DEF Exited
<1>2. /\ {s} \in SUBSET Traded /\ \A u \in {s} : held[u] # None
    BY <1>1
<1>3. /\ fills' \in Seq(LedgerRows)
      /\ held' \in [Traded -> Nat \cup {None}] /\ open' \in [Traded -> Nat \cup {None}]
      /\ BooksSound(fills)' /\ JournalTellsTheLedger' /\ NothingUntold' /\ BooksFollow'
      /\ exits \subseteq exits' /\ exits' \subseteq ToSet(entries')
      /\ \A u \in Traded : held[u] = None => held'[u] = None
    BY <1>1, <1>2, ClosedSound
<1>4. JournalTypeOK'
    BY <1>1, <1>3 DEF JournalIInv, JournalTypeOK
<1>5. BooksSound(saved)'
    BY <1>1, <1>3, SavedStaySound DEF JournalIInv
<1>6. OrdersSound'
    BY <1>1, <1>3 DEF JournalIInv, OrdersSound
<1> QED BY <1>1, <1>3, <1>4, <1>5, <1>6 DEF JournalIInv

\* What the square-off leaves of an order.
LEMMA SquaredOrders ==
    ASSUME JournalIInv, order' = AfterSquareOff
    PROVE  /\ order' \in [Traded -> Statuses \cup {None}]
           /\ \A s \in Traded :
                /\ order'[s] # "OPEN"
                /\ pending[s] # None => order'[s] \in {"REJECTED", "CANCELLED"}
                /\ pending[s] = None => order'[s] = order[s]
<1>1. order' \in [Traded -> Statuses \cup {None}]
    BY DEF AfterSquareOff, Statuses, JournalIInv, JournalTypeOK
<1>2. ASSUME NEW s \in Traded
      PROVE  /\ order'[s] # "OPEN"
             /\ pending[s] # None => order'[s] \in {"REJECTED", "CANCELLED"}
             /\ pending[s] = None => order'[s] = order[s]
    <2>1. order'[s] = IF order[s] = "OPEN" THEN "CANCELLED" ELSE order[s]
        BY DEF AfterSquareOff
    <2>2. /\ order[s] = "OPEN" => pending[s] # None
          /\ pending[s] # None => order[s] \in {"OPEN", "REJECTED", "CANCELLED"}
        BY DEF JournalIInv, OrdersSound
    <2> QED BY <2>1, <2>2
<1> QED BY <1>1, <1>2

LEMMA LateMinuteKeeps ==
    ASSUME JournalIInv, LateMinute
    PROVE  JournalIInv'
<1>1. /\ ~over /\ clock' = clock + 1
      /\ UNCHANGED <<over, pending, traded, missed_seen, entries, missed, lost, again>>
      /\ saved' = saved \/ saved' = fills'
    BY DEF LateMinute, MinuteBegins
<1>2. \/ UNCHANGED <<order, held, open, exits, fills>>
      \/ order' = AfterSquareOff /\ Closed(Held)
    BY DEF LateMinute, SquaresOff
<1>3. Held \in SUBSET Traded /\ \A s \in Held : held[s] # None
    BY DEF Held
<1>4. /\ fills' \in Seq(LedgerRows)
      /\ held' \in [Traded -> Nat \cup {None}] /\ open' \in [Traded -> Nat \cup {None}]
      /\ BooksSound(fills)' /\ JournalTellsTheLedger' /\ NothingUntold' /\ BooksFollow'
      /\ exits \subseteq exits' /\ exits' \subseteq ToSet(entries')
      /\ \A s \in Traded : held[s] = None => held'[s] = None /\ PositionOf(fills', s) = None
    <2>1. CASE order' = AfterSquareOff /\ Closed(Held)
        BY <1>1, <1>3, <2>1, ClosedSound
    <2>2. CASE UNCHANGED <<order, held, open, exits, fills>>
        <3>1. BooksSound(fills)'
            BY <1>1, <2>2 DEF JournalIInv, BooksSound
        <3>2. JournalTellsTheLedger' /\ NothingUntold' /\ BooksFollow'
            BY <1>1, <2>2 DEF JournalIInv, JournalTellsTheLedger, NothingUntold, BooksFollow, Follows
        <3> QED BY <1>1, <2>2, <3>1, <3>2 DEF JournalIInv, JournalTypeOK, BooksFollow
    <2> QED BY <1>2, <2>1, <2>2
<1>5. BooksSound(saved)' /\ saved' \in Seq(LedgerRows)
    <2>1. CASE saved' = saved
        BY <1>1, <1>4, <2>1, SavedStaySound DEF JournalIInv, JournalTypeOK
    <2>2. CASE saved' = fills'
        BY <1>4, <2>2 DEF BooksSound
    <2> QED BY <1>1, <2>1, <2>2
<1>6. /\ order' \in [Traded -> Statuses \cup {None}]
      /\ \/ order' = order
         \/ \A s \in Traded :
                /\ order'[s] # "OPEN"
                /\ pending[s] # None => order'[s] \in {"REJECTED", "CANCELLED"}
                /\ pending[s] = None => order'[s] = order[s]
    BY <1>2, SquaredOrders DEF JournalIInv, JournalTypeOK
<1>7. OrdersSound'
    <2> SUFFICES ASSUME NEW s \in Traded
                 PROVE  /\ order'[s] = "OPEN" => /\ pending[s] # None /\ held'[s] = None
                                                 /\ traded[s] < PerSymbol /\ PositionOf(saved', s) = None
                        /\ pending[s] # None => order'[s] \in {"OPEN", "REJECTED", "CANCELLED"}
                        /\ ~again /\ order'[s] \in {"REJECTED", "CANCELLED"} /\ pending[s] = None =>
                              <<s, Reasons[order'[s]]>> \in missed
        BY <1>1 DEF OrdersSound
    <2>1. /\ order[s] = "OPEN" => /\ pending[s] # None /\ held[s] = None /\ traded[s] < PerSymbol
                                  /\ PositionOf(saved, s) = None
          /\ pending[s] # None => order[s] \in {"OPEN", "REJECTED", "CANCELLED"}
          /\ ~again /\ order[s] \in {"REJECTED", "CANCELLED"} /\ pending[s] = None =>
                <<s, Reasons[order[s]]>> \in missed
        BY DEF JournalIInv, OrdersSound
    <2>2. CASE order' = order
        <3>1. held[s] = None => held'[s] = None /\ PositionOf(fills', s) = None
            BY <1>4
        <3>2. order'[s] = order[s]
            BY <2>2
        <3> QED BY <1>1, <2>1, <3>1, <3>2
    <2>3. CASE /\ order'[s] # "OPEN"
               /\ pending[s] # None => order'[s] \in {"REJECTED", "CANCELLED"}
               /\ pending[s] = None => order'[s] = order[s]
        BY <1>1, <2>1, <2>3
    <2> QED BY <1>6, <2>2, <2>3
<1>8. JournalTypeOK'
    <2>1. clock' \in Nat
        BY <1>1 DEF JournalIInv, JournalTypeOK
    <2> QED BY <1>1, <1>4, <1>5, <1>6, <2>1 DEF JournalIInv, JournalTypeOK
<1> QED BY <1>1, <1>4, <1>5, <1>7, <1>8 DEF JournalIInv

LEMMA StopKeeps ==
    ASSUME JournalIInv, Stop
    PROVE  JournalIInv'
<1>1. /\ over' = TRUE /\ order' = AfterSquareOff /\ Closed(Held)
      /\ UNCHANGED <<clock, traded, entries, lost, again>>
      /\ \/ Raises(Held) /\ UNCHANGED <<pending, missed, missed_seen, saved>>
         \/ /\ ~Raises(Held) /\ saved' = fills' /\ pending' = Nothing
            /\ missed' = missed \cup (DeadSignals(order') \ missed_seen)
            /\ missed_seen' = missed_seen \cup DeadSignals(order')
    BY DEF Stop, SquaresOff, AllMissed
<1>2. Held \in SUBSET Traded /\ \A s \in Held : held[s] # None
    BY DEF Held
<1>3. /\ fills' \in Seq(LedgerRows)
      /\ held' \in [Traded -> Nat \cup {None}] /\ open' \in [Traded -> Nat \cup {None}]
      /\ BooksSound(fills)' /\ JournalTellsTheLedger' /\ NothingUntold' /\ BooksFollow'
      /\ exits \subseteq exits' /\ exits' \subseteq ToSet(entries')
      /\ ~again => ~Raises(Held)
    BY <1>1, <1>2, ClosedSound
<1>4. BooksSound(saved)' /\ saved' \in Seq(LedgerRows)
    <2>1. CASE saved' = saved
        BY <1>1, <1>3, <2>1, SavedStaySound DEF JournalIInv, JournalTypeOK
    <2>2. CASE saved' = fills'
        BY <1>3, <2>2 DEF BooksSound
    <2> QED BY <1>1, <2>1, <2>2
<1>5. /\ order' \in [Traded -> Statuses \cup {None}]
      /\ \A s \in Traded :
            /\ order'[s] # "OPEN"
            /\ pending[s] # None => order'[s] \in {"REJECTED", "CANCELLED"}
            /\ pending[s] = None => order'[s] = order[s]
    BY <1>1, SquaredOrders
<1>6. /\ missed \subseteq missed' /\ missed_seen' \subseteq missed'
      /\ pending' = Nothing => DeadSignals(order') \subseteq missed' \/ pending = Nothing
      /\ pending' = Nothing \/ pending' = pending
      /\ ~again => pending' = Nothing
    BY <1>1, <1>3 DEF JournalIInv
<1>7. OrdersSound'
    <2> SUFFICES ASSUME NEW s \in Traded
                 PROVE  /\ pending'[s] # None => order'[s] \in {"REJECTED", "CANCELLED"}
                        /\ ~again => pending'[s] = None
                        /\ ~again /\ order'[s] \in {"REJECTED", "CANCELLED"} =>
                              <<s, Reasons[order'[s]]>> \in missed'
        BY <1>1, <1>5 DEF OrdersSound
    <2>1. ~again => pending'[s] = None
        BY <1>6 DEF Nothing
    <2>2. pending'[s] # None => order'[s] \in {"REJECTED", "CANCELLED"}
        BY <1>5, <1>6 DEF Nothing
    <2>3. ASSUME ~again, order'[s] \in {"REJECTED", "CANCELLED"}
          PROVE  <<s, Reasons[order'[s]]>> \in missed'
        <3>1. CASE pending[s] = None
            BY <1>5, <1>6, <2>3, <3>1 DEF JournalIInv, OrdersSound
        <3>2. CASE pending[s] # None
            <4>1. s \in DeadIn(order')
                BY <2>3, <3>2 DEF DeadIn
            <4>2. <<s, Reasons[order'[s]]>> \in DeadSignals(order')
                BY <4>1 DEF DeadSignals
            <4>3. pending # Nothing
                BY <3>2 DEF Nothing
            <4> QED BY <1>6, <2>3, <4>2, <4>3
        <3> QED BY <3>1, <3>2
    <2> QED BY <2>1, <2>2, <2>3
<1>8. JournalTypeOK'
    <2>1. pending' \in [Traded -> Nat \cup {None}]
        BY <1>6 DEF Nothing, JournalIInv, JournalTypeOK
    <2> QED BY <1>1, <1>3, <1>4, <1>5, <2>1 DEF JournalIInv, JournalTypeOK
<1> QED BY <1>3, <1>4, <1>6, <1>7, <1>8 DEF JournalIInv

\* What a restart attaches: nothing, or a trade of the stock without an exit, and the
\* position itself when the journal has it last and not its exit.
LEMMA AttachedIs ==
    ASSUME JournalTypeOK, NEW s \in Traded
    PROVE  /\ Attached(s) \in Nat \cup {None}
           /\ PositionOf(saved, s) = None => Attached(s) = None
           /\ Attached(s) # None => <<s, Attached(s)>> \in ToSet(entries) \ exits
           /\ \A t \in Nat : PositionOf(saved, s) # None /\ LastEntry(entries, s, t) /\ <<s, t>> \notin exits
                  => Attached(s) = t
<1> DEFINE unsold == {i \in DOMAIN entries : entries[i][1] = s /\ entries[i] \notin exits}
           k == Len(entries)
<1>1. /\ k \in Nat /\ DOMAIN entries = 1 .. k /\ unsold \in SUBSET (1 .. k)
      /\ \A i \in 1 .. k : entries[i] \in Traded \X Nat
    BY DEF JournalTypeOK
<1>2. Attached(s) = IF PositionOf(saved, s) = None \/ unsold = {} THEN None ELSE entries[Max(unsold)][2]
    BY DEF Attached
<1>3. unsold # {} => Max(unsold) \in unsold /\ \A i \in unsold : i <= Max(unsold)
    BY <1>1, GreatestPlace
<1>4. unsold # {} => /\ entries[Max(unsold)][2] \in Nat
                   /\ <<s, entries[Max(unsold)][2]>> \in ToSet(entries) \ exits
    <2>1. ASSUME NEW i \in unsold PROVE entries[i][2] \in Nat /\ <<s, entries[i][2]>> \in ToSet(entries) \ exits
        <3>1. entries[i] \in Traded \X Nat /\ i \in DOMAIN entries /\ entries[i][1] = s /\ entries[i] \notin exits
            BY <1>1
        <3>2. entries[i] = <<s, entries[i][2]>>
            BY <3>1
        <3> QED BY <3>1, <3>2 DEF ToSet
    <2> HIDE DEF unsold
    <2> QED BY <1>3, <2>1
<1>5. ASSUME NEW t \in Nat, LastEntry(entries, s, t), <<s, t>> \notin exits
      PROVE  unsold # {} /\ entries[Max(unsold)][2] = t
    <2>1. PICK i \in DOMAIN entries : entries[i] = <<s, t>> /\ \A j \in DOMAIN entries : entries[j][1] = s => j <= i
        BY <1>5 DEF LastEntry
    <2>2. i \in unsold /\ \A j \in unsold : j <= i
        BY <1>5, <2>1
    <2>3. unsold \in SUBSET Int
        BY <1>1
    <2> HIDE DEF unsold
    <2>4. Max(unsold) = i
        BY <2>2, <2>3, MaxIs
    <2> QED BY <2>1, <2>2, <2>4
<1> HIDE DEF unsold
<1> QED BY <1>2, <1>4, <1>5

LEMMA RestartKeeps ==
    ASSUME JournalIInv, Restart
    PROVE  JournalIInv'
<1>1. /\ clock > 0 /\ clock' \in clock-1..DayLength-1 /\ over' = FALSE
      /\ order' = Nothing /\ pending' = Nothing /\ missed_seen' = {}
      /\ held' = [s \in Traded |-> PositionOf(saved, s)]
      /\ open' = [s \in Traded |-> Attached(s)]
      /\ traded' = [s \in Traded |-> Cardinality(Rows(saved, s, "BUY"))]
      /\ fills' = saved /\ lost' = (lost \/ fills # saved)
      /\ UNCHANGED <<entries, exits, missed, saved, again>>
    BY DEF Restart, journal
<1>2. JournalTypeOK /\ BooksSound(saved) /\ saved \in Seq(LedgerRows)
    BY DEF JournalIInv, JournalTypeOK
<1>3. JournalTypeOK'
    <2>1. clock' \in Nat
        BY <1>1, <1>2, JournalConstants DEF JournalTypeOK
    <2>2. held' \in [Traded -> Nat \cup {None}] /\ open' \in [Traded -> Nat \cup {None}]
        BY <1>1, <1>2, PositionIsTrade, AttachedIs
    <2>3. traded' \in [Traded -> Nat]
        BY <1>1, <1>2, RowCounts
    <2>4. order' \in [Traded -> Statuses \cup {None}] /\ pending' \in [Traded -> Nat \cup {None}]
        BY <1>1 DEF Nothing
    <2> QED BY <1>1, <1>2, <2>1, <2>2, <2>3, <2>4 DEF JournalTypeOK
<1>4. BooksSound(saved)' /\ BooksSound(fills)'
    BY <1>1, <1>2 DEF BooksSound
<1>5. OrdersSound' /\ BooksFollow'
    BY <1>1, JournalConstants DEF OrdersSound, BooksFollow, Nothing, Statuses
\* A position is followed as what it is, unless the journal has its exit.
<1>6. ASSUME ~again, NEW s \in Traded
      PROVE  IF held'[s] = None THEN open'[s] = None
             ELSE IF <<s, held'[s]>> \notin exits THEN open'[s] = held'[s]
             ELSE open'[s] # None => <<s, open'[s]>> \in ToSet(entries) \ (exits \cup Trades(saved, "BUY"))
    <2>1. held'[s] = PositionOf(saved, s) /\ open'[s] = Attached(s)
        BY <1>1
    <2>2. PositionOf(saved, s) # None => /\ PositionOf(saved, s) \in Nat
                                         /\ LastEntry(entries, s, PositionOf(saved, s))
        BY <1>2, <1>6, PositionIsTrade DEF BooksSound
    <2>3. <<s, PositionOf(saved, s)>> \in exits /\ Attached(s) # None =>
              <<s, Attached(s)>> \in ToSet(entries) \ (exits \cup Trades(saved, "BUY"))
        <3> SUFFICES ASSUME <<s, PositionOf(saved, s)>> \in exits, Attached(s) # None,
                            <<s, Attached(s)>> \in Trades(saved, "BUY")
                     PROVE  FALSE
            BY <1>2, AttachedIs
        <3>1. <<s, Attached(s)>> \notin exits
            BY <1>2, AttachedIs
        <3>2. Attached(s) = PositionOf(saved, s) \/ <<s, Attached(s)>> \in Trades(saved, "SELL")
            BY <1>2 DEF BooksSound
        <3>3. Trades(saved, "SELL") \subseteq exits
            BY <1>2, <1>6 DEF BooksSound
        <3> QED BY <3>1, <3>2, <3>3
    <2> QED BY <1>2, <2>1, <2>2, <2>3, AttachedIs
<1>7. NothingUntold'
    <2>1. Trades(saved, "BUY") \subseteq ToSet(entries) /\ (~again => Trades(saved, "SELL") \subseteq exits)
        BY <1>2 DEF BooksSound
    <2> QED BY <1>1, <1>6, <2>1 DEF NothingUntold, Follows
<1>8. JournalTellsTheLedger'
    <2> SUFFICES ASSUME ~lost', ~again
                 PROVE  /\ ToSet(entries) = Trades(saved, "BUY") /\ Len(entries) = Bought(saved)
                        /\ exits = Trades(saved, "SELL") /\ open' = held'
        BY <1>1 DEF JournalTellsTheLedger, Bought
    <2>1. ~lost /\ fills = saved
        BY <1>1
    <2>2. /\ ToSet(entries) = Trades(saved, "BUY") /\ Len(entries) = Bought(saved)
          /\ exits = Trades(saved, "SELL")
        BY <2>1 DEF JournalIInv, JournalTellsTheLedger, Bought
    <2>3. \A s \in Traded : open'[s] = held'[s]
        <3> TAKE s \in Traded
        <3>1. PositionOf(saved, s) # None => <<s, PositionOf(saved, s)>> \notin exits
            BY <1>2, <2>2 DEF BooksSound
        <3>2. held'[s] = PositionOf(saved, s)
            BY <1>1
        <3> QED BY <1>6, <3>1, <3>2
    <2> QED BY <1>1, <2>2, <2>3
<1>9. exits' \subseteq ToSet(entries') /\ missed_seen' \subseteq missed'
    BY <1>1 DEF JournalIInv
<1> QED BY <1>3, <1>4, <1>5, <1>7, <1>8, <1>9 DEF JournalIInv

LEMMA JournalInitIInv == JournalInit => JournalIInv
<1> SUFFICES ASSUME JournalInit PROVE JournalIInv
    OBVIOUS
<1>1. /\ clock = 0 /\ over = FALSE /\ order = Nothing /\ held = Nothing /\ pending = Nothing
      /\ open = Nothing /\ traded = [s \in Traded |-> 0] /\ missed_seen = {} /\ missed = {}
      /\ entries = <<>> /\ exits = {} /\ fills = <<>> /\ saved = <<>>
    BY DEF JournalInit
<1>2. <<>> \in Seq(LedgerRows) /\ <<>> \in Seq(Traded \X Nat) /\ DOMAIN <<>> = {} /\ Len(<<>>) = 0
    OBVIOUS
<1>3. JournalTypeOK
    BY <1>1, <1>2 DEF JournalTypeOK, Nothing
<1>4. \A s \in Traded : /\ Of(<<>>, s) = {} /\ Rows(<<>>, s, "BUY") = {}
                        /\ PositionOf(<<>>, s) = None /\ Cardinality(Rows(<<>>, s, "BUY")) = 0
    <2> TAKE s \in Traded
    <2>1. Of(<<>>, s) = {} /\ Rows(<<>>, s, "BUY") = {}
        BY <1>2 DEF Of, Rows
    <2>2. PositionOf(<<>>, s) = None
        BY <1>2, <2>1, PositionIs
    <2> QED BY <2>1, <2>2, FS_EmptySet
<1>5. Trades(<<>>, "BUY") = {} /\ Trades(<<>>, "SELL") = {} /\ ToSet(<<>>) = {}
    BY <1>2 DEF Trades, ToSet
<1>6. BooksSound(fills) /\ BooksSound(saved)
    BY <1>1, <1>4, <1>5, JournalConstants DEF BooksSound
<1>7. OrdersSound /\ BooksFollow
    BY <1>1, <1>4, JournalConstants DEF OrdersSound, BooksFollow, Nothing, Statuses
<1>8. Bought(<<>>) = 0
    <2>1. {i \in DOMAIN <<>> : <<>>[i].side = "BUY"} = {}
        BY <1>2
    <2> QED BY <2>1, FS_EmptySet DEF Bought
<1>9. JournalTellsTheLedger
    BY <1>1, <1>2, <1>5, <1>8 DEF JournalTellsTheLedger, Bought
<1>10. NothingUntold
    BY <1>1, <1>5 DEF NothingUntold, Nothing
<1> QED BY <1>1, <1>3, <1>6, <1>7, <1>9, <1>10 DEF JournalIInv

LEMMA JournalInductive == JournalIInv /\ [JournalNext]_jvars => JournalIInv'
<1> SUFFICES ASSUME JournalIInv, [JournalNext]_jvars PROVE JournalIInv'
    OBVIOUS
<1>1. CASE \E list \in Offers : Minute(list)
    BY <1>1, MinuteKeeps
<1>2. CASE \E s \in Traded : Filled(s)
    BY <1>2, FilledKeeps
<1>3. CASE \E s \in Traded : RefusedAtFill(s)
    BY <1>3, RefusedAtFillKeeps
<1>4. CASE \E s \in Traded : Exited(s)
    BY <1>4, ExitedKeeps
<1>5. CASE LateMinute
    BY <1>5, LateMinuteKeeps
<1>6. CASE Stop
    BY <1>6, StopKeeps
<1>7. CASE Restart
    BY <1>7, RestartKeeps
<1>8. CASE UNCHANGED jvars
    <2>1. UNCHANGED <<clock, over, order, held, pending, open, traded, missed_seen, entries, exits,
                      missed, fills, saved, lost, again>>
        BY <1>8 DEF jvars, books, journal
    <2>2. BooksSound(fills)' /\ BooksSound(saved)'
        BY <2>1 DEF JournalIInv, BooksSound
    <2>3. JournalTellsTheLedger' /\ NothingUntold' /\ BooksFollow' /\ OrdersSound' /\ JournalTypeOK'
        BY <2>1 DEF JournalIInv, JournalTellsTheLedger, NothingUntold, BooksFollow, Follows, OrdersSound,
                    JournalTypeOK
    <2> QED BY <2>1, <2>2, <2>3 DEF JournalIInv
<1> QED BY <1>1, <1>2, <1>3, <1>4, <1>5, <1>6, <1>7, <1>8 DEF JournalNext

\* The journal tells the day the ledger has, over crashes and restarts: while none lost
\* a fill, each trade and each exit once, and the strategy follows the positions;
\* whatever was lost, no trade without its line.  No stock is traded more often than
\* allowed, and no placed signal vanishes (recommendation.py:11-14, 56-73,
\* journal.py:3-7).
THEOREM JournalAlwaysHolds == JournalSpec => []JournalHolds
<1>1. JournalSpec => []JournalIInv
    BY JournalInitIInv, JournalInductive, PTL DEF JournalSpec
<1> QED BY <1>1, JournalIInvHolds, PTL
------------------------------------------------------------------------------
(* The study.  First how many resamples there are, and how they divide.    *)

LEMMA Minus == \A x, y \in Int : x + y = 0 => -x = y
OBVIOUS

LEMMA MinusTwice == - (-1) = 1
<1>1. -1 \in Int /\ 1 \in Int /\ -1 + 1 = 0
    OBVIOUS
<1> QED BY <1>1, Minus

\* The functions from a finite set of numbers to a finite set are finitely many.
LEMMA FunctionsAreFinite ==
    ASSUME NEW n \in Nat, NEW S, IsFiniteSet(S)
    PROVE  IsFiniteSet([1 .. n -> S])
<1> DEFINE F == [1 .. n -> S]
           graph == [f \in F |-> {<<i, f[i]>> : i \in 1 .. n}]
<1>1. IsFiniteSet(SUBSET ((1 .. n) \X S))
    <2>1. IsFiniteSet(1 .. n)
        BY FS_Interval
    <2>2. IsFiniteSet((1 .. n) \X S)
        BY <2>1, FS_Product
    <2> QED BY <2>2, FS_SUBSET
<1>2. graph \in [F -> SUBSET ((1 .. n) \X S)]
    OBVIOUS
<1>3. ASSUME NEW f \in F, NEW g \in F, graph[f] = graph[g] PROVE f = g
    <2>1. ASSUME NEW i \in 1 .. n PROVE f[i] = g[i]
        <3>1. <<i, f[i]>> \in graph[f]
            OBVIOUS
        <3>2. <<i, f[i]>> \in {<<j, g[j]>> : j \in 1 .. n}
            BY <1>3, <3>1
        <3> QED BY <3>2
    <2> QED BY <2>1
<1> HIDE DEF graph
<1>4. graph \in Injection(F, SUBSET ((1 .. n) \X S))
    BY <1>2, <1>3 DEF Injection, IsInjective
<1> HIDE DEF F
<1>5. IsFiniteSet(F)
    BY <1>1, <1>4, FS_Injection
<1> QED BY <1>5 DEF F

\* Three days give at least nine resamples.
LEMMA ManyResamples ==
    ASSUME NEW S, IsFiniteSet(S), Cardinality(S) >= 3
    PROVE  /\ IsFiniteSet([1 .. Cardinality(S) -> S])
           /\ Cardinality([1 .. Cardinality(S) -> S]) \in Nat
           /\ Cardinality([1 .. Cardinality(S) -> S]) >= 9
<1> DEFINE n == Cardinality(S)
           F == [1 .. n -> S]
           first == [x \in S \X S |-> [i \in 1 .. n |-> IF i = 1 THEN x[1] ELSE x[2]]]
<1>1. n \in Nat /\ n >= 3
    BY FS_CardinalityType
<1>2. IsFiniteSet(F) /\ Cardinality(F) \in Nat
    BY <1>1, FunctionsAreFinite, FS_CardinalityType
<1>3. first \in [S \X S -> F]
    OBVIOUS
<1>4. ASSUME NEW x \in S \X S, NEW y \in S \X S, first[x] = first[y] PROVE x = y
    <2>1. first[x][1] = x[1] /\ first[x][2] = x[2] /\ first[y][1] = y[1] /\ first[y][2] = y[2]
        BY <1>1
    <2>2. x[1] = y[1] /\ x[2] = y[2]
        BY <1>4, <2>1
    <2> HIDE DEF first
    <2> QED BY <2>2
<1> HIDE DEF first
<1>5. first \in Injection(S \X S, F)
    BY <1>3, <1>4 DEF Injection, IsInjective
<1> HIDE DEF F
<1>6. Cardinality(S \X S) <= Cardinality(F)
    BY <1>2, <1>5, FS_Injection
<1>7. Cardinality(S \X S) = n * n
    BY FS_Product
<1> HIDE DEF n
<1>8. n * n >= 9
    BY <1>1
<1>9. Cardinality(F) >= 9
    BY <1>1, <1>2, <1>6, <1>7, <1>8
<1> QED BY <1>2, <1>9 DEF n, F

\* What each resample leads to divides the resamples.
LEMMA LeadsDivide ==
    ASSUME NEW R, IsFiniteSet(R), NEW lead, \A p \in R : lead[p] \in -1 .. Unknown
    PROVE  LET c(x) == Cardinality({p \in R : lead[p] = x})
           IN  /\ \A x \in -1 .. Unknown : c(x) \in Nat
               /\ c(-1) + c(0) + c(1) + c(Unknown) = Cardinality(R)
<1> DEFINE P(x) == {p \in R : lead[p] = x}
           c(x) == Cardinality(P(x))
<1>1. \A x \in -1 .. Unknown : IsFiniteSet(P(x)) /\ c(x) \in Nat
    BY FS_Subset, FS_CardinalityType
<1>2. /\ -1 \in -1 .. Unknown /\ 0 \in -1 .. Unknown /\ 1 \in -1 .. Unknown /\ Unknown \in -1 .. Unknown
      /\ \A x \in -1 .. Unknown : x \in {-1, 0, 1, Unknown}
    BY DEF Unknown
<1>3. R = (P(-1) \cup P(0)) \cup (P(1) \cup P(Unknown))
    BY <1>2
<1>4. /\ P(-1) \cap P(0) = {} /\ P(1) \cap P(Unknown) = {}
      /\ (P(-1) \cup P(0)) \cap (P(1) \cup P(Unknown)) = {}
    BY DEF Unknown
<1>5. \A S, T : IsFiniteSet(S) /\ IsFiniteSet(T) /\ S \cap T = {} =>
          IsFiniteSet(S \cup T) /\ Cardinality(S \cup T) = Cardinality(S) + Cardinality(T)
    <2> SUFFICES ASSUME NEW S, NEW T, IsFiniteSet(S), IsFiniteSet(T), S \cap T = {}
                 PROVE  IsFiniteSet(S \cup T) /\ Cardinality(S \cup T) = Cardinality(S) + Cardinality(T)
        OBVIOUS
    <2>1. Cardinality(S) \in Nat /\ Cardinality(T) \in Nat
        BY FS_CardinalityType
    <2>2. Cardinality(S \cap T) = 0
        BY FS_EmptySet
    <2>3. IsFiniteSet(S \cup T) /\ Cardinality(S \cup T) = Cardinality(S) + Cardinality(T) - Cardinality(S \cap T)
        BY FS_Union
    <2> QED BY <2>1, <2>2, <2>3
<1> HIDE DEF P
<1>6. Cardinality(R) = (c(-1) + c(0)) + (c(1) + c(Unknown))
    <2>1. /\ IsFiniteSet(P(-1)) /\ IsFiniteSet(P(0)) /\ IsFiniteSet(P(1)) /\ IsFiniteSet(P(Unknown))
        BY <1>1, <1>2
    <2>2. IsFiniteSet(P(-1) \cup P(0)) /\ Cardinality(P(-1) \cup P(0)) = c(-1) + c(0)
        BY <1>4, <1>5, <2>1
    <2>3. IsFiniteSet(P(1) \cup P(Unknown)) /\ Cardinality(P(1) \cup P(Unknown)) = c(1) + c(Unknown)
        BY <1>4, <1>5, <2>1
    <2>4. Cardinality((P(-1) \cup P(0)) \cup (P(1) \cup P(Unknown)))
            = Cardinality(P(-1) \cup P(0)) + Cardinality(P(1) \cup P(Unknown))
        BY <1>4, <1>5, <2>2, <2>3
    <2>5. Cardinality(R) = Cardinality((P(-1) \cup P(0)) \cup (P(1) \cup P(Unknown)))
        BY <1>3
    <2> QED BY <2>2, <2>3, <2>4, <2>5
<1> HIDE DEF c
<1>7. c(-1) + c(0) + c(1) + c(Unknown) = Cardinality(R)
    BY <1>1, <1>2, <1>6
<1> QED BY <1>1, <1>7 DEF c, P

\* The evidence of a horizon.
EvidenceSound(ev) ==
    /\ ev.enough.a \in BOOLEAN /\ ev.enough.b \in BOOLEAN
    /\ \A x \in {-1, 0, 1, Unknown} : ev.count[x] \in Nat
    /\ \A k \in 1 .. 2 : ev.half[k] \in {-1, 0, 1, Unknown}
    /\ ev.enough.a /\ ev.enough.b => Usable(ev.count) + ev.count[Unknown] >= 9

LEMMA LeadsType == \A a, b, pick : Leads(a, b, pick) \in {-1, 0, 1, Unknown}
BY DEF Leads, SignOf

LEMMA EvidenceIsSound ==
    ASSUME NEW n \in Nat, NEW a, NEW b, DOMAIN a = 1 .. n, DOMAIN b = 1 .. n,
           \A i \in 1 .. n : a[i].n \in Nat /\ b[i].n \in Nat
    PROVE  EvidenceSound(EvidenceAt(a, b))
<1> DEFINE known == {i \in DOMAIN a : a[i].n + b[i].n > 0}
           R == Resamples(a, b)
           leads == [pick \in R |-> Leads(a, b, pick)]
           ev == EvidenceAt(a, b)
<1>1. R = [1 .. Cardinality(known) -> known]
    BY DEF Resamples
<1>2. IsFiniteSet(known) /\ Cardinality(known) \in Nat
    <2>1. IsFiniteSet(1 .. n) /\ known \in SUBSET (1 .. n)
        BY FS_Interval
    <2> HIDE DEF known
    <2> QED BY <2>1, FS_Subset, FS_CardinalityType
<1>3. IsFiniteSet(R)
    BY <1>1, <1>2, FunctionsAreFinite
<1>4. \A p \in R : leads[p] \in -1 .. Unknown
    BY LeadsType DEF Unknown
<1> HIDE DEF R, known
<1>5. DOMAIN leads = R
    OBVIOUS
<1>6. /\ ev.enough.a = Enough(a) /\ ev.enough.b = Enough(b)
      /\ \A x \in -1 .. Unknown : ev.count[x] = Cardinality({p \in R : leads[p] = x})
      /\ \A k \in 1 .. 2 : ev.half[k] = Leads(a, b, Half(Len(a), k))
    BY <1>5 DEF EvidenceAt, R
<1>7. /\ \A x \in -1 .. Unknown : ev.count[x] \in Nat
      /\ ev.count[-1] + ev.count[0] + ev.count[1] + ev.count[Unknown] = Cardinality(R)
    <2> HIDE DEF ev, leads
    <2>1. -1 \in -1 .. Unknown /\ 0 \in -1 .. Unknown /\ 1 \in -1 .. Unknown /\ Unknown \in -1 .. Unknown
        BY DEF Unknown
    <2> DEFINE c(x) == Cardinality({p \in R : leads[p] = x})
    <2>2. /\ \A x \in -1 .. Unknown : c(x) \in Nat
          /\ c(-1) + c(0) + c(1) + c(Unknown) = Cardinality(R)
        BY <1>3, <1>4, LeadsDivide
    <2>3. \A x \in -1 .. Unknown : ev.count[x] = c(x)
        BY <1>6
    <2> HIDE DEF c
    <2> QED BY <2>1, <2>2, <2>3
<1>8. ASSUME Enough(a) PROVE Cardinality(R) >= 9
    <2>1. Cardinality({i \in DOMAIN a : a[i].n > 0}) >= MinDays
        BY <1>8 DEF Enough
    <2>2. {i \in DOMAIN a : a[i].n > 0} \subseteq known
        BY DEF known
    <2>3. Cardinality({i \in DOMAIN a : a[i].n > 0}) <= Cardinality(known)
        BY <1>2, <2>2, FS_Subset
    <2>4. IsFiniteSet({i \in DOMAIN a : a[i].n > 0})
        BY <1>2, <2>2, FS_Subset
    <2>5. Cardinality(known) >= 3
        BY <1>2, <2>1, <2>3, <2>4, FS_CardinalityType, StudyAssumption
    <2> QED BY <1>1, <1>2, <2>5, ManyResamples
<1> HIDE DEF ev, leads
<1>9. \A x \in {-1, 0, 1, Unknown} : x \in -1 .. Unknown
    BY DEF Unknown
<1>10. Enough(a) \in BOOLEAN /\ Enough(b) \in BOOLEAN
    BY DEF Enough
<1>11. Usable(ev.count) + ev.count[Unknown] = Cardinality(R)
    BY <1>7, <1>9 DEF Usable
<1> QED BY <1>6, <1>7, <1>8, <1>9, <1>10, <1>11, LeadsType DEF EvidenceSound, ev

\* The places of the two ends among u resamples.
Low(u) == u \div TailShare
High(u) == ((TailShare - 1) * u) \div TailShare

LEMMA QuotientIs ==
    ASSUME NEW a \in Nat, NEW b \in Nat \ {0}
    PROVE  a \div b \in Nat /\ b * (a \div b) <= a /\ a < b * (a \div b) + b
OBVIOUS

LEMMA EndsAreApart ==
    ASSUME NEW u \in Nat, u >= 4
    PROVE  /\ Low(u) \in Nat /\ High(u) \in Nat /\ 4 * Low(u) <= u /\ 4 * (u - High(u)) < u + 4
           /\ \A w \in Nat : TailShare * w >= (TailShare - 1) * u => w >= High(u) /\ u - w <= Low(u)
           /\ u % TailShare = 0 => High(u) = u - Low(u)
<1> DEFINE t == TailShare
           q == Low(u)
           r == High(u)
           m == (t - 1) * u
<1>1. t \in Nat /\ t >= 4
    BY StudyAssumption
<1>2. m \in Nat /\ m = t * u - u /\ t * u \in Nat
    BY <1>1
<1>3. q \in Nat /\ t * q <= u /\ u < t * q + t
    BY <1>1, QuotientIs DEF Low
<1> HIDE DEF m
<1>4. r \in Nat /\ t * r <= m /\ m < t * r + t
    <2>1. r = m \div t
        BY DEF High, m
    <2> HIDE DEF r, t
    <2> QED BY <1>1, <1>2, <2>1, QuotientIs
<1> HIDE DEF t, q, r
<1>5. 4 * q <= u
    <2>1. 4 * q <= t * q
        BY <1>1, <1>3
    <2>2. t * q \in Nat
        BY <1>1, <1>3
    <2> QED BY <1>3, <2>1, <2>2
<1>6. 4 * (u - r) < u + 4
    <2> DEFINE d == u - r - 1
    <2>1. d \in Int /\ t * d = t * u - t * r - t /\ t * r \in Nat /\ t * d \in Int
        BY <1>1, <1>4
    <2>2. t * d < u
        BY <1>1, <1>2, <1>4, <2>1
    <2>3. d >= 0 => 4 * d <= t * d
        BY <1>1, <2>1
    <2>4. 4 * d < u
        BY <2>1, <2>2, <2>3
    <2> QED BY <1>4, <2>4
<1>7. ASSUME NEW w \in Nat, t * w >= m PROVE w >= r /\ u - w <= q
    <2>1. w >= r
        <3>1. SUFFICES ASSUME w + 1 <= r PROVE FALSE
            BY <1>4
        <3>2. t * (w + 1) <= t * r /\ t * (w + 1) = t * w + t /\ t * w \in Nat /\ t * r \in Nat
            BY <1>1, <1>4, <3>1
        <3> QED BY <1>1, <1>2, <1>4, <1>7, <3>2
    <2>2. u - w <= q
        <3>1. SUFFICES ASSUME u - w >= q + 1 PROVE FALSE
            BY <1>3
        <3>2. t * (u - w) >= t * (q + 1) /\ t * (u - w) = t * u - t * w /\ t * (q + 1) = t * q + t
            BY <1>1, <1>3, <3>1
        <3>3. t * w \in Nat /\ t * q \in Nat
            BY <1>1, <1>3
        <3> QED BY <1>1, <1>2, <1>3, <1>7, <3>2, <3>3
    <2> QED BY <2>1, <2>2
<1>8. ASSUME u % t = 0 PROVE r = u - q
    <2>1. u = t * q
        BY <1>1, <1>8, StudyAssumption DEF q, Low, t
    <2>2. m = t * (u - q)
        BY <1>1, <1>2, <1>3, <2>1
    <2>3. u - q \in Nat
        BY <1>3, <1>5
    <2>4. t * (u - q) < t * (r + 1) /\ t * r <= t * (u - q)
        BY <1>1, <1>4, <2>2
    <2>5. u - q < r + 1 /\ r <= u - q
        BY <1>1, <1>4, <2>3, <2>4
    <2> QED BY <1>4, <2>3, <2>5
<1> QED BY <1>3, <1>4, <1>5, <1>6, <1>7, <1>8 DEF t, q, r, m

\* When a horizon is significant, and on which side.
LEMMA SignificantIs ==
    ASSUME NEW ev, EvidenceSound(ev), ev.enough.a, ev.enough.b,
           Usable(ev.count) >= (Usable(ev.count) + ev.count[Unknown]) \div 2
    PROVE  LET u == Usable(ev.count)
           IN  /\ u \in Nat /\ u >= 4 /\ u = ev.count[-1] + ev.count[0] + ev.count[1]
               /\ ev.count[-1] \in Nat /\ ev.count[0] \in Nat /\ ev.count[1] \in Nat
               /\ Significance(ev) = IF ev.count[-1] + ev.count[0] <= Low(u) THEN 1
                                     ELSE IF ev.count[-1] >= High(u) THEN -1 ELSE 0
<1> DEFINE u == Usable(ev.count)
           k == ev.count[Unknown]
<1>1. /\ ev.count[-1] \in Nat /\ ev.count[0] \in Nat /\ ev.count[1] \in Nat /\ k \in Nat
      /\ u + k >= 9
    BY DEF EvidenceSound
<1>2. u = ev.count[-1] + ev.count[0] + ev.count[1] /\ u \in Nat
    BY <1>1 DEF Usable
<1>3. u >= (u + k) \div 2
    OBVIOUS
<1>4. Significance(ev) = IF ev.count[-1] + ev.count[0] <= Low(u) THEN 1
                         ELSE IF ev.count[-1] >= High(u) THEN -1 ELSE 0
    <2>1. ~(u < (u + k) \div 2)
        <3> HIDE DEF u, k
        <3>1. (u + k) \div 2 \in Nat
            BY <1>1, <1>2
        <3> QED BY <1>2, <1>3, <3>1
    <2> QED BY <2>1 DEF Significance, LowAbove, HighBelow, Low, High
<1> HIDE DEF u, k
<1>5. u >= 4
    BY <1>1, <1>2, <1>3
<1> QED BY <1>1, <1>2, <1>4, <1>5 DEF u, k

\* Otherwise it is not.
LEMMA Insignificant ==
    ASSUME NEW ev, EvidenceSound(ev),
           ~(ev.enough.a /\ ev.enough.b /\ Usable(ev.count) >= (Usable(ev.count) + ev.count[Unknown]) \div 2)
    PROVE  Significance(ev) = 0
<1>1. CASE ~(ev.enough.a /\ ev.enough.b)
    BY <1>1 DEF Significance
<1>2. CASE ev.enough.a /\ ev.enough.b /\ ~(Usable(ev.count) >= (Usable(ev.count) + ev.count[Unknown]) \div 2)
    <2>1. Usable(ev.count) \in Nat /\ ev.count[Unknown] \in Nat
        BY DEF EvidenceSound, Usable
    <2>2. Usable(ev.count) < (Usable(ev.count) + ev.count[Unknown]) \div 2
        BY <1>2, <2>1
    <2> QED BY <2>2 DEF Significance
<1> QED BY <1>1, <1>2

\* What is significant has rows enough and more resamples on its side, and what
\* speaks for a side is significant.
LEMMA SignificanceTells ==
    ASSUME NEW ev, EvidenceSound(ev)
    PROVE  /\ Significance(ev) \in {-1, 0, 1}
           /\ \A s \in {-1, 1} : /\ Significance(ev) = s => /\ ev.enough.a /\ ev.enough.b
                                                           /\ ev.count[s] > ev.count[-s]
                                 /\ Speaks(ev, s) => Significance(ev) = s
<1> DEFINE u == Usable(ev.count)
<1>1. CASE ~(ev.enough.a /\ ev.enough.b /\ u >= (u + ev.count[Unknown]) \div 2)
    <2>1. Significance(ev) = 0
        BY <1>1, Insignificant
    <2>2. \A s \in {-1, 1} : ~Speaks(ev, s)
        <3>1. u \in Nat /\ ev.count[Unknown] \in Nat
            BY DEF EvidenceSound, Usable
        <3>2. u >= ev.count[Unknown] => u >= (u + ev.count[Unknown]) \div 2
            <4> HIDE DEF u
            <4> QED BY <3>1
        <3> QED BY <1>1, <3>2 DEF Speaks
    <2> QED BY <2>1, <2>2
<1>2. CASE ev.enough.a /\ ev.enough.b /\ u >= (u + ev.count[Unknown]) \div 2
    <2> DEFINE x == ev.count[-1]
               y == ev.count[0]
               z == ev.count[1]
    <2>1. /\ u \in Nat /\ u >= 4 /\ u = x + y + z /\ x \in Nat /\ y \in Nat /\ z \in Nat
          /\ Significance(ev) = IF x + y <= Low(u) THEN 1 ELSE IF x >= High(u) THEN -1 ELSE 0
        BY <1>2, SignificantIs
    <2>2. Speaks(ev, 1) => TailShare * z >= (TailShare - 1) * u
        BY DEF Speaks
    <2>3. Speaks(ev, -1) => TailShare * x >= (TailShare - 1) * u
        BY DEF Speaks
    <2>4. - (-1) = 1
        BY MinusTwice
    <2> HIDE DEF u, x, y, z
    <2>5. /\ Low(u) \in Nat /\ High(u) \in Nat /\ 4 * Low(u) <= u /\ 4 * (u - High(u)) < u + 4
          /\ TailShare * x >= (TailShare - 1) * u => x >= High(u) /\ u - x <= Low(u)
          /\ TailShare * z >= (TailShare - 1) * u => z >= High(u) /\ u - z <= Low(u)
        BY <2>1, EndsAreApart
    <2>6. Significance(ev) = 1 => z > x
        BY <2>1, <2>5
    <2>7. Significance(ev) = -1 => x > z
        BY <2>1, <2>5
    <2>8. Speaks(ev, 1) => Significance(ev) = 1
        BY <2>1, <2>2, <2>5
    <2>9. Speaks(ev, -1) => Significance(ev) = -1
        <3>1. TailShare * x >= (TailShare - 1) * u => ~(x + y <= Low(u))
            BY <2>1, <2>5
        <3> QED BY <2>1, <2>3, <2>5, <3>1
    <2> QED BY <1>2, <2>1, <2>4, <2>6, <2>7, <2>8, <2>9 DEF x, z
<1> QED BY <1>1, <1>2

------------------------------------------------------------------------------
(* The verdict, and that of the groups exchanged.                          *)

TurnedRound(ev) ==
    [enough |-> [a |-> ev.enough.b, b |-> ev.enough.a],
     count |-> [x \in -1 .. Unknown |-> ev.count[Turned(x)]],
     half |-> [k \in 1 .. 2 |-> Turned(ev.half[k])]]

LEMMA TurnedIs == Turned(-1) = 1 /\ Turned(0) = 0 /\ Turned(1) = -1 /\ Turned(Unknown) = Unknown
<1>1. -0 = 0
    <2>1. 0 \in Int /\ 0 + 0 = 0
        OBVIOUS
    <2> QED BY <2>1, Minus
<1> QED BY <1>1, MinusTwice DEF Turned, Unknown

LEMMA TurnedRoundIs ==
    ASSUME NEW ev, EvidenceSound(ev), NEW w, w = TurnedRound(ev)
    PROVE  /\ EvidenceSound(w)
           /\ w.enough.a = ev.enough.b /\ w.enough.b = ev.enough.a
           /\ w.count[-1] = ev.count[1] /\ w.count[0] = ev.count[0] /\ w.count[1] = ev.count[-1]
           /\ w.count[Unknown] = ev.count[Unknown] /\ Usable(w.count) = Usable(ev.count)
           /\ \A k \in 1 .. 2 : w.half[k] = Turned(ev.half[k])
<1>1. \A x \in -1 .. Unknown : w.count[x] = ev.count[Turned(x)]
    BY DEF TurnedRound
<1>2. -1 \in -1 .. Unknown /\ 0 \in -1 .. Unknown /\ 1 \in -1 .. Unknown /\ Unknown \in -1 .. Unknown
    BY DEF Unknown
<1>3. /\ w.count[-1] = ev.count[1] /\ w.count[0] = ev.count[0] /\ w.count[1] = ev.count[-1]
      /\ w.count[Unknown] = ev.count[Unknown]
    BY <1>1, <1>2, TurnedIs
<1>4. /\ ev.count[-1] \in Nat /\ ev.count[0] \in Nat /\ ev.count[1] \in Nat /\ ev.count[Unknown] \in Nat
    BY DEF EvidenceSound
<1>5. Usable(w.count) = Usable(ev.count)
    BY <1>3, <1>4 DEF Usable
<1>6. /\ w.enough.a = ev.enough.b /\ w.enough.b = ev.enough.a
      /\ \A k \in 1 .. 2 : w.half[k] = Turned(ev.half[k])
    BY DEF TurnedRound
<1>7. \A k \in 1 .. 2 : w.half[k] \in {-1, 0, 1, Unknown}
    BY <1>6, TurnedIs DEF EvidenceSound
<1>8. \A x \in {-1, 0, 1, Unknown} : w.count[x] \in Nat
    BY <1>3, <1>4
<1>9. /\ w.enough.a \in BOOLEAN /\ w.enough.b \in BOOLEAN
      /\ w.enough.a /\ w.enough.b => Usable(w.count) + w.count[Unknown] >= 9
    BY <1>3, <1>5, <1>6 DEF EvidenceSound
<1>10. EvidenceSound(w)
    BY <1>7, <1>8, <1>9 DEF EvidenceSound
<1> QED BY <1>3, <1>5, <1>6, <1>10

\* When the resamples divide evenly, the other side is as significant.
LEMMA SignificanceTurns ==
    ASSUME NEW ev, EvidenceSound(ev), JudgedAlike(ev), NEW w, w = TurnedRound(ev)
    PROVE  Significance(w) = IF Significance(ev) = 1 THEN -1 ELSE IF Significance(ev) = -1 THEN 1 ELSE 0
<1> DEFINE u == Usable(ev.count)
           x == ev.count[-1]
           y == ev.count[0]
           z == ev.count[1]
           k == ev.count[Unknown]
<1>1. /\ EvidenceSound(w)
      /\ w.enough.a = ev.enough.b /\ w.enough.b = ev.enough.a
      /\ w.count[-1] = z /\ w.count[0] = y /\ w.count[1] = x
      /\ w.count[Unknown] = k /\ Usable(w.count) = u
    BY TurnedRoundIs
<1>2. CASE ~(ev.enough.a /\ ev.enough.b /\ u >= (u + k) \div 2)
    BY <1>1, <1>2, Insignificant
<1>3. CASE ev.enough.a /\ ev.enough.b /\ u >= (u + k) \div 2
    <2>1. /\ u \in Nat /\ u >= 4 /\ u = x + y + z /\ x \in Nat /\ y \in Nat /\ z \in Nat
          /\ Significance(ev) = IF x + y <= Low(u) THEN 1 ELSE IF x >= High(u) THEN -1 ELSE 0
        BY <1>3, SignificantIs
    <2>2. Significance(w) = IF z + y <= Low(u) THEN 1 ELSE IF z >= High(u) THEN -1 ELSE 0
        BY <1>1, <1>3, SignificantIs
    <2>3. u % TailShare = 0
        BY DEF JudgedAlike
    <2> HIDE DEF u, x, y, z, k
    <2>4. Low(u) \in Nat /\ 4 * Low(u) <= u /\ High(u) = u - Low(u)
        BY <2>1, <2>3, EndsAreApart
    <2> QED BY <2>1, <2>2, <2>4
<1> QED BY <1>2, <1>3

\* The horizons that are significant, and what a finding takes.
SignificantAt(e) == {h \in StudyHorizons : Significance(e[h]) # 0}
Finds(e, sign) ==
    /\ \A g \in Compared : \E h \in StudyHorizons : e[h].enough[g]
    /\ Cardinality(SignificantAt(e)) >= 2
    /\ \A h \in SignificantAt(e) : Significance(e[h]) = sign
    /\ Stable(e[Min(SignificantAt(e))], sign)

LEMMA MinOfSome ==
    ASSUME NEW S \in SUBSET StudyHorizons, Cardinality(S) >= 2
    PROVE  Min(S) \in S
<1>1. IsFiniteSet(S) /\ S \subseteq Nat
    BY FS_Subset, StudyAssumption
<1>2. S # {}
    BY <1>1, FS_EmptySet
<1> QED BY <1>1, <1>2, GreatestAndLeast

LEMMA VerdictIs ==
    ASSUME NEW e, \A h \in StudyHorizons : Significance(e[h]) \in {-1, 0, 1}
    PROVE  /\ Verdict(e) = "BETTER" <=> Finds(e, 1)
           /\ Verdict(e) = "WORSE" <=> Finds(e, -1)
<1> DEFINE found == [h \in StudyHorizons |-> Significance(e[h])]
           at == {h \in StudyHorizons : found[h] # 0}
           sign == found[Min(at)]
           short == \E g \in Compared : \A h \in StudyHorizons : ~e[h].enough[g]
           mixed == Cardinality(at) < 2 \/ \E h \in at : found[h] # sign
<1>1. at = SignificantAt(e) /\ \A h \in StudyHorizons : found[h] = Significance(e[h])
    BY DEF SignificantAt
<1>2. Verdict(e) = IF short THEN "INSUFFICIENT"
                   ELSE IF mixed THEN "NO EVIDENCE"
                   ELSE IF ~Stable(e[Min(at)], sign) THEN "NOT STABLE"
                   ELSE IF sign > 0 THEN "BETTER" ELSE "WORSE"
    BY DEF Verdict
<1>3. at \in SUBSET StudyHorizons /\ IsFiniteSet(at) /\ Cardinality(at) \in Nat
    BY FS_Subset, FS_CardinalityType, StudyAssumption
<1>4. Cardinality(at) >= 2 => Min(at) \in at
    BY <1>3, MinOfSome
<1>5. short <=> ~(\A g \in Compared : \E h \in StudyHorizons : e[h].enough[g])
    OBVIOUS
<1>6. Cardinality(at) >= 2 => sign \in {-1, 1} /\ (mixed <=> \E h \in at : found[h] # sign)
    <2>1. \A h \in at : found[h] \in {-1, 1}
        BY <1>1
    <2>2. Cardinality(at) >= 2 => Min(at) \in at /\ ~(Cardinality(at) < 2)
        BY <1>3, <1>4
    <2> HIDE DEF at, found
    <2> QED BY <2>1, <2>2
<1>7. Cardinality(at) < 2 => mixed
    OBVIOUS
<1> HIDE DEF found, at, sign, short, mixed
<1>8. ASSUME NEW s \in {-1, 1}
      PROVE  Finds(e, s) <=> ~short /\ Cardinality(at) >= 2 /\ (\A h \in at : found[h] = s) /\ Stable(e[Min(at)], s)
    BY <1>1, <1>3, <1>5 DEF Finds
<1>9. ASSUME NEW s \in {-1, 1}
      PROVE  Finds(e, s) <=> ~short /\ ~mixed /\ sign = s /\ Stable(e[Min(at)], sign)
    <2>1. CASE Cardinality(at) >= 2
        <3>1. sign = found[Min(at)] /\ Min(at) \in at
            BY <1>4, <2>1 DEF sign
        <3>2. (\A h \in at : found[h] = s) <=> sign = s /\ ~mixed
            BY <1>6, <2>1, <3>1
        <3> QED BY <1>8, <2>1, <3>2
    <2>2. CASE ~(Cardinality(at) >= 2)
        <3>1. mixed
            BY <1>3, <1>7, <2>2
        <3> QED BY <1>8, <2>2, <3>1
    <2> QED BY <2>1, <2>2
<1>10. ~mixed => sign \in {-1, 1}
    BY <1>3, <1>6, <1>7
<1>11. CASE ~short /\ ~mixed /\ Stable(e[Min(at)], sign)
    BY <1>2, <1>9, <1>10, <1>11
<1>12. CASE ~(~short /\ ~mixed /\ Stable(e[Min(at)], sign))
    <2>1. Verdict(e) \notin {"BETTER", "WORSE"}
        BY <1>2, <1>12
    <2> QED BY <1>9, <1>12, <2>1
<1> QED BY <1>11, <1>12

LEMMA MaxOfSign == Max({1, 0}) = 1 /\ Max({-1, 0}) = 0
BY MaxOfTwo

\* What follows of a finding whose evidence is sound.
LEMMA FindingTells ==
    ASSUME NEW e, \A h \in StudyHorizons : EvidenceSound(e[h]), NEW s \in {-1, 1}, Finds(e, s)
    PROVE  LET same == {h \in StudyHorizons : e[h].count[s] > e[h].count[-s]
                            /\ e[h].enough.a /\ e[h].enough.b}
           IN  /\ Cardinality(same) >= 2
               /\ \E h \in same : \A k \in 1 .. 2 : e[h].half[k] \in {s, Max({s, 0})}
               /\ \A h \in StudyHorizons : ~Speaks(e[h], -s)
<1> DEFINE same == {h \in StudyHorizons : e[h].count[s] > e[h].count[-s]
                        /\ e[h].enough.a /\ e[h].enough.b}
           at == SignificantAt(e)
           m == Min(at)
<1>1. at \in SUBSET StudyHorizons /\ Cardinality(at) >= 2 /\ \A h \in at : Significance(e[h]) = s
    BY DEF Finds, SignificantAt
<1>2. at \subseteq same
    BY <1>1, SignificanceTells
<1>3. Cardinality(same) >= 2
    <2>1. IsFiniteSet(same) /\ IsFiniteSet(at)
        BY <1>1, FS_Subset, StudyAssumption
    <2> HIDE DEF same, at
    <2>2. Cardinality(at) <= Cardinality(same) /\ Cardinality(at) \in Nat /\ Cardinality(same) \in Nat
        BY <1>2, <2>1, FS_Subset, FS_CardinalityType
    <2> QED BY <1>1, <2>2
<1>4. m \in at /\ m \in StudyHorizons /\ Stable(e[m], s)
    BY <1>1, MinOfSome DEF Finds
<1>5. ASSUME NEW k \in 1 .. 2 PROVE e[m].half[k] \in {s, Max({s, 0})}
    <2>1. e[m].half[k] \in {-1, 0, 1} /\ (e[m].half[k] > 0 <=> s > 0)
        BY <1>4 DEF Stable, EvidenceSound
    <2>2. CASE s = 1
        BY <2>1, <2>2
    <2>3. CASE s = -1
        <3>1. e[m].half[k] \in {-1, 0}
            BY <2>1, <2>3
        <3> QED BY <2>3, <3>1, MaxOfSign
    <2> QED BY <2>2, <2>3
<1>6. ASSUME NEW h \in StudyHorizons, Speaks(e[h], -s) PROVE FALSE
    <2>1. -s \in {-1, 1} /\ -s # s /\ -s # 0
        BY MinusTwice
    <2>2. Significance(e[h]) = -s
        BY <1>6, <2>1, SignificanceTells
    <2>3. h \in at
        BY <2>1, <2>2 DEF SignificantAt
    <2> QED BY <1>1, <2>1, <2>2, <2>3
<1> QED BY <1>2, <1>3, <1>4, <1>5, <1>6

\* A finding is found the other way round with the groups exchanged.
LEMMA FindingTurns ==
    ASSUME NEW e, \A h \in StudyHorizons : EvidenceSound(e[h]) /\ JudgedAlike(e[h]),
           NEW s \in {-1, 1}, Finds(e, s), NEW t \in {-1, 1}, t # s
    PROVE  Finds(Exchanged(e), t)
<1> DEFINE w == Exchanged(e)
           at == SignificantAt(e)
<1>1. \A h \in StudyHorizons : w[h] = TurnedRound(e[h])
    BY DEF Exchanged, TurnedRound
<1>2. ASSUME NEW h \in StudyHorizons
      PROVE  /\ w[h].enough.a = e[h].enough.b /\ w[h].enough.b = e[h].enough.a
             /\ \A k \in 1 .. 2 : w[h].half[k] = Turned(e[h].half[k])
             /\ Significance(w[h]) = IF Significance(e[h]) = 1 THEN -1
                                     ELSE IF Significance(e[h]) = -1 THEN 1 ELSE 0
             /\ Significance(e[h]) \in {-1, 0, 1}
    BY <1>1, TurnedRoundIs, SignificanceTurns, SignificanceTells
<1> HIDE DEF w
<1>3. SignificantAt(w) = at
    BY <1>2 DEF SignificantAt
<1>4. ASSUME NEW g \in Compared PROVE \E h \in StudyHorizons : w[h].enough[g]
    <2>1. /\ \E h \in StudyHorizons : e[h].enough.a
          /\ \E h \in StudyHorizons : e[h].enough.b
        BY DEF Finds, Compared
    <2>2. CASE g = "a"
        BY <1>2, <2>1, <2>2
    <2>3. CASE g = "b"
        BY <1>2, <2>1, <2>3
    <2> QED BY <2>2, <2>3 DEF Compared
<1>5. /\ at \in SUBSET StudyHorizons /\ Cardinality(at) >= 2
      /\ \A h \in at : Significance(e[h]) = s
      /\ Stable(e[Min(at)], s)
    BY DEF Finds, SignificantAt
<1>6. \A h \in at : Significance(w[h]) = t
    BY <1>2, <1>5
<1>7. Stable(w[Min(at)], t)
    <2> DEFINE m == Min(at)
    <2>1. m \in StudyHorizons
        BY <1>5, MinOfSome
    <2> HIDE DEF m
    <2>2. SUFFICES ASSUME NEW k \in 1 .. 2
                   PROVE  w[m].half[k] # Unknown /\ (w[m].half[k] > 0 <=> t > 0)
        BY DEF Stable, m
    <2>3. e[m].half[k] # Unknown /\ (e[m].half[k] > 0 <=> s > 0)
        BY <1>5 DEF Stable, m
    <2>4. e[m].half[k] \in {-1, 0, 1, Unknown} /\ e[m].half[k] # 0
        BY <2>1 DEF EvidenceSound, JudgedAlike
    <2>5. w[m].half[k] = Turned(e[m].half[k])
        BY <1>2, <2>1
    <2> QED BY <2>3, <2>4, <2>5, TurnedIs DEF Unknown
<1> QED BY <1>3, <1>4, <1>5, <1>6, <1>7 DEF Finds, w

\* Chunks: the end of one is the beginning of the next, and one takes a row more
\* than another at most.
LEMMA ChunksAreFair ==
    ASSUME NEW n \in Nat, NEW q \in Nat \ {0}
    PROVE  LET size(i) == Cardinality(Chunk(n, q, i))
           IN  /\ UNION {Chunk(n, q, i) : i \in 0 .. q - 1} = 1 .. n
               /\ \A i, j \in 0 .. q - 1 :
                   size(i) <= size(j) + 1
                       /\ (i < j => \A x \in Chunk(n, q, i), y \in Chunk(n, q, j) : x < y)
<1> DEFINE end(i) == (i * n) \div q
           size(i) == Cardinality(Chunk(n, q, i))
<1>1. \A i \in Nat : Chunk(n, q, i) = end(i) + 1 .. end(i + 1)
    BY DEF Chunk
<1>2. \A i \in Nat : end(i) \in Nat /\ q * end(i) <= i * n /\ i * n < q * end(i) + q
    <2> TAKE i \in Nat
    <2>1. i * n \in Nat
        OBVIOUS
    <2> QED BY <2>1, QuotientIs
<1>3. end(0) = 0 /\ end(q) = n
    <2>1. end(0) \in Nat /\ q * end(0) <= 0
        BY <1>2
    <2>2. end(q) \in Nat /\ q * end(q) <= q * n /\ q * n < q * (end(q) + 1)
        BY <1>2
    <2> HIDE DEF end
    <2>3. end(0) = 0
        BY <2>1
    <2>4. end(q) <= n /\ n < end(q) + 1
        BY <2>2
    <2> QED BY <2>2, <2>3, <2>4
<1> HIDE DEF end
<1>4. ASSUME NEW i \in Nat, NEW j \in Nat, i <= j PROVE end(i) <= end(j)
    <2>1. /\ end(i) \in Nat /\ end(j) \in Nat
          /\ q * end(i) <= i * n /\ j * n < q * end(j) + q
        BY <1>2
    <2>2. i * n <= j * n /\ i * n \in Nat /\ j * n \in Nat
        BY <1>4
    <2>3. q * end(i) < q * (end(j) + 1)
        BY <2>1, <2>2
    <2>4. end(i) < end(j) + 1
        BY <2>1, <2>3
    <2> QED BY <2>1, <2>4
<1>5. ASSUME NEW i \in 0 .. q - 1
      PROVE  size(i) \in Nat /\ size(i) = end(i + 1) - end(i)
    <2>1. i \in Nat /\ i + 1 \in Nat /\ end(i) \in Nat /\ end(i + 1) \in Nat /\ end(i) <= end(i + 1)
        BY <1>2, <1>4
    <2>2. Cardinality(end(i) + 1 .. end(i + 1)) = IF end(i) + 1 > end(i + 1) THEN 0 ELSE end(i + 1) - (end(i) + 1) + 1
        <3>1. \A a, b \in Int : Cardinality(a .. b) = IF a > b THEN 0 ELSE b - a + 1
            BY FS_Interval
        <3>2. end(i) + 1 \in Int /\ end(i + 1) \in Int
            BY <2>1
        <3> QED BY <3>1, <3>2
    <2>3. size(i) = Cardinality(end(i) + 1 .. end(i + 1))
        BY <1>1, <2>1
    <2> HIDE DEF size
    <2> QED BY <2>1, <2>2, <2>3
<1>6. ASSUME NEW i \in 0 .. q - 1, NEW j \in 0 .. q - 1 PROVE size(i) <= size(j) + 1
    <2> HIDE DEF size
    <2>1. /\ i \in Nat /\ j \in Nat /\ i + 1 \in Nat /\ j + 1 \in Nat
          /\ size(i) \in Nat /\ size(i) = end(i + 1) - end(i)
          /\ size(j) \in Nat /\ size(j) = end(j + 1) - end(j)
        BY <1>5
    <2>2. /\ end(i) \in Nat /\ end(i + 1) \in Nat /\ end(j) \in Nat /\ end(j + 1) \in Nat
          /\ i * n < q * end(i) + q /\ q * end(i + 1) <= (i + 1) * n
          /\ q * end(j) <= j * n /\ (j + 1) * n < q * end(j + 1) + q
        BY <1>2, <2>1
    <2>3. /\ (i + 1) * n = i * n + n /\ (j + 1) * n = j * n + n
          /\ i * n \in Nat /\ j * n \in Nat
        BY <2>1
    <2>4. q * size(i) = q * end(i + 1) - q * end(i) /\ q * size(j) = q * end(j + 1) - q * end(j)
        BY <2>1, <2>2
    <2>5. /\ q * end(i) \in Nat /\ q * end(i + 1) \in Nat /\ q * end(j) \in Nat /\ q * end(j + 1) \in Nat
        BY <2>2
    <2>6. q * size(i) < n + q /\ n < q * size(j) + q
        BY <2>2, <2>3, <2>4, <2>5
    <2>7. q * size(i) < q * (size(j) + 2)
        BY <2>1, <2>6
    <2>8. size(i) < size(j) + 2
        BY <2>1, <2>7
    <2> QED BY <2>1, <2>8
<1>7. ASSUME NEW i \in 0 .. q - 1, NEW j \in 0 .. q - 1, i < j,
             NEW x \in Chunk(n, q, i), NEW y \in Chunk(n, q, j)
      PROVE  x < y
    <2>1. end(i + 1) <= end(j) /\ end(i) \in Nat /\ end(j) \in Nat /\ end(i + 1) \in Nat
        <3>1. i \in Nat /\ j \in Nat /\ i + 1 \in Nat /\ i + 1 <= j
            BY <1>7
        <3> QED BY <1>2, <1>4, <3>1
    <2>2. x \in end(i) + 1 .. end(i + 1) /\ y \in end(j) + 1 .. end(j + 1)
        <3>1. i \in Nat /\ j \in Nat
            OBVIOUS
        <3> QED BY <1>1, <1>7, <3>1
    <2> QED BY <2>1, <2>2
<1>8. ASSUME NEW i \in 0 .. q - 1 PROVE Chunk(n, q, i) \subseteq 1 .. n
    <2>1. i \in Nat /\ i + 1 \in Nat /\ i + 1 <= q /\ end(i) \in Nat /\ end(i + 1) \in Nat
        BY <1>2
    <2>2. end(i + 1) <= n
        BY <1>3, <1>4, <2>1
    <2>3. Chunk(n, q, i) = end(i) + 1 .. end(i + 1)
        BY <1>1
    <2> QED BY <2>1, <2>2, <2>3
<1>9. ASSUME NEW x \in 1 .. n PROVE \E i \in 0 .. q - 1 : x \in Chunk(n, q, i)
    <2> DEFINE i == (q * x - 1) \div n
    <2>1. n \in Nat \ {0} /\ x \in Nat /\ x >= 1 /\ x <= n /\ q * x \in Nat /\ q * x >= q
        BY <1>9
    <2>2. q * x - 1 \in Nat
        BY <2>1
    <2>3. i \in Nat /\ n * i <= q * x - 1 /\ q * x - 1 < n * i + n
        BY <2>1, <2>2, QuotientIs
    <2> HIDE DEF i
    <2>4. q * x <= q * n
        BY <2>1
    <2>5. n * i < n * q /\ n * i \in Nat
        BY <2>1, <2>3, <2>4
    <2>6. i < q
        BY <2>1, <2>3, <2>5
    <2>7. /\ end(i) \in Nat /\ q * end(i) <= i * n
          /\ end(i + 1) \in Nat /\ (i + 1) * n < q * end(i + 1) + q
        BY <1>2, <2>3
    <2>8. i * n = n * i /\ (i + 1) * n = n * i + n
        BY <2>3
    <2>9. q * end(i) < q * x
        BY <2>1, <2>3, <2>5, <2>7, <2>8
    <2>10. q * x < q * (end(i + 1) + 1)
        BY <2>1, <2>3, <2>5, <2>7, <2>8
    <2>11. end(i) < x /\ x < end(i + 1) + 1
        BY <2>1, <2>7, <2>9, <2>10
    <2>12. x \in end(i) + 1 .. end(i + 1)
        BY <2>1, <2>7, <2>11
    <2>13. i \in 0 .. q - 1
        BY <2>3, <2>6
    <2> QED BY <1>1, <2>3, <2>12, <2>13
<1>10. UNION {Chunk(n, q, i) : i \in 0 .. q - 1} = 1 .. n
    BY <1>8, <1>9
<1> QED BY <1>6, <1>7, <1>10

------------------------------------------------------------------------------

\* The evidence is that of the days, and the verdicts are those of the evidence.
StudyIInv ==
    /\ days \in Seq(DayShapes)
    /\ \/ judged = <<"INSUFFICIENT", "INSUFFICIENT">>
       \/ evidence = EvidenceOf(days) /\ judged = <<Verdict(evidence), Verdict(Exchanged(evidence))>>

LEMMA StudyIsSound == StudyIInv => StudyIsFair
<1> SUFFICES ASSUME StudyIInv PROVE StudyIsFair
    OBVIOUS
<1>1. ChunksPartition
    <2>1. 2 * MaxDays \in Nat
        BY StudyAssumption
    <2> QED BY <2>1, ChunksAreFair DEF ChunksPartition
<1>2. CASE judged = <<"INSUFFICIENT", "INSUFFICIENT">>
    <2>1. ~IsFinding(judged[1])
        BY <1>2 DEF IsFinding, Contrary
    <2> QED BY <1>1, <2>1 DEF StudyIsFair, FindingIsEvidence, FindingsMirror
<1>3. CASE evidence = EvidenceOf(days) /\ judged = <<Verdict(evidence), Verdict(Exchanged(evidence))>>
    <2>1. ASSUME NEW h \in StudyHorizons PROVE EvidenceSound(evidence[h])
        <3> DEFINE a == At(days, "a", h)
                   b == At(days, "b", h)
        <3>1. Len(days) \in Nat /\ DOMAIN days = 1 .. Len(days) /\ \A i \in 1 .. Len(days) : days[i] \in DayShapes
            BY DEF StudyIInv
        <3>2. DOMAIN a = 1 .. Len(days) /\ DOMAIN b = 1 .. Len(days)
            BY <3>1 DEF At
        <3>3. \A i \in 1 .. Len(days) : a[i].n \in Nat /\ b[i].n \in Nat
            BY <3>1, StudyAssumption DEF At
        <3>4. evidence[h] = EvidenceAt(a, b)
            BY <1>3 DEF EvidenceOf
        <3> HIDE DEF a, b
        <3> QED BY <3>1, <3>2, <3>3, <3>4, EvidenceIsSound
    <2> DEFINE sign == IF judged[1] = "BETTER" THEN 1 ELSE -1
    <2>2. /\ Verdict(evidence) = "BETTER" <=> Finds(evidence, 1)
          /\ Verdict(evidence) = "WORSE" <=> Finds(evidence, -1)
        BY <2>1, SignificanceTells, VerdictIs
    <2>3. ASSUME IsFinding(judged[1])
          PROVE  sign \in {-1, 1} /\ Finds(evidence, sign) /\ judged[1] = IF sign = 1 THEN "BETTER" ELSE "WORSE"
        BY <1>3, <2>2, <2>3 DEF IsFinding, Contrary
    <2> HIDE DEF sign
    <2>4. FindingIsEvidence
        <3> SUFFICES ASSUME IsFinding(judged[1])
                     PROVE  LET same == {h \in StudyHorizons : evidence[h].count[sign] > evidence[h].count[-sign]
                                             /\ evidence[h].enough.a /\ evidence[h].enough.b}
                            IN  /\ Cardinality(same) >= 2
                                /\ \E h \in same : \A k \in 1 .. 2 : evidence[h].half[k] \in {sign, Max({sign, 0})}
                                /\ \A h \in StudyHorizons : ~Speaks(evidence[h], -sign)
            BY DEF FindingIsEvidence, sign
        <3> QED BY <2>1, <2>3, FindingTells
    <2>5. FindingsMirror
        <3> SUFFICES ASSUME IsFinding(judged[1]), \A h \in StudyHorizons : JudgedAlike(evidence[h])
                     PROVE  judged[2] = Contrary[judged[1]]
            BY DEF FindingsMirror
        <3> DEFINE w == Exchanged(evidence)
        <3>1. ASSUME NEW h \in StudyHorizons PROVE EvidenceSound(w[h])
            <4>1. w[h] = TurnedRound(evidence[h])
                BY DEF Exchanged, TurnedRound
            <4> QED BY <2>1, <4>1, TurnedRoundIs
        <3>2. judged[2] = Verdict(w)
            BY <1>3
        <3> HIDE DEF w
        <3>3. /\ Verdict(w) = "BETTER" <=> Finds(w, 1)
              /\ Verdict(w) = "WORSE" <=> Finds(w, -1)
            BY <3>1, SignificanceTells, VerdictIs
        <3>4. CASE sign = 1
            <4>1. Finds(w, -1)
                BY <2>1, <2>3, <3>4, FindingTurns DEF w
            <4> QED BY <2>3, <3>2, <3>3, <3>4, <4>1 DEF Contrary
        <3>5. CASE sign = -1
            <4>1. Finds(w, 1)
                BY <2>1, <2>3, <3>5, FindingTurns DEF w
            <4> QED BY <2>3, <3>2, <3>3, <3>5, <4>1 DEF Contrary
        <3> QED BY <2>3, <3>4, <3>5
    <2> QED BY <1>1, <2>4, <2>5 DEF StudyIsFair
<1> QED BY <1>2, <1>3 DEF StudyIInv

\* Whatever the sample, a finding has its evidence, and up and down are judged
\* alike (evaluate.py:153-177).
THEOREM StudyIsAlwaysFair == StudySpec => []StudyIsFair
<1>1. StudyInit => StudyIInv
    BY DEF StudyInit, StudyIInv, NoDays
<1>2. StudyIInv /\ [DayIsAdded]_studyVars => StudyIInv'
    <2> SUFFICES ASSUME StudyIInv, [DayIsAdded]_studyVars PROVE StudyIInv'
        OBVIOUS
    <2>1. CASE DayIsAdded
        BY <2>1 DEF DayIsAdded, StudyIInv
    <2>2. CASE UNCHANGED studyVars
        BY <2>2 DEF StudyIInv, studyVars
    <2> QED BY <2>1, <2>2
<1> QED BY <1>1, <1>2, StudyIsSound, PTL DEF StudySpec
==============================================================================
