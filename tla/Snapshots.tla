------------------------------- MODULE Snapshots -------------------------------
(***************************************************************************)
(* The research record of the worker (research/snapshots.py): a panel row  *)
(* of every stock every few minutes, an event row when one moves up into a *)
(* better category.  The worker may skip a minute, fail to write, and be   *)
(* started again; a stock may leave the view and come back.                *)
(*                                                                         *)
(* A category is its place in CATEGORY_ORDER, and minutes count from       *)
(* midnight in the model's own units.                                      *)
(***************************************************************************)
EXTENDS Values, Sequences

CONSTANTS
    Recorded,               \* the stocks
    Categories, WatchLevel,
    PanelMinutes,
    SessionOpen, SessionEnd,
    LastTick, MaxStarts     \* bounds

ASSUME RecordAssumption ==
    Categories \subseteq Nat /\ {WatchLevel, SessionOpen, SessionEnd, LastTick} \subseteq Nat

VARIABLES
    told,       \* what each minute's state shows: minute, life, levels, and whether it was written
    latest,     \* SnapshotRecorder._last
    record,     \* the file's rows
    starts

recordVars == <<told, latest, record, starts>>

RecordInit ==
    /\ told = <<>> /\ latest = [s \in Recorded |-> None] /\ record = {} /\ starts = 1

LastTold == IF told = <<>> THEN [at |-> -1, life |-> 0] ELSE told[Len(told)]
OnPanel(m) == m % PanelMinutes = 0
InSession(m) == SessionOpen <= m /\ m <= SessionEnd

Row(s, m, trigger, level, prev) ==
    [stock |-> s, at |-> m, life |-> starts, trigger |-> trigger, level |-> level, prev |-> prev]
PanelRows(m, view) ==
    {Row(s, m, "panel", view[s], None) : s \in {t \in Recorded : OnPanel(m) /\ view[t] # None}}
Rises(view) ==
    {s \in Recorded : view[s] # None /\ latest[s] # None
                      /\ view[s] > latest[s] /\ view[s] >= WatchLevel}
EventRows(m, view) == {Row(s, m, "event", view[s], latest[s]) : s \in Rises(view)}

MutRemembered(view) == view
Remembered(view) == [s \in Recorded |-> IF view[s] = None THEN latest[s] ELSE view[s]]

\* A minute's state; a worker that is started again may repeat its minute.  What
\* is remembered stays so when the rows, if there are any, cannot be written.
Records(m, view, written) ==
    LET rows == IF InSession(m) THEN PanelRows(m, view) \cup EventRows(m, view) ELSE {}
    IN  /\ m > LastTold.at \/ (m = LastTold.at /\ starts > LastTold.life)
        /\ rows = {} => written
        /\ told' = Append(told, [at |-> m, life |-> starts, view |-> view, written |-> written])
        /\ record' = IF written THEN record \cup rows ELSE record
        /\ latest' = IF InSession(m) THEN Remembered(view) ELSE latest
        /\ UNCHANGED starts

StartsAgain ==
    /\ starts < MaxStarts /\ starts' = starts + 1
    /\ latest' = [s \in Recorded |-> None]
    /\ UNCHANGED <<told, record>>

RecordNext ==
    \/ \E m \in 0 .. LastTick, view \in [Recorded -> Categories \cup {None}], written \in BOOLEAN :
        Records(m, view, written)
    \/ StartsAgain

RecordSpec == RecordInit /\ [][RecordNext]_recordVars

------------------------------------------------------------------------------
(* Properties.                                                             *)

Panel == {r \in record : r.trigger = "panel"}
Events == {r \in record : r.trigger = "event"}
Missed(life, from, to) ==
    \E i \in DOMAIN told : told[i].life = life /\ from < told[i].at /\ told[i].at <= to
                           /\ ~told[i].written

\* A rise between two panel rows of one life has an event that reached as high, or
\* a minute between them could not be written: nothing rises unseen, whatever the
\* stock did meanwhile.
RisesAreTold ==
    \A p, q \in Panel :
        /\ p.stock = q.stock /\ p.life = q.life
        /\ p.at < q.at /\ p.level < q.level /\ q.level >= WatchLevel
        => Missed(p.life, p.at, q.at) \/ \E e \in Events :
               /\ e.stock = p.stock /\ e.life = p.life
               /\ p.at < e.at /\ e.at <= q.at /\ e.level >= q.level

\* An event starts from where the stock was last seen: what it was in the minute
\* of that life, within the session, in which it was shown before.
EventsStartWhereLeft ==
    \A e \in Events : \E i \in DOMAIN told :
        /\ told[i].life = e.life /\ told[i].at < e.at /\ InSession(told[i].at)
        /\ told[i].view[e.stock] = e.prev
        /\ \A j \in DOMAIN told : j > i /\ told[j].life = e.life /\ told[j].at < e.at =>
               told[j].view[e.stock] = None

\* No rise is missing between two rows of the record.
RecordTells == RisesAreTold /\ EventsStartWhereLeft

(* What the code says.                                                     *)

\* "Every scored stock is recorded every `panel_minutes`" (snapshots.py:3): between
\* two minutes of a life that were written, the panel has a row.
PanelIsRegular ==
    \A i, j \in DOMAIN told : i < j /\ told[i].life = told[j].life /\ told[i].written =>
        \A m \in told[i].at .. told[j].at : OnPanel(m) /\ InSession(m) =>
            \E k \in i .. j : told[k].at = m

\* A stock is one row of a panel, also of a worker that repeats its minute.
OneRowPerPanel == \A p, q \in Panel : p.stock = q.stock /\ p.at = q.at => p = q
==============================================================================
