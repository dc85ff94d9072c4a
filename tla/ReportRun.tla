------------------------------ MODULE ReportRun ------------------------------
(***************************************************************************)
(* What a pipeline run promises, without the webhook, the statuses or the  *)
(* failures that surround it: it plans a number of visits, inserts one row *)
(* per visit, delivers only when every planned row is in, and only then    *)
(* may its day be shown as completed.  A run may stop at any point, alone  *)
(* or with others; what it has inserted stays.  Module FieldSession is     *)
(* shown to implement this one.                                            *)
(***************************************************************************)
EXTENDS Naturals

CONSTANTS Run, Day, MaxVisits

VARIABLES
    phase,      \* where each run stands
    day,        \* the day each run works for
    planned,    \* visits each run has found
    rows,       \* visit_reports rows each run has inserted
    shown       \* days whose session reads "completed"

vars == <<phase, day, planned, rows, shown>>

Phase == {"idle", "started", "planned", "delivered", "closed", "stopped"}

Init ==
    /\ phase = [t \in Run |-> "idle"]
    /\ day \in [Run -> Day]
    /\ planned = [t \in Run |-> 0]
    /\ rows = [t \in Run |-> 0]
    /\ shown = {}

Move(t, from, to) ==
    /\ phase[t] = from
    /\ phase' = [phase EXCEPT ![t] = to]

\* Any write of a session's status may end its reading "completed".
MayHide == shown' \in SUBSET shown

Begin(t, d) ==
    /\ Move(t, "idle", "started")
    /\ day' = [day EXCEPT ![t] = d]
    /\ MayHide
    /\ UNCHANGED <<planned, rows>>

Plan(t, n) ==
    /\ Move(t, "started", "planned")
    /\ planned' = [planned EXCEPT ![t] = n]
    /\ UNCHANGED <<day, rows, shown>>

InsertRow(t) ==
    /\ phase[t] = "planned"
    /\ rows[t] < planned[t]
    /\ rows' = [rows EXCEPT ![t] = @ + 1]
    /\ UNCHANGED <<phase, day, planned, shown>>

Deliver(t) ==
    /\ rows[t] = planned[t]
    /\ Move(t, "planned", "delivered")
    /\ UNCHANGED <<day, planned, rows, shown>>

Close(t) ==
    /\ Move(t, "delivered", "closed")
    /\ shown' = shown \cup {day[t]}
    /\ UNCHANGED <<day, planned, rows>>

Stop(S) ==
    /\ \A t \in S : phase[t] \in {"started", "planned", "delivered"}
    /\ phase' = [t \in Run |-> IF t \in S THEN "stopped" ELSE phase[t]]
    /\ MayHide
    /\ UNCHANGED <<day, planned, rows>>

Hide ==
    /\ MayHide
    /\ UNCHANGED <<phase, day, planned, rows>>

Next ==
    \/ \E t \in Run, d \in Day : Begin(t, d)
    \/ \E t \in Run, n \in 0..MaxVisits : Plan(t, n)
    \/ \E t \in Run : InsertRow(t) \/ Deliver(t) \/ Close(t)
    \/ \E S \in SUBSET Run : Stop(S)
    \/ Hide

Spec == Init /\ [][Next]_vars

\* A day that reads "completed" has a run that closed it, and that run left
\* one row for every visit it had planned.
ShownIsComplete ==
    \A d \in shown : \E t \in Run :
        phase[t] = "closed" /\ day[t] = d /\ rows[t] = planned[t]
=============================================================================
