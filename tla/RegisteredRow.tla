---------------------------- MODULE RegisteredRow ----------------------------
(***************************************************************************)
(* What every table with a lifecycle promises of each of its rows, with no *)
(* mention of requests, locks or statements: the row is created in the     *)
(* state the registry creates it in, its status then moves along           *)
(* registered transitions only, an edit leaves it alone and needs a state  *)
(* that is not terminal, and each of these writes moves state_version by   *)
(* one.  A version a client was shown names one state of the row for good. *)
(***************************************************************************)
EXTENDS Naturals

CONSTANTS
    Entity,         \* the entity's entry in the registry
    Absent,         \* the status of a row that is not there yet
    First           \* the status the row starts with

VARIABLES status, version

row == <<status, version>>

RowInit ==
    /\ status = First
    /\ version = IF First = Absent THEN 0 ELSE 1

Create ==
    /\ status = Absent
    /\ \E t \in Entity.transitions : t.from = {} /\ status' = t.to
    /\ version' = 1

Move ==
    /\ \E t \in Entity.transitions : status \in t.from /\ status' = t.to
    /\ version' = version + 1

Edit ==
    /\ status \in Entity.states \ Entity.terminalStates
    /\ status' = status
    /\ version' = version + 1

RowNext == Create \/ Move \/ Edit

RowSpec == RowInit /\ [][RowNext]_row

==============================================================================
