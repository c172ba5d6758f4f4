-------------------------- MODULE IdentityRecords --------------------------
(***************************************************************************)
(* The two kinds of identity records of a school together: students        *)
(* (StudentRecords) and personnel (PersonnelRecords).  They are in tables  *)
(* of their own, and no handler touches both.                              *)
(***************************************************************************)
EXTENDS StudentRecords

CONSTANTS PersonCount, Managers, Numbers, Fold, Fields, Kind, Values, Uploads, Sheet

VARIABLES
    person, hired, noted, field, upload,    \* the personnel tables
    order, done                             \* the requests to personnel handlers

personnelVars == <<person, hired, noted, field, upload, order, done>>

Personnel == INSTANCE PersonnelRecords WITH
    Admins <- Managers, None <- NoUser,
    enrolled <- hired, told <- noted, req <- order, work <- done

ASSUME PersonnelAssumed == Personnel!PersonnelAssumption

RecordsNext ==
    \/ Next /\ UNCHANGED personnelVars
    \/ Personnel!Next /\ UNCHANGED vars

RecordsSpec == Init /\ Personnel!Init /\ [][RecordsNext]_<<vars, personnelVars>>

\* The event of a personnel column that was inserted last states the value in the
\* row, and is shown first unless its transaction was overtaken.
HistoryTellsTheRow == Personnel!HistoryTellsTheRow
\* No person keeps values of another type's fields.
FieldsFollowType == Personnel!FieldsFollowType
\* No two persons have the same employee number.
NumbersDiffer == Personnel!NumbersDiffer
=============================================================================
