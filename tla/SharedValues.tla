---------------------------- MODULE SharedValues ----------------------------
(***************************************************************************)
(* One entry of m_mapSharedValue, the numbers that the strategies of a     *)
(* host share.  Every operation owns m_mtxSharedValue, so it is one step;  *)
(* the predicate of the caller is evaluated under that lock and comes in   *)
(* as the truth value "issatisfy".  The doubles are integers here: the     *)
(* strategies of the repository add and subtract whole copies.             *)
(***************************************************************************)
EXTENDS Integers

CONSTANT
  NoValue                 \* the index is not in the map

ASSUME NoValueAssumption == NoValue \notin Int

VARIABLE
  sharedValue             \* the entry of the map, or NoValue

GetSharedValue == sharedValue # NoValue

\* The index has to exist and the predicate to hold, or nothing changes.
IncreaseSharedValue(dt, issatisfy) ==
  sharedValue' = IF sharedValue # NoValue /\ issatisfy
                   THEN sharedValue + dt ELSE sharedValue

DecreaseSucceeds(issatisfy) == sharedValue # NoValue /\ issatisfy

DecreaseSharedValue(dt) == sharedValue' = sharedValue - dt

\* ReqModifySharedValue: the predicate is always true, and operator[]
\* creates an index that is missing.
SetSharedValue(newvalue) == sharedValue' = newvalue
=============================================================================
