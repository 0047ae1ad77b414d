---------------------------- MODULE ErasureStore ----------------------------
(***************************************************************************)
(* What an erasure code promises the program that stores k data units on   *)
(* k + m devices (spec sections 1 and 8, the MDS property): whatever the   *)
(* order in which devices are lost, the data stays recoverable while at    *)
(* most m of them are lost, and a repair brings every device back without  *)
(* changing it; once more than m are lost the data is gone until it is     *)
(* written again.                                                          *)
(***************************************************************************)
EXTENDS Naturals, FiniteSets

CONSTANTS
  K, M,     \* data and coding devices
  Values,   \* what one data unit may hold
  Gone      \* the data, once it cannot be recovered

VARIABLES
  data,     \* the data a reader recovers, or Gone
  lost      \* the devices lost since the last write or repair

Devices == 0..(K + M - 1)
Data    == [0..(K - 1) -> Values]

Init == data \in Data /\ lost = {}

\* The program writes new data: every device is encoded afresh.
Write ==
  /\ data' \in Data
  /\ lost' = {}

\* A device fails; the data survives it only while at most m are lost.
Lose ==
  \E d \in Devices \ lost :
    /\ lost' = lost \cup {d}
    /\ data' = IF Cardinality(lost') <= M THEN data ELSE Gone

\* The lost devices are rebuilt from the others.
Repair ==
  /\ lost # {}
  /\ data # Gone
  /\ lost' = {}
  /\ UNCHANGED data

Spec == Init /\ [][Write \/ Lose \/ Repair]_<<data, lost>>
=============================================================================
