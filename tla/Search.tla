-------------------------------- MODULE Search --------------------------------
(***************************************************************************)
(* What TargetDevice, DiskOnKey and Cdrom promise alike: a device is       *)
(* looked for a bounded number of times; what is found is one that could   *)
(* be seen and was acceptable at the time of the look, and is not changed  *)
(* afterwards; the search is given up only when every look was in vain.    *)
(* The names, the nodes and the kernel that brings the devices up are the  *)
(* business of Devices, which implements this module twice.                *)
(***************************************************************************)
EXTENDS Naturals

CONSTANTS
  MaxLooks,          \* how often it is looked
  Nothing            \* no device

VARIABLES
  shown,             \* the acceptable devices that can be seen now
  looks,             \* the looks so far
  found,             \* the device, or Nothing
  over,              \* the search has been given up
  faults             \* commands that failed so far

own == <<looks, found, over>>

Init == looks = 0 /\ found = Nothing /\ over = FALSE

Searching == found = Nothing /\ ~over

Look ==
  /\ Searching /\ looks < MaxLooks
  /\ looks' = looks + 1

Hit == Look /\ found' \in shown /\ UNCHANGED over

\* A device that could have been seen is missed only if a command fails. With
\* the last look the search may be over.
Miss ==
  /\ Look
  /\ shown = {} \/ faults' # faults
  /\ over' \in {FALSE, looks' = MaxLooks}
  /\ UNCHANGED found

GiveUp ==
  /\ Searching /\ looks = MaxLooks
  /\ over' = TRUE
  /\ UNCHANGED <<looks, found>>

\* The environment moves the other two variables.
Next == Hit \/ Miss \/ GiveUp

Spec == Init /\ [][Next]_own
===============================================================================
