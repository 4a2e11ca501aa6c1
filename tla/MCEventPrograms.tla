--------------------------- MODULE MCEventPrograms ---------------------------
(***************************************************************************)
(* The programs that are driven by events of the network: those of         *)
(* NetworkEvents and the BACnet server.  Each is flashed on a board of its *)
(* own; firmware says which one it is.                                     *)
(***************************************************************************)
EXTENDS NetworkEvents, BacnetNetwork

CONSTANTS a1, a2

VARIABLE firmware

Programs == {"reflection", "sta_to_eth", "two_netifs"}

Init ==
    /\ EventsInit /\ BacnetInit
    /\ \/ firmware = "bacnet" /\ prog = "reflection"
       \/ firmware = prog /\ medium = "wifi"

Next ==
    \/ firmware = "bacnet" /\ BacnetNext /\ UNCHANGED <<firmware, eventsVars>>
    \/ firmware = prog /\ EventsNext /\ UNCHANGED <<firmware, bacnetVars>>

\* The fairness of BacnetSpec; EventsSpec has none.
Spec ==
    /\ Init /\ [][Next]_<<firmware, eventsVars, bacnetVars>>
    /\ WF_bacnetVars(firmware = "bacnet" /\ EventTask)
    /\ WF_bacnetVars(firmware = "bacnet" /\ BACnetTask)

=============================================================================
