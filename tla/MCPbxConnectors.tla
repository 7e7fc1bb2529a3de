-------------------------- MODULE MCPbxConnectors --------------------------
(***************************************************************************)
(* One phone of each technology, a trunk and a queue, for every connector. *)
(* The trunk of CUCM has a call at first, which PerfMon counts at its end. *)
(***************************************************************************)
EXTENDS PbxConnectors

CONSTANTS p1, p2, trunk, queue

MCPhones == {p1, p2}
MCSipPhones == {p2}
MCFirstBatch == {p1}
MCDownAtFirst == {{p1, trunk}}
MCBusyAtFirst == {{}, {trunk}}
MCPbxTypes == {"asterisk", "freeswitch", "yeastar", "cucm"}

MCInit == Init /\ inCall = (IF pbxType = "cucm" THEN {trunk} ELSE {})
MCSpec == MCInit /\ [][Next]_vars /\ Fairness
=============================================================================
