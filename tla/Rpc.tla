-------------------------------- MODULE Rpc ---------------------------------
(***************************************************************************)
(* What a connection promises to a stub (src/include/network_client.h:21,  *)
(* network_server.h:29, :37): requests are served one at a time, each one  *)
(* once and as it was sent, and each call returns with the response to its *)
(* own request.  On a connection that has broken nothing is promised.      *)
(***************************************************************************)
EXTENDS Naturals

VARIABLES asked,    \* requests sent
          served,   \* requests served
          returned, \* calls that have returned
          failed,   \* the client or the server has given up
          broken    \* the connection has broken

vars == <<asked, served, returned, failed, broken>>

Init == asked = 0 /\ served = 0 /\ returned = 0 /\ failed = FALSE /\ broken = FALSE

Ask ==
    /\ returned = asked
    /\ asked' = asked + 1
    /\ UNCHANGED <<served, returned, failed>>

Serve ==
    /\ served < asked
    /\ served' = served + 1
    /\ UNCHANGED <<asked, returned, failed>>

Return ==
    /\ returned < served
    /\ returned' = returned + 1
    /\ UNCHANGED <<asked, served, failed>>

Next ==
    \/ broken' = broken /\ (Ask \/ Serve \/ Return)
    \/ broken'

Spec == Init /\ [][Next]_vars
=============================================================================
