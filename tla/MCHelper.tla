------------------------------ MODULE MCHelper ------------------------------
(* Instances of HelperHistory for TLC. *)
EXTENDS HelperHistory

\* A device of whole sectors, and one whose last sector is cut short.
Whole == [d |-> <<0, 1, 1, 0>>, e |-> <<0, 0>>]
Short == [d |-> <<1, 0, 1>>, e |-> <<0, 0>>]

Scene(disks, n, m, k) ==
  [disk |-> disks,
   left |-> [opens |-> IF n > 0 THEN 1 ELSE 0, calls |-> n, requests |-> m, deaths |-> k]]

\* Two calls at once; a call while the daemon dies, and one among strangers; a
\* table at its cap.
MCScenes == {Scene(Whole, 2, 0, 0), Scene(Short, 2, 0, 0), Scene(Whole, 1, 0, 1),
             Scene(Short, 1, 1, 0), Scene(Whole, 0, 3, 0)}
MCDevice == "d"
MCDevices == {"d", "e"}
MCOwn == {"e"}
=============================================================================
