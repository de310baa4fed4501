--------------------------- MODULE MCDaemonControl ---------------------------
(***************************************************************************)
(* A small instance of DaemonControl.  Connections differ only in the request *)
(* they bring: of the ways to hand the same requests out, one is checked.     *)
(***************************************************************************)
EXTENDS DaemonControl, Sequences

CONSTANTS c1, c2, c3

InOrder == <<"batch", "options", "pause", "resume", "stop">>
Rank(c) == CHOOSE i \in DOMAIN InOrder : InOrder[i] = kind[c]

OneHandingOut == Init /\ Rank(c1) <= Rank(c2) /\ Rank(c2) <= Rank(c3)

MCSpec == OneHandingOut /\ [][Next]_vars /\ Fair

=============================================================================
