------------------------------- MODULE MCHermes -------------------------------
(* HermesSession on sessions of four turns: at a cadence of two, silence that *)
(* a refused save did not pay for takes that many to show.                    *)
EXTENDS HermesSession

\* A bound: the fourth turn comes only in sessions with few recalls.
FewRecalls == turn = MaxTurn => Len(asked) <= 3
=============================================================================
