------------------------------ MODULE MCLooper ------------------------------
(* TLC instance of Looper: two bars of two steps, two style groups and     *)
(* two sections.                                                           *)
EXTENDS Looper

MCGroups == {0, 1}
MCSections == {0, 6}
=============================================================================
