---------------------------- MODULE DecisiveSuiteMC ----------------------------
(* A suite of two historical cases and two safety twins for DecisiveSuite.  *)
EXTENDS DecisiveSuite

MCOrder == <<"a1", "a2", "t1", "t2">>
=============================================================================
