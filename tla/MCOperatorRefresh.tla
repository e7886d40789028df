-------------------------- MODULE MCOperatorRefresh --------------------------
(* Instances of OperatorRefresh for TLC.                                    *)
EXTENDS OperatorRefresh, TLC

CONSTANTS a1, a2, j1, j2, o1, o2

\* One job on each adapter.
OneEach     == (j1 :> a1) @@ (j2 :> a2)

\* Two operators on one adapter: the process protocol and the presence watch.
OneLock     == (o1 :> a1) @@ (o2 :> a1)
=============================================================================
