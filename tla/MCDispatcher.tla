---------------------------- MODULE MCDispatcher ----------------------------
(***************************************************************************)
(* Instances of Dispatcher for TLC.                                        *)
(***************************************************************************)
EXTENDS DispatcherInvariant

\* Bounds of the upserts.
Once == [g \in Groups |-> 1]

Twice == [g \in Groups |-> 2]

OneTwice ==
    [g \in Groups |-> IF g = CHOOSE h \in Groups : TRUE THEN 2 ELSE 1]
=============================================================================
