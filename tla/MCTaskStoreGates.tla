-------------------------- MODULE MCTaskStoreGates --------------------------
(* Two processes create one task by key, move its criteria, log evidence   *)
(* and try to finish, block and cancel it, with and without an expected    *)
(* version; a second task supplies foreign evidence.                       *)
EXTENDS TaskStore, TLC

CONSTANTS a, b, p, q, g, h, c1, c2

MCCreates ==
  {[op |-> "create", key |-> k, origin |-> [goal |-> t, criteria |-> c1, parent |-> None]] :
     k \in {a}, t \in {g, h}}
  \cup {[op |-> "create", key |-> None,
         origin |-> [goal |-> g, criteria |-> NoCriteria, parent |-> a]]}

Done == <<"status", "done">>

MCChanges ==
  { << <<"evidence", FALSE>>, Done >>,
    << <<"evidence", TRUE>>, Done >>,
    << Done >>,
    << <<"criteria", c2>>, <<"decision">> >>,
    << <<"goal", h>> >>,
    << <<"goal", h>>, <<"decision">> >>,
    << <<"evidence", FALSE>>, <<"criteria", c2>>, <<"decision">>, Done >>,
    << <<"criteria", c2>>, <<"decision">>, <<"evidence", FALSE>>, Done >>,
    << <<"bound", [task |-> b, criteria |-> c1, long |-> FALSE]>>, Done >>,
    << <<"bound", [task |-> None, criteria |-> c1, long |-> FALSE]>>, <<"invalid">> >>,
    << <<"blocker", TRUE>>, <<"status", "blocked">> >>,
    << <<"blocker", FALSE>>, <<"status", "cancelled">>, <<"decision">> >>,
    << <<"status", "blocked">>, <<"note">> >> }

MCRequests ==
  MCCreates
  \cup {[op |-> "update", id |-> a, expected |-> v, changes |-> s] :
          v \in {0, 2}, s \in MCChanges}
  \cup {[op |-> "update", id |-> b, expected |-> 0, changes |-> s] :
          s \in {<< <<"evidence", FALSE>>, Done >>, << <<"dependency", b>> >>,
                 << <<"dependency", a>>, <<"note">> >>}}

Symmetry == Permutations({p, q})
=============================================================================
