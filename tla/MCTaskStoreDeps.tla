--------------------------- MODULE MCTaskStoreDeps ---------------------------
(* Two processes link three tasks by dependencies and finish them, one of  *)
(* them in the update that gives it its dependency.                        *)
EXTENDS TaskStore, TLC

CONSTANTS a, b, c, p, q, g, c1

Finish == << <<"evidence", FALSE>>, <<"status", "done">> >>

MCRequests ==
  [op : {"create"}, key : {None}, origin : [goal : {g}, criteria : {c1}, parent : {None}]]
  \cup
  [op : {"update"}, id : Ids, expected : {0},
   changes : {<<<<"dependency", i>>>> : i \in Ids}
             \cup {Finish, <<<<"dependency", b>>>> \o Finish}]
=============================================================================
