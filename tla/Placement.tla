----------------------------- MODULE Placement -----------------------------
(***************************************************************************)
(* What moving between worlds promises: a character is created in one      *)
(* world, leaves a world to be on its way, and arrives in one world.  It   *)
(* is never in two places, it is never lost, and being on the way ends.    *)
(***************************************************************************)
CONSTANTS Worlds, Chars, Unborn, OnTheWay  \* the last two are no worlds

VARIABLE place

Init == place = [x \in Chars |-> Unborn]

Create(x, w) ==
  /\ place[x] = Unborn
  /\ place' = [place EXCEPT ![x] = w]

Depart(x) ==
  /\ place[x] \in Worlds
  /\ place' = [place EXCEPT ![x] = OnTheWay]

Arrive(x) ==
  /\ place[x] = OnTheWay
  /\ \E w \in Worlds : place' = [place EXCEPT ![x] = w]

Next == \E x \in Chars : \/ \E w \in Worlds : Create(x, w)
                         \/ Depart(x) \/ Arrive(x)

Spec ==
  Init /\ [][Next]_place /\ \A x \in Chars : WF_place(Arrive(x))
=============================================================================
