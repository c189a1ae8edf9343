----------------------------- MODULE MCWorkTick -----------------------------
(***************************************************************************)
(* Two agents on four cells: a terminal with a belt that leads out of it,  *)
(* a chest in the place of the terminal and a switch beside the belt, and  *)
(* a sensor at the end of a wire.  The blueprint has two planks, one of    *)
(* which may already be in place.                                          *)
(***************************************************************************)
EXTENDS WorkTick, TLC

CONSTANTS alice, bob

MCOrder == <<alice, bob>>
MCItems == <<"CHEST", "CONTRACT_TERMINAL", "CONVEYOR", "IRON_ORE", "PLANK", "SENSOR", "SWITCH", "WIRE">>
MCLayouts == {<<"CONTRACT_TERMINAL", "CONVEYOR", "PLANK", "AIR">>,
              <<"SWITCH", "CONVEYOR", "CHEST", "AIR">>,
              <<"SENSOR", "WIRE", "CONVEYOR", "AIR">>}
MCStock == Of("PLANK", 1)
MCKit == Of("PLANK", 2)
MCBlueprint == <<[pos |-> 4, block |-> "PLANK"], [pos |-> 3, block |-> "PLANK"]>>
MCCost == Of("PLANK", 2)
MCRecipes == [wire |-> [station |-> "HAND", time |-> 2,
                        inputs |-> Of("PLANK", 1), outputs |-> Of("WIRE", 1)]]

Box(type, p) == [type |-> type, pos |-> p]
MCRequests ==
  {[kind |-> "MINE", pos |-> p] : p \in {1, 3}} \cup
  {[kind |-> "GATHER", id |-> 1],
   [kind |-> "PLACE", pos |-> 4, item |-> "PLANK"],
   [kind |-> "TRANSFER", src |-> Box("CONTRACT_TERMINAL", 1), dst |-> Self, item |-> "PLANK", n |-> 1],
   [kind |-> "CRAFT", recipe |-> "wire", n |-> 1],
   [kind |-> "BUILD"]}
=============================================================================
