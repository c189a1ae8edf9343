----------------------------- MODULE MCOrgSync -----------------------------
(***************************************************************************)
(* Two worlds, one of which founds, and two agents, each of which starts   *)
(* in either world.                                                        *)
(***************************************************************************)
EXTENDS OrgSync

CONSTANTS city, wild, alice, bob, ticker

MCWorlds == <<city, wild>>
MCAgents == <<alice, bob>>
=============================================================================
