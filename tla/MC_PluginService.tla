-------------------------- MODULE MC_PluginService --------------------------
(***************************************************************************)
(* Instance of PluginService for TLC: one peer that comes and goes, two    *)
(* lookups under way at a time, and two starts of the service.             *)
(***************************************************************************)
EXTENDS PluginService

CONSTANTS p1, l1, l2
=============================================================================
