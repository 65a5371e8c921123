---------------------------- MODULE MCMediaPath ----------------------------
(* MediaPath for two phones with music, one of which calls, with short lists *)
(* and few prompts.                                                          *)
EXTENDS MediaPath

MCPrompts     == {"POWER_OFF", "WARNING"}
MCRingPrompts == {"CONNECTED", "INCOMING_CALL", "WARNING"}
One  == {0}
Both == {0, 1}
None == {}
=============================================================================
