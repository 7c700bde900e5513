---------------------------- MODULE MCPmDevices ----------------------------
(***************************************************************************)
(* Values for PmDevices: one device is found, and one name is free for     *)
(* virtual devices.                                                        *)
(***************************************************************************)
EXTENDS PmDevices

OneFound == <<"default">>
=============================================================================
