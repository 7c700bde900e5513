------------------------------ MODULE MCPmInput ------------------------------
(***************************************************************************)
(* The values with which TLC checks module PmInputDriver.                  *)
(***************************************************************************)
EXTENDS PmInputDriver

MCFilterSets == {{14}, {14, 8}}
MCChannelMasks == {0 .. 15}
MCSysexLengths == {8}
=============================================================================
