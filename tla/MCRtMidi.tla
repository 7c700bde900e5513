------------------------------ MODULE MCRtMidi ------------------------------
(***************************************************************************)
(* Values for the constants of RtMidiAlsaIn, for TLC.                      *)
(***************************************************************************)
EXTENDS RtMidiAlsaIn

Messages == Seq(Events)

TimeOnly == {{"time"}}
=============================================================================
