---------------------------- MODULE MCSndioInput ----------------------------
(***************************************************************************)
(* The values with which TLC checks module SndioInput.                     *)
(***************************************************************************)
EXTENDS SndioInput, Bitwise

MCBitOr(a, b) == a | b

MCFilterSets == {{14}, {14, 8}}
MCChannelMasks == {0 .. 15, {0}}

Note == <<144, 1, 2>>
Program == <<193, 3>>
MidiTimeCode == <<241, 5>>
MCShortMessages == {Note, Program, MidiTimeCode}
MCRealTimes == {248}

\* Up to 8 data bytes and the EOX fit in sysex_data, 10 do not.
MCSysexLengths == {4, 8, 10}
=============================================================================
