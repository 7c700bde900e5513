----------------------------- MODULE MCPmOutput -----------------------------
(***************************************************************************)
(* The values with which TLC checks module PmOutput.                       *)
(***************************************************************************)
EXTENDS PmOutput

Note == <<144, 1, 2, 0>>
Program == <<193, 3, 0, 0>>
Clock == <<248, 0, 0, 0>>
SysexHead == <<SYSEX, 1, 2, 3>>
SysexMiddle == <<4, 5, 6, 7>>
SysexTail == <<8, EOX, 0, 0>>
EoxOnly == <<EOX, 0, 0, 0>>

MCWholeMessages ==
    {<<Program, Note>>, <<Clock>>, <<SysexHead, SysexTail, Note>>, <<SysexHead, SysexMiddle, EoxOnly>>}
MCPieces == {<<SysexHead>>, <<Note, SysexHead, SysexMiddle>>, <<SysexMiddle>>, <<SysexTail>>}

\* Messages of n bytes: within the first event, at the ends of events and of
\* buffers of two events, and one byte to either side of them.
MCSysexMessages ==
    {[k \in 1 .. n |-> CASE k = 1 -> SYSEX [] k = n -> EOX [] OTHER -> k] :
        n \in {2, 3, 4, 5, 11, 12, 13, 20, 21}}
=============================================================================
