--------------------------- MODULE PmInputDriver ---------------------------
(***************************************************************************)
(* Module PmInput under any driver that keeps the rules of the comment on  *)
(* pm_read_short: short messages go to pm_read_short, the bytes of a sysex *)
(* message to pm_read_bytes in pieces, and real-time bytes to              *)
(* either.  If Truncates holds the cable may be pulled in the middle of a  *)
(* sysex message, the next message then comes without an EOX before it.    *)
(***************************************************************************)
EXTENDS PmInputProps

CONSTANTS Truncates, MaxClocks

VARIABLES
    cable, fed,        \* the sysex message under way, and how much of it is handed over
    started, clocks    \* messages started, real-time bytes sent

driverVars == <<inputVars, cable, fed, started, clocks>>

Clock == 248
ActiveSensing == 254
ANote == <<144, 1, 2>>

DriverInit == InputInit /\ cable = << >> /\ fed = 0 /\ started = 0 /\ clocks = 0

AllFed == fed = Len(cable)

\* A piece of the sysex message, with or without a real-time byte in it.
Piece(m, from, to) ==
    \/ ReadBytesCall(SubSeq(m, from, to)) /\ UNCHANGED clocks
    \/ /\ clocks < MaxClocks
       /\ clocks' = clocks + 1
       /\ \E rt \in {Clock, ActiveSensing} :
            ReadBytesCall(<<m[from], rt>> \o SubSeq(m, from + 1, to))

\* Up to where a piece may go: one byte, five bytes or the whole message.
PieceEnds(m, from) == {from, from + 4, Len(m)} \cap 1 .. Len(m)

SysexStarts ==
    /\ dpc = "idle" /\ started < MaxSent
    /\ AllFed \/ Truncates
    /\ started' = started + 1
    /\ \E length \in SysexLengths :
         /\ cable' = SysexMessage(started, length)
         /\ \E k \in PieceEnds(cable', 1) : fed' = k /\ Piece(cable', 1, k)
    /\ UNCHANGED <<settings, reading>>

SysexGoesOn ==
    /\ dpc = "idle" /\ ~AllFed
    /\ \E k \in PieceEnds(cable, fed + 1) : fed' = k /\ Piece(cable, fed + 1, k)
    /\ UNCHANGED <<cable, started, settings, reading>>

ShortStarts ==
    /\ dpc = "idle" /\ started < MaxSent
    /\ AllFed \/ Truncates
    /\ ReadShort(ANote)
    /\ started' = started + 1
    /\ cable' = << >> /\ fed' = 0
    /\ UNCHANGED <<clocks, settings, call, reading>>

\* Only within a sysex message: elsewhere it is like any short message.
RealTimeComes ==
    /\ dpc = "idle" /\ ~AllFed
    /\ clocks < MaxClocks
    /\ clocks' = clocks + 1
    /\ ReadShort(<<Clock>>)
    /\ UNCHANGED <<cable, fed, started, settings, call, reading>>

Driver ==
    \/ SysexStarts \/ SysexGoesOn \/ ShortStarts \/ RealTimeComes
    \/ ReadBytesStep /\ UNCHANGED <<cable, fed, started, clocks>>

DriverNext ==
    \/ Driver
    \/ Application /\ UNCHANGED <<cable, fed, started, clocks>>

DriverSpec == DriverInit /\ [][DriverNext]_driverVars
=============================================================================
