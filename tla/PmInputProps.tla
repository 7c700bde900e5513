---------------------------- MODULE PmInputProps ----------------------------
(***************************************************************************)
(* What the input half of PortMidi promises, whatever the driver.          *)
(*                                                                         *)
(* The data bytes of sysex messages are numbered, so that every byte tells *)
(* its place: those of message n count down to 1, above 16 * n.            *)
(***************************************************************************)
EXTENDS PmInput

CONSTANTS
    SysexLengths,     \* numbers of data bytes of the sysex messages that are sent
    MaxSent           \* bound on the messages that are sent

ASSUME SysexLengthsAssumption == SysexLengths \subseteq 1 .. 15
ASSUME MaxSentAssumption == MaxSent \in 0 .. 7

SysexMessage(n, length) ==
    [k \in 1 .. length + 2 |-> CASE k = 1 -> SYSEX
                                 [] k = length + 2 -> EOX
                                 [] OTHER -> 16 * n + length + 2 - k]

Lost == -1

IsShort(event) == event # Loss /\ event[1] \in (128 .. 246) \ {SYSEX}

\* The places of the bytes of an event that matter here: real-time bytes are left
\* out, and a short message stands for itself with its status byte.
Places(event) ==
    IF event = Loss \/ IsShort(event) THEN {1}
    ELSE {j \in 1 .. Len(event) : ~IsRealTime(event[j])}

ByteAt(event, j) == IF event = Loss THEN Lost ELSE event[j]

EndsMessage(b) == b = Lost \/ (b >= 128 /\ b # SYSEX)

\* Byte b may come after byte a.
Follows(a, b) ==
    \/ b = Lost
    \/ b = EOX /\ a < 128 /\ a % 16 = 1
    \/ b \in 0 .. 127 /\ (a = b + 1 \/ a = SYSEX)
    \/ b >= 128 /\ b # EOX /\ EndsMessage(a)

\* Within an event each byte may come after the one before.
WholeEvent(e) ==
    \A j, m \in Places(e) :
        j < m /\ (\A n \in Places(e) : n <= j \/ m <= n) => Follows(e[j], e[m])

\* The first byte of f may come after the last one of e.
Joins(e, f) ==
    \A j \in Places(e), m \in Places(f) :
        (\A n \in Places(e) : n <= j) /\ (\A n \in Places(f) : m <= n)
        => Follows(ByteAt(e, j), ByteAt(f, m))

InSequence(events) ==
    /\ \A k \in 1 .. Len(events) : WholeEvent(events[k])
    /\ \A k, l \in 1 .. Len(events) :
         k < l /\ (\A n \in k + 1 .. l - 1 : Places(events[n]) = {}) => Joins(events[k], events[l])

\* What the application was given by its last call, has in the current one and
\* has still to take from the queue.
Stream == rret \o rgot \o queue

\* A sysex message reaches the application whole and in order, or is cut short by
\* an overflow that Pm_Read reports; after the overflow no more of it comes: "if
\* the overflow condition is cleared, we don't start sending data from the
\* middle of a sysex message" (pminternal.h:116-119).
StreamWhole == InSequence(Stream)
=============================================================================
