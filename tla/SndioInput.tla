----------------------------- MODULE SndioInput -----------------------------
(***************************************************************************)
(* input_thread of pm_sndio/pmsndio.c: it splits the bytes that come from  *)
(* sndio into messages and hands them to pm_read_short and pm_read_bytes   *)
(* (module PmInput).  When it reads, and how it starts and ends, is module *)
(* SndioDevice.                                                            *)
(*                                                                         *)
(* The device at the other end of the wire sends well-formed MIDI: whole   *)
(* messages, abandoned ones and real-time bytes between any two bytes (an  *)
(* MC module adds messages without their repeated status byte).  Its data  *)
(* bytes are numbered so that every byte of a sysex message tells its      *)
(* place.                                                                  *)
(***************************************************************************)
EXTENDS PmInputProps

CONSTANTS
    BitOr(_, _),      \* C's | on bytes
    SYSEX_MAXLEN,
    ShortMessages,    \* the messages of two or three bytes the device sends
    RealTimes         \* its real-time bytes

ASSUME BitOrAssumption == \A b \in Byte : BitOr(0, b) = b
ASSUME SysexAssumption ==
    /\ SYSEX_MAXLEN \in Nat \ {0}
    \* The EOX that would be the byte after sysex_data is left out: it is put there
    \* without a test.
    /\ SYSEX_MAXLEN - 1 \notin SysexLengths
ASSUME RealTimesAssumption == RealTimes \subseteq 248 .. 255

VARIABLES
    st, len,        \* the status byte in force (0: none), the length it asks for
    idx,            \* bytes of the short message that have arrived
    message,        \* pm_ev.message: its four bytes
    sysex_data,     \* the bytes of the sysex message (their number is idx there)
    wire, pos,      \* the message the device is sending, and how much of it is sent
    sent,           \* messages the device has started
    done,           \* history: the message that the last byte completed
    handed          \* history: what input_thread handed over at the last byte

parser == <<st, len, idx, message, sysex_data>>
device == <<wire, pos, sent>>
sndioVars == <<inputVars, parser, device, done, handed>>

voice_len == [n \in 0 .. 6 |-> IF n \in {4, 5} THEN 2 ELSE 3]
common_len == [n \in 0 .. 7 |-> CASE n \in {1, 3} -> 2
                                  [] n = 2 -> 3
                                  [] n \in {6, 7} -> 1
                                  [] OTHER -> 0]

\* The number of bytes of the message that status byte c starts.
LengthOf(c) == IF c >= 240 THEN common_len[c % 8] ELSE voice_len[(c \div 16) % 8]

ASSUME ShortMessagesAssumption ==
    \A m \in ShortMessages :
        /\ m \in Seq(Byte) /\ Len(m) \in {2, 3}
        /\ m[1] \in (128 .. 246) \ {SYSEX} /\ Len(m) = LengthOf(m[1])
        /\ \A p \in 2 .. Len(m) : m[p] < 128

SndioInit ==
    /\ InputInit
    /\ st = 0 /\ len = 0 /\ idx = 0
    /\ message = [p \in 0 .. 3 |-> 0]
    /\ sysex_data = << >>
    /\ wire = << >> /\ pos = 0 /\ sent = 0
    /\ done = << >> /\ handed = << >>

-----------------------------------------------------------------------------
(***************************************************************************)
(* What input_thread does with a byte.                                     *)
(***************************************************************************)
RealTime(c) ==
    /\ IsRealTime(c)
    /\ ReadShort(<<c>>)
    /\ handed' = <<c>>
    /\ UNCHANGED <<parser, call>>

SysexEnd(c) ==
    /\ c = EOX
    /\ IF st = SYSEX
         THEN ReadBytesCall(Append(sysex_data, c)) /\ handed' = Append(sysex_data, c)
         ELSE UNCHANGED <<packing, queue, call>> /\ handed' = << >>
    /\ st' = 0 /\ idx' = 0 /\ sysex_data' = << >>
    /\ UNCHANGED <<len, message>>

SysexStart(c) ==
    /\ c = SYSEX
    /\ st' = c
    /\ sysex_data' = <<c>>
    /\ handed' = << >>
    /\ UNCHANGED <<idx, len, message, packing, queue, call>>

\* Mutant: the bytes of an unfinished message still count.
StatusContinues(c) ==
    /\ c \in (128 .. 247) \ {SYSEX, EOX}
    /\ message' = [p \in 0 .. 3 |-> IF p = 0 THEN c ELSE 0]
    /\ len' = LengthOf(c)
    /\ st' = c
    /\ idx' = idx + 1 /\ sysex_data' = << >>
    /\ handed' = << >>
    /\ UNCHANGED <<packing, queue, call>>

\* Any other status byte starts a short message.
Status(c) ==
    /\ c \in (128 .. 247) \ {SYSEX, EOX}
    /\ message' = [p \in 0 .. 3 |-> IF p = 0 THEN c ELSE 0]
    /\ len' = LengthOf(c)
    /\ st' = c
    /\ idx' = 1 /\ sysex_data' = << >>
    /\ handed' = << >>
    /\ UNCHANGED <<packing, queue, call>>

SysexData(c) ==
    /\ c < 128 /\ st = SYSEX
    /\ Len(sysex_data) < SYSEX_MAXLEN
    /\ sysex_data' = Append(sysex_data, c)
    /\ handed' = << >>
    /\ UNCHANGED <<st, len, idx, message, packing, queue, call>>

\* "the message is too long"
SysexTooLong(c) ==
    /\ c < 128 /\ st = SYSEX
    /\ Len(sysex_data) = SYSEX_MAXLEN
    /\ idx' = 0 /\ st' = 0 /\ sysex_data' = << >>
    /\ handed' = << >>
    /\ UNCHANGED <<len, message, packing, queue, call>>

\* A data byte of a short message.  After a complete message idx is 0, and the
\* byte is put in twice, over what is left of that message.  More data bytes
\* than fit come only after a status byte whose len they cannot reach any more:
\* there idx stops at 4, and the bytes are never seen.
ShortData(c) ==
    /\ c < 128 /\ st \notin {0, SYSEX}
    /\ LET at == IF idx = 0 THEN {0, 1} ELSE {idx}
           next == IF idx = 0 THEN 2 ELSE IF idx < 4 THEN idx + 1 ELSE 4
       IN  /\ message' = [p \in 0 .. 3 |-> IF p \in at THEN BitOr(message[p], c)
                                                       ELSE message[p]]
           /\ IF next = len
                THEN /\ LET event == [p \in 1 .. len |-> message'[p - 1]]
                        IN  ReadShort(event) /\ handed' = event
                     /\ st' = IF st >= 240 THEN 0 ELSE st
                     /\ idx' = 0
                ELSE /\ idx' = next
                     /\ handed' = << >>
                     /\ UNCHANGED <<st, packing, queue>>
    /\ UNCHANGED <<len, sysex_data, call>>

StrayData(c) ==
    /\ c < 128 /\ st = 0
    /\ handed' = << >>
    /\ UNCHANGED <<parser, packing, queue, call>>

\* The next byte is processed once pm_read_bytes has returned.
InputByte(c) ==
    /\ dpc = "idle"
    /\ \/ RealTime(c) \/ SysexEnd(c) \/ SysexStart(c) \/ Status(c)
       \/ SysexData(c) \/ SysexTooLong(c) \/ ShortData(c) \/ StrayData(c)
    /\ UNCHANGED <<settings, reading>>

-----------------------------------------------------------------------------
(***************************************************************************)
(* The device.                                                             *)
(***************************************************************************)
Messages(n) == ShortMessages \cup {SysexMessage(n, length) : length \in SysexLengths}

Sent(byt, p) ==
    /\ pos' = p
    /\ done' = IF p = Len(wire') THEN wire' ELSE << >>
    /\ InputByte(byt)

\* A message starts, whether or not the one before is complete.
SendStart ==
    /\ sent < MaxSent
    /\ sent' = sent + 1
    /\ \E m \in Messages(sent) : wire' = m /\ Sent(m[1], 1)

SendNext ==
    /\ pos < Len(wire)
    /\ UNCHANGED <<wire, sent>>
    /\ Sent(wire[pos + 1], pos + 1)

SendRealTime ==
    \E c \in RealTimes : /\ InputByte(c)
                         /\ done' = <<c>>
                         /\ UNCHANGED device

InputThread ==
    \/ SendStart \/ SendNext \/ SendRealTime
    \/ ReadBytesStep /\ UNCHANGED <<parser, device, done, handed>>

SndioNext ==
    \/ InputThread
    \/ Application /\ UNCHANGED <<parser, device, done, handed>>

SndioSpec == SndioInit /\ [][SndioNext]_sndioVars

-----------------------------------------------------------------------------
(***************************************************************************)
(* Properties.                                                             *)
(***************************************************************************)
\* Whatever was left unfinished before it, and whatever real-time bytes came in
\* between: at the byte that completes a message, and at no other, input_thread
\* hands over that message.  Sysex messages that do not fit are dropped.
Fits(m) == IF m # << >> /\ m[1] = SYSEX /\ Len(m) > SYSEX_MAXLEN THEN << >> ELSE m

Parses == handed = Fits(done)

\* Between two calls of pm_read_bytes no sysex message is in progress and no byte
\* of one is left over, whatever overflowed or was filtered: pm_read_short never
\* takes a real-time byte or a short message for a part of a sysex message.
NothingLeftOver == dpc = "idle" => ~sysex_in_progress /\ sysex_message = << >>
=============================================================================
