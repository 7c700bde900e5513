------------------------------ MODULE PmOutput ------------------------------
(***************************************************************************)
(* The output half of pm_common/portmidi.c, Pm_Write, Pm_WriteShort and    *)
(* Pm_WriteSysEx, over the output functions of pm_sndio/pmsndio.c, with    *)
(* the host errors of both.                                                *)
(*                                                                         *)
(* An event is the sequence of the four bytes of its message, low-order    *)
(* byte first.  Every write to the device can fail, a short message also   *)
(* in the middle.  Timestamps and latency change nothing that sndio does   *)
(* and are left out; so is the copying through fill_base, which the sndio  *)
(* driver never sets.                                                      *)
(***************************************************************************)
EXTENDS Integers, Sequences, SequencesExt

CONSTANTS
    BUFLEN,           \* the events Pm_WriteSysEx hands over at a time
    WholeMessages,    \* lists of events that hold whole messages
    Pieces,           \* lists of events that do not
    SysexMessages     \* the arguments of Pm_WriteSysEx

Byte == 0 .. 255
Event == [1 .. 4 -> Byte]

SYSEX == 240
EOX == 247
IsStatus(b) == b >= 128
IsRealTime(b) == b >= 248

HasEox(e) == \E k \in 1 .. 4 : e[k] = EOX

\* An event that Pm_Write takes while a sysex message is in progress or not, and
\* whether one is in progress after it.
Takes(e, on) ==
    IF on THEN ~IsStatus(e[1]) \/ e[1] = EOX \/ IsRealTime(e[1])
          ELSE IsStatus(e[1]) /\ e[1] # EOX
OnAfter(e, on) == (on \/ e[1] = SYSEX) /\ ~HasEox(e)

\* Every event of the list comes where it may.
Proper(events, first) ==
    \E on \in [0 .. Len(events) -> BOOLEAN] :
        /\ on[0] = first
        /\ \A k \in 1 .. Len(events) :
             Takes(events[k], on[k - 1]) /\ on[k] = OnAfter(events[k], on[k - 1])

ASSUME BuflenAssumption == BUFLEN \in Nat \ {0}

\* After its first byte an event holds data bytes, or the end of the message.
ASSUME ListsAssumption ==
    /\ WholeMessages \cup Pieces \subseteq Seq(Event)
    /\ \A events \in WholeMessages \cup Pieces : \A k \in 1 .. Len(events), j \in 2 .. 4 :
         events[k][j] < 128 \/ events[k][j] = EOX
    /\ \A events \in WholeMessages : Proper(events, FALSE)

ASSUME SysexMessagesAssumption ==
    \A msg \in SysexMessages :
        /\ msg \in Seq(Byte) /\ Len(msg) >= 2
        /\ msg[1] = SYSEX /\ msg[Len(msg)] = EOX
        /\ \A k \in 2 .. Len(msg) - 1 : msg[k] < 128

VARIABLES
    opened,                   \* the stream is open
    sysex_in_progress,
    pm_hosterror, pm_hosterror_text,
    errmsg,                   \* dev->errmsg
    opc, buffer, bits,        \* Pm_Write: where it is, the events left, bits / 8
    rest,                     \* Pm_WriteSysEx: the bytes not yet handed to Pm_Write
    ret,                      \* the result of the last call
    wire,                     \* the bytes that the call has written
    given,                    \* history: the bytes it was asked to write
    receiver,                 \* history: the device is in the middle of a sysex message
    left, whole,              \* history: sysex_in_progress at the call, its kind
    embedded, headless        \* history: see RealTimeInSysex, SysexStart

stream == <<opened, sysex_in_progress>>
errors == <<pm_hosterror, pm_hosterror_text, errmsg>>
call == <<opc, buffer, bits, rest>>
history == <<given, left, whole>>
vars == <<stream, errors, call, ret, wire, receiver, history, embedded, headless>>

Init ==
    /\ opened = FALSE /\ sysex_in_progress = FALSE
    /\ pm_hosterror = FALSE /\ pm_hosterror_text = "" /\ errmsg = ""
    /\ opc = "idle" /\ buffer = << >> /\ bits = 0 /\ rest = << >>
    /\ ret = "none"
    /\ wire = << >> /\ given = << >> /\ receiver = FALSE
    /\ left = FALSE /\ whole = TRUE /\ embedded = FALSE /\ headless = FALSE

midi_message_length(b) ==
    IF b >= 240
      THEN CASE b \in {241, 243} -> 2 [] b = 242 -> 3 [] b \in {240, 244, 245} -> 0 [] OTHER -> 1
      ELSE IF b \div 16 \in {12, 13} THEN 2 ELSE 3

\* The bytes an event stands for: a short message, or sysex bytes up to the EOX.
EventBytes(e) ==
    IF IsStatus(e[1]) /\ e[1] \notin {SYSEX, EOX}
      THEN SubSeq(e, 1, midi_message_length(e[1]))
      ELSE IF HasEox(e)
        THEN SubSeq(e, 1, CHOOSE k \in 1 .. 4 : e[k] = EOX /\ \A j \in 1 .. k - 1 : e[j] # EOX)
        ELSE e

\* The bytes of a list of events; bytes[k] are those of its last k events.
BytesOf(events) ==
    LET n == Len(events)
        bytes[k \in 0 .. n] ==
            IF k = 0 THEN << >> ELSE EventBytes(events[n + 1 - k]) \o bytes[k - 1]
    IN  bytes[n]

-----------------------------------------------------------------------------
(***************************************************************************)
(* do_write.                                                               *)
(***************************************************************************)
\* The last status byte of a message is SYSEX, or there is none.
Hears(bytes) ==
    LET status == {k \in 1 .. Len(bytes) : IsStatus(bytes[k]) /\ ~IsRealTime(bytes[k])}
    IN  \/ status = {} /\ receiver
        \/ \E k \in status : bytes[k] = SYSEX /\ \A j \in status : j <= k

Put(bytes) ==
    /\ wire' = wire \o bytes
    /\ receiver' = Hears(bytes)

\* The device takes all of the bytes ...
Written(bytes) == Put(bytes) /\ UNCHANGED errors

Returns(result) ==
    /\ opc' = "idle" /\ buffer' = << >> /\ bits' = 0 /\ rest' = << >>
    /\ ret' = result

\* ... or fewer, and Pm_Write returns the error: dev->errmsg is set, moved to
\* pm_hosterror_text and cleared.
WriteFails(bytes) ==
    /\ \E n \in 0 .. Len(bytes) - 1 : Put(SubSeq(bytes, 1, n))
    /\ pm_hosterror' = TRUE
    /\ pm_hosterror_text' = "write"
    /\ errmsg' = ""
    /\ Returns("HostError")

-----------------------------------------------------------------------------
(***************************************************************************)
(* The calls.                                                              *)
(***************************************************************************)
\* Pm_OpenOutput; an error of mio_open stays in dev->errmsg.
OpenOutput(ok) ==
    /\ ~opened /\ opc = "idle"
    /\ opened' = ok
    /\ sysex_in_progress' = FALSE
    /\ pm_hosterror' = FALSE
    /\ errmsg' = IF ok THEN errmsg ELSE "open"
    /\ ret' = IF ok THEN "NoError" ELSE "OpenHostError"
    /\ receiver' = FALSE
    /\ wire' = << >> /\ given' = << >>
    /\ UNCHANGED <<pm_hosterror_text, call, left, whole, embedded, headless>>

Close ==
    /\ opened /\ opc = "idle"
    /\ opened' = FALSE /\ sysex_in_progress' = FALSE
    /\ pm_hosterror' = FALSE
    /\ ret' = "NoError"
    /\ wire' = << >> /\ given' = << >>
    /\ UNCHANGED <<pm_hosterror_text, errmsg, call, receiver, left, whole, embedded, headless>>

HasHostError ==
    /\ opened /\ opc = "idle" /\ ~pm_hosterror
    /\ pm_hosterror' = (errmsg # "")
    /\ pm_hosterror_text' = IF errmsg # "" THEN errmsg ELSE pm_hosterror_text
    /\ errmsg' = ""
    /\ ret' = "none"
    /\ UNCHANGED <<stream, call, wire, receiver, history, embedded, headless>>

GetHostErrorText ==
    /\ opc = "idle" /\ pm_hosterror
    /\ pm_hosterror' = FALSE /\ pm_hosterror_text' = ""
    /\ ret' = "none"
    /\ UNCHANGED <<stream, errmsg, call, wire, receiver, history, embedded, headless>>

StartWrite(events, bytes, after, complete) ==
    /\ opened /\ opc = "idle"
    /\ pm_hosterror' = FALSE
    /\ opc' = "event" /\ buffer' = events /\ rest' = after
    /\ wire' = << >> /\ given' = bytes
    /\ left' = sysex_in_progress /\ whole' = complete
    /\ embedded' = FALSE
    /\ UNCHANGED <<stream, pm_hosterror_text, errmsg, bits, ret, receiver, headless>>

Write ==
    \E events \in WholeMessages \cup Pieces :
        StartWrite(events, BytesOf(events), << >>, events \in WholeMessages)

\* Mutant: the last event is forgotten when it is not full.
PackFull(bytes) ==
    [k \in 1 .. Len(bytes) \div 4 |-> [j \in 1 .. 4 |-> bytes[4 * (k - 1) + j]]]

\* Bytes packed into events, the last one filled up with zero bytes.
Pack(bytes) ==
    [k \in 1 .. (Len(bytes) + 3) \div 4 |->
        [j \in 1 .. 4 |-> LET n == 4 * (k - 1) + j
                          IN  IF n <= Len(bytes) THEN bytes[n] ELSE 0]]

\* What Pm_WriteSysEx hands over next when its buffer has room for n events.
Chunk(bytes, n) == SubSeq(bytes, 1, IF Len(bytes) < 4 * n THEN Len(bytes) ELSE 4 * n)
Remainder(bytes, n) == SubSeq(bytes, 4 * n + 1, Len(bytes))

\* The first time the buffer holds one event.
WriteSysEx ==
    \E msg \in SysexMessages :
        StartWrite(Pack(Chunk(msg, 1)), msg, Remainder(msg, 1), TRUE)

-----------------------------------------------------------------------------
(***************************************************************************)
(* Pm_Write.                                                               *)
(***************************************************************************)
Next4 == buffer[1]
AtEvent == opc = "event" /\ buffer # << >>

\* On to the next event.
NextEvent ==
    /\ opc' = "event" /\ buffer' = Tail(buffer) /\ bits' = 0
    /\ UNCHANGED <<rest, ret>>

\* On to the byte loop.
ByteLoop(from) ==
    /\ opc' = "bytes" /\ bits' = from
    /\ UNCHANGED <<buffer, rest, ret>>

\* Mutant: the unfinished message stays in progress.
SysexUnterminatedKept ==
    /\ AtEvent /\ Next4[1] = SYSEX
    /\ sysex_in_progress
    /\ Returns("BadData")
    /\ UNCHANGED <<stream, errors, wire, receiver, history, embedded, headless>>

SysexUnterminated ==
    /\ AtEvent /\ Next4[1] = SYSEX
    /\ sysex_in_progress
    /\ sysex_in_progress' = FALSE
    /\ Returns("BadData")
    /\ UNCHANGED <<opened, errors, wire, receiver, history, embedded, headless>>

\* When its first byte cannot be written the message is in progress all the same.
SysexStart ==
    /\ AtEvent /\ Next4[1] = SYSEX
    /\ ~sysex_in_progress
    /\ sysex_in_progress' = TRUE
    /\ \/ Written(<<SYSEX>>) /\ ByteLoop(1) /\ headless' = FALSE
       \/ WriteFails(<<SYSEX>>) /\ headless' = TRUE
    /\ UNCHANGED <<opened, history, embedded>>

OtherStatus == AtEvent /\ IsStatus(Next4[1]) /\ Next4[1] \notin {SYSEX, EOX}

\* "this should be a realtime message": it is written, and then its four bytes
\* are written once more by the loop that follows.
RealTimeInSysex ==
    /\ OtherStatus /\ sysex_in_progress
    /\ IsRealTime(Next4[1])
    /\ embedded' = TRUE
    /\ \/ Written(<<Next4[1]>>) /\ ByteLoop(0)
       \/ WriteFails(<<Next4[1]>>)
    /\ UNCHANGED <<stream, history, headless>>

StatusInSysex ==
    /\ OtherStatus /\ sysex_in_progress
    /\ ~IsRealTime(Next4[1])
    /\ sysex_in_progress' = FALSE
    /\ Returns("BadData")
    /\ UNCHANGED <<opened, errors, wire, receiver, history, embedded, headless>>

ShortMessage ==
    /\ OtherStatus /\ ~sysex_in_progress
    /\ LET bytes == SubSeq(Next4, 1, midi_message_length(Next4[1]))
       IN  \/ Written(bytes) /\ NextEvent
           \/ WriteFails(bytes)
    /\ UNCHANGED <<stream, history, embedded, headless>>

DataOrEox == AtEvent /\ (~IsStatus(Next4[1]) \/ Next4[1] = EOX)

SysexGoesOn ==
    /\ DataOrEox /\ sysex_in_progress
    /\ ByteLoop(0)
    /\ UNCHANGED <<stream, errors, wire, receiver, history, embedded, headless>>

DataAlone ==
    /\ DataOrEox /\ ~sysex_in_progress
    /\ Returns("BadData")
    /\ UNCHANGED <<stream, errors, wire, receiver, history, embedded, headless>>

\* A byte of the loop; pm_end_sysex after the last one.
WriteByte ==
    /\ opc = "bytes" /\ bits < 4
    /\ Next4[bits + 1] # EOX
    /\ \/ Written(<<Next4[bits + 1]>>) /\ ByteLoop(bits + 1)
       \/ WriteFails(<<Next4[bits + 1]>>)
    /\ UNCHANGED <<stream, history, embedded, headless>>

\* Mutant: pm_end_sysex forgets to reset sysex_in_progress.
WriteEoxKept ==
    /\ opc = "bytes" /\ bits < 4
    /\ Next4[bits + 1] = EOX
    /\ \/ Written(<<EOX>>) /\ NextEvent
       \/ WriteFails(<<EOX>>)
    /\ UNCHANGED <<stream, history, embedded, headless>>

WriteEox ==
    /\ opc = "bytes" /\ bits < 4
    /\ Next4[bits + 1] = EOX
    /\ \/ Written(<<EOX>>) /\ NextEvent /\ sysex_in_progress' = FALSE
       \/ WriteFails(<<EOX>>) /\ UNCHANGED sysex_in_progress
    /\ UNCHANGED <<opened, history, embedded, headless>>

BytesDone ==
    /\ opc = "bytes" /\ bits = 4
    /\ NextEvent
    /\ UNCHANGED <<stream, errors, wire, receiver, history, embedded, headless>>

\* Pm_Write has returned pmNoError to Pm_WriteSysEx.
NextChunk ==
    /\ opc = "event" /\ buffer = << >> /\ rest # << >>
    /\ buffer' = Pack(Chunk(rest, BUFLEN))
    /\ rest' = Remainder(rest, BUFLEN)
    /\ UNCHANGED <<stream, errors, opc, bits, ret, wire, receiver, history, embedded, headless>>

WriteReturns ==
    /\ opc = "event" /\ buffer = << >> /\ rest = << >>
    /\ Returns("NoError")
    /\ UNCHANGED <<stream, errors, wire, receiver, history, embedded, headless>>

Next ==
    \/ OpenOutput(TRUE) \/ OpenOutput(FALSE) \/ Close
    \/ HasHostError \/ GetHostErrorText
    \/ Write \/ WriteSysEx
    \/ SysexUnterminated \/ SysexStart \/ RealTimeInSysex \/ StatusInSysex
    \/ ShortMessage \/ SysexGoesOn \/ DataAlone
    \/ WriteByte \/ WriteEox \/ BytesDone \/ NextChunk \/ WriteReturns

Spec == Init /\ [][Next]_vars

-----------------------------------------------------------------------------
(***************************************************************************)
(* Properties.                                                             *)
(***************************************************************************)
\* What a call writes is what it was given, byte for byte, as far as it gets, and
\* all of it when it returns pmNoError: also when Pm_WriteSysEx cuts the message
\* into buffers of any size.  Real-time messages within a sysex message are left
\* out: they are written twice (RealTimeInSysex).
AsGiven ==
    /\ IsPrefix(wire, given)
    /\ opc = "idle" /\ ret = "NoError" => wire = given

WrittenAsGiven == ~embedded => AsGiven

\* PortMidi and the device agree on being within a sysex message: sysex bytes go
\* out only to a device that has seen its start, unless just that byte failed.
InStep == sysex_in_progress /\ ~headless => receiver

\* An error in the data ends the sysex message in progress, so that the next call
\* with whole messages is taken; such a call is refused only after one that left
\* a message unfinished, by an error of the device or of the application.
Resynchronised ==
    ret = "BadData" /\ opc = "idle" => ~sysex_in_progress /\ (whole => left)
=============================================================================
