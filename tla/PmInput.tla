------------------------------ MODULE PmInput ------------------------------
(***************************************************************************)
(* The input half of pm_common/portmidi.c: what a driver hands over with   *)
(* pm_read_short and pm_read_bytes is filtered, packed into events of four *)
(* bytes and put into the stream's queue, from which the application takes *)
(* it with Pm_Read.                                                        *)
(*                                                                         *)
(* An event is the sequence of its bytes, low-order byte first, without    *)
(* the zero bytes that fill it up.  The queue is the one of pmutil.c as    *)
(* PmQueueSpec describes it: while it holds Loss, that is while overflow   *)
(* is not acknowledged, every event is refused.  The driver's thread and   *)
(* the application run concurrently and meet in the queue, the filters and *)
(* the channel mask only.                                                  *)
(***************************************************************************)
EXTENDS Integers, Sequences

CONSTANTS
    Capacity,       \* bufferSize of Pm_OpenInput
    MaxRead,        \* bound on the length given to Pm_Read
    FilterSets,     \* the filters the application uses, as sets of bit numbers
    ChannelMasks    \* the channel masks, as sets of channels

Byte == 0 .. 255
Loss == << >>

ASSUME CapacityAssumption == Capacity \in Nat \ {0}
ASSUME MaxReadAssumption == MaxRead \in Nat \ {0}
ASSUME FiltersAssumption == \A f \in FilterSets : f \subseteq 0 .. 31
ASSUME MasksAssumption == \A m \in ChannelMasks : m \subseteq 0 .. 15

VARIABLES
    filters, channel_mask,
    sysex_in_progress,
    sysex_message,    \* the bytes packed so far; sysex_message_count is their number
    queue,            \* events, oldest first, and Loss last
    dpc,              \* the driver's thread: idle or in a loop of pm_read_bytes
    data, i,          \* the arguments of pm_read_bytes and the bytes it has processed
    rpc, rlen, rgot,  \* Pm_Read: running or not, its length, the events taken so far
    rret              \* what the last Pm_Read that gave the application anything gave

packing == <<sysex_in_progress, sysex_message>>
settings == <<filters, channel_mask>>
reading == <<rpc, rlen, rgot, rret>>
call == <<dpc, data, i>>
inputVars == <<settings, packing, queue, call, reading>>

InputInit ==
    /\ filters = {14}
    /\ channel_mask = 0 .. 15
    /\ sysex_in_progress = FALSE
    /\ sysex_message = << >>
    /\ queue = << >>
    /\ dpc = "idle" /\ data = << >> /\ i = 0
    /\ rpc = "idle" /\ rlen = 0 /\ rgot = << >> /\ rret = << >>

-----------------------------------------------------------------------------
(***************************************************************************)
(* Bytes and filters.                                                      *)
(***************************************************************************)
SYSEX == 240
EOX == 247
IsStatus(b) == b >= 128
IsRealTime(b) == b >= 248

StatusFiltered(b) == 16 + b \div 16 \in filters
RealtimeFiltered(b) == b \div 16 = 15 /\ b % 16 \in filters
ChannelFiltered(b) == b \div 16 # 15 /\ b % 16 \notin channel_mask

Passes(b) ==
    /\ ~StatusFiltered(b)
    /\ ~(IsRealTime(b) /\ RealtimeFiltered(b))
    /\ ~ChannelFiltered(b)

SetFilter(f) ==
    /\ filters' = f
    /\ UNCHANGED <<channel_mask, packing, queue, call, reading>>

SetChannelMask(m) ==
    /\ channel_mask' = m
    /\ UNCHANGED <<filters, packing, queue, call, reading>>

-----------------------------------------------------------------------------
(***************************************************************************)
(* Into the queue.                                                         *)
(***************************************************************************)
Overflowed == queue # << >> /\ queue[Len(queue)] = Loss

Accepts == ~Overflowed /\ Len(queue) < Capacity

\* Pm_Enqueue: the event, or the overflow if it is not set yet.
Enqueue(event) ==
    queue' = CASE Accepts -> Append(queue, event)
               [] Overflowed -> queue
               [] OTHER -> Append(queue, Loss)

\* pm_flush_sysex of the packed bytes, the last of the message or not.
Flush(bytes, last) ==
    /\ Enqueue(bytes)
    /\ sysex_in_progress' = (~last /\ Accepts)
    /\ sysex_message' = << >>

\* One more byte is packed, and the event flushed when it is full.
Pack(b) ==
    LET bytes == Append(sysex_message, b)
    IN  IF Len(bytes) = 4
          THEN Flush(bytes, FALSE)
          ELSE /\ sysex_message' = bytes
               /\ UNCHANGED <<sysex_in_progress, queue>>

\* pm_read_short.
ReadShort(event) ==
    IF ~Passes(event[1])
      THEN UNCHANGED <<packing, queue>>
      ELSE IF sysex_in_progress /\ IsStatus(event[1])
             THEN IF IsRealTime(event[1])
                    THEN Pack(event[1])
                    ELSE sysex_in_progress' = FALSE /\ UNCHANGED <<sysex_message, queue>>
             ELSE /\ Enqueue(event)
                  /\ sysex_in_progress' = (sysex_in_progress /\ Accepts)
                  /\ UNCHANGED sysex_message

-----------------------------------------------------------------------------
(***************************************************************************)
(* pm_read_bytes, one step per pass through one of its loops.              *)
(***************************************************************************)
ReadBytesCall(bytes) ==
    /\ data' = bytes
    /\ i' = 0
    /\ dpc' = IF sysex_in_progress THEN "send" ELSE "scan"
    /\ UNCHANGED <<packing, queue>>

byte == data[i + 1]

Advance(n, pc) ==
    /\ i' = i + n
    /\ dpc' = pc
    /\ UNCHANGED data

ReadBytesReturns ==
    /\ dpc' = "idle"
    /\ data' = << >> /\ i' = 0

\* No sysex message is in progress: its start is looked for.
ScanStart ==
    /\ dpc = "scan" /\ i < Len(data)
    /\ byte = SYSEX /\ ~RealtimeFiltered(byte)
    /\ sysex_in_progress' = TRUE
    /\ Advance(0, "send")
    /\ UNCHANGED <<settings, sysex_message, queue, reading>>

ScanEox ==
    /\ dpc = "scan" /\ i < Len(data)
    /\ byte = EOX
    /\ sysex_in_progress' = FALSE
    /\ ReadBytesReturns
    /\ UNCHANGED <<settings, sysex_message, queue, reading>>

ScanStatus ==
    /\ dpc = "scan" /\ i < Len(data)
    /\ IsStatus(byte) /\ byte # EOX
    /\ byte = SYSEX => RealtimeFiltered(byte)
    /\ ReadShort(<<byte>>)
    /\ Advance(1, "scan")
    /\ UNCHANGED <<settings, reading>>

ScanData ==
    /\ dpc = "scan" /\ i < Len(data)
    /\ ~IsStatus(byte)
    /\ Advance(1, "scan")
    /\ UNCHANGED <<settings, packing, queue, reading>>

ScanEnd ==
    /\ dpc = "scan" /\ i = Len(data)
    /\ ReadBytesReturns
    /\ UNCHANGED <<settings, packing, queue, reading>>

\* The outer loop: four data bytes are an event of their own.
FourData ==
    /\ sysex_message = << >>
    /\ i + 4 <= Len(data)
    /\ \A k \in 1 .. 4 : ~IsStatus(data[i + k])

Sending == dpc = "send" /\ i < Len(data) /\ sysex_in_progress

SendFour ==
    /\ Sending /\ FourData
    /\ Enqueue(SubSeq(data, i + 1, i + 4))
    /\ sysex_in_progress' = Accepts
    /\ Advance(4, "send")
    /\ UNCHANGED <<settings, sysex_message, reading>>

SendBytes ==
    /\ Sending /\ ~FourData
    /\ Advance(0, "bytes")
    /\ UNCHANGED <<settings, packing, queue, reading>>

SendEnd ==
    /\ dpc = "send" /\ ~Sending
    /\ ReadBytesReturns
    /\ UNCHANGED <<settings, packing, queue, reading>>

\* The inner loop: byte by byte up to the end of an event.
OmitByte ==
    /\ dpc = "bytes" /\ i < Len(data)
    /\ IsRealTime(byte) /\ RealtimeFiltered(byte)
    /\ Advance(1, "bytes")
    /\ UNCHANGED <<settings, packing, queue, reading>>

\* Mutant: the end of the message leaves its bytes in the buffer.
SendEoxUnflushed ==
    /\ dpc = "bytes" /\ i < Len(data) /\ byte = EOX
    /\ Pack(byte)
    /\ ReadBytesReturns
    /\ UNCHANGED <<settings, reading>>

SendEox ==
    /\ dpc = "bytes" /\ i < Len(data)
    /\ byte = EOX
    /\ Flush(Append(sysex_message, byte), TRUE)
    /\ ReadBytesReturns
    /\ UNCHANGED <<settings, reading>>

SendByte ==
    /\ dpc = "bytes" /\ i < Len(data)
    /\ byte # EOX /\ ~(IsRealTime(byte) /\ RealtimeFiltered(byte))
    /\ Pack(byte)
    /\ Advance(1, IF Len(sysex_message) = 3 THEN "send" ELSE "bytes")
    /\ UNCHANGED <<settings, reading>>

BytesEnd ==
    /\ dpc = "bytes" /\ i = Len(data)
    /\ Advance(0, "send")
    /\ UNCHANGED <<settings, packing, queue, reading>>

ReadBytesStep ==
    \/ ScanStart \/ ScanEox \/ ScanStatus \/ ScanData \/ ScanEnd
    \/ SendFour \/ SendBytes \/ SendEnd
    \/ OmitByte \/ SendEox \/ SendByte \/ BytesEnd

-----------------------------------------------------------------------------
(***************************************************************************)
(* Pm_Read, one step per Pm_Dequeue.                                       *)
(***************************************************************************)
ReadStart(length) ==
    /\ rpc = "idle"
    /\ rpc' = "reading" /\ rlen' = length /\ rgot' = << >>
    /\ UNCHANGED <<settings, packing, queue, call, rret>>

ReadReturns(result) ==
    /\ rpc' = "idle" /\ rlen' = 0 /\ rgot' = << >>
    /\ rret' = IF result = << >> THEN rret ELSE result
    /\ UNCHANGED <<settings, packing, call>>

ReadEvent ==
    /\ rpc = "reading" /\ Len(rgot) < rlen
    /\ queue # << >> /\ Head(queue) # Loss
    /\ rgot' = Append(rgot, Head(queue))
    /\ queue' = Tail(queue)
    /\ UNCHANGED <<settings, packing, call, rpc, rlen, rret>>

\* Mutant: the events taken before the overflow are returned, not the error.
ReadOverflowIgnored ==
    /\ rpc = "reading" /\ Len(rgot) < rlen
    /\ queue # << >> /\ Head(queue) = Loss
    /\ queue' = Tail(queue)
    /\ ReadReturns(rgot)

\* Pm_Read ignores the data it has retrieved so far.
ReadOverflow ==
    /\ rpc = "reading" /\ Len(rgot) < rlen
    /\ queue # << >> /\ Head(queue) = Loss
    /\ queue' = Tail(queue)
    /\ ReadReturns(<<Loss>>)

ReadEnd ==
    /\ rpc = "reading"
    /\ Len(rgot) = rlen \/ queue = << >>
    /\ ReadReturns(rgot)
    /\ UNCHANGED queue

Application ==
    \/ \E f \in FilterSets : SetFilter(f)
    \/ \E m \in ChannelMasks : SetChannelMask(m)
    \/ \E length \in 1 .. MaxRead : ReadStart(length)
    \/ ReadEvent \/ ReadOverflow \/ ReadEnd
=============================================================================
