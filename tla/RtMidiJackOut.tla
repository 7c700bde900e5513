--------------------------- MODULE RtMidiJackOut ---------------------------
(***************************************************************************)
(* MIDI output of RtMidi over JACK, as chuck's port patches it: the        *)
(* application leaves a message in two rings, its bytes in one and its     *)
(* size in the other, and JACK's thread takes them out in jackProcessOut,  *)
(* once a cycle.  closePort asks for a cycle with one semaphore and waits  *)
(* for it at another, a second at most.                                    *)
(*                                                                         *)
(* JACK is external: rings with one reader and one writer that take what   *)
(* there is room for and give what there is, each call a step; a port that *)
(* is known or not; cycles until the client is closed, which waits for the *)
(* running one, and may stop at any step.  The clock of closePort works.    *)
(*                                                                         *)
(* A message is numbered, and each of its bytes is the number.  Its size   *)
(* is an int of four bytes, the least significant first.  The rings hold   *)
(* equally many bytes: messages of up to four bytes fill that of sizes     *)
(* first, longer ones the other.                                           *)
(***************************************************************************)
EXTENDS Integers, SequencesExt

CONSTANTS
    HaveSemaphore,  \* the build defines HAVE_SEMAPHORE
    RingBytes,      \* the bytes that a ring holds, 16383 in the code
    EventLimit,     \* the longest event for which JACK's buffer has room
    Sizes,          \* the sizes of messages, which an int can hold
    MaxSends,       \* bound on the messages
    MaxOpens        \* bound on the openings

ASSUME JackAssumption ==
    /\ HaveSemaphore \in BOOLEAN /\ RingBytes \in Nat /\ RingBytes >= 4
    /\ Sizes \subseteq Nat \ {0} /\ {EventLimit, MaxSends, MaxOpens} \subseteq Nat

Garbage == 0    \* what JACK's buffer held before

VARIABLES
    client, port,               \* of JackMidiData: client and port are set
    buffMessage, buffSize,      \* the rings
    needpost, cleanup,          \* the semaphores
    registered,                 \* JACK knows the port
    freed,                      \* the rings are freed
    apc, destroying,            \* the application's call
    cpc, space,                 \* jackProcessOut
    opens,
    sizes,          \* history: the sizes of the messages sent
    out,            \* history: what JACK was given for the port, in order
    lost,           \* history: sent and lost with the rings or the port
    overrun,        \* history: of what a ring did not take all, "bytes" or "size"
    timeouts,       \* history: the waits of closePort that nobody answered
    answered,       \* history: the last wait was answered
    cycle           \* history: a cycle "began" or is "done" since closePort asked for one

rings == <<buffMessage, buffSize, freed>>
semaphores == <<needpost, cleanup>>
object == <<client, port, registered>>
call == <<apc, destroying, opens>>
process == <<cpc, space>>
waits == <<timeouts, answered, cycle>>
history == <<sizes, out, lost, overrun>>
jackVars == <<rings, semaphores, object, call, process, waits, history>>

\* The constructor has tried to connect.
Init ==
    /\ client \in BOOLEAN /\ port = FALSE /\ registered = FALSE
    /\ buffMessage = <<>> /\ buffSize = <<>> /\ freed = FALSE
    /\ needpost = 0 /\ cleanup = 0
    /\ apc = "idle" /\ destroying = FALSE /\ opens = 0
    /\ cpc = "none" /\ space = 0
    /\ sizes = <<>> /\ out = <<>> /\ lost = {} /\ overrun = {}
    /\ timeouts = 0 /\ answered = FALSE /\ cycle = "none"

-----------------------------------------------------------------------------
(***************************************************************************)
(* The application.                                                        *)
(***************************************************************************)
\* connect: without a client there are new rings, and the old ones leak.
Connect ==
    \/ client /\ UNCHANGED <<client, rings, lost>>
    \/ /\ ~client /\ client' \in BOOLEAN
       /\ buffMessage' = <<>> /\ buffSize' = <<>> /\ UNCHANGED freed
       /\ lost' = lost \cup ToSet(buffMessage)

GetPorts ==
    /\ apc = "idle" /\ Connect
    /\ UNCHANGED <<port, registered, semaphores, call, process, waits, sizes, out, overrun>>

\* openPort and openVirtualPort.  The registration may fail.
OpenPort ==
    /\ apc = "idle" /\ opens < MaxOpens /\ opens' = opens + 1
    /\ Connect
    /\ port' \in {port, client'} /\ (port => port') /\ registered' = port'
    /\ UNCHANGED <<semaphores, apc, destroying, process, waits, sizes, out, overrun>>

\* What of s a ring takes: nobody looks at the result of jack_ringbuffer_write.
Fitting(ring, s) == SubSeq(s, 1, Min({Len(s), RingBytes - Len(ring)}))

Overrun(ring, s, what) == IF Fitting(ring, s) = s THEN overrun ELSE overrun \cup {what}

\* sendMessage has no regard for the port.

WriteMessage ==
    /\ apc = "idle" /\ apc' = "size"
    /\ Len(sizes) < MaxSends
    /\ \E n \in Sizes :
         LET m == Len(sizes) + 1
             bytes == [i \in 1 .. n |-> m]
         IN  /\ sizes' = Append(sizes, n)
             /\ buffMessage' = buffMessage \o Fitting(buffMessage, bytes)
             /\ overrun' = Overrun(buffMessage, bytes, "bytes")
    /\ UNCHANGED <<buffSize, freed, semaphores, object, destroying, opens, process, waits, out, lost>>

\* An int in memory.
SizeBytes(n) == <<n % 256, (n \div 256) % 256, (n \div 65536) % 256, n \div 16777216>>

\* What is negative as an int is too large as a size_t.
SizeOf(b) == b[1] + 256 * b[2] + 65536 * b[3] + 16777216 * b[4]

WriteSize ==
    /\ apc = "size" /\ apc' = "idle"
    /\ LET bytes == SizeBytes(Last(sizes))
       IN  /\ buffSize' = buffSize \o Fitting(buffSize, bytes)
           /\ overrun' = Overrun(buffSize, bytes, "size")
    /\ UNCHANGED <<buffMessage, freed, semaphores, object, destroying, opens, process, waits,
                   sizes, out, lost>>

\* closePort, and the destructor, which begins with it.
ClosePort ==
    /\ apc = "idle" /\ destroying' \in BOOLEAN
    /\ IF port
         THEN /\ apc' = IF HaveSemaphore THEN "wait" ELSE "unregister"
              /\ needpost' = IF HaveSemaphore THEN needpost + 1 ELSE needpost
              /\ cycle' = "none"
         ELSE /\ destroying' /\ apc' = "free"
              /\ UNCHANGED <<needpost, cycle>>
    /\ UNCHANGED <<rings, cleanup, object, opens, process, timeouts, answered, history>>

WaitAnswered ==
    /\ apc = "wait" /\ apc' = "unregister"
    /\ cleanup > 0 /\ cleanup' = cleanup - 1
    /\ answered' = TRUE
    /\ UNCHANGED <<rings, needpost, object, destroying, opens, process, timeouts, cycle, history>>

WaitTimesOut ==
    /\ apc = "wait" /\ apc' = "unregister"
    /\ cleanup = 0
    /\ timeouts' = timeouts + 1 /\ answered' = FALSE
    /\ UNCHANGED <<rings, semaphores, object, destroying, opens, process, cycle, history>>

Unregister ==
    /\ apc = "unregister" /\ apc' = "clear"
    /\ registered' = FALSE
    /\ UNCHANGED <<rings, semaphores, client, port, destroying, opens, process, waits, history>>

ClearPort ==
    /\ apc = "clear" /\ apc' = IF destroying THEN "free" ELSE "idle"
    /\ port' = FALSE /\ cycle' = "none"
    /\ UNCHANGED <<rings, semaphores, client, registered, destroying, opens, process, timeouts,
                   answered, history>>

FreeRings ==
    /\ apc = "free" /\ apc' = IF client THEN "client" ELSE "deleted"
    /\ freed' = TRUE
    /\ UNCHANGED <<buffMessage, buffSize, semaphores, object, destroying, opens, process, waits, history>>

CloseClient ==
    /\ apc = "client" /\ apc' = "deleted"
    /\ cpc = "none" /\ client' = FALSE
    /\ UNCHANGED <<rings, semaphores, port, registered, destroying, opens, process, waits, history>>

Closing == WaitAnswered \/ WaitTimesOut \/ Unregister \/ ClearPort \/ FreeRings \/ CloseClient

AppStep == GetPorts \/ OpenPort \/ WriteMessage \/ WriteSize \/ ClosePort \/ Closing

-----------------------------------------------------------------------------
(***************************************************************************)
(* jackProcessOut.  A use of a port that is NULL, of a freed ring or of an *)
(* event that was not reserved is the end of the program.                  *)
(***************************************************************************)
CycleBegins ==
    /\ client /\ cpc = "none" /\ port
    /\ cpc' = "buffer"
    /\ cycle' = IF apc = "wait" THEN "began" ELSE cycle
    /\ UNCHANGED <<rings, semaphores, object, call, space, timeouts, answered, history>>

GetBuffer ==
    /\ cpc = "buffer" /\ cpc' = IF port THEN "drain" ELSE "crashed"
    /\ UNCHANGED <<rings, semaphores, object, call, space, waits, history>>

Freed ==
    /\ cpc \in {"drain", "read"} /\ freed /\ cpc' = "crashed"
    /\ UNCHANGED <<rings, semaphores, object, call, space, waits, history>>

\* What a ring gives of n bytes.
Available(ring, n) == SubSeq(ring, 1, Min({n, Len(ring)}))

\* Bytes of space for which the ring has none stay.  They are of a size read before
\* in this cycle: a ring that was empty takes all of a size.
Spaced(bytes) ==
    SizeOf([i \in 1 .. 4 |-> IF i <= Len(bytes) THEN bytes[i] ELSE SizeBytes(space)[i]])

ReadSize ==
    /\ cpc = "drain" /\ ~freed /\ buffSize # <<>>
    /\ cpc' = "read"
    /\ space' = Spaced(Available(buffSize, 4))
    /\ buffSize' = SubSeq(buffSize, Len(Available(buffSize, 4)) + 1, Len(buffSize))
    /\ UNCHANGED <<buffMessage, freed, semaphores, object, call, waits, history>>

\* Mutant: all the bytes that there are.
TakenAll == buffMessage

Taken == Available(buffMessage, space)

\* The event is as long as the size says, whatever the ring gave.
EventOf(bytes) == [i \in 1 .. Max({space, Len(bytes)}) |-> IF i <= Len(bytes) THEN bytes[i] ELSE Garbage]

\* Mutant: one message in a cycle.
ReadMessageOnce ==
    /\ cpc = "read" /\ ~freed /\ cpc' = "post"
    /\ space \in 1 .. EventLimit
    /\ buffMessage' = SubSeq(buffMessage, Len(Taken) + 1, Len(buffMessage))
    /\ out' = Append(out, EventOf(Taken)) /\ UNCHANGED lost
    /\ UNCHANGED <<buffSize, freed, semaphores, object, call, space, waits, sizes, overrun>>

ReadMessage ==
    /\ cpc = "read" /\ ~freed /\ cpc' = "drain"
    /\ space \in 1 .. EventLimit
    /\ buffMessage' = SubSeq(buffMessage, Len(Taken) + 1, Len(buffMessage))
    /\ IF registered
         THEN out' = Append(out, EventOf(Taken)) /\ UNCHANGED lost
         ELSE lost' = lost \cup ToSet(Taken) /\ UNCHANGED out
    /\ UNCHANGED <<buffSize, freed, semaphores, object, call, space, waits, sizes, overrun>>

\* JACK's buffer is full, or the event none that it takes; the bytes go to NULL.
ReserveFails ==
    /\ cpc = "read" /\ ~freed
    /\ cpc' = IF Taken = <<>> THEN "drain" ELSE "crashed"
    /\ UNCHANGED <<rings, semaphores, object, call, space, waits, history>>

Drained ==
    /\ cpc = "drain" /\ ~freed /\ buffSize = <<>>
    /\ cpc' = "post"
    /\ UNCHANGED <<rings, semaphores, object, call, space, waits, history>>

CycleEnds ==
    /\ cpc' = "none"
    /\ cycle' = IF cycle = "began" THEN "done" ELSE cycle
    /\ UNCHANGED <<rings, object, call, space, timeouts, answered, history>>

\* Nobody asks for a cycle, or there are no semaphores.
Unasked == cpc = "post" /\ needpost = 0 /\ CycleEnds /\ UNCHANGED semaphores

\* Mutant: the token is looked at and not taken.
AskedUntaken ==
    /\ cpc = "post" /\ cpc' = "answer"
    /\ needpost > 0 /\ UNCHANGED needpost
    /\ UNCHANGED <<rings, cleanup, object, call, space, waits, history>>

Asked ==
    /\ cpc = "post" /\ cpc' = "answer"
    /\ needpost > 0 /\ needpost' = needpost - 1
    /\ UNCHANGED <<rings, cleanup, object, call, space, waits, history>>

Answer == cpc = "answer" /\ CycleEnds /\ cleanup' = cleanup + 1 /\ UNCHANGED needpost

ProcessStep ==
    \/ CycleBegins \/ GetBuffer \/ Freed
    \/ ReadSize \/ ReadMessage \/ ReserveFails \/ Drained
    \/ Unasked \/ Asked \/ Answer

Next == cpc # "crashed" /\ (AppStep \/ ProcessStep)

Spec == Init /\ [][Next]_jackVars

-----------------------------------------------------------------------------
(***************************************************************************)
(* Properties.                                                             *)
(***************************************************************************)
Bytes(m) == [i \in 1 .. sizes[m] |-> m]

\* The messages that JACK was given, and those that left the rings to no use.
Given == {out[i][1] : i \in DOMAIN out}
Gone == Given \cup lost

\* The bytes of the message are in the ring, next to each other, and nowhere else in it.
WholeInRing(m) ==
    \E k \in 0 .. Len(buffMessage) - sizes[m] :
        \A i \in DOMAIN buffMessage : buffMessage[i] = m <=> i \in k + 1 .. k + sizes[m]

\* While the rings have had room, what JACK is given are the messages, whole, in
\* the order of sendMessage and none twice, and what is still in the rings
\* follows them, each message whole and in its order: the bytes and the sizes,
\* which travel apart, stay together, over closings, failed connections and
\* openings, and no message is lost but with the rings or the port.
WholeInOrder ==
    overrun = {} =>
        /\ \A i \in DOMAIN out : out[i] # <<>> /\ out[i][1] \in DOMAIN sizes /\ out[i] = Bytes(out[i][1])
        /\ \A i, j \in DOMAIN out : i < j => out[i][1] < out[j][1]
        /\ Given \cap lost = {}
        /\ \A m \in DOMAIN sizes : IF m \in Gone THEN m \notin ToSet(buffMessage) ELSE WholeInRing(m)
        /\ \A i, j \in DOMAIN buffMessage : i < j => buffMessage[i] <= buffMessage[j]
        /\ \A m \in Gone, i \in DOMAIN buffMessage : m < buffMessage[i]

\* closePort is answered once for each time it asked: a token is left over for
\* each wait that timed out, and answers a later wait too soon, and no other.
TokensMatch ==
    HaveSemaphore =>
        needpost + cleanup + (IF cpc = "answer" THEN 1 ELSE 0)
            = timeouts + (IF apc = "wait" THEN 1 ELSE 0)

\* A cycle that JACK both begins and ends while closePort waits leaves nothing
\* in the rings, so that no message sent to the port is kept for its next opening,
\* also when the bytes of messages did not fit.  When a size did not, the ring of
\* sizes is empty all the same, and bytes may stay in the other.
CycleFlushes ==
    cycle = "done" => buffSize = <<>> /\ ("size" \notin overrun => buffMessage = <<>>)

=============================================================================
