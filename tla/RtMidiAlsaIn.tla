---------------------------- MODULE RtMidiAlsaIn ----------------------------
(***************************************************************************)
(* MIDI input of RtMidi over the ALSA sequencer, as chuck's port patches   *)
(* it: the thread alsaMidiHandler, which joins the chunks of a system      *)
(* exclusive message and hands messages to a callback or to the queue, and *)
(* one application thread that opens, closes and deletes the MidiInAlsa.   *)
(*                                                                         *)
(* The sequencer and the pipe that wakes the thread are external: a FIFO   *)
(* of events that reports an overrun and then forgets what it held, and a  *)
(* count of the bytes to be read.  An event has its number in what the     *)
(* source has sent, a chunk also that of the first chunk, and its place.   *)
(*                                                                         *)
(* Of what comes after a failed malloc in the thread, a second thread      *)
(* beside one that has not ended yet is left out.                          *)
(***************************************************************************)
EXTENDS RtMidiQueue

CONSTANTS
    Realtime,       \* kinds of one-byte events that may come inside a message
    Chunks,         \* the number of chunks of a system exclusive message
    SeqLimit,       \* events that the sequencer holds for the client
    MaxEvents,      \* bound on the events that are sent
    MaxOpens,       \* bound on the threads that are started
    IgnoreSets,     \* the types that calls of ignoreTypes name
    MaxIgnores      \* bound on these calls

ASSUME AlsaAssumption ==
    /\ Realtime \subseteq {"time", "sense"} /\ Chunks \in Nat \ {0}
    /\ {SeqLimit, MaxEvents, MaxOpens, MaxIgnores} \subseteq Nat
    /\ IgnoreSets \subseteq SUBSET {"sysex", "time", "sense"}

Events == [id : Nat, kind : {"note", "sysex", "time", "sense"}, of : Nat, part : Nat]

IgnoreBits == <<"sysex", "time", "sense">>

VARIABLES
    doInput, usingCallback, ignoreFlags,    \* of RtMidiInData
    connected, vport, subscribed,           \* of MidiInAlsa and AlsaMidiData
    thread, trigger, deleted,
    tpc, continueSysex, message,            \* alsaMidiHandler
    apc, destroying, want,                  \* the application's call
    pending, overrun,                       \* the sequencer's FIFO for the client
    sent, of, part,                         \* the source
    opens, ignores,
    delivered,      \* history: messages that the thread handed over, in their order
    broken,         \* history: what lost a part or was joined with something else
    starved         \* history: the thread has met a failed malloc

port == <<connected, vport, subscribed>>
object == <<doInput, usingCallback, ignoreFlags, port, thread, trigger, deleted>>
handler == <<tpc, continueSysex, message>>
call == <<apc, destroying, want, opens, ignores>>
source == <<sent, of, part>>
alsa == <<pending, overrun>>
history == <<delivered, broken, starved>>
alsaVars == <<queueVars, object, handler, call, source, alsa, history>>

AlsaInit ==
    /\ QueueInit
    /\ doInput = FALSE /\ usingCallback = FALSE
    /\ ignoreFlags = {"sysex", "time", "sense"}
    /\ connected = FALSE /\ vport = FALSE /\ subscribed = FALSE
    /\ thread = "dummy" /\ trigger = 0 /\ deleted = FALSE
    /\ tpc = "none" /\ continueSysex = FALSE /\ message = NoMessage
    /\ apc = "idle" /\ destroying = FALSE /\ want = {}
    /\ pending = <<>> /\ overrun = FALSE
    /\ sent = 0 /\ of = 0 /\ part = 0
    /\ opens = 0 /\ ignores = 0
    /\ delivered = <<>> /\ broken = {} /\ starved = FALSE

-----------------------------------------------------------------------------
(***************************************************************************)
(* The source.  While its port is subscribed by openPort its events reach  *)
(* the client; at other times they may, over a connection that somebody    *)
(* else has made, once there is a port.                                    *)
(***************************************************************************)
Lost ==
    \/ ~subscribed /\ UNCHANGED alsa
    \/ vport /\ (overrun \/ Len(pending) = SeqLimit) /\ overrun' = TRUE /\ UNCHANGED pending

Send(e) ==
    /\ ~deleted /\ sent < MaxEvents /\ sent' = sent + 1
    /\ \/ Lost /\ broken' = broken \cup {e.of}
       \/ /\ vport /\ ~overrun /\ Len(pending) < SeqLimit
          /\ pending' = Append(pending, e) /\ UNCHANGED <<overrun, broken>>
    /\ UNCHANGED <<queueVars, object, handler, call, delivered, starved>>

Event(k, o, p) == [id |-> sent + 1, kind |-> k, of |-> o, part |-> p]

SendRealtime == \E k \in Realtime : Send(Event(k, sent + 1, 1)) /\ UNCHANGED <<of, part>>

SendNote == part = 0 /\ Send(Event("note", sent + 1, 1)) /\ UNCHANGED <<of, part>>

SendChunk ==
    /\ of' = IF part = 0 THEN sent + 1 ELSE of
    /\ part' = (part + 1) % Chunks
    /\ Send(Event("sysex", of', part + 1))

-----------------------------------------------------------------------------
(***************************************************************************)
(* alsaMidiHandler.                                                        *)
(***************************************************************************)
\* A start whose allocations fail leaves doInput FALSE and ends.
Start ==
    /\ tpc = "start" /\ tpc' = "loop"
    /\ UNCHANGED <<queueVars, object, continueSysex, message, call, source, alsa, history>>

StartFails ==
    /\ tpc = "start" /\ tpc' = "failed"
    /\ doInput' = FALSE /\ starved' = TRUE
    /\ UNCHANGED <<queueVars, usingCallback, ignoreFlags, port, thread, trigger,
                   deleted, continueSysex, message, call, source, alsa, delivered, broken>>

Failed ==
    /\ tpc = "failed" /\ tpc' = "none"
    /\ UNCHANGED <<queueVars, object, continueSysex, message, call, source, alsa, history>>

LoopTest ==
    /\ tpc = "loop" /\ tpc' = IF doInput THEN "input" ELSE "exit"
    /\ UNCHANGED <<queueVars, object, continueSysex, message, call, source, alsa, history>>

Pending == pending # <<>> \/ overrun

\* poll returns for an event or a byte in the pipe, and one byte is read.
NothingPending ==
    /\ tpc = "input" /\ ~Pending /\ tpc' = "poll"
    /\ UNCHANGED <<queueVars, object, continueSysex, message, call, source, alsa, history>>

Poll ==
    /\ tpc = "poll" /\ (Pending \/ trigger > 0)
    /\ tpc' = "loop"
    /\ trigger' = IF trigger > 0 THEN trigger - 1 ELSE 0
    /\ UNCHANGED <<queueVars, doInput, usingCallback, ignoreFlags, port, thread,
                   deleted, continueSysex, message, call, source, alsa, history>>

\* The answer -ENOSPC: the sequencer has thrown away what it held.
Overrun ==
    /\ tpc = "input" /\ overrun
    /\ tpc' = "loop"
    /\ overrun' = FALSE /\ pending' = <<>>
    /\ broken' = broken \cup {pending[i].of : i \in DOMAIN pending}
    /\ UNCHANGED <<queueVars, object, continueSysex, message, call, source, delivered, starved>>

Origins(m) == {m[i].of : i \in DOMAIN m}

\* Mutant: the message is not cleared.
BegunUncleared == message

\* The message as the switch finds it.
Begun == IF continueSysex THEN message ELSE NoMessage

\* Mutant: a chunk is not appended to those before.
JoinedAssigned(e) == <<e>>

Joined(e) == Begun \o <<e>>

Unfinished(e) == e.kind = "sysex" /\ e.part # Chunks

InputEvent ==
    /\ tpc = "input" /\ pending # <<>> /\ ~overrun
    /\ pending' = Tail(pending)
    /\ UNCHANGED <<queueVars, call, source, overrun, delivered>>

Decode ==
    LET e == Head(pending) IN
    /\ InputEvent /\ e.kind \notin ignoreFlags
    /\ message' = Joined(e)
    /\ continueSysex' = Unfinished(e)
    /\ tpc' = IF continueSysex' THEN "loop" ELSE "deliver"
    /\ broken' = IF Origins(Begun) \subseteq {e.of} THEN broken
                 ELSE broken \cup Origins(Begun) \cup {e.of}
    /\ UNCHANGED <<object, starved>>

Ignore ==
    /\ InputEvent /\ Head(pending).kind \in ignoreFlags
    /\ message' = Begun /\ UNCHANGED continueSysex
    /\ tpc' = "loop"
    /\ broken' = broken \cup {Head(pending).of}
    /\ UNCHANGED <<object, starved>>

\* A chunk for which the buffer cannot be made larger.
ResizeFails ==
    /\ InputEvent /\ Head(pending).kind = "sysex" /\ "sysex" \notin ignoreFlags
    /\ doInput' = FALSE /\ starved' = TRUE
    /\ message' = Begun /\ UNCHANGED continueSysex
    /\ tpc' = "loop"
    /\ broken' = broken \cup {Head(pending).of}
    /\ UNCHANGED <<usingCallback, ignoreFlags, port, thread, trigger, deleted>>

Deliver ==
    /\ tpc = "deliver"
    /\ delivered' = Append(delivered, message)
    /\ \/ usingCallback /\ tpc' = "callback" /\ UNCHANGED queueVars
       \/ ~usingCallback /\ tpc' = "push" /\ PushSize(message)
    /\ UNCHANGED <<object, continueSysex, message, call, source, alsa, broken, starved>>

CallbackReturns ==
    /\ tpc = "callback" /\ tpc' = "loop"
    /\ UNCHANGED <<queueVars, object, continueSysex, message, call, source, alsa, history>>

Push ==
    /\ tpc = "push"
    /\ \/ PushStep /\ UNCHANGED tpc
       \/ ppc = "idle" /\ tpc' = "loop" /\ UNCHANGED queueVars
    /\ UNCHANGED <<object, continueSysex, message, call, source, alsa, history>>

Exit ==
    /\ tpc = "exit" /\ tpc' = "none"
    /\ thread' = "dummy"
    /\ continueSysex' = FALSE /\ message' = NoMessage
    /\ broken' = broken \cup Origins(Begun)
    /\ UNCHANGED <<queueVars, doInput, usingCallback, ignoreFlags, port, trigger,
                   deleted, call, source, alsa, delivered, starved>>

HandlerStep ==
    \/ Start \/ StartFails \/ Failed \/ LoopTest
    \/ NothingPending \/ Poll \/ Overrun
    \/ Decode \/ Ignore \/ ResizeFails
    \/ Deliver \/ CallbackReturns \/ Push \/ Exit

-----------------------------------------------------------------------------
(***************************************************************************)
(* The application.  An opening that fails changes nothing, but for the    *)
(* one that is an action here.                                             *)
(***************************************************************************)
Idle == apc = "idle" /\ qpc = "idle" /\ ~deleted

StartThread ==
    \/ /\ ~doInput /\ tpc = "none" /\ opens < MaxOpens
       /\ opens' = opens + 1
       /\ doInput' = TRUE /\ thread' = "handler" /\ tpc' = "start"
    \/ doInput /\ UNCHANGED <<opens, doInput, thread, tpc>>

OpenPort ==
    /\ Idle /\ ~connected
    /\ StartThread
    /\ vport' = TRUE /\ subscribed' = TRUE /\ connected' = TRUE
    /\ UNCHANGED <<queueVars, usingCallback, ignoreFlags, trigger, deleted, continueSysex, message,
                   apc, destroying, want, ignores, source, alsa, history>>

\* It does not set connected_.
OpenVirtualPort ==
    /\ Idle
    /\ StartThread
    /\ vport' = TRUE
    /\ UNCHANGED <<queueVars, usingCallback, ignoreFlags, connected, subscribed, trigger, deleted,
                   continueSysex, message, apc, destroying, want, ignores, source, alsa,
                   history>>

\* pthread_create fails: a subscription is given up and connected_ stays.
OpenVirtualPortFails ==
    /\ Idle /\ ~doInput /\ tpc = "none"
    /\ vport' = TRUE /\ subscribed' = FALSE
    /\ UNCHANGED <<queueVars, doInput, usingCallback, ignoreFlags, connected, thread, trigger,
                   deleted, handler, call, source, alsa, history>>

\* closePort, and the destructor, which begins with it.  What the destructor
\* does next when doInput is still set repeats closePort and never applies.
ClosePort ==
    /\ Idle
    /\ destroying' \in BOOLEAN
    /\ connected' = FALSE /\ subscribed' = (subscribed /\ ~connected)
    /\ doInput' = FALSE
    /\ apc' = IF doInput THEN "wake" ELSE "closed"
    /\ UNCHANGED <<queueVars, usingCallback, ignoreFlags, vport, thread, trigger, deleted, handler,
                   want, opens, ignores, source, alsa, history>>

\* Mutant: nothing is written to the pipe.
WakeHandlerUnwritten ==
    /\ apc = "wake" /\ apc' = "test"
    /\ UNCHANGED <<queueVars, object, handler, destroying, want, opens, ignores, source, alsa,
                   history>>

WakeHandler ==
    /\ apc = "wake" /\ apc' = "test"
    /\ trigger' = trigger + 1
    /\ UNCHANGED <<queueVars, doInput, usingCallback, ignoreFlags, port, thread,
                   deleted, handler, destroying, want, opens, ignores, source, alsa, history>>

JoinTest ==
    /\ apc = "test" /\ apc' = IF thread = "dummy" THEN "closed" ELSE "join"
    /\ UNCHANGED <<queueVars, object, handler, destroying, want, opens, ignores, source, alsa,
                   history>>

\* Mutant: the thread is not waited for.
JoinUnwaited ==
    /\ apc = "join" /\ apc' = "closed"
    /\ UNCHANGED <<queueVars, object, handler, destroying, want, opens, ignores, source, alsa,
                   history>>

\* thread is read again: joining the dummy, the caller itself, fails at once.
Join ==
    /\ apc = "join" /\ (thread = "dummy" \/ tpc = "none") /\ apc' = "closed"
    /\ UNCHANGED <<queueVars, object, handler, destroying, want, opens, ignores, source, alsa,
                   history>>

Closed ==
    /\ apc = "closed" /\ apc' = "idle"
    /\ deleted' = destroying /\ destroying' = FALSE
    /\ UNCHANGED <<queueVars, doInput, usingCallback, ignoreFlags, port, thread,
                   trigger, handler, want, opens, ignores, source, alsa, history>>

\* ignoreTypes stores 0 and then adds the flags one by one.
IgnoreTypes ==
    /\ Idle /\ ignores < MaxIgnores /\ ignores' = ignores + 1
    /\ want' \in IgnoreSets
    /\ ignoreFlags' = {} /\ apc' = "ignoring"
    /\ UNCHANGED <<queueVars, doInput, usingCallback, port, thread, trigger,
                   deleted, handler, destroying, opens, source, alsa, history>>

IgnoreFlag ==
    /\ apc = "ignoring"
    /\ \/ \E i \in 1 .. 3 :
            /\ IgnoreBits[i] \in want \ ignoreFlags
            /\ \A j \in 1 .. i - 1 : IgnoreBits[j] \notin want \ ignoreFlags
            /\ ignoreFlags' = ignoreFlags \cup {IgnoreBits[i]}
            /\ UNCHANGED <<apc, want>>
       \/ want = ignoreFlags /\ apc' = "idle" /\ want' = {} /\ UNCHANGED ignoreFlags
    /\ UNCHANGED <<queueVars, doInput, usingCallback, port, thread, trigger,
                   deleted, handler, destroying, opens, ignores, source, alsa, history>>

SetCallback ==
    /\ Idle /\ ~usingCallback /\ usingCallback' = TRUE
    /\ UNCHANGED <<queueVars, doInput, ignoreFlags, port, thread, trigger, deleted,
                   handler, call, source, alsa, history>>

CancelCallback ==
    /\ Idle /\ usingCallback /\ usingCallback' = FALSE
    /\ UNCHANGED <<queueVars, doInput, ignoreFlags, port, thread, trigger, deleted,
                   handler, call, source, alsa, history>>

GetMessage ==
    /\ \/ Idle /\ ~usingCallback /\ PopSize
       \/ PopStep
    /\ UNCHANGED <<object, handler, call, source, alsa, history>>

CloseStep == WakeHandler \/ JoinTest \/ Join \/ Closed

AppStep ==
    \/ OpenPort \/ OpenVirtualPort \/ OpenVirtualPortFails
    \/ ClosePort \/ CloseStep
    \/ IgnoreTypes \/ IgnoreFlag
    \/ SetCallback \/ CancelCallback \/ GetMessage

AlsaNext ==
    \/ SendRealtime \/ SendNote \/ SendChunk
    \/ HandlerStep
    \/ AppStep

\* The kernel runs both threads, callbacks return, closePort goes on.
AlsaFairness == WF_alsaVars(HandlerStep) /\ WF_alsaVars(CloseStep)

AlsaSpec == AlsaInit /\ [][AlsaNext]_alsaVars /\ AlsaFairness

-----------------------------------------------------------------------------
(***************************************************************************)
(* Properties.                                                             *)
(***************************************************************************)
\* "Stop thread to avoid triggering the callback, while the port is intended
\* to be closed": between the return of closePort and the next opening there
\* is no input thread, nor after the object is deleted, though the thread
\* changes the identifier that is joined.  A thread out of memory is excepted.
ClosedMeansQuiet == apc = "idle" /\ ~doInput /\ ~starved => tpc = "none"

Whole(m) ==
    \/ Len(m) = 1 /\ m[1].kind # "sysex"
    \/ Len(m) = Chunks /\ \A i \in DOMAIN m : m[i].kind = "sysex" /\ m[i].of = m[1].of /\ m[i].part = i

\* A message that is handed over is one MIDI message, all of it, as it was
\* sent, though it may come in chunks, with ignored events between them, and
\* the port may be closed and opened: unless a chunk was lost or ignored, or
\* another event was joined to it.
WholeMessages ==
    \A i \in DOMAIN delivered : Origins(delivered[i]) \cap broken = {} => Whole(delivered[i])

\* What is handed over comes in the order of arrival and only once, over
\* closings, overruns and changes between callback and queue.
ArrivalOrder ==
    \A i, j \in DOMAIN delivered : \A k \in DOMAIN delivered[i], l \in DOMAIN delivered[j] :
        i < j \/ (i = j /\ k < l) => delivered[i][k].id < delivered[j][l].id

\* closePort and the destructor come to an end: the handler, be it in poll,
\* in a callback or at work, always learns that it has to stop.
CloseReturns == apc = "wake" ~> apc = "idle"
=============================================================================
