---------------------------- MODULE SndioDevice -----------------------------
(***************************************************************************)
(* Opening and closing devices: portmidi.c (Pm_Initialize, Pm_OpenInput,   *)
(* Pm_OpenOutput, Pm_Close, Pm_Terminate) on top of pm_sndio/pmsndio.c.    *)
(* The input and the output of a device share one sndio handle, which is   *)
(* closed and opened again whenever a direction is added or dropped, and   *)
(* an input stream has a thread (input_thread) that uses the same handle   *)
(* without any lock.                                                       *)
(*                                                                         *)
(* One application thread makes the calls.  What input_thread does with    *)
(* the bytes it reads is module SndioInput.                                *)
(*                                                                         *)
(* A call of sndio with a handle that is closed, a thread that works on a  *)
(* freed stream and a read of a field that was never assigned are          *)
(* undefined behaviour: the program stops ("crashed"), or goes on with any *)
(* result the call can have.                                               *)
(***************************************************************************)
EXTENDS Integers, FiniteSets

CONSTANTS
    MaxDevices,     \* NDEVS
    Counts,         \* how many devices glob can find, the default one included
    Used,           \* the devices that the application opens
    Streams         \* memory for streams; a freed one is used again

ASSUME MaxDevicesAssumption == MaxDevices \in Nat \ {0}
ASSUME CountsAssumption == Counts \subseteq 1 .. MaxDevices
ASSUME UsedAssumption == Used \subseteq 0 .. MaxDevices - 1
ASSUME StreamsAssumption == Streams \subseteq Nat \ {0}

Device == 0 .. MaxDevices - 1
MIO_IN == "in"
MIO_OUT == "out"
Direction == {MIO_IN, MIO_OUT}

VARIABLES
    mode, hdl, thread,          \* struct mio_dev: thread holds a stream, 0 for NULL
    handles,                    \* sndio: handles that are open, for each device
    found,                      \* pm_descriptor_index / 2, 0 when not initialised
    opened,                     \* pub.opened of the device's two descriptors
    stream,                     \* PmInternal
    cpc, client,                \* the call the application is in, and its locals
    tpc,                        \* where the input_thread of a stream is
    crashed,
    trouble                     \* history: what has gone wrong with a device

devs == <<mode, hdl, thread, handles>>
library == <<found, opened, stream>>
application == <<cpc, client>>
vars == <<devs, library, application, tpc, crashed, trouble>>

NoStream == [status |-> "none", dev |-> 0, dir |-> MIO_IN, set |-> FALSE]
NoCall == [op |-> "none", s |-> 0, d |-> 0, want |-> {}, limit |-> 0]

Init ==
    /\ mode = [d \in Device |-> {}]
    /\ hdl = [d \in Device |-> "null"]
    /\ thread = [d \in Device |-> 0]
    /\ handles = [d \in Device |-> 0]
    /\ found = 0
    /\ opened = [d \in Device |-> {}]
    /\ stream = [s \in Streams |-> NoStream]
    /\ cpc = "idle" /\ client = NoCall
    /\ tpc = [s \in Streams |-> "none"]
    /\ crashed = FALSE
    /\ trouble = [d \in Device |-> {}]

Live(s) == tpc[s] \notin {"none", "exited"}

\* Memory that malloc can return: nobody holds it.
Unused(s) ==
    /\ stream[s].status # "open"
    /\ ~Live(s)
    /\ \A d \in Device : thread[d] # s

Trouble(d, what) == trouble' = [trouble EXCEPT ![d] = @ \cup what]

-----------------------------------------------------------------------------
(***************************************************************************)
(* Calls.  A call that needs set_mode goes through cpc = "close", "zero",  *)
(* "open" and "set" and goes on at "after".                                *)
(***************************************************************************)
Returns == cpc' = "idle" /\ client' = NoCall

SetMode(op, s, d, want, limit) ==
    /\ cpc' = "close"
    /\ client' = [op |-> op, s |-> s, d |-> d, want |-> want, limit |-> limit]

\* Taking the handle away under a thread that reads from it.
Disturbed(d, dir) ==
    IF dir = MIO_OUT /\ MIO_IN \in opened[d] THEN Trouble(d, {"disturbed"}) ELSE UNCHANGED trouble

Initialize ==
    /\ cpc = "idle" /\ found = 0
    /\ found' \in Counts
    /\ Returns
    /\ UNCHANGED <<devs, opened, stream, tpc, crashed, trouble>>

\* The device exists and is not opened yet; any other call changes nothing.
OpenCall(s, d, dir) ==
    /\ cpc = "idle"
    /\ d < found /\ dir \notin opened[d]
    /\ Unused(s)
    /\ tpc' = [tpc EXCEPT ![s] = "none"]
    /\ UNCHANGED <<devs, found, crashed>>

\* sndio_in_open and sndio_out_open find the direction in the mode already:
\* they return before midi->descriptor is assigned.
OpenEarly(s, d, dir) ==
    /\ OpenCall(s, d, dir)
    /\ dir \in mode[d]
    /\ stream' = [stream EXCEPT ![s] = [status |-> "open", dev |-> d, dir |-> dir, set |-> FALSE]]
    /\ opened' = [opened EXCEPT ![d] = @ \cup {dir}]
    /\ Returns
    /\ UNCHANGED trouble

OpenStart(s, d, dir) ==
    /\ OpenCall(s, d, dir)
    /\ dir \notin mode[d]
    /\ stream' = [stream EXCEPT ![s] = [status |-> "open", dev |-> d, dir |-> dir, set |-> FALSE]]
    /\ SetMode("open", s, d, mode[d] \cup {dir}, 0)
    /\ Disturbed(d, dir)
    /\ UNCHANGED opened

\* Only a stream on which a thread works is worth remembering.
Release(s, status) == IF Live(s) THEN [stream[s] EXCEPT !.status = status] ELSE NoStream

Free(s) ==
    /\ stream' = [stream EXCEPT ![s] = Release(s, "freed")]
    /\ opened' = [opened EXCEPT ![stream[s].dev] = @ \ {stream[s].dir}]

CloseCall(s) ==
    /\ cpc = "idle"
    /\ stream[s].status = "open"
    /\ UNCHANGED <<devs, found, tpc>>

\* Mutant: the other direction is closed as well.
CloseStartAll(s) ==
    /\ CloseCall(s)
    /\ LET d == stream[s].dev
           dir == stream[s].dir
       IN  /\ dir \in mode[d]
           /\ SetMode("close", s, d, {}, 0)
           /\ Disturbed(d, dir)
    /\ UNCHANGED <<opened, stream, crashed>>

\* midi->descriptor was assigned, or holds the right pointer by chance.
CloseStart(s) ==
    /\ CloseCall(s)
    /\ LET d == stream[s].dev
           dir == stream[s].dir
       IN  /\ dir \in mode[d]
           /\ SetMode("close", s, d, mode[d] \ {dir}, 0)
           /\ Disturbed(d, dir)
    /\ UNCHANGED <<opened, stream, crashed>>

\* The mode does not hold the direction, or the descriptor points to something
\* that looks so.
CloseSkip(s) ==
    /\ CloseCall(s)
    /\ stream[s].dir \in mode[stream[s].dev] => ~stream[s].set
    /\ Free(s)
    /\ Returns
    /\ UNCHANGED <<crashed, trouble>>

CloseCrash(s) ==
    /\ CloseCall(s)
    /\ ~stream[s].set
    /\ crashed' = TRUE
    /\ UNCHANGED <<opened, stream, application, trouble>>

\* Pm_Terminate: pm_term goes through the devices that glob finds now.
TerminateCall ==
    /\ cpc = "idle" /\ found # 0
    /\ \E n \in Counts :
         /\ cpc' = "term"
         /\ client' = [NoCall EXCEPT !.op = "terminate", !.limit = n]
    /\ UNCHANGED <<devs, library, tpc, crashed, trouble>>

NextDevice == client' = [client EXCEPT !.d = @ + 1]

TerminateSkip ==
    /\ cpc = "term" /\ client.d < client.limit
    /\ mode[client.d] = {}
    /\ NextDevice
    /\ UNCHANGED <<devs, library, cpc, tpc, crashed, trouble>>

TerminateDevice ==
    /\ cpc = "term" /\ client.d < client.limit
    /\ mode[client.d] # {}
    /\ SetMode("terminate", 0, client.d, {}, client.limit)
    /\ UNCHANGED <<devs, library, tpc, crashed, trouble>>

\* The descriptors are freed, the streams that are still open are not.
TerminateReturns ==
    /\ cpc = "term" /\ client.d = client.limit
    /\ found' = 0
    /\ opened' = [d \in Device |-> {}]
    /\ stream' = [s \in Streams |->
                    IF stream[s].status = "open" THEN Release(s, "leaked") ELSE stream[s]]
    /\ trouble' = [d \in Device |->
                     IF mode[d] # {} THEN trouble[d] \cup {"abandoned"} ELSE trouble[d]]
    /\ Returns
    /\ UNCHANGED <<devs, tpc, crashed>>

-----------------------------------------------------------------------------
(***************************************************************************)
(* set_mode.                                                               *)
(***************************************************************************)
ModeClose ==
    /\ cpc = "close"
    /\ IF mode[client.d] # {}
         THEN /\ handles' = [handles EXCEPT ![client.d] = @ - 1]
              /\ hdl' = [hdl EXCEPT ![client.d] = "closed"]
         ELSE UNCHANGED <<handles, hdl>>
    /\ cpc' = "zero"
    /\ UNCHANGED <<mode, thread, library, client, tpc, crashed, trouble>>

\* Mutant: the mode is left as it was.
ModeKept ==
    /\ cpc = "zero"
    /\ cpc' = "open"
    /\ UNCHANGED <<devs, library, client, tpc, crashed, trouble>>

ModeZero ==
    /\ cpc = "zero"
    /\ mode' = [mode EXCEPT ![client.d] = {}]
    /\ cpc' = "open"
    /\ UNCHANGED <<hdl, thread, handles, library, client, tpc, crashed, trouble>>

ModeNotOpened ==
    /\ cpc = "open"
    /\ client.want = {}
    /\ cpc' = "set"
    /\ UNCHANGED <<devs, library, client, tpc, crashed, trouble>>

ModeOpened ==
    /\ cpc = "open"
    /\ client.want # {}
    /\ handles' = [handles EXCEPT ![client.d] = @ + 1]
    /\ hdl' = [hdl EXCEPT ![client.d] = "open"]
    /\ cpc' = "set"
    /\ UNCHANGED <<mode, thread, library, client, tpc, crashed, trouble>>

\* mio_open returns NULL; an open stream of the other direction loses its handle.
ModeOpenFails ==
    /\ cpc = "open"
    /\ client.want # {}
    /\ hdl' = [hdl EXCEPT ![client.d] = "null"]
    /\ IF client.want \cap opened[client.d] # {}
         THEN Trouble(client.d, {"failed"})
         ELSE UNCHANGED trouble
    /\ cpc' = "set"
    /\ UNCHANGED <<mode, thread, handles, library, client, tpc, crashed>>

ModeSet ==
    /\ cpc = "set"
    /\ IF hdl[client.d] # "null"
         THEN mode' = [mode EXCEPT ![client.d] = client.want]
         ELSE UNCHANGED mode
    /\ cpc' = "after"
    /\ UNCHANGED <<hdl, thread, handles, library, client, tpc, crashed, trouble>>

-----------------------------------------------------------------------------
(***************************************************************************)
(* What follows set_mode.                                                  *)
(***************************************************************************)
After(op) == cpc = "after" /\ client.op = op

OpenFails ==
    /\ After("open")
    /\ stream[client.s].dir \notin mode[client.d]
    /\ stream' = [stream EXCEPT ![client.s] = Release(client.s, "freed")]
    /\ Returns
    /\ UNCHANGED <<mode, hdl, thread, handles, found, opened,
                   tpc, crashed, trouble>>

OpenSucceeds(dir) ==
    /\ After("open")
    /\ stream[client.s].dir = dir /\ dir \in mode[client.d]
    /\ stream' = [stream EXCEPT ![client.s].set = TRUE]
    /\ opened' = [opened EXCEPT ![client.d] = @ \cup {dir}]
    /\ Returns
    /\ UNCHANGED <<mode, hdl, handles, found, crashed>>

OutOpened ==
    /\ OpenSucceeds(MIO_OUT)
    /\ UNCHANGED <<thread, tpc, trouble>>

\* The new thread starts with todo = 0 at the test of its loop.
InOpened ==
    /\ OpenSucceeds(MIO_IN)
    /\ thread' = [thread EXCEPT ![client.d] = client.s]
    /\ tpc' = [tpc EXCEPT ![client.s] = "test"]
    /\ trouble' = [trouble EXCEPT ![client.d] = @ \cap {"failed", "abandoned"}]

\* pthread_create fails, and nobody looks.
InOpenedWithoutThread ==
    /\ OpenSucceeds(MIO_IN)
    /\ Trouble(client.d, {"disturbed"})
    /\ UNCHANGED <<thread, tpc>>

OutClosed ==
    /\ After("close") /\ stream[client.s].dir = MIO_OUT
    /\ Free(client.s)
    /\ Returns
    /\ UNCHANGED <<devs, found, tpc, crashed, trouble>>

\* pthread_join returns when the thread has ended; without a thread it returns
\* an error that nobody looks at.
Joined ==
    /\ thread[client.d] # 0 => ~Live(thread[client.d])
    /\ thread' = [thread EXCEPT ![client.d] = 0]
    /\ tpc' = [s \in Streams |-> IF s = thread[client.d] THEN "none" ELSE tpc[s]]
    /\ UNCHANGED <<mode, hdl, handles>>

\* Mutant: nobody waits for the thread.
InClosedUnjoined ==
    /\ After("close") /\ stream[client.s].dir = MIO_IN
    /\ thread' = [thread EXCEPT ![client.d] = 0]
    /\ Free(client.s)
    /\ Returns
    /\ UNCHANGED <<mode, hdl, handles, found, tpc, crashed, trouble>>

InClosed ==
    /\ After("close") /\ stream[client.s].dir = MIO_IN
    /\ Joined
    /\ Free(client.s)
    /\ Returns
    /\ UNCHANGED <<found, crashed, trouble>>

\* Mutant: pm_term does not wait for the thread.
DeviceTerminatedUnjoined ==
    /\ After("terminate")
    /\ thread' = [thread EXCEPT ![client.d] = 0]
    /\ cpc' = "term" /\ NextDevice
    /\ UNCHANGED <<mode, hdl, handles, library, tpc, crashed, trouble>>

DeviceTerminated ==
    /\ After("terminate")
    /\ IF thread[client.d] # 0 THEN Joined ELSE UNCHANGED <<devs, tpc>>
    /\ cpc' = "term" /\ NextDevice
    /\ UNCHANGED <<library, crashed, trouble>>

-----------------------------------------------------------------------------
(***************************************************************************)
(* input_thread of stream s.                                               *)
(***************************************************************************)
Dev(s) == stream[s].dev

ThreadGoesOn(s, pc) ==
    /\ tpc' = [tpc EXCEPT ![s] = pc]
    /\ UNCHANGED <<devs, library, application, crashed, trouble>>

\* while (dev->mode & MIO_IN): at "more" bytes of the last mio_read are left.
TestEnds(s) ==
    /\ tpc[s] \in {"test", "more"} /\ MIO_IN \notin mode[Dev(s)]
    /\ ThreadGoesOn(s, "exited")

\* Mutant: the mode is tested only when no bytes are left.
TestWhenEmpty(s) ==
    \/ tpc[s] = "more" /\ ThreadGoesOn(s, "deliver")
    \/ tpc[s] = "test" /\ MIO_IN \in mode[Dev(s)] /\ ThreadGoesOn(s, "pollfd")

TestGoesOn(s) ==
    /\ tpc[s] \in {"test", "more"} /\ MIO_IN \in mode[Dev(s)]
    /\ ThreadGoesOn(s, IF tpc[s] = "more" THEN "deliver" ELSE "pollfd")

\* The calls that use dev->hdl return something while the handle is not NULL.
Usable(s) == hdl[Dev(s)] # "null"

PollFd(s) ==
    /\ tpc[s] = "pollfd" /\ Usable(s)
    /\ ThreadGoesOn(s, "poll")

\* poll returns within 100 ms, also when the descriptor is closed ...
PollReturns(s) ==
    /\ tpc[s] = "poll"
    /\ ThreadGoesOn(s, "revents")

\* ... or with EINTR ...
PollInterrupted(s) ==
    /\ tpc[s] = "poll"
    /\ ThreadGoesOn(s, "test")

\* ... or with an error that ends the thread.
PollFails(s) ==
    /\ tpc[s] = "poll"
    /\ tpc' = [tpc EXCEPT ![s] = "exited"]
    /\ Trouble(Dev(s), {"disturbed"})
    /\ UNCHANGED <<devs, library, application, crashed>>

Revents(s) ==
    /\ tpc[s] = "revents" /\ Usable(s)
    /\ \E pc \in {"test", "read"} : ThreadGoesOn(s, pc)

MioRead(s) ==
    /\ tpc[s] = "read" /\ Usable(s)
    /\ \E pc \in {"test", "deliver"} : ThreadGoesOn(s, pc)

\* One byte goes through the parser into the stream.
Deliver(s) ==
    /\ tpc[s] = "deliver"
    /\ \E pc \in {"test", "more"} : ThreadGoesOn(s, pc)

\* The handle is closed or NULL, or the stream is freed.
ThreadCrash(s) ==
    /\ \/ tpc[s] \in {"pollfd", "revents", "read"} /\ hdl[Dev(s)] # "open"
       \/ tpc[s] = "deliver" /\ stream[s].status = "freed"
    /\ crashed' = TRUE
    /\ UNCHANGED <<devs, library, application, tpc, trouble>>

-----------------------------------------------------------------------------
ClientCall ==
    \/ Initialize \/ TerminateCall
    \/ \E s \in Streams, d \in Used, dir \in Direction :
          OpenEarly(s, d, dir) \/ OpenStart(s, d, dir)
    \/ \E s \in Streams : CloseStart(s) \/ CloseSkip(s) \/ CloseCrash(s)

ClientStep ==
    \/ TerminateSkip \/ TerminateDevice \/ TerminateReturns \/ DeviceTerminated
    \/ ModeClose \/ ModeZero \/ ModeNotOpened \/ ModeOpened \/ ModeOpenFails \/ ModeSet
    \/ OpenFails \/ OutOpened \/ InOpened \/ InOpenedWithoutThread
    \/ OutClosed \/ InClosed

ThreadStep(s) ==
    \/ TestEnds(s) \/ TestGoesOn(s)
    \/ PollFd(s) \/ PollReturns(s) \/ PollInterrupted(s) \/ PollFails(s)
    \/ Revents(s) \/ MioRead(s) \/ Deliver(s) \/ ThreadCrash(s)

Next ==
    /\ ~crashed
    /\ ClientCall \/ ClientStep \/ \E s \in Streams : ThreadStep(s)

Spec == Init /\ [][Next]_vars

\* A call that has started goes on, and so does every thread: poll has a timeout.
FairSpec ==
    /\ Spec
    /\ WF_vars(~crashed /\ ClientStep)
    /\ \A s \in Streams : WF_vars(~crashed /\ ThreadStep(s))

-----------------------------------------------------------------------------
(***************************************************************************)
(* Properties.                                                             *)
(***************************************************************************)
DevsType ==
    /\ mode \in [Device -> SUBSET Direction]
    /\ hdl \in [Device -> {"null", "open", "closed"}]
    /\ thread \in [Device -> Streams \cup {0}]
    /\ handles \in [Device -> 0 .. 1]

LibraryType ==
    /\ found \in 0 .. MaxDevices
    /\ opened \in [Device -> SUBSET Direction]
    /\ stream \in [Streams -> [status : {"none", "open", "freed", "leaked"},
                               dev : Device, dir : Direction, set : BOOLEAN]]

ApplicationType ==
    /\ cpc \in {"idle", "term", "close", "zero", "open", "set", "after"}
    /\ client \in [op : {"none", "open", "close", "terminate"}, s : Streams \cup {0},
                   d : 0 .. MaxDevices, want : SUBSET Direction, limit : 0 .. MaxDevices]

ThreadsType ==
    /\ tpc \in [Streams -> {"none", "test", "more", "pollfd", "poll", "revents",
                            "read", "deliver", "exited"}]
    /\ crashed \in BOOLEAN
    /\ trouble \in [Device -> SUBSET {"disturbed", "failed", "abandoned"}]

\* Every field of struct mio_dev, of a stream and of the call under way keeps
\* its range.
TypeOK == DevsType /\ LibraryType /\ ApplicationType /\ ThreadsType

Quiet(d, what) == cpc = "idle" /\ trouble[d] \cap what = {}

\* No handle is lost and none is closed twice, whichever opens fail and whatever
\* glob finds: a device has one open handle when its mode is not 0, and it is
\* dev->hdl; otherwise it has none.
HandleOwned ==
    \A d \in Device : cpc = "idle" =>
        /\ handles[d] = IF mode[d] # {} THEN 1 ELSE 0
        /\ mode[d] # {} => hdl[d] = "open"

\* Between calls a device is open for exactly the directions of its streams,
\* unless it could not be opened again for a stream that was there, or was out
\* of pm_term's sight.
ModeMatches ==
    \A d \in Device : Quiet(d, {"failed", "abandoned"}) => mode[d] = opened[d]

\* Nobody frees a stream on which a thread still works, unless the device could
\* not be opened again for it.
JoinedBeforeFree ==
    \A s \in Streams :
        Live(s) /\ stream[s].status = "freed" => "failed" \in trouble[Dev(s)]

\* Between calls an open input stream has a thread, the only one of its device
\* and the one that Pm_Close will join, on an open handle.  What stops it is the
\* trouble a call or the system can make.
InputServed ==
    \A d \in Device : Quiet(d, {"disturbed", "failed", "abandoned"}) =>
        {s \in Streams : Live(s) /\ Dev(s) = d}
          = IF MIO_IN \in opened[d] THEN {thread[d]} ELSE {}

\* Every call returns: the thread that Pm_Close and Pm_Terminate join sees the
\* mode without MIO_IN and ends.
CallsReturn == cpc # "idle" ~> (cpc = "idle" \/ crashed)

(***************************************************************************)
(* Why HandleOwned, ModeMatches and JoinedBeforeFree hold: the inductive   *)
(* invariant.                                                              *)
(***************************************************************************)
Busy(d) == cpc \notin {"idle", "term"} /\ client.d = d
Opening(s) == client.op = "open" /\ client.s = s
Closing(s) == client.op = "close" /\ client.s = s
CallDir == stream[client.s].dir

\* The locals of a call and the stream it works on.
CallInv ==
    /\ cpc = "idle" <=> client.op = "none"
    /\ cpc = "term" => client.op = "terminate"
    /\ cpc \notin {"idle", "term"} => client.d \in Device
    /\ client.op = "terminate" => client.want = {}
    /\ client.op \in {"open", "close"} =>
         /\ client.s \in Streams
         /\ stream[client.s].status = "open"
         /\ stream[client.s].dev = client.d
         /\ cpc # "term"
    /\ client.op = "open" => ~Live(client.s) /\ CallDir \notin opened[client.d]
    /\ cpc \in {"close", "zero"} =>
         /\ client.op = "open" => client.want = mode[client.d] \cup {CallDir}
         /\ client.op = "close" => client.want = mode[client.d] \ {CallDir}

\* A handle is open exactly while the mode says so, except within set_mode.
Switching(d) == Busy(d) /\ cpc \in {"zero", "open", "set"}

HandleOf(d) ==
    IF Switching(d)
      THEN /\ cpc # "zero" => mode[d] = {}
           /\ IF cpc = "set" /\ client.want # {} /\ hdl[d] # "null"
                THEN handles[d] = 1 /\ hdl[d] = "open"
                ELSE handles[d] = 0
      ELSE /\ handles[d] = IF mode[d] # {} THEN 1 ELSE 0
           /\ mode[d] # {} => hdl[d] = "open"

HandleInv == \A d \in Device : HandleOf(d)

\* A direction of a device has one open stream at most.
StreamInv ==
    \A s \in Streams : stream[s].status = "open" =>
        /\ ~Opening(s) => stream[s].dir \in opened[Dev(s)]
        /\ ~Opening(s) /\ ~stream[s].set => trouble[Dev(s)] \cap {"failed", "abandoned"} # {}
        /\ \A t \in Streams :
             /\ stream[t].status = "open"
             /\ Dev(t) = Dev(s) /\ stream[t].dir = stream[s].dir
             => t = s

\* The mode holds MIO_IN for the thread of s, or will when the call is through,
\* or the call is about to end the thread.
Served(s) ==
    \/ MIO_IN \in mode[Dev(s)]
    \/ /\ Busy(Dev(s))
       /\ \/ Closing(s) \/ client.op = "terminate"
          \/ /\ cpc \in {"open", "set"} /\ MIO_IN \in client.want
             /\ cpc = "set" => hdl[Dev(s)] # "null"

\* The thread of an open stream is the one that its device will join.
ThreadOf(s) ==
    /\ stream[s].dir = MIO_IN /\ stream[s].set
    /\ "failed" \notin trouble[Dev(s)] =>
         /\ stream[s].status # "freed"
         /\ stream[s].status = "open" => thread[Dev(s)] = s /\ Served(s)

ThreadInv == \A s \in Streams : Live(s) => ThreadOf(s)

\* What the mode of a device in use becomes when the call is through.
Target(d) ==
    IF client.op = "open" THEN opened[d] \cup {CallDir}
    ELSE IF client.op = "close" THEN opened[d] \ {CallDir}
    ELSE {}

ModeOf(d) ==
    trouble[d] \cap {"failed", "abandoned"} = {} =>
        /\ ~Busy(d) \/ cpc \in {"close", "zero"} =>
             mode[d] = opened[d] \/ (client.op = "terminate" /\ mode[d] = {})
        /\ Busy(d) /\ cpc \in {"open", "set"} => client.want = Target(d)
        /\ Busy(d) /\ cpc = "set" /\ hdl[d] = "null" => client.want \cap opened[d] = {}
        /\ Busy(d) /\ cpc = "after" =>
             mode[d] = Target(d) \/ (client.op = "open" /\ mode[d] = opened[d])

ModeInv == \A d \in Device : ModeOf(d)

IInv == TypeOK /\ CallInv /\ HandleInv /\ StreamInv /\ ThreadInv /\ ModeInv

(***************************************************************************)
(* Why InputServed holds as well.                                          *)
(***************************************************************************)
\* A call for the output of a device takes the handle from its input.
OutDisturbs ==
    /\ client.op \in {"open", "close"} /\ CallDir = MIO_OUT
    /\ MIO_IN \in opened[client.d]
    => "disturbed" \in trouble[client.d]

\* A thread outlives the library's stream only when pm_term cannot end it.
Remembered(s) ==
    /\ stream[s].status # "none"
    /\ stream[s].status = "leaked" => trouble[Dev(s)] \cap {"failed", "abandoned"} # {}

LiveInv == \A s \in Streams : Live(s) => Remembered(s)

\* The call under way ends the input of the device.
Ends(d) ==
    \/ client.op = "terminate"
    \/ client.op = "close" /\ client.d = d /\ CallDir = MIO_IN

Attended(d) ==
    trouble[d] = {} /\ MIO_IN \in opened[d] /\ ~Ends(d) =>
        thread[d] \in Streams /\ Live(thread[d]) /\ Dev(thread[d]) = d

ServiceInv == OutDisturbs /\ LiveInv /\ \A d \in Device : Attended(d)
=============================================================================
