------------------------------ MODULE PortTime ------------------------------
(***************************************************************************)
(* The millisecond timer of PortMidi for FreeBSD (porttime/ptfreebsd.c):   *)
(* Pt_Start starts a thread that calls the application back at multiples   *)
(* of a resolution, Pt_Stop ends it.  Nothing is locked: the thread goes   *)
(* on as long as the static pt_callback_proc_id is the number it was       *)
(* started with, Pt_Stop increments that number and joins the thread.      *)
(*                                                                         *)
(* Time is kept as distances.  lead[t] is mytime * resolution less the     *)
(* whole milliseconds since time_offset; wait[t] is what is left of its    *)
(* select.  A tick of the clock, at each whole millisecond, lowers both.   *)
(* Pt_Time divides a difference of nanoseconds, which is negative when the *)
(* second has wrapped: it then rounds up, and the delay is 1 ms less.      *)
(*                                                                         *)
(* One application thread calls Pt_Start and Pt_Stop.  A callback may call *)
(* Pt_Stop, once, which makes the timer thread join itself.                *)
(***************************************************************************)
EXTENDS Integers

CONSTANTS
    Threads,        \* names for timer threads; one is used again when it is over
    Resolution,     \* ms between callbacks
    SelectLimit,    \* select takes less than this: tv_usec must be below 1000000
    Lag,            \* bound: ms that a thread can be late
    MaxLead,        \* bound: ms that a thread can be early, when the base is set anew
    MaxStops,       \* bound on pt_callback_proc_id
    CallbackStops,  \* whether callbacks call Pt_Stop
    Overlap         \* whether such a Pt_Stop and a Pt_Start may be on at a time

ASSUME ThreadsAssumption == Threads \subseteq Nat \ {0}
ASSUME ResolutionAssumption == Resolution \in Nat \ {0} /\ SelectLimit \in Nat
ASSUME BoundsAssumption ==
    Lag \in Nat \ {0} /\ MaxStops \in Nat /\ MaxLead \in Nat /\ MaxLead > 2 * Resolution
ASSUME CallbackAssumption == CallbackStops \in BOOLEAN /\ Overlap \in BOOLEAN

App == 0
Caller == Threads \cup {App}

VARIABLES
    started,            \* time_started_flag
    created,            \* pt_thread_created
    pid,                \* pt_thread_pid: a thread, 0 for none
    procId,             \* pt_callback_proc_id
    tpc, id, lead, wait,    \* Pt_CallbackProc of each thread
    cut,                \* history: threads whose last select did not take its time
    struck,             \* history: threads of which a signal has ended a select
    cpc, reg,           \* Pt_Start or Pt_Stop of each caller, and its register
    quit,               \* history: threads whose callback has called Pt_Stop
    stopped             \* history: the application's last call was Pt_Stop, and it is over

statics == <<started, created, pid, procId>>
signals == <<cut, struck>>
thread == <<tpc, id, lead, wait, signals>>
calls == <<cpc, reg, quit, stopped>>
vars == <<statics, thread, calls>>

Init ==
    /\ started = FALSE /\ created = FALSE /\ pid = 0 /\ procId = 0
    /\ tpc = [t \in Threads |-> "none"]
    /\ id = [t \in Threads |-> 0]
    /\ lead = [t \in Threads |-> 0]
    /\ wait = [t \in Threads |-> 0]
    /\ cut = {} /\ struck = {}
    /\ cpc = [c \in Caller |-> "idle"]
    /\ reg = [c \in Caller |-> 0]
    /\ quit = {} /\ stopped = FALSE

Alive(t) == tpc[t] # "none"

\* The thread will test its number again and go on.
Current(t) == Alive(t) /\ id[t] = procId

-----------------------------------------------------------------------------
(***************************************************************************)
(* The timer thread.                                                       *)
(***************************************************************************)
AtMost(bound, n) == IF n > bound THEN bound ELSE n

\* Mutant: a delay that is over is not raised to 0.
DelayUnclamped(t, up) == lead[t] - up

\* up is 1 where Pt_Time rounds up.
Delay(t, up) == IF lead[t] < up THEN 0 ELSE lead[t] - up

\* select returns at once, with EINVAL, for a timeout it does not take.
Refused(delay) == delay >= SelectLimit

\* Mutant: the delay is cut short.
SleepLess(delay) == IF Refused(delay) \/ delay = 0 THEN 0 ELSE delay - 1

Sleep(delay) == IF Refused(delay) THEN 0 ELSE delay

\* The test of the loop, the delay with mytime++, and the start of select.
LoopTest(t) ==
    /\ tpc[t] = "loop" /\ id[t] = procId
    /\ tpc' = [tpc EXCEPT ![t] = "select"]
    /\ \E up \in {0, 1} :
         /\ wait' = [wait EXCEPT ![t] = Sleep(Delay(t, up))]
         /\ cut' = IF Refused(Delay(t, up)) THEN cut \cup {t} ELSE cut \ {t}
    /\ lead' = [lead EXCEPT ![t] = AtMost(MaxLead, @ + Resolution)]
    /\ UNCHANGED <<statics, id, struck, calls>>

LoopEnds(t) ==
    /\ tpc[t] = "loop" /\ id[t] # procId
    /\ tpc' = [tpc EXCEPT ![t] = "none"]
    /\ lead' = [lead EXCEPT ![t] = 0]
    /\ quit' = quit \ {t} /\ cut' = cut \ {t} /\ struck' = struck \ {t}
    /\ UNCHANGED <<statics, id, wait, cpc, reg, stopped>>

CallBack(t) ==
    /\ tpc[t] = "select" /\ wait[t] = 0
    /\ tpc' = [tpc EXCEPT ![t] = "callback"]
    /\ UNCHANGED <<statics, id, lead, wait, signals, calls>>

\* A signal ends select, with EINTR, and nobody looks at its result.
Interrupted(t) ==
    /\ tpc[t] = "select" /\ wait[t] > 0
    /\ tpc' = [tpc EXCEPT ![t] = "callback"]
    /\ wait' = [wait EXCEPT ![t] = 0]
    /\ cut' = cut \cup {t} /\ struck' = struck \cup {t}
    /\ UNCHANGED <<statics, id, lead, calls>>

CallbackReturns(t) ==
    /\ tpc[t] = "callback" /\ cpc[t] = "idle"
    /\ tpc' = [tpc EXCEPT ![t] = "loop"]
    /\ UNCHANGED <<statics, id, lead, wait, signals, calls>>

\* A millisecond passes.  Bound: no thread is later than Lag.
Tick ==
    /\ \E t \in Threads : Alive(t)
    /\ \A t \in Threads : Alive(t) => lead[t] > -Lag
    /\ lead' = [t \in Threads |-> IF Alive(t) THEN lead[t] - 1 ELSE lead[t]]
    /\ wait' = [t \in Threads |-> IF wait[t] > 0 THEN wait[t] - 1 ELSE 0]
    /\ UNCHANGED <<statics, tpc, id, signals, calls>>

-----------------------------------------------------------------------------
(***************************************************************************)
(* Pt_Start.                                                               *)
(***************************************************************************)
InPtStop(c) == cpc[c] \in {"store", "test", "join", "clear"}

StartCall ==
    /\ cpc[App] = "idle"
    /\ stopped' = FALSE
    /\ Overlap \/ \A t \in Threads : ~InPtStop(t)
    /\ UNCHANGED <<procId, wait, signals, reg, quit>>

StartAgain ==
    /\ StartCall
    /\ started
    /\ UNCHANGED <<started, created, pid, tpc, id, lead, cpc>>

\* time_offset is set, and Pt_Time falls back by what the clock had run.  A thread
\* that goes on finds itself as much too early.
Rebased(t) == IF Current(t) THEN lead[t] .. MaxLead ELSE {lead[t]}

SetTimeOffset(started_t) ==
    \E jump \in [Threads -> -Lag .. MaxLead] :
        /\ \A t \in Threads : jump[t] \in Rebased(t)
        /\ lead' = [t \in Threads |-> IF t = started_t THEN Resolution ELSE jump[t]]

\* Mutant: the clock is started again without a look at time_started_flag.
StartClockAnew ==
    /\ StartCall
    /\ SetTimeOffset(0)
    /\ started' = TRUE
    /\ UNCHANGED <<created, pid, tpc, id, cpc>>

\* Without a callback the clock runs and no thread.
StartClock ==
    /\ StartCall
    /\ ~started
    /\ SetTimeOffset(0)
    /\ started' = TRUE
    /\ UNCHANGED <<created, pid, tpc, id, cpc>>

\* malloc or pthread_create fails; the latter leaves no thread in pid.
StartFails ==
    /\ StartCall
    /\ ~started
    /\ SetTimeOffset(0)
    /\ pid' \in {pid, 0}
    /\ UNCHANGED <<started, created, tpc, id, cpc>>

\* A thread that is over and that nobody is about to join.
Unused(t) == ~Alive(t) /\ \A c \in Caller : ~(cpc[c] = "join" /\ reg[c] = t)

StartThread(t) ==
    /\ StartCall
    /\ ~started
    /\ Unused(t)
    /\ tpc' = [tpc EXCEPT ![t] = "loop"]
    /\ id' = [id EXCEPT ![t] = procId]
    /\ SetTimeOffset(t)
    /\ pid' = t
    /\ cpc' = [cpc EXCEPT ![App] = "created"]
    /\ UNCHANGED <<started, created>>

SetCreated ==
    /\ cpc[App] = "created"
    /\ created' = TRUE
    /\ cpc' = [cpc EXCEPT ![App] = "flag"]
    /\ UNCHANGED <<started, pid, procId, thread, reg, quit, stopped>>

SetStarted ==
    /\ cpc[App] = "flag"
    /\ started' = TRUE
    /\ cpc' = [cpc EXCEPT ![App] = "idle"]
    /\ UNCHANGED <<created, pid, procId, thread, reg, quit, stopped>>

-----------------------------------------------------------------------------
(***************************************************************************)
(* Pt_Stop, by the application or by a callback.  The increment is a load  *)
(* and a store.                                                            *)
(***************************************************************************)
StopCall(c) ==
    /\ cpc[c] = "idle" /\ procId < MaxStops
    /\ cpc' = [cpc EXCEPT ![c] = "store"]
    /\ reg' = [reg EXCEPT ![c] = procId]
    /\ UNCHANGED <<statics, thread, stopped>>

AppStops == StopCall(App) /\ UNCHANGED quit

CallbackCallsStop(t) ==
    /\ CallbackStops
    /\ tpc[t] = "callback" /\ t \notin quit
    /\ Overlap \/ cpc[App] \notin {"created", "flag"}
    /\ StopCall(t)
    /\ quit' = quit \cup {t}

\* Mutant: the number stays.
StopStoreLost(c) ==
    /\ cpc[c] = "store"
    /\ cpc' = [cpc EXCEPT ![c] = "test"]
    /\ UNCHANGED <<started, created, pid, procId, thread, reg, quit, stopped>>

StopStore(c) ==
    /\ cpc[c] = "store"
    /\ procId' = reg[c] + 1
    /\ cpc' = [cpc EXCEPT ![c] = "test"]
    /\ UNCHANGED <<started, created, pid, thread, reg, quit, stopped>>

\* Mutant: nobody waits for the thread.
StopTestUnjoined(c) ==
    /\ cpc[c] = "test"
    /\ cpc' = [cpc EXCEPT ![c] = "clear"]
    /\ reg' = [reg EXCEPT ![c] = 0]
    /\ UNCHANGED <<statics, thread, quit, stopped>>

StopTest(c) ==
    /\ cpc[c] = "test"
    /\ cpc' = [cpc EXCEPT ![c] = IF created THEN "join" ELSE "clear"]
    /\ reg' = [reg EXCEPT ![c] = IF created THEN pid ELSE 0]
    /\ UNCHANGED <<statics, thread, quit, stopped>>

\* pthread_join comes back when the thread is over, at once when it is the
\* caller or no thread, and, because that is not defined, at any time when somebody
\* else joins it too.
Joinable(c) ==
    \/ reg[c] \in {0, c}
    \/ reg[c] \in Threads /\ ~Alive(reg[c])
    \/ \E d \in Caller \ {c} : cpc[d] = "join" /\ reg[d] = reg[c]

StopJoin(c) ==
    /\ cpc[c] = "join" /\ Joinable(c)
    /\ created' = FALSE
    /\ cpc' = [cpc EXCEPT ![c] = "clear"]
    /\ reg' = [reg EXCEPT ![c] = 0]
    /\ UNCHANGED <<started, pid, procId, thread, quit, stopped>>

StopReturn(c) ==
    /\ cpc[c] = "clear"
    /\ started' = FALSE
    /\ cpc' = [cpc EXCEPT ![c] = "idle"]
    /\ stopped' = (stopped \/ c = App)
    /\ UNCHANGED <<created, pid, procId, thread, reg, quit>>

-----------------------------------------------------------------------------
StartStep == SetCreated \/ SetStarted
StopStep(c) == StopStore(c) \/ StopTest(c) \/ StopJoin(c) \/ StopReturn(c)
ThreadStep(t) == LoopTest(t) \/ LoopEnds(t) \/ CallBack(t) \/ CallbackReturns(t)

Next ==
    \/ StartAgain \/ StartClock \/ StartFails
    \/ \E t \in Threads : StartThread(t)
    \/ StartStep
    \/ AppStops
    \/ \E t \in Threads : CallbackCallsStop(t)
    \/ \E c \in Caller : StopStep(c)
    \/ \E t \in Threads : ThreadStep(t) \/ Interrupted(t)
    \/ Tick

Spec == Init /\ [][Next]_vars

(***************************************************************************)
(* Calls and threads that are running go on, and so does the clock.  The   *)
(* application need not call, no signal need come, and callbacks return.   *)
(***************************************************************************)
FairSpec ==
    /\ Spec
    /\ WF_vars(StartStep) /\ WF_vars(Tick)
    /\ \A c \in Caller : WF_vars(StopStep(c))
    /\ \A t \in Threads : WF_vars(ThreadStep(t))

-----------------------------------------------------------------------------
(***************************************************************************)
(* Properties.                                                             *)
(***************************************************************************)
\* The type of the state.
TypeOK ==
    /\ started \in BOOLEAN /\ created \in BOOLEAN /\ stopped \in BOOLEAN
    /\ pid \in Threads \cup {0} /\ procId \in 0 .. MaxStops
    /\ tpc \in [Threads -> {"none", "loop", "select", "callback"}]
    /\ id \in [Threads -> 0 .. MaxStops]
    /\ lead \in [Threads -> -Lag .. MaxLead]
    /\ wait \in [Threads -> 0 .. MaxLead]
    /\ cpc \in [Caller -> {"idle", "created", "flag", "store", "test", "join", "clear"}]
    /\ reg \in [Caller -> Nat]
    /\ quit \subseteq Threads /\ cut \subseteq Threads /\ struck \subseteq Threads

(***************************************************************************)
(* They are claims about applications that do not start while a callback   *)
(* is in Pt_Stop: such a Pt_Stop would join the new thread, or clear       *)
(* time_started_flag for it.                                               *)
(***************************************************************************)
\* Pt_Stop has returned to the application and Pt_Start was not called since: no
\* timer thread calls back any more, but for one whose callback has
\* itself called Pt_Stop and has not returned yet.
StoppedMeansStopped ==
    stopped /\ ~Overlap => \A t \in Threads : Alive(t) => t \in quit /\ ~Current(t)

\* At most one thread goes on calling back, however starts, stops, stops within
\* callbacks and failing starts are interleaved.
OneTimer == ~Overlap => \A t, u \in Threads : Current(t) /\ Current(u) => t = u

\* For resolutions that select takes: the k-th callback of a running timer does not
\* come more than 1 ms before k * resolution, unless its select was cut short.  The
\* callbacks that signals have hastened do not hasten those that follow, and select
\* refuses no delay of a timer that no signal has hastened.
NotEarly ==
    ~Overlap /\ Resolution + 1 < SelectLimit =>
        /\ cut \subseteq struck
        /\ \A t \in Threads \ cut : tpc[t] = "callback" /\ Current(t) => lead[t] <= Resolution + 1

\* time_offset is not set anew under a thread that goes on computing delays from it.
TimeBaseSteady ==
    [][~Overlap /\ ((\E t \in Threads : StartThread(t)) \/ StartClock \/ StartFails)
        => \A t \in Threads : ~Current(t)]_vars

\* Every call comes back, also a Pt_Stop that a callback makes while the
\* application waits for that callback's thread.
StopReturns == ~Overlap => \A c \in Caller : cpc[c] # "idle" ~> cpc[c] = "idle"
=============================================================================
