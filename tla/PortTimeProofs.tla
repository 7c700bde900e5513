--------------------------- MODULE PortTimeProofs ---------------------------
(***************************************************************************)
(* The safety of the timer of ptfreebsd.c, for any number of threads, any  *)
(* resolution and any number of stops.                                     *)
(*                                                                         *)
(* The argument.  A Pt_Stop stores a number that is above that of every    *)
(* thread, even if another Pt_Stop has stored in between, because no       *)
(* thread starts before it returns.  So none goes on once it has stored,   *)
(* and time_started_flag is clear only when none goes on.  The thread that *)
(* is in pt_thread_pid is the only one that can be alive without having    *)
(* called Pt_Stop itself, and pt_thread_created is clear before            *)
(* time_started_flag is.                                                   *)
(***************************************************************************)
EXTENDS PortTime, TLAPS

CallerType ==
    \A c \in Caller :
        /\ cpc[c] = "store" => reg[c] < MaxStops
        /\ c # App => cpc[c] \notin {"created", "flag"}

TypeInv == TypeOK /\ CallerType

NoneCurrent == \A t \in Threads : ~Current(t)

Numbers ==
    /\ \A t \in Threads : Alive(t) => id[t] <= procId
    /\ \A c \in Caller, t \in Threads : cpc[c] = "store" /\ Alive(t) => id[t] <= reg[c]

Retired ==
    /\ \A c \in Caller : cpc[c] \in {"test", "join", "clear"} => NoneCurrent
    /\ ~started /\ cpc[App] \notin {"created", "flag"} => NoneCurrent

Single == \A t, u \in Threads : Current(t) /\ Current(u) => t = u

Created ==
    /\ \A c \in Caller : cpc[c] = "clear" => ~created
    /\ ~started /\ cpc[App] # "flag" => ~created

Joins == \A c \in Caller : cpc[c] = "join" => reg[c] = pid

Starting == cpc[App] \in {"created", "flag"} => \A t \in Threads : cpc[t] = "idle"

Stopping == \A t \in Threads : cpc[t] # "idle" => t = pid /\ t \in quit /\ tpc[t] = "callback"

Known == \A t \in Threads : Alive(t) /\ t \notin quit => t = pid /\ (created \/ cpc[App] = "created")

Silent == stopped => \A t \in Threads : Alive(t) => t \in quit /\ ~Current(t)

Safe ==
    /\ Numbers /\ Retired /\ Single
    /\ Created /\ Joins /\ Starting /\ Stopping /\ Known /\ Silent

TimerInv == TypeInv /\ (~Overlap => Safe)

(***************************************************************************)
(* When a thread that goes on calls back, and its select was not cut       *)
(* short, the time it set out to wait is over, but for the millisecond of  *)
(* the rounding; while it waits, wait[t] is what is missing.  select       *)
(* refuses no delay of a thread that no signal has struck.                 *)
(***************************************************************************)
Punctual ==
    /\ cut \subseteq struck
    /\ \A t \in Threads \ cut : Current(t) =>
         /\ tpc[t] \in {"loop", "callback"} => lead[t] <= Resolution + 1
         /\ tpc[t] = "select" => lead[t] <= wait[t] + Resolution + 1

PunctualInv == ~Overlap /\ Resolution + 1 < SelectLimit => Punctual
-----------------------------------------------------------------------------
(***************************************************************************)
(* Types.                                                                  *)
(***************************************************************************)
LEMMA Callers == 0 \in Caller /\ 0 \notin Threads /\ Threads \subseteq Caller /\ Caller \subseteq Nat
  BY ThreadsAssumption DEF Caller, App

LEMMA TypeInit == Init => TypeInv
  <1> SUFFICES ASSUME Init PROVE TypeInv
    OBVIOUS
  <1> USE BoundsAssumption
  <1>1. started \in BOOLEAN /\ created \in BOOLEAN /\ stopped \in BOOLEAN
    BY DEF Init
  <1>2. pid \in Threads \cup {0} /\ procId \in 0 .. MaxStops /\ quit \subseteq Threads
    BY DEF Init
  <1>3. tpc \in [Threads -> {"none", "loop", "select", "callback"}]
    BY DEF Init
  <1>4. id \in [Threads -> 0 .. MaxStops] /\ lead \in [Threads -> -Lag .. MaxLead]
    BY DEF Init
  <1>5. wait \in [Threads -> 0 .. MaxLead] /\ reg \in [Caller -> Nat]
    BY DEF Init
  <1>6. /\ cpc \in [Caller -> {"idle", "created", "flag", "store", "test", "join", "clear"}]
        /\ cut \subseteq Threads /\ struck \subseteq Threads
    BY DEF Init
  <1>7. CallerType
    BY DEF Init, CallerType
  <1> QED
    BY <1>1, <1>2, <1>3, <1>4, <1>5, <1>6, <1>7 DEF TypeInv, TypeOK

LEMMA TypeThread ==
    ASSUME TypeInv, NEW t \in Threads, ThreadStep(t) \/ Interrupted(t)
    PROVE  TypeInv'
  <1> USE BoundsAssumption, ResolutionAssumption
  <1>1. CASE LoopTest(t)
    <2>1. lead[t] \in -Lag .. MaxLead
      BY DEF TypeInv, TypeOK
    <2>2. AtMost(MaxLead, lead[t] + Resolution) \in -Lag .. MaxLead
      BY <2>1 DEF AtMost
    <2>3. \A up \in {0, 1} : Sleep(Delay(t, up)) \in 0 .. MaxLead
      BY <2>1 DEF Sleep, Delay
    <2>4. wait' \in [Threads -> 0 .. MaxLead] /\ cut' \subseteq Threads
      BY <1>1, <2>3 DEF LoopTest, TypeInv, TypeOK
    <2> QED
      BY <1>1, <2>2, <2>4 DEF LoopTest, TypeInv, TypeOK, CallerType, statics, calls
  <1>2. CASE LoopEnds(t)
    BY <1>2 DEF LoopEnds, TypeInv, TypeOK, CallerType, statics
  <1>3. CASE CallBack(t) \/ CallbackReturns(t) \/ Interrupted(t)
    BY <1>3 DEF CallBack, CallbackReturns, Interrupted, TypeInv, TypeOK, CallerType, statics, signals, calls
  <1> QED
    BY <1>1, <1>2, <1>3 DEF ThreadStep

LEMMA TypeTick ==
    ASSUME TypeInv, Tick
    PROVE  TypeInv'
  <1> USE BoundsAssumption
  <1>1. lead' \in [Threads -> -Lag .. MaxLead]
    BY DEF Tick, TypeInv, TypeOK
  <1>2. wait' \in [Threads -> 0 .. MaxLead]
    BY DEF Tick, TypeInv, TypeOK
  <1> QED
    BY <1>1, <1>2 DEF Tick, TypeInv, TypeOK, CallerType, statics, calls, signals

LEMMA TypeOffset ==
    ASSUME TypeInv, NEW t, SetTimeOffset(t)
    PROVE  lead' \in [Threads -> -Lag .. MaxLead]
  BY BoundsAssumption, ResolutionAssumption DEF SetTimeOffset

LEMMA TypeStart ==
    ASSUME TypeInv,
           StartAgain \/ StartClock \/ StartFails \/ (\E t \in Threads : StartThread(t)) \/ StartStep
    PROVE  TypeInv'
  <1> USE Callers
  <1>1. CASE StartAgain
    BY <1>1 DEF StartAgain, StartCall, TypeInv, TypeOK, CallerType, signals
  <1>2. CASE StartClock
    <2>1. lead' \in [Threads -> -Lag .. MaxLead]
      BY <1>2, TypeOffset DEF StartClock
    <2> QED
      BY <1>2, <2>1 DEF StartClock, StartCall, TypeInv, TypeOK, CallerType, signals
  <1>3. CASE StartFails
    <2>1. lead' \in [Threads -> -Lag .. MaxLead]
      BY <1>3, TypeOffset DEF StartFails
    <2> QED
      BY <1>3, <2>1 DEF StartFails, StartCall, TypeInv, TypeOK, CallerType, signals
  <1>4. ASSUME NEW t \in Threads, StartThread(t) PROVE TypeInv'
    <2>1. lead' \in [Threads -> -Lag .. MaxLead]
      BY <1>4, TypeOffset DEF StartThread
    <2>2. cpc' = [cpc EXCEPT ![App] = "created"]
      BY <1>4 DEF StartThread
    <2>3. cpc' \in [Caller -> {"idle", "created", "flag", "store", "test", "join", "clear"}]
      BY <2>2 DEF TypeInv, TypeOK
    <2>4. CallerType'
      BY <1>4, <2>2 DEF StartThread, StartCall, TypeInv, TypeOK, CallerType, App, signals
    <2> QED
      BY <1>4, <2>1, <2>3, <2>4 DEF StartThread, StartCall, TypeInv, TypeOK, signals
  <1>5. CASE StartStep
    BY <1>5 DEF StartStep, SetCreated, SetStarted, TypeInv, TypeOK, CallerType, App, thread, signals
  <1> QED
    BY <1>1, <1>2, <1>3, <1>4, <1>5

LEMMA TypeCall ==
    ASSUME TypeInv, NEW c \in Caller, StopCall(c)
    PROVE  /\ cpc' \in [Caller -> {"idle", "created", "flag", "store", "test", "join", "clear"}]
           /\ reg' \in [Caller -> Nat] /\ CallerType'
  <1>1. procId \in Nat /\ procId < MaxStops
    BY BoundsAssumption DEF StopCall, TypeInv, TypeOK
  <1>2. cpc' = [cpc EXCEPT ![c] = "store"] /\ reg' = [reg EXCEPT ![c] = procId]
    BY DEF StopCall
  <1>3. CallerType'
    BY <1>1, <1>2 DEF TypeInv, TypeOK, CallerType
  <1> QED
    BY <1>1, <1>2, <1>3 DEF TypeInv, TypeOK

LEMMA TypeStop ==
    ASSUME TypeInv,
           \/ AppStops
           \/ \E t \in Threads : CallbackCallsStop(t)
           \/ \E c \in Caller : StopStep(c)
    PROVE  TypeInv'
  <1> USE Callers
  <1>1. CASE AppStops
    BY <1>1, TypeCall DEF AppStops, StopCall, TypeInv, TypeOK, statics, thread, App, signals
  <1>2. ASSUME NEW t \in Threads, CallbackCallsStop(t) PROVE TypeInv'
    BY <1>2, TypeCall DEF CallbackCallsStop, StopCall, TypeInv, TypeOK, statics, thread, signals
  <1>3. ASSUME NEW c \in Caller, StopStore(c) PROVE TypeInv'
    <2>1. reg[c] + 1 \in 0 .. MaxStops
      BY <1>3, BoundsAssumption DEF StopStore, TypeInv, TypeOK, CallerType
    <2>2. CallerType'
      BY <1>3 DEF StopStore, TypeInv, TypeOK, CallerType
    <2> QED
      BY <1>3, <2>1, <2>2 DEF StopStore, TypeInv, TypeOK, thread, signals
  <1>4. ASSUME NEW c \in Caller, StopTest(c) PROVE TypeInv'
    <2>1. cpc' \in [Caller -> {"idle", "created", "flag", "store", "test", "join", "clear"}]
      BY <1>4 DEF StopTest, TypeInv, TypeOK
    <2>2. reg' \in [Caller -> Nat]
      BY <1>4 DEF StopTest, TypeInv, TypeOK
    <2>3. CallerType'
      BY <1>4 DEF StopTest, TypeInv, TypeOK, CallerType
    <2> QED
      BY <1>4, <2>1, <2>2, <2>3 DEF StopTest, TypeInv, TypeOK, statics, thread, signals
  <1>5. ASSUME NEW c \in Caller, StopJoin(c) PROVE TypeInv'
    <2>1. CallerType'
      BY <1>5 DEF StopJoin, TypeInv, TypeOK, CallerType
    <2> QED
      BY <1>5, <2>1 DEF StopJoin, TypeInv, TypeOK, thread, signals
  <1>6. ASSUME NEW c \in Caller, StopReturn(c) PROVE TypeInv'
    <2>1. CallerType'
      BY <1>6 DEF StopReturn, TypeInv, TypeOK, CallerType
    <2> QED
      BY <1>6, <2>1 DEF StopReturn, TypeInv, TypeOK, thread, signals
  <1> QED
    BY <1>1, <1>2, <1>3, <1>4, <1>5, <1>6 DEF StopStep

LEMMA TypeNext ==
    ASSUME TypeInv, [Next]_vars
    PROVE  TypeInv'
  <1>1. CASE UNCHANGED vars
    BY <1>1 DEF vars, statics, thread, calls, TypeInv, TypeOK, CallerType, signals
  <1>2. CASE Next
    BY <1>2, TypeThread, TypeTick, TypeStart, TypeStop DEF Next
  <1> QED
    BY <1>1, <1>2
-----------------------------------------------------------------------------
(***************************************************************************)
(* Safety.                                                                 *)
(***************************************************************************)
LEMMA SafeInit == Init => Safe
  <1> SUFFICES ASSUME Init PROVE Safe
    OBVIOUS
  <1>1. \A t \in Threads : ~Alive(t) /\ ~Current(t)
    BY DEF Init, Alive, Current
  <1>2. (\A c \in Caller : cpc[c] = "idle") /\ cpc[App] = "idle" /\ \A t \in Threads : cpc[t] = "idle"
    BY Callers DEF Init, App
  <1>3. created = FALSE /\ stopped = FALSE
    BY DEF Init
  <1> QED
    BY <1>1, <1>2, <1>3 DEF Safe, Numbers, Retired, NoneCurrent, Single, Created, Joins, Starting,
                            Stopping, Known, Silent

\* Where threads keep their numbers, those that are current stay so, but for
\* threads that end.
LEMMA ThreadKept ==
    ASSUME TypeInv, Safe, NEW t \in Threads, ThreadStep(t) \/ Interrupted(t)
    PROVE  Safe'
  <1>1. UNCHANGED <<started, created, pid, procId, id, cpc, reg, stopped>>
    BY DEF ThreadStep, LoopTest, LoopEnds, CallBack, CallbackReturns, Interrupted, statics, calls
  <1>2. \A u \in Threads : Alive(u)' => Alive(u)
    BY DEF ThreadStep, LoopTest, LoopEnds, CallBack, CallbackReturns, Interrupted, Alive, TypeInv, TypeOK
  <1>3. \A u \in Threads : Current(u)' => Current(u)
    BY <1>1, <1>2 DEF Current
  <1>4. \A u \in Threads : Alive(u)' => (u \in quit' <=> u \in quit)
    BY DEF ThreadStep, LoopTest, LoopEnds, CallBack, CallbackReturns, Interrupted, Alive, TypeInv, TypeOK, calls
  <1>5. \A u \in Threads : cpc[u] # "idle" => u \in quit' /\ tpc'[u] = "callback"
    <2> SUFFICES ASSUME NEW u \in Threads, cpc[u] # "idle" PROVE u \in quit' /\ tpc'[u] = "callback"
      OBVIOUS
    <2>1. u \in quit /\ tpc[u] = "callback"
      BY DEF Safe, Stopping
    <2>2. tpc'[u] = "callback"
      BY <2>1 DEF ThreadStep, LoopTest, LoopEnds, CallBack, CallbackReturns, Interrupted, TypeInv, TypeOK
    <2> QED
      BY <1>4, <2>1, <2>2 DEF Alive
  <1>6. Numbers' /\ Retired' /\ Single'
    BY <1>1, <1>2, <1>3 DEF Safe, Numbers, Retired, NoneCurrent, Single
  <1>7. Created' /\ Joins' /\ Starting'
    BY <1>1 DEF Safe, Created, Joins, Starting
  <1>8. Stopping'
    BY <1>1, <1>5 DEF Safe, Stopping
  <1>9. Known' /\ Silent'
    BY <1>1, <1>2, <1>3, <1>4 DEF Safe, Known, Silent
  <1> QED
    BY <1>6, <1>7, <1>8, <1>9 DEF Safe

\* Steps that change neither threads nor calls, or only `stopped' to FALSE.
LEMMA SafeKept ==
    ASSUME Safe, UNCHANGED <<started, created, pid, procId, tpc, id, cpc, reg, quit>>,
           stopped' \in {stopped, FALSE}
    PROVE  Safe'
  <1>1. \A u \in Threads : (Alive(u)' <=> Alive(u)) /\ (Current(u)' <=> Current(u))
    BY DEF Alive, Current
  <1>2. Numbers' /\ Retired' /\ Single'
    BY <1>1 DEF Safe, Numbers, Retired, NoneCurrent, Single
  <1>3. Created' /\ Joins' /\ Starting' /\ Stopping'
    BY DEF Safe, Created, Joins, Starting, Stopping
  <1>4. stopped' => stopped
    OBVIOUS
  <1>5. Known'
    BY <1>1 DEF Safe, Known
  <1>6. Silent'
    BY <1>1, <1>4 DEF Safe, Silent
  <1> QED
    BY <1>2, <1>3, <1>5, <1>6 DEF Safe

\* When a Pt_Start finds the timer stopped, nobody is in Pt_Stop, no thread goes
\* on, and pt_thread_created is clear.
LEMMA StartsAlone ==
    ASSUME TypeInv, Safe, ~Overlap, StartCall, ~started
    PROVE  /\ cpc[App] = "idle" /\ \A t \in Threads : cpc[t] = "idle"
           /\ \A c \in Caller : cpc[c] = "idle"
           /\ NoneCurrent /\ ~created
           /\ \A t \in Threads : Alive(t) => t \in quit
  <1>1. cpc[App] = "idle"
    BY DEF StartCall, signals
  <1>2. ASSUME NEW t \in Threads PROVE cpc[t] = "idle"
    <2>1. cpc[t] \notin {"store", "test", "join", "clear"}
      BY DEF StartCall, InPtStop, signals
    <2>2. cpc[t] \in {"idle", "created", "flag", "store", "test", "join", "clear"}
      BY Callers DEF TypeInv, TypeOK
    <2>3. cpc[t] \notin {"created", "flag"}
      BY Callers DEF TypeInv, CallerType, App
    <2> QED
      BY <2>1, <2>2, <2>3
  <1>3. \A c \in Caller : cpc[c] = "idle"
    BY <1>1, <1>2 DEF Caller
  <1>4. NoneCurrent /\ ~created
    BY <1>1 DEF Safe, Retired, Created
  <1>5. \A t \in Threads : Alive(t) => t \in quit
    BY <1>1, <1>4 DEF Safe, Known
  <1> QED
    BY <1>1, <1>2, <1>3, <1>4, <1>5

LEMMA SafeStart ==
    ASSUME TypeInv, Safe, ~Overlap,
           StartAgain \/ StartClock \/ StartFails \/ (\E t \in Threads : StartThread(t)) \/ StartStep
    PROVE  Safe'
  <1>1. CASE StartAgain
    BY <1>1, SafeKept DEF StartAgain, StartCall, signals
  <1>2. ASSUME StartClock \/ StartFails PROVE Safe'
    <2>1. /\ StartCall /\ ~started
          /\ UNCHANGED <<created, procId, tpc, id, cpc, reg, quit>> /\ stopped' = FALSE
      BY <1>2 DEF StartClock, StartFails, StartCall, signals
    <2>2. /\ cpc[App] = "idle" /\ \A c \in Caller : cpc[c] = "idle"
          /\ \A t \in Threads : cpc[t] = "idle"
          /\ NoneCurrent /\ ~created
          /\ \A t \in Threads : Alive(t) => t \in quit
      BY <2>1, StartsAlone
    <2>3. \A u \in Threads : (Alive(u)' <=> Alive(u)) /\ ~Current(u) /\ ~Current(u)'
      BY <2>1, <2>2 DEF Alive, Current, NoneCurrent
    <2>4. Numbers' /\ Retired' /\ Single'
      BY <2>1, <2>2, <2>3 DEF Safe, Numbers, Retired, NoneCurrent, Single
    <2>5. Created' /\ Joins' /\ Starting' /\ Stopping'
      BY <2>1, <2>2 DEF Created, Joins, Starting, Stopping
    <2>6. Known' /\ Silent'
      BY <2>1, <2>2, <2>3 DEF Known, Silent
    <2> QED
      BY <2>4, <2>5, <2>6 DEF Safe
  <1>3. ASSUME NEW t \in Threads, StartThread(t) PROVE Safe'
    <2>1. /\ StartCall /\ ~started /\ ~Alive(t)
          /\ UNCHANGED <<started, created, procId, reg, quit>> /\ stopped' = FALSE
          /\ tpc' = [tpc EXCEPT ![t] = "loop"] /\ id' = [id EXCEPT ![t] = procId] /\ pid' = t
          /\ cpc' = [cpc EXCEPT ![App] = "created"]
      BY <1>3 DEF StartThread, StartCall, Unused, signals
    <2>2. /\ cpc[App] = "idle" /\ \A c \in Caller : cpc[c] = "idle"
          /\ \A u \in Threads : cpc[u] = "idle"
          /\ NoneCurrent /\ ~created
          /\ \A u \in Threads : Alive(u) => u \in quit
      BY <2>1, StartsAlone
    <2>3. cpc'[App] = "created" /\ \A c \in Caller \ {App} : cpc'[c] = "idle"
      BY <2>1, <2>2, Callers DEF TypeInv, TypeOK, App
    <2>4. \A u \in Threads \ {t} : (Alive(u)' <=> Alive(u)) /\ id'[u] = id[u] /\ ~Current(u)'
      BY <2>1, <2>2 DEF Alive, Current, NoneCurrent, TypeInv, TypeOK
    <2>5. id'[t] = procId
      BY <2>1 DEF TypeInv, TypeOK
    <2>6. \A u \in Threads : u # App
      BY Callers DEF App
    <2>7. procId \in Nat
      BY BoundsAssumption DEF TypeInv, TypeOK
    <2>8. Numbers'
      BY <2>1, <2>3, <2>4, <2>5, <2>7 DEF Safe, Numbers
    <2>9. Retired' /\ Single'
      BY <2>3, <2>4 DEF Retired, Single
    <2>10. Created' /\ Joins' /\ Starting' /\ Stopping'
      BY <2>1, <2>2, <2>3, <2>6, Callers DEF Created, Joins, Starting, Stopping
    <2>11. Known' /\ Silent'
      BY <2>1, <2>2, <2>3, <2>4 DEF Known, Silent
    <2> QED
      BY <2>8, <2>9, <2>10, <2>11 DEF Safe
  <1>4. ASSUME StartStep PROVE Safe'
    <2>1. UNCHANGED <<pid, procId, tpc, id, reg, quit, stopped>>
      BY <1>4 DEF StartStep, SetCreated, SetStarted, thread, signals
    <2>2. \A u \in Threads : (Alive(u)' <=> Alive(u)) /\ (Current(u)' <=> Current(u))
      BY <2>1 DEF Alive, Current
    <2>3. cpc[App] \in {"created", "flag"} /\ cpc'[App] \in {"flag", "idle"}
      BY <1>4, Callers DEF StartStep, SetCreated, SetStarted, TypeInv, TypeOK, App
    <2>4. \A c \in Caller \ {App} : cpc'[c] = cpc[c]
      BY <1>4, Callers DEF StartStep, SetCreated, SetStarted, TypeInv, TypeOK, App
    <2>5. \A t \in Threads : cpc[t] = "idle" /\ cpc'[t] = "idle"
      BY <2>3, <2>4, Callers DEF Safe, Starting, App
    <2>6. \A c \in Caller : cpc'[c] \in {"flag", "idle"}
      BY <2>3, <2>5 DEF Caller
    <2>7. Numbers' /\ Retired' /\ Single'
      BY <1>4, <2>1, <2>2, <2>3, <2>6, Callers
         DEF Safe, Numbers, Retired, NoneCurrent, Single, StartStep, SetCreated, SetStarted, TypeInv,
             TypeOK, App
    <2>8. Created'
      BY <1>4, <2>6, Callers DEF Safe, Created, StartStep, SetCreated, SetStarted, TypeInv, TypeOK, App
    <2>9. Joins' /\ Starting' /\ Stopping'
      BY <2>1, <2>5, <2>6 DEF Joins, Starting, Stopping
    <2>10. Known' /\ Silent'
      BY <1>4, <2>1, <2>2, <2>3 DEF Safe, Known, Silent, StartStep, SetCreated, SetStarted
    <2> QED
      BY <2>7, <2>8, <2>9, <2>10 DEF Safe
  <1> QED
    BY <1>1, <1>2, <1>3, <1>4

LEMMA SafeCall ==
    ASSUME TypeInv, Safe, NEW c \in Caller, StopCall(c),
           \/ c = App /\ UNCHANGED quit
           \/ c \in Threads /\ tpc[c] = "callback" /\ c \notin quit /\ quit' = quit \cup {c}
              /\ cpc[App] \notin {"created", "flag"}
    PROVE  Safe'
  <1>1. /\ UNCHANGED <<started, created, pid, procId, tpc, id, stopped>>
        /\ cpc[c] = "idle" /\ cpc' = [cpc EXCEPT ![c] = "store"] /\ reg' = [reg EXCEPT ![c] = procId]
    BY DEF StopCall, statics, thread, signals
  <1>2. \A u \in Threads : (Alive(u)' <=> Alive(u)) /\ (Current(u)' <=> Current(u))
    BY <1>1 DEF Alive, Current
  <1>3. /\ cpc'[c] = "store" /\ reg'[c] = procId
        /\ \A d \in Caller \ {c} : cpc'[d] = cpc[d] /\ reg'[d] = reg[d]
    BY <1>1 DEF TypeInv, TypeOK
  <1>4. Numbers'
    BY <1>1, <1>2, <1>3 DEF Safe, Numbers
  <1>5. Retired' /\ Single'
    <2>1. cpc'[App] \notin {"created", "flag"} => cpc[App] \notin {"created", "flag"}
      BY <1>1, <1>3, Callers DEF App
    <2>2. \A d \in Caller : cpc'[d] \in {"test", "join", "clear"} => cpc[d] = cpc'[d]
      BY <1>3
    <2> QED
      BY <1>1, <1>2, <2>1, <2>2 DEF Safe, Retired, NoneCurrent, Single
  <1>6. Created' /\ Joins'
    BY <1>1, <1>3, Callers DEF Safe, Created, Joins, App
  <1>7. Starting'
    BY <1>1, <1>3, Callers DEF Safe, Starting, App
  <1>8. c \in Threads => c = pid
    BY Callers DEF Safe, Known, Alive, App
  <1>9. quit \subseteq quit' /\ (c \in Threads => c \in quit' /\ tpc[c] = "callback")
    BY Callers DEF App
  <1>10. Stopping'
    BY <1>1, <1>3, <1>8, <1>9, Callers DEF Safe, Stopping
  <1>11. Known'
    <2>1. cpc[App] = "created" => cpc'[App] = "created"
      BY <1>1, <1>3, Callers DEF App
    <2> QED
      BY <1>1, <1>2, <1>9, <2>1 DEF Safe, Known
  <1>12. Silent'
    BY <1>1, <1>2, <1>9 DEF Safe, Silent
  <1> QED
    BY <1>4, <1>5, <1>6, <1>7, <1>10, <1>11, <1>12 DEF Safe

LEMMA SafeStore ==
    ASSUME TypeInv, Safe, NEW c \in Caller, StopStore(c)
    PROVE  Safe'
  <1>1. /\ UNCHANGED <<started, created, pid, tpc, id, reg, quit, stopped>>
        /\ cpc[c] = "store" /\ procId' = reg[c] + 1 /\ cpc' = [cpc EXCEPT ![c] = "test"]
    BY DEF StopStore, thread, signals
  <1>2. cpc'[c] = "test" /\ \A d \in Caller \ {c} : cpc'[d] = cpc[d]
    BY <1>1 DEF TypeInv, TypeOK
  <1>3. ASSUME NEW u \in Threads, Alive(u) PROVE id[u] \in Nat /\ id[u] < procId'
    <2>1. id[u] <= reg[c]
      BY <1>1, <1>3 DEF Safe, Numbers
    <2>2. id[u] \in Nat /\ reg[c] \in Nat
      BY BoundsAssumption DEF TypeInv, TypeOK
    <2> QED
      BY <1>1, <2>1, <2>2
  <1>4. \A u \in Threads : (Alive(u)' <=> Alive(u)) /\ ~Current(u)'
    BY <1>1, <1>3 DEF Alive, Current
  <1>5. Numbers'
    <2>1. procId' \in Nat
      BY <1>1 DEF TypeInv, TypeOK
    <2>2. \A u \in Threads : Alive(u) => id[u] <= procId'
      BY <1>3, <2>1
    <2>3. \A d \in Caller : cpc'[d] = "store" => cpc[d] = "store"
      BY <1>2
    <2> QED
      BY <1>1, <1>4, <2>2, <2>3 DEF Safe, Numbers
  <1>6. Retired' /\ Single'
    BY <1>4 DEF Retired, NoneCurrent, Single
  <1>7. cpc[App] \in {"created", "flag"} <=> cpc'[App] \in {"created", "flag"}
    BY <1>1, <1>2, Callers DEF App
  <1>8. cpc[App] = "created" <=> cpc'[App] = "created"
    BY <1>1, <1>2, Callers DEF App
  <1>9. Created'
    BY <1>1, <1>2, <1>7, <1>8, Callers DEF Safe, Created, App
  <1>10. Joins'
    BY <1>1, <1>2 DEF Safe, Joins
  <1>11. Starting' /\ Stopping'
    BY <1>1, <1>2, <1>7, Callers DEF Safe, Starting, Stopping
  <1>12. Known' /\ Silent'
    BY <1>1, <1>4, <1>8 DEF Safe, Known, Silent
  <1> QED
    BY <1>5, <1>6, <1>9, <1>10, <1>11, <1>12 DEF Safe

LEMMA SafeTest ==
    ASSUME TypeInv, Safe, NEW c \in Caller, StopTest(c)
    PROVE  Safe'
  <1>1. /\ UNCHANGED <<started, created, pid, procId, tpc, id, quit, stopped>>
        /\ cpc[c] = "test" /\ cpc' = [cpc EXCEPT ![c] = IF created THEN "join" ELSE "clear"]
        /\ reg' = [reg EXCEPT ![c] = IF created THEN pid ELSE 0]
    BY DEF StopTest, statics, thread, signals
  <1>2. /\ cpc'[c] = IF created THEN "join" ELSE "clear"
        /\ reg'[c] = IF created THEN pid ELSE 0
        /\ \A d \in Caller \ {c} : cpc'[d] = cpc[d] /\ reg'[d] = reg[d]
    BY <1>1 DEF TypeInv, TypeOK
  <1>3. \A u \in Threads : (Alive(u)' <=> Alive(u)) /\ (Current(u)' <=> Current(u)) /\ ~Current(u)
    BY <1>1 DEF Safe, Retired, NoneCurrent, Alive, Current
  <1>4. Numbers'
    BY <1>1, <1>2, <1>3 DEF Safe, Numbers
  <1>5. Retired' /\ Single'
    BY <1>3 DEF Retired, NoneCurrent, Single
  <1>6. \A s \in {"created", "flag"} : cpc[App] = s <=> cpc'[App] = s
    BY <1>1, <1>2, Callers DEF App
  <1>7. Created'
    BY <1>1, <1>2, <1>6 DEF Safe, Created
  <1>8. Joins'
    BY <1>1, <1>2 DEF Safe, Joins
  <1>9. Starting' /\ Stopping'
    BY <1>1, <1>2, <1>6, Callers DEF Safe, Starting, Stopping
  <1>10. Known' /\ Silent'
    BY <1>1, <1>3, <1>6 DEF Safe, Known, Silent
  <1> QED
    BY <1>4, <1>5, <1>7, <1>8, <1>9, <1>10 DEF Safe

\* The thread in pid is over or has called Pt_Stop when a join returns.
LEMMA SafeJoin ==
    ASSUME TypeInv, Safe, NEW c \in Caller, StopJoin(c)
    PROVE  Safe'
  <1>1. /\ UNCHANGED <<started, pid, procId, tpc, id, quit, stopped>>
        /\ cpc[c] = "join" /\ created' = FALSE /\ cpc' = [cpc EXCEPT ![c] = "clear"]
        /\ reg' = [reg EXCEPT ![c] = 0]
    BY DEF StopJoin, thread, signals
  <1>2. /\ cpc'[c] = "clear" /\ reg'[c] = 0
        /\ \A d \in Caller \ {c} : cpc'[d] = cpc[d] /\ reg'[d] = reg[d]
    BY <1>1 DEF TypeInv, TypeOK
  <1>3. \A u \in Threads : (Alive(u)' <=> Alive(u)) /\ (Current(u)' <=> Current(u)) /\ ~Current(u)
    BY <1>1 DEF Safe, Retired, NoneCurrent, Alive, Current
  <1>4. cpc[App] \notin {"created", "flag"} /\ cpc'[App] \notin {"created", "flag"}
    <2>1. CASE c = App
      BY <1>1, <1>2, <2>1
    <2>2. CASE c \in Threads
      <3>1. cpc[App] \notin {"created", "flag"}
        BY <1>1, <2>2 DEF Safe, Starting
      <3> QED
        BY <1>2, <2>2, <3>1, Callers DEF App
    <2> QED
      BY <2>1, <2>2 DEF Caller
  <1>5. ASSUME NEW t \in Threads, Alive(t), t \notin quit PROVE FALSE
    <2>1. t = pid /\ reg[c] = pid
      BY <1>1, <1>4, <1>5 DEF Safe, Known, Joins
    <2>2. t # 0 /\ t # c
      BY <1>1, <1>5, Callers DEF Safe, Stopping
    <2>3. PICK d \in Caller \ {c} : cpc[d] = "join" /\ reg[d] = reg[c]
      BY <1>5, <2>1, <2>2 DEF StopJoin, Joinable
    <2>4. c \in Threads \/ d \in Threads
      BY <2>3 DEF Caller
    <2> QED
      BY <1>1, <1>5, <2>1, <2>3, <2>4 DEF Safe, Stopping
  <1>6. Numbers'
    BY <1>1, <1>2, <1>3 DEF Safe, Numbers
  <1>7. Retired' /\ Single'
    BY <1>3 DEF Retired, NoneCurrent, Single
  <1>8. Created'
    BY <1>1 DEF Created
  <1>9. Joins'
    BY <1>1, <1>2 DEF Safe, Joins
  <1>10. Starting' /\ Stopping'
    BY <1>1, <1>2, <1>4, Callers DEF Safe, Starting, Stopping
  <1>11. Known' /\ Silent'
    BY <1>1, <1>3, <1>5 DEF Safe, Known, Silent
  <1> QED
    BY <1>6, <1>7, <1>8, <1>9, <1>10, <1>11 DEF Safe

LEMMA SafeReturn ==
    ASSUME TypeInv, Safe, NEW c \in Caller, StopReturn(c)
    PROVE  Safe'
  <1>1. /\ UNCHANGED <<created, pid, procId, tpc, id, reg, quit>>
        /\ cpc[c] = "clear" /\ cpc' = [cpc EXCEPT ![c] = "idle"] /\ started' = FALSE
    BY DEF StopReturn, thread, signals
  <1>2. cpc'[c] = "idle" /\ \A d \in Caller \ {c} : cpc'[d] = cpc[d]
    BY <1>1 DEF TypeInv, TypeOK
  <1>3. ~created
    BY <1>1 DEF Safe, Created
  <1>4. \A u \in Threads : (Alive(u)' <=> Alive(u)) /\ ~Current(u) /\ ~Current(u)'
    BY <1>1 DEF Safe, Retired, NoneCurrent, Alive, Current
  <1>5. cpc[App] \notin {"created", "flag"} /\ cpc'[App] \notin {"created", "flag"}
    <2>1. CASE c = App
      BY <1>1, <1>2, <2>1
    <2>2. CASE c \in Threads
      <3>1. cpc[App] \notin {"created", "flag"}
        BY <1>1, <2>2 DEF Safe, Starting
      <3> QED
        BY <1>2, <2>2, <3>1, Callers DEF App
    <2> QED
      BY <2>1, <2>2 DEF Caller
  <1>6. \A t \in Threads : Alive(t) => t \in quit
    BY <1>3, <1>5 DEF Safe, Known
  <1>7. Numbers' /\ Retired' /\ Single'
    BY <1>1, <1>2, <1>4 DEF Safe, Numbers, Retired, NoneCurrent, Single
  <1>8. Created' /\ Joins'
    BY <1>1, <1>2, <1>3 DEF Safe, Created, Joins
  <1>9. Starting' /\ Stopping'
    BY <1>1, <1>2, <1>5, Callers DEF Safe, Starting, Stopping
  <1>10. Known' /\ Silent'
    BY <1>1, <1>4, <1>6 DEF Known, Silent
  <1> QED
    BY <1>7, <1>8, <1>9, <1>10 DEF Safe

LEMMA SafeNext ==
    ASSUME TypeInv, Safe, ~Overlap, [Next]_vars
    PROVE  Safe'
  <1>1. CASE UNCHANGED vars
    BY <1>1, SafeKept DEF vars, statics, thread, calls, signals
  <1>2. CASE Tick
    BY <1>2, SafeKept DEF Tick, statics, calls
  <1>3. CASE AppStops
    BY <1>3, SafeCall, Callers DEF AppStops, App
  <1>4. ASSUME NEW t \in Threads, CallbackCallsStop(t) PROVE Safe'
    BY <1>4, SafeCall, Callers DEF CallbackCallsStop
  <1>5. ASSUME NEW c \in Caller, StopStep(c) PROVE Safe'
    BY <1>5, SafeStore, SafeTest, SafeJoin, SafeReturn DEF StopStep
  <1> QED
    BY <1>1, <1>2, <1>3, <1>4, <1>5, ThreadKept, SafeStart DEF Next

-----------------------------------------------------------------------------
(***************************************************************************)
(* The delays.                                                             *)
(***************************************************************************)
\* The delay of a thread is what is left to its next callback, but for the rounding,
\* and select takes it when no signal has struck the thread.
LEMMA PunctualLoop ==
    ASSUME TypeInv, Punctual, Resolution + 1 < SelectLimit, NEW t \in Threads, LoopTest(t)
    PROVE  Punctual'
  <1> USE BoundsAssumption, ResolutionAssumption
  <1>1. PICK up \in {0, 1} :
          /\ wait' = [wait EXCEPT ![t] = Sleep(Delay(t, up))]
          /\ cut' = IF Refused(Delay(t, up)) THEN cut \cup {t} ELSE cut \ {t}
    BY DEF LoopTest
  <1>2. /\ UNCHANGED <<procId, id, struck>> /\ tpc[t] = "loop" /\ id[t] = procId
        /\ tpc' = [tpc EXCEPT ![t] = "select"]
        /\ lead' = [lead EXCEPT ![t] = AtMost(MaxLead, @ + Resolution)]
    BY DEF LoopTest, statics
  <1>3. lead[t] \in Int /\ Delay(t, up) \in Nat /\ lead[t] <= Delay(t, up) + 1
    BY DEF Delay, TypeInv, TypeOK
  <1>4. t \notin cut => lead[t] <= Resolution + 1
    BY <1>2 DEF Punctual, Current, Alive
  <1>5. Refused(Delay(t, up)) => t \in struck
    <2>1. t \notin cut => Delay(t, up) <= Resolution + 1
      BY <1>3, <1>4 DEF Delay
    <2> QED
      BY <1>3, <2>1 DEF Refused, Punctual
  <1>6. ~Refused(Delay(t, up)) => lead'[t] <= wait'[t] + Resolution + 1
    <2>1. AtMost(MaxLead, lead[t] + Resolution) <= Delay(t, up) + Resolution + 1
      BY <1>3 DEF AtMost
    <2>2. lead'[t] = AtMost(MaxLead, lead[t] + Resolution) /\ wait'[t] = Sleep(Delay(t, up))
      BY <1>1, <1>2 DEF TypeInv, TypeOK
    <2> QED
      BY <2>1, <2>2 DEF Sleep
  <1>7. ASSUME NEW u \in Threads, u # t
        PROVE  /\ tpc'[u] = tpc[u] /\ lead'[u] = lead[u] /\ wait'[u] = wait[u]
               /\ (Current(u)' <=> Current(u)) /\ (u \in cut' <=> u \in cut)
    BY <1>1, <1>2, <1>7 DEF TypeInv, TypeOK, Current, Alive
  <1>8. cut' \subseteq struck'
    BY <1>1, <1>2, <1>5 DEF Punctual
  <1>9. ASSUME NEW u \in Threads \ cut', Current(u)'
        PROVE  /\ tpc'[u] \in {"loop", "callback"} => lead'[u] <= Resolution + 1
               /\ tpc'[u] = "select" => lead'[u] <= wait'[u] + Resolution + 1
    <2>1. CASE u = t
      BY <1>1, <1>2, <1>6, <1>9, <2>1 DEF TypeInv, TypeOK
    <2>2. CASE u # t
      BY <1>7, <1>9, <2>2 DEF Punctual
    <2> QED
      BY <2>1, <2>2
  <1> QED
    BY <1>8, <1>9 DEF Punctual

\* A thread that was not current before the step is not current after it, and its
\* distances and place are the same.
LEMMA PunctualKept ==
    ASSUME Punctual, UNCHANGED <<tpc, lead, wait, signals>>, \A t \in Threads : Current(t)' => Current(t)
    PROVE  Punctual'
  BY DEF Punctual, signals

LEMMA PunctualThread ==
    ASSUME TypeInv, Punctual, Resolution + 1 < SelectLimit, NEW t \in Threads,
           ThreadStep(t) \/ Interrupted(t)
    PROVE  Punctual'
  <1> USE BoundsAssumption, ResolutionAssumption
  <1>1. CASE LoopEnds(t)
    <2>1. /\ UNCHANGED <<procId, id, wait>> /\ tpc' = [tpc EXCEPT ![t] = "none"]
          /\ lead' = [lead EXCEPT ![t] = 0]
          /\ cut' = cut \ {t} /\ struck' = struck \ {t}
      BY <1>1 DEF LoopEnds, statics
    <2>2. ~Current(t)'
      BY <2>1 DEF Current, Alive, TypeInv, TypeOK
    <2>3. ASSUME NEW u \in Threads, u # t
          PROVE  tpc'[u] = tpc[u] /\ lead'[u] = lead[u] /\ (Current(u)' <=> Current(u))
      BY <2>1, <2>3 DEF TypeInv, TypeOK, Current, Alive
    <2> QED
      BY <2>1, <2>2, <2>3 DEF Punctual
  <1>2. CASE CallBack(t) \/ CallbackReturns(t)
    <2>1. /\ UNCHANGED <<procId, id, lead, wait, cut, struck>> /\ Alive(t)
          /\ \/ tpc[t] = "select" /\ wait[t] = 0 /\ tpc' = [tpc EXCEPT ![t] = "callback"]
             \/ tpc[t] = "callback" /\ tpc' = [tpc EXCEPT ![t] = "loop"]
      BY <1>2 DEF CallBack, CallbackReturns, statics, signals, Alive
    <2>2. Current(t)' => Current(t)
      BY <2>1 DEF Current, Alive
    <2>3. tpc'[t] \in {"loop", "callback"} /\ (Current(t) /\ t \notin cut => lead[t] <= Resolution + 1)
      BY <2>1 DEF Punctual, TypeInv, TypeOK
    <2>4. ASSUME NEW u \in Threads, u # t PROVE tpc'[u] = tpc[u] /\ (Current(u)' <=> Current(u))
      BY <2>1, <2>4 DEF TypeInv, TypeOK, Current, Alive
    <2> QED
      BY <2>1, <2>2, <2>3, <2>4 DEF Punctual
  <1>3. CASE Interrupted(t)
    <2>1. /\ UNCHANGED <<procId, id, lead>> /\ tpc' = [tpc EXCEPT ![t] = "callback"]
          /\ wait' = [wait EXCEPT ![t] = 0]
          /\ cut' = cut \cup {t} /\ struck' = struck \cup {t}
      BY <1>3 DEF Interrupted, statics
    <2>2. ASSUME NEW u \in Threads, u # t
          PROVE  /\ tpc'[u] = tpc[u] /\ lead'[u] = lead[u] /\ wait'[u] = wait[u]
                 /\ (Current(u)' <=> Current(u))
      BY <2>1, <2>2 DEF TypeInv, TypeOK, Current, Alive
    <2> QED
      BY <2>1, <2>2 DEF Punctual
  <1> QED
    BY <1>1, <1>2, <1>3, PunctualLoop DEF ThreadStep

LEMMA PunctualTick ==
    ASSUME TypeInv, Punctual, Tick
    PROVE  Punctual'
  <1> USE BoundsAssumption, ResolutionAssumption
  <1> SUFFICES ASSUME NEW t \in Threads \ cut, Current(t)'
               PROVE  /\ tpc'[t] \in {"loop", "callback"} => lead'[t] <= Resolution + 1
                      /\ tpc'[t] = "select" => lead'[t] <= wait'[t] + Resolution + 1
    BY DEF Punctual, Tick, signals
  <1>1. UNCHANGED <<procId, tpc, id>>
    BY DEF Tick, statics
  <1>2. Current(t) /\ Alive(t)
    BY <1>1 DEF Current, Alive
  <1>3. lead'[t] = lead[t] - 1 /\ wait'[t] = IF wait[t] > 0 THEN wait[t] - 1 ELSE 0
    BY <1>2 DEF Tick
  <1>4. lead[t] \in Int /\ wait[t] \in Nat
    BY DEF TypeInv, TypeOK
  <1> QED
    BY <1>1, <1>2, <1>3, <1>4 DEF Punctual

\* No thread goes on when the base is set anew; one that starts has a whole
\* resolution before it.
LEMMA PunctualStart ==
    ASSUME TypeInv, Safe, ~Overlap, Punctual,
           StartAgain \/ StartClock \/ StartFails \/ (\E t \in Threads : StartThread(t)) \/ StartStep
    PROVE  Punctual'
  <1>1. CASE StartAgain \/ StartStep
    <2>1. UNCHANGED <<procId, tpc, id, lead, wait, signals>>
      BY <1>1 DEF StartAgain, StartCall, StartStep, SetCreated, SetStarted, thread, signals
    <2> QED
      BY <2>1, PunctualKept DEF Current, Alive
  <1>2. CASE StartClock \/ StartFails
    <2>1. StartCall /\ ~started /\ UNCHANGED <<procId, tpc, id, cut, struck>>
      BY <1>2 DEF StartClock, StartFails, StartCall, signals
    <2>2. \A t \in Threads : ~Current(t)'
      BY <2>1, StartsAlone DEF NoneCurrent, Current, Alive
    <2> QED
      BY <2>1, <2>2 DEF Punctual
  <1>3. ASSUME NEW t \in Threads, StartThread(t) PROVE Punctual'
    <2>1. /\ StartCall /\ ~started /\ SetTimeOffset(t) /\ UNCHANGED <<procId, cut, struck>>
          /\ tpc' = [tpc EXCEPT ![t] = "loop"] /\ id' = [id EXCEPT ![t] = procId]
      BY <1>3 DEF StartThread, StartCall, signals
    <2>2. lead'[t] = Resolution /\ tpc'[t] = "loop"
      BY <2>1 DEF SetTimeOffset, TypeInv, TypeOK
    <2>3. \A u \in Threads \ {t} : ~Current(u)'
      BY <2>1, StartsAlone DEF NoneCurrent, Current, Alive, TypeInv, TypeOK
    <2> QED
      BY <2>1, <2>2, <2>3, ResolutionAssumption DEF Punctual
  <1> QED
    BY <1>1, <1>2, <1>3

LEMMA PunctualStop ==
    ASSUME TypeInv, Safe, Punctual,
           \/ AppStops
           \/ \E t \in Threads : CallbackCallsStop(t)
           \/ \E c \in Caller : StopStep(c)
    PROVE  Punctual'
  <1>1. ASSUME NEW c \in Caller, StopStore(c) PROVE Punctual'
    <2>1. UNCHANGED <<tpc, id, lead, wait, signals>> /\ cpc[c] = "store" /\ procId' = reg[c] + 1
      BY <1>1 DEF StopStore, thread, signals
    <2>2. ASSUME NEW t \in Threads, Alive(t) PROVE id[t] # procId'
      <3>1. id[t] <= reg[c] /\ id[t] \in Nat /\ reg[c] \in Nat
        BY <2>1, <2>2, BoundsAssumption DEF Safe, Numbers, TypeInv, TypeOK
      <3> QED
        BY <2>1, <3>1
    <2> QED
      BY <2>1, <2>2 DEF Punctual, Current, Alive, signals
  <1>2. CASE \/ AppStops
             \/ \E t \in Threads : CallbackCallsStop(t)
             \/ \E c \in Caller : StopTest(c) \/ StopJoin(c) \/ StopReturn(c)
    <2>1. UNCHANGED <<procId, tpc, id, lead, wait, signals>>
      BY <1>2 DEF AppStops, CallbackCallsStop, StopCall, StopTest, StopJoin, StopReturn, statics, thread, signals
    <2> QED
      BY <2>1, PunctualKept DEF Current, Alive
  <1> QED
    BY <1>1, <1>2 DEF StopStep

LEMMA PunctualNext ==
    ASSUME TimerInv, PunctualInv, [Next]_vars
    PROVE  PunctualInv'
  <1> SUFFICES ASSUME ~Overlap, Resolution + 1 < SelectLimit PROVE Punctual'
    BY DEF PunctualInv
  <1>1. TypeInv /\ Safe /\ Punctual
    BY DEF TimerInv, PunctualInv
  <1>2. CASE UNCHANGED vars
    BY <1>1, <1>2, PunctualKept DEF vars, statics, thread, Current, Alive, signals
  <1>3. CASE Next
    BY <1>1, <1>3, PunctualThread, PunctualTick, PunctualStart, PunctualStop DEF Next
  <1> QED
    BY <1>2, <1>3

-----------------------------------------------------------------------------
(***************************************************************************)
(* The results.                                                            *)
(***************************************************************************)
LEMMA TimerInvInit == Init => TimerInv
  BY TypeInit, SafeInit DEF TimerInv

LEMMA TimerInvNext == TimerInv /\ [Next]_vars => TimerInv'
  <1>1. TypeInv /\ [Next]_vars => TypeInv'
    BY TypeNext
  <1>2. TypeInv /\ Safe /\ ~Overlap /\ [Next]_vars => Safe'
    BY SafeNext
  <1> QED
    BY <1>1, <1>2 DEF TimerInv

\* The inductive invariant of the timer.
THEOREM TimerCorrect == Spec => []TimerInv
  BY TimerInvInit, TimerInvNext, PTL DEF Spec

\* The type of the state, above all the bounds of what select is given and of
\* a thread's distance to its next callback.
THEOREM TimerTypeCorrect == Spec => []TypeOK
  <1>1. TimerInv => TypeOK
    BY DEF TimerInv, TypeInv
  <1> QED
    BY <1>1, TimerCorrect, PTL

\* At most one timer thread goes on calling back.
THEOREM TimerOne == Spec => []OneTimer
  <1>1. TimerInv => OneTimer
    BY DEF TimerInv, Safe, Single, OneTimer
  <1> QED
    BY <1>1, TimerCorrect, PTL

\* After Pt_Stop no thread calls back but the one whose callback called it.
THEOREM TimerStops == Spec => []StoppedMeansStopped
  <1>1. TimerInv => StoppedMeansStopped
    BY DEF TimerInv, Safe, Silent, StoppedMeansStopped
  <1> QED
    BY <1>1, TimerCorrect, PTL

\* A callback whose select was not cut short comes at most 1 ms before its multiple of
\* the resolution, whatever callbacks before it signals have hastened, and select
\* refuses no delay unless they did.
THEOREM TimerNotEarly == Spec => []NotEarly
  <1>1. Init => PunctualInv
    BY DEF Init, PunctualInv, Punctual, Current, Alive
  <1>2. TimerInv /\ PunctualInv /\ [Next]_vars => PunctualInv'
    BY PunctualNext
  <1>3. PunctualInv => NotEarly
    BY DEF PunctualInv, Punctual, NotEarly
  <1> QED
    BY <1>1, <1>2, <1>3, TimerCorrect, PTL DEF Spec

\* Pt_Time's base is set only when no thread computes with it.
THEOREM TimerBaseSteady == Spec => TimeBaseSteady
  <1>1. ASSUME TimerInv, ~Overlap, (\E t \in Threads : StartThread(t)) \/ StartClock \/ StartFails
        PROVE  \A t \in Threads : ~Current(t)
    <2>1. StartCall /\ ~started
      BY <1>1 DEF StartThread, StartClock, StartFails
    <2> QED
      BY <1>1, <2>1, StartsAlone DEF TimerInv, NoneCurrent
  <1>2. TimerInv /\ [Next]_vars =>
          [~Overlap /\ ((\E t \in Threads : StartThread(t)) \/ StartClock \/ StartFails)
             => \A t \in Threads : ~Current(t)]_vars
    BY <1>1
  <1> QED
    BY <1>2, TimerCorrect, PTL DEF Spec, TimeBaseSteady
=============================================================================
