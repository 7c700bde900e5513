---------------------------- MODULE SndioProofs -----------------------------
(***************************************************************************)
(* Proofs about the sndio driver.  Opening and closing are safe, for every *)
(* number of devices and streams (module SndioDevice); input_thread        *)
(* recognises every message of a well-formed stream, whatever was          *)
(* abandoned and wherever real-time bytes come, and no byte of a sysex     *)
(* message is left over between two messages, for every size of            *)
(* sysex_data, every set of messages and every queue (module SndioInput);  *)
(* and what Pm_Read returns is whole sysex messages, or ones cut short     *)
(* where it says so, from input_thread and from any driver like it         *)
(* (modules PmInput, PmInputProps and PmInputDriver).                      *)
(***************************************************************************)
EXTENDS SndioDevice, SndioInput, PmInputDriver, SequenceTheorems, TLAPS

-----------------------------------------------------------------------------
(***************************************************************************)
(* Opening and closing: types.                                             *)
(***************************************************************************)
LEMMA ZeroIsADevice == 0 \in Device /\ 0 \in 0 .. MaxDevices /\ Device \subseteq 0 .. MaxDevices
  BY MaxDevicesAssumption DEF Device

LEMMA NoneType ==
    /\ NoCall \in [op : {"none", "open", "close", "terminate"}, s : Streams \cup {0},
                   d : 0 .. MaxDevices, want : SUBSET Direction, limit : 0 .. MaxDevices]
    /\ NoStream \in [status : {"none", "open", "freed", "leaked"},
                     dev : Device, dir : Direction, set : BOOLEAN]
  BY ZeroIsADevice DEF NoCall, NoStream, Direction, MIO_IN

LEMMA TypeInit == Init => TypeOK
<1> SUFFICES ASSUME Init PROVE TypeOK
  OBVIOUS
<1>1. DevsType
  BY MaxDevicesAssumption DEF Init, DevsType
<1>2. LibraryType
  BY NoneType, ZeroIsADevice DEF Init, LibraryType
<1>3. ApplicationType
  BY NoneType DEF Init, ApplicationType
<1>4. ThreadsType
  BY DEF Init, ThreadsType
<1> QED
  BY <1>1, <1>2, <1>3, <1>4 DEF TypeOK

\* A group of variables that does not change keeps its types.
LEMMA TypeFrame ==
    /\ DevsType /\ UNCHANGED devs => DevsType'
    /\ LibraryType /\ UNCHANGED library => LibraryType'
    /\ ApplicationType /\ UNCHANGED application => ApplicationType'
    /\ ThreadsType /\ UNCHANGED <<tpc, crashed, trouble>> => ThreadsType'
<1>1. DevsType /\ UNCHANGED devs => DevsType'
  BY DEF DevsType, devs
<1>2. LibraryType /\ UNCHANGED library => LibraryType'
  BY DEF LibraryType, library
<1>3. ApplicationType /\ UNCHANGED application => ApplicationType'
  BY DEF ApplicationType, application
<1>4. ThreadsType /\ UNCHANGED <<tpc, crashed, trouble>> => ThreadsType'
  BY DEF ThreadsType
<1> QED
  BY <1>1, <1>2, <1>3, <1>4

\* The client's steps, one group of variables after the other.
LEMMA ApplicationStep ==
    ASSUME TypeOK, CallInv, ClientCall \/ ClientStep
    PROVE  ApplicationType'
<1>0. DevsType /\ LibraryType /\ ApplicationType
  BY DEF TypeOK
<1>1. CASE Initialize
  BY <1>1, NoneType DEF ApplicationType, Initialize, Returns
<1>8. CASE TerminateCall
  <2>1. PICK n \in Counts : client' = [NoCall EXCEPT !.op = "terminate", !.limit = n]
    BY <1>8 DEF TerminateCall
  <2>2. n \in 0 .. MaxDevices
    BY CountsAssumption, MaxDevicesAssumption
  <2> QED
    BY <1>8, <2>1, <2>2, NoneType DEF ApplicationType, TerminateCall
<1>2. ASSUME NEW s \in Streams, NEW d \in Used, NEW dir \in Direction,
             OpenEarly(s, d, dir) \/ OpenStart(s, d, dir)
      PROVE  ApplicationType'
  BY <1>0, <1>2, NoneType, UsedAssumption, ZeroIsADevice
     DEF ApplicationType, DevsType, OpenEarly, OpenStart, Returns, SetMode, Device
<1>3. ASSUME NEW s \in Streams, CloseStart(s) \/ CloseSkip(s) \/ CloseCrash(s)
      PROVE  ApplicationType'
  <2>1. CASE CloseStart(s)
    <3>1. /\ stream[s].dev \in Device /\ stream[s].dir \in Direction
          /\ mode[stream[s].dev] \ {stream[s].dir} \subseteq Direction
      BY <1>0 DEF LibraryType, DevsType
    <3> QED
      BY <1>0, <2>1, <3>1, ZeroIsADevice DEF ApplicationType, CloseStart, SetMode
  <2>2. CASE CloseSkip(s)
    BY <1>0, <2>2, NoneType DEF ApplicationType, CloseSkip, Returns
  <2>3. CASE CloseCrash(s)
    BY <1>0, <2>3 DEF ApplicationType, CloseCrash, application
  <2> QED
    BY <1>3, <2>1, <2>2, <2>3
<1>4. CASE TerminateSkip \/ TerminateReturns \/ TerminateDevice
  BY <1>0, <1>4, NoneType, MaxDevicesAssumption DEF ApplicationType, TerminateSkip, TerminateReturns, TerminateDevice,
     NextDevice, Returns, SetMode
<1>5. CASE DeviceTerminated
  <2>1. client.d \in Device
    BY <1>5 DEF DeviceTerminated, After, CallInv
  <2> QED
    BY <1>0, <1>5, <2>1, MaxDevicesAssumption DEF ApplicationType, DeviceTerminated, NextDevice, Device
<1>6. CASE ModeClose \/ ModeZero \/ ModeNotOpened \/ ModeOpened \/ ModeOpenFails \/ ModeSet
  BY <1>0, <1>6 DEF ApplicationType, ModeClose, ModeZero, ModeNotOpened, ModeOpened, ModeOpenFails, ModeSet
<1>7. CASE OpenFails \/ OutOpened \/ InOpened \/ InOpenedWithoutThread \/ OutClosed \/ InClosed
  BY <1>7, NoneType DEF ApplicationType, OpenFails, OutOpened, InOpened, InOpenedWithoutThread,
     OpenSucceeds, OutClosed, InClosed, Returns
<1> QED
  BY <1>1, <1>2, <1>3, <1>4, <1>5, <1>6, <1>7, <1>8 DEF ClientCall, ClientStep

LEMMA DevsStep ==
    ASSUME TypeOK, CallInv, HandleInv, ClientCall \/ ClientStep
    PROVE  DevsType'
<1>0. DevsType /\ LibraryType /\ ApplicationType
  BY DEF TypeOK
<1>1. CASE ClientCall
  <2>1. UNCHANGED devs
    BY <1>1 DEF ClientCall, Initialize, TerminateCall, OpenEarly, OpenStart, OpenCall,
       CloseStart, CloseSkip, CloseCrash, CloseCall
  <2> QED
    BY <1>0, <2>1, TypeFrame
<1>2. CASE ModeClose
  <2>1. client.d \in Device
    BY <1>2 DEF ModeClose, CallInv
  <2>2. mode[client.d] # {} => handles[client.d] = 1
    BY <1>2, <2>1 DEF ModeClose, HandleInv, HandleOf, Switching, Busy
  <2> QED
    BY <1>0, <1>2, <2>1, <2>2 DEF DevsType, ModeClose
<1>3. CASE ModeOpened
  <2>1. client.d \in Device
    BY <1>3 DEF ModeOpened, CallInv
  <2>2. handles[client.d] = 0
    BY <1>3, <2>1 DEF ModeOpened, HandleInv, HandleOf, Switching, Busy
  <2> QED
    BY <1>0, <1>3, <2>1, <2>2 DEF DevsType, ModeOpened
<1>4. CASE ModeZero \/ ModeOpenFails \/ ModeSet
  BY <1>0, <1>4 DEF DevsType, ApplicationType, ModeZero, ModeOpenFails, ModeSet
<1>5. CASE ModeNotOpened \/ TerminateSkip \/ TerminateDevice \/ TerminateReturns \/ OpenFails \/ OutOpened
           \/ InOpenedWithoutThread \/ OutClosed
  <2>1. UNCHANGED devs
    BY <1>5 DEF ModeNotOpened, TerminateSkip, TerminateDevice, TerminateReturns, OpenFails, OutOpened,
       InOpenedWithoutThread, OpenSucceeds, OutClosed, devs
  <2> QED
    BY <1>0, <2>1, TypeFrame
<1>6. CASE InOpened
  BY <1>0, <1>6 DEF DevsType, ApplicationType, InOpened, OpenSucceeds
<1>7. CASE InClosed \/ DeviceTerminated
  BY <1>0, <1>7 DEF DevsType, InClosed, DeviceTerminated, Joined, devs
<1> QED
  BY <1>1, <1>2, <1>3, <1>4, <1>5, <1>6, <1>7 DEF ClientStep

LEMMA LibraryStep ==
    ASSUME TypeOK, CallInv, ClientCall \/ ClientStep
    PROVE  LibraryType'
<1>0. DevsType /\ LibraryType /\ ApplicationType
  BY DEF TypeOK
<1> DEFINE Record == [status : {"none", "open", "freed", "leaked"},
                      dev : Device, dir : Direction, set : BOOLEAN]
<1>1. CASE Initialize
  BY <1>0, <1>1, CountsAssumption, MaxDevicesAssumption DEF LibraryType, Initialize
<1>2. ASSUME NEW s \in Streams, NEW d \in Used, NEW dir \in Direction,
             OpenEarly(s, d, dir) \/ OpenStart(s, d, dir)
      PROVE  LibraryType'
  <2>1. d \in Device
    BY UsedAssumption DEF Device
  <2>2. [status |-> "open", dev |-> d, dir |-> dir, set |-> FALSE] \in Record
    BY <2>1
  <2>3. ASSUME NEW r \in Record, stream' = [stream EXCEPT ![s] = r]
        PROVE  stream' \in [Streams -> Record]
    BY <1>0, <2>3 DEF LibraryType
  <2>4. stream' \in [Streams -> Record]
    BY <1>2, <2>2, <2>3 DEF OpenEarly, OpenStart
  <2>5. opened' \in [Device -> SUBSET Direction] /\ found' = found
    BY <1>0, <1>2, <2>1 DEF LibraryType, OpenEarly, OpenStart, OpenCall
  <2> QED
    BY <1>0, <2>4, <2>5 DEF LibraryType
<1>3. ASSUME NEW s \in Streams, NEW status \in {"freed", "leaked"}
      PROVE  Release(s, status) \in Record
  BY <1>0, NoneType DEF LibraryType, Release
<1>4. ASSUME NEW s \in Streams, Free(s), found' = found
      PROVE  LibraryType'
  BY <1>0, <1>3, <1>4 DEF LibraryType, Free
<1>5. ASSUME NEW s \in Streams, CloseSkip(s)
      PROVE  LibraryType'
  BY <1>4, <1>5 DEF CloseSkip, CloseCall
<1>6. CASE OutClosed \/ InClosed
  <2>1. client.s \in Streams
    BY <1>6 DEF OutClosed, InClosed, After, CallInv
  <2> QED
    BY <1>4, <1>6, <2>1 DEF OutClosed, InClosed
<1>7. CASE TerminateReturns
  BY <1>0, <1>3, <1>7, ZeroIsADevice DEF LibraryType, TerminateReturns
<1>8. CASE OpenFails
  <2>1. client.s \in Streams
    BY <1>8 DEF OpenFails, After, CallInv
  <2> QED
    BY <1>0, <1>3, <1>8, <2>1 DEF LibraryType, OpenFails
<1>9. CASE OutOpened \/ InOpened \/ InOpenedWithoutThread
  <2>1. PICK dir \in Direction : OpenSucceeds(dir)
    BY <1>9 DEF OutOpened, InOpened, InOpenedWithoutThread, Direction
  <2>2. client.s \in Streams /\ client.d \in Device
    BY <2>1 DEF OpenSucceeds, After, CallInv
  <2>3. stream' = [stream EXCEPT ![client.s] = [@ EXCEPT !.set = TRUE]]
    BY <2>1 DEF OpenSucceeds
  <2>4. [stream[client.s] EXCEPT !.set = TRUE] \in Record
    BY <1>0, <2>2 DEF LibraryType
  <2>5. stream' \in [Streams -> Record]
    BY <1>0, <2>2, <2>3, <2>4 DEF LibraryType
  <2>6. opened' \in [Device -> SUBSET Direction] /\ found' = found
    BY <1>0, <2>1, <2>2 DEF LibraryType, OpenSucceeds
  <2> QED
    BY <1>0, <2>5, <2>6 DEF LibraryType
<1>10. CASE TerminateCall \/ \E s \in Streams : CloseStart(s) \/ CloseCrash(s)
  <2>1. UNCHANGED library
    BY <1>10 DEF TerminateCall, CloseStart, CloseCrash, CloseCall, library
  <2> QED
    BY <1>0, <2>1, TypeFrame
<1>11. CASE TerminateSkip \/ TerminateDevice \/ DeviceTerminated \/ ModeClose \/ ModeZero
            \/ ModeNotOpened \/ ModeOpened \/ ModeOpenFails \/ ModeSet
  <2>1. UNCHANGED library
    BY <1>11 DEF TerminateSkip, TerminateDevice, DeviceTerminated, ModeClose, ModeZero,
       ModeNotOpened, ModeOpened, ModeOpenFails, ModeSet
  <2> QED
    BY <1>0, <2>1, TypeFrame
<1> QED
  BY <1>1, <1>2, <1>5, <1>6, <1>7, <1>8, <1>9, <1>10, <1>11 DEF ClientCall, ClientStep

\* What lasts of the trouble of the devices does not change.
SameTrouble ==
    \A d \in Device : \A w \in {"failed", "abandoned"} : w \in trouble'[d] <=> w \in trouble[d]

LEMMA DisturbedEffect ==
    ASSUME ThreadsType, NEW d, NEW dir, Disturbed(d, dir)
    PROVE  /\ trouble' \in [Device -> SUBSET {"disturbed", "failed", "abandoned"}]
           /\ SameTrouble
  BY DEF ThreadsType, Disturbed, Trouble, SameTrouble

LEMMA ThreadsStep ==
    ASSUME TypeOK, CallInv, ClientCall \/ ClientStep
    PROVE  ThreadsType'
<1>0. LibraryType /\ ApplicationType /\ ThreadsType
  BY DEF TypeOK
<1>1. ASSUME NEW s \in Streams, NEW d \in Used, NEW dir \in Direction,
             OpenEarly(s, d, dir) \/ OpenStart(s, d, dir)
      PROVE  ThreadsType'
  BY <1>0, <1>1 DEF ThreadsType, OpenEarly, OpenStart, OpenCall, Disturbed, Trouble
<1>2. ASSUME NEW s \in Streams, CloseStart(s) \/ CloseSkip(s) \/ CloseCrash(s)
      PROVE  ThreadsType'
  <2>1. tpc' = tpc /\ crashed' \in BOOLEAN
    BY <1>0, <1>2 DEF ThreadsType, CloseStart, CloseSkip, CloseCrash, CloseCall
  <2>2. CASE CloseStart(s)
    BY <1>0, <2>1, <2>2, DisturbedEffect DEF ThreadsType, CloseStart
  <2>3. CASE CloseSkip(s) \/ CloseCrash(s)
    BY <1>0, <2>1, <2>3 DEF ThreadsType, CloseSkip, CloseCrash
  <2> QED
    BY <1>2, <2>2, <2>3
<1>3. CASE TerminateReturns
  BY <1>0, <1>3 DEF ThreadsType, TerminateReturns
<1>4. CASE ModeOpenFails
  BY <1>0, <1>4 DEF ThreadsType, ModeOpenFails, Trouble
<1>5. CASE InOpened \/ InOpenedWithoutThread
  BY <1>0, <1>5 DEF ThreadsType, InOpened, InOpenedWithoutThread, OpenSucceeds, Trouble
<1>6. CASE InClosed \/ DeviceTerminated
  BY <1>0, <1>6 DEF ThreadsType, InClosed, DeviceTerminated, Joined
<1>7. CASE Initialize \/ TerminateCall \/ TerminateSkip \/ TerminateDevice \/ ModeClose \/ ModeZero
           \/ ModeNotOpened \/ ModeOpened \/ ModeSet \/ OpenFails \/ OutOpened \/ OutClosed
  <2>1. UNCHANGED <<tpc, crashed, trouble>>
    BY <1>7 DEF Initialize, TerminateCall, TerminateSkip, TerminateDevice, ModeClose, ModeZero,
       ModeNotOpened, ModeOpened, ModeSet, OpenFails, OutOpened, OpenSucceeds, OutClosed
  <2> QED
    BY <1>0, <2>1, TypeFrame
<1> QED
  BY <1>1, <1>2, <1>3, <1>4, <1>5, <1>6, <1>7 DEF ClientCall, ClientStep

\* What a step of input_thread can do: move on, never back to life, and
\* disturb its device or crash.
LEMMA ThreadStepEffect ==
    ASSUME TypeOK, NEW s \in Streams, ThreadStep(s)
    PROVE  /\ UNCHANGED <<devs, library, application>>
           /\ ThreadsType'
           /\ \A t \in Streams : Live(t)' => Live(t)
           /\ SameTrouble
<1>0. LibraryType /\ ThreadsType
  BY DEF TypeOK
<1>1. ASSUME NEW pc \in {"test", "more", "pollfd", "poll", "revents", "read", "deliver", "exited"},
             Live(s), ThreadGoesOn(s, pc)
      PROVE  /\ UNCHANGED <<devs, library, application, trouble>>
             /\ ThreadsType'
             /\ \A t \in Streams : Live(t)' => Live(t)
  BY <1>0, <1>1 DEF ThreadGoesOn, ThreadsType, Live
<1>2. CASE PollFails(s)
  <2>1. Dev(s) \in Device
    BY <1>0 DEF LibraryType, Dev
  <2> QED
    BY <1>0, <1>2, <2>1 DEF PollFails, Trouble, ThreadsType, Live, SameTrouble
<1>3. CASE ThreadCrash(s)
  BY <1>0, <1>3 DEF ThreadCrash, ThreadsType, Live, SameTrouble
<1>4. CASE TestEnds(s) \/ TestGoesOn(s) \/ PollFd(s) \/ PollReturns(s) \/ PollInterrupted(s)
           \/ Revents(s) \/ MioRead(s) \/ Deliver(s)
  <2>1. Live(s)
    BY <1>4 DEF Live, TestEnds, TestGoesOn, PollFd, PollReturns, PollInterrupted, Revents, MioRead, Deliver
  <2>2. PICK pc \in {"test", "more", "pollfd", "poll", "revents", "read", "deliver", "exited"} :
            ThreadGoesOn(s, pc)
    BY <1>4 DEF TestEnds, TestGoesOn, PollFd, PollReturns, PollInterrupted, Revents, MioRead, Deliver
  <2> QED
    BY <1>1, <2>1, <2>2 DEF SameTrouble
<1> QED
  BY <1>2, <1>3, <1>4 DEF ThreadStep

\* A thread adds to the trouble of its device.
LEMMA ThreadStepTrouble ==
    ASSUME TypeOK, NEW s \in Streams, ThreadStep(s)
    PROVE  \A d \in Device : trouble[d] \subseteq trouble'[d]
BY DEF TypeOK, ThreadsType, ThreadStep, TestEnds, TestGoesOn, PollFd, PollReturns, PollInterrupted, PollFails,
   Revents, MioRead, Deliver, ThreadCrash, ThreadGoesOn, Trouble

LEMMA TypeStep ==
    ASSUME TypeOK, CallInv, HandleInv, [Next]_vars
    PROVE  TypeOK'
<1>1. CASE ClientCall \/ ClientStep
  BY <1>1, DevsStep, LibraryStep, ApplicationStep, ThreadsStep DEF TypeOK
<1>2. ASSUME NEW s \in Streams, ThreadStep(s)
      PROVE  TypeOK'
  BY <1>2, ThreadStepEffect, TypeFrame DEF TypeOK
<1>3. CASE UNCHANGED vars
  BY <1>3, TypeFrame DEF vars, TypeOK
<1> QED
  BY <1>1, <1>2, <1>3 DEF Next

-----------------------------------------------------------------------------
(***************************************************************************)
(* The handle.                                                             *)
(***************************************************************************)
LEMMA HandleStep ==
    ASSUME TypeOK, CallInv, HandleInv, [Next]_vars
    PROVE  HandleInv'
<1>0. DevsType /\ ApplicationType
  BY DEF TypeOK
<1>1. ASSUME UNCHANGED <<mode, hdl, handles>>,
             cpc \notin {"zero", "open", "set"}, cpc' \notin {"zero", "open", "set"}
      PROVE  HandleInv'
  BY <1>1 DEF HandleInv, HandleOf, Switching
<1>2. ASSUME UNCHANGED <<devs, application>>
      PROVE  HandleInv'
  BY <1>2 DEF HandleInv, HandleOf, Switching, Busy, devs, application
<1>3. CASE ClientCall
  <2>1. UNCHANGED devs /\ cpc = "idle" /\ cpc' \notin {"zero", "open", "set"}
    <3>1. CASE Initialize \/ TerminateCall
      BY <3>1 DEF Initialize, TerminateCall, Returns
    <3>2. ASSUME NEW s \in Streams, NEW d \in Used, NEW dir \in Direction,
                 OpenEarly(s, d, dir) \/ OpenStart(s, d, dir)
          PROVE  UNCHANGED devs /\ cpc = "idle" /\ cpc' \notin {"zero", "open", "set"}
      BY <3>2 DEF OpenEarly, OpenStart, OpenCall, Returns, SetMode
    <3>3. ASSUME NEW s \in Streams, CloseStart(s) \/ CloseSkip(s) \/ CloseCrash(s)
          PROVE  UNCHANGED devs /\ cpc = "idle" /\ cpc' \notin {"zero", "open", "set"}
      BY <3>3 DEF CloseStart, CloseSkip, CloseCrash, CloseCall, Returns, SetMode, application
    <3> QED
      BY <1>3, <3>1, <3>2, <3>3 DEF ClientCall
  <2> QED
    BY <1>1, <2>1 DEF devs
<1>4. CASE TerminateSkip \/ TerminateDevice \/ TerminateReturns \/ DeviceTerminated
  BY <1>1, <1>4
     DEF TerminateSkip, TerminateDevice, TerminateReturns, DeviceTerminated, Joined, After, NextDevice,
         Returns, SetMode, devs
<1>5. CASE OpenFails \/ OutOpened \/ InOpened \/ InOpenedWithoutThread \/ OutClosed \/ InClosed
  BY <1>1, <1>5
     DEF OpenFails, OutOpened, InOpened, InOpenedWithoutThread, OpenSucceeds, OutClosed, InClosed,
         Joined, After, Returns, devs
<1>6. ASSUME ModeClose \/ ModeZero \/ ModeNotOpened \/ ModeOpened \/ ModeOpenFails \/ ModeSet,
             NEW d \in Device
      PROVE  HandleOf(d)'
  <2>1. client' = client /\ client.d \in Device
    BY <1>6 DEF ModeClose, ModeZero, ModeNotOpened, ModeOpened, ModeOpenFails, ModeSet, CallInv
  <2>2. CASE client.d # d
    <3>1. ~Switching(d) /\ ~Switching(d)'
      BY <2>1, <2>2 DEF Switching, Busy
    <3>2. mode'[d] = mode[d] /\ hdl'[d] = hdl[d] /\ handles'[d] = handles[d]
      BY <1>0, <1>6, <2>1, <2>2
         DEF DevsType, ModeClose, ModeZero, ModeNotOpened, ModeOpened, ModeOpenFails, ModeSet, devs
    <3> QED
      BY <3>1, <3>2 DEF HandleInv, HandleOf
  <2>3. CASE client.d = d
    <3>1. HandleOf(d)
      BY DEF HandleInv
    <3>2. CASE ModeClose
      BY <1>0, <2>1, <2>3, <3>1, <3>2 DEF DevsType, ModeClose, HandleOf, Switching, Busy
    <3>3. CASE ModeZero
      BY <1>0, <2>1, <2>3, <3>1, <3>3 DEF DevsType, ModeZero, HandleOf, Switching, Busy
    <3>4. CASE ModeNotOpened
      BY <1>0, <2>1, <2>3, <3>1, <3>4 DEF DevsType, ModeNotOpened, HandleOf, Switching, Busy, devs
    <3>5. CASE ModeOpened
      BY <1>0, <2>1, <2>3, <3>1, <3>5 DEF DevsType, ModeOpened, HandleOf, Switching, Busy
    <3>6. CASE ModeOpenFails
      BY <1>0, <2>1, <2>3, <3>1, <3>6 DEF DevsType, ModeOpenFails, HandleOf, Switching, Busy
    <3>7. CASE ModeSet
      BY <1>0, <2>1, <2>3, <3>1, <3>7 DEF DevsType, ModeSet, HandleOf, Switching, Busy
    <3> QED
      BY <1>6, <3>2, <3>3, <3>4, <3>5, <3>6, <3>7
  <2> QED
    BY <2>2, <2>3
<1>7. ASSUME NEW s \in Streams, ThreadStep(s)
      PROVE  HandleInv'
  BY <1>2, <1>7, ThreadStepEffect
<1>8. CASE UNCHANGED vars
  BY <1>2, <1>8 DEF vars
<1> QED
  BY <1>3, <1>4, <1>5, <1>6, <1>7, <1>8 DEF Next, ClientStep, HandleInv

-----------------------------------------------------------------------------
(***************************************************************************)
(* What the steps do to the streams.                                       *)
(***************************************************************************)
LEMMA OpenEffect ==
    ASSUME TypeOK, NEW s \in Streams, NEW d \in Used, NEW dir \in Direction,
           OpenEarly(s, d, dir) \/ OpenStart(s, d, dir)
    PROVE  /\ d \in Device /\ dir \notin opened[d]
           /\ cpc = "idle" /\ UNCHANGED devs
           /\ stream[s].status # "open" /\ ~Live(s) /\ thread[d] # s
           /\ stream'[s] = [status |-> "open", dev |-> d, dir |-> dir, set |-> FALSE]
           /\ \A t \in Streams \ {s} : stream'[t] = stream[t]
           /\ \A t \in Streams : Live(t)' <=> Live(t)
           /\ SameTrouble
<1>0. LibraryType /\ ThreadsType
  BY DEF TypeOK
<1>1. d \in Device
  BY UsedAssumption DEF Device
<1>2. dir \notin opened[d] /\ cpc = "idle" /\ UNCHANGED devs /\ Unused(s) /\ tpc' = [tpc EXCEPT ![s] = "none"]
  BY DEF OpenEarly, OpenStart, OpenCall
<1>3. stream[s].status # "open" /\ ~Live(s) /\ thread[d] # s
  BY <1>1, <1>2 DEF Unused
<1>4. \A t \in Streams : Live(t)' <=> Live(t)
  BY <1>0, <1>2, <1>3 DEF Live, ThreadsType
<1>5. ASSUME NEW r, stream' = [stream EXCEPT ![s] = r]
      PROVE  stream'[s] = r /\ \A t \in Streams \ {s} : stream'[t] = stream[t]
  BY <1>0, <1>5 DEF LibraryType
<1>6. /\ stream'[s] = [status |-> "open", dev |-> d, dir |-> dir, set |-> FALSE]
      /\ \A t \in Streams \ {s} : stream'[t] = stream[t]
  BY <1>5 DEF OpenEarly, OpenStart
<1>7. SameTrouble
  BY <1>0, DisturbedEffect DEF OpenEarly, OpenStart, SameTrouble
<1> QED
  BY <1>1, <1>2, <1>3, <1>4, <1>6, <1>7

LEMMA FreeEffect ==
    ASSUME TypeOK, NEW s \in Streams, Free(s)
    PROVE  /\ stream'[s].status # "open"
           /\ Live(s) => /\ stream'[s].dev = stream[s].dev /\ stream'[s].dir = stream[s].dir
                         /\ stream'[s].set = stream[s].set
           /\ \A t \in Streams \ {s} : stream'[t] = stream[t]
           /\ opened'[Dev(s)] = opened[Dev(s)] \ {stream[s].dir}
           /\ \A d \in Device : d # Dev(s) => opened'[d] = opened[d]
<1>0. LibraryType
  BY DEF TypeOK
<1>1. Dev(s) \in Device
  BY <1>0 DEF LibraryType, Dev
<1>2. stream' = [stream EXCEPT ![s] = Release(s, "freed")]
  BY DEF Free
<1>3. stream'[s] = Release(s, "freed") /\ \A t \in Streams \ {s} : stream'[t] = stream[t]
  BY <1>0, <1>2 DEF LibraryType
<1>4. /\ Release(s, "freed").status # "open"
      /\ Live(s) => /\ Release(s, "freed").dev = stream[s].dev /\ Release(s, "freed").dir = stream[s].dir
                    /\ Release(s, "freed").set = stream[s].set
  BY <1>0 DEF LibraryType, Release, NoStream
<1>5. /\ opened'[Dev(s)] = opened[Dev(s)] \ {stream[s].dir}
      /\ \A d \in Device : d # Dev(s) => opened'[d] = opened[d]
  BY <1>0, <1>1 DEF LibraryType, Free, Dev
<1> QED
  BY <1>3, <1>4, <1>5

-----------------------------------------------------------------------------
(***************************************************************************)
(* The calls.                                                              *)
(***************************************************************************)
LEMMA CallStep ==
    ASSUME TypeOK, CallInv, [Next]_vars
    PROVE  CallInv'
<1>0. DevsType /\ LibraryType /\ ApplicationType
  BY DEF TypeOK
<1>1. ASSUME Returns
      PROVE  CallInv'
  BY <1>1 DEF Returns, CallInv, NoCall
<1>2. CASE \/ Initialize \/ TerminateReturns
           \/ OpenFails \/ OutOpened \/ InOpened \/ InOpenedWithoutThread \/ OutClosed \/ InClosed
           \/ \E s \in Streams : CloseSkip(s)
           \/ \E s \in Streams, d \in Used, dir \in Direction : OpenEarly(s, d, dir)
  BY <1>1, <1>2 DEF Initialize, TerminateReturns, OpenFails, OutOpened, InOpened, InOpenedWithoutThread,
     OpenSucceeds, OutClosed, InClosed, CloseSkip, OpenEarly
<1>3. ASSUME NEW s \in Streams, NEW d \in Used, NEW dir \in Direction, OpenStart(s, d, dir)
      PROVE  CallInv'
  <2>1. client' = [op |-> "open", s |-> s, d |-> d, want |-> mode[d] \cup {dir}, limit |-> 0]
        /\ cpc' = "close" /\ UNCHANGED <<mode, opened>>
    BY <1>3 DEF OpenStart, OpenCall, SetMode, devs
  <2>2. /\ d \in Device /\ dir \notin opened[d] /\ ~Live(s)'
        /\ stream'[s] = [status |-> "open", dev |-> d, dir |-> dir, set |-> FALSE]
    BY <1>3, OpenEffect
  <2> QED
    BY <2>1, <2>2 DEF CallInv, CallDir
<1>4. ASSUME NEW s \in Streams, CloseStart(s)
      PROVE  CallInv'
  <2>1. client' = [op |-> "close", s |-> s, d |-> stream[s].dev, want |-> mode[stream[s].dev] \ {stream[s].dir},
                   limit |-> 0]
        /\ cpc' = "close" /\ UNCHANGED <<mode, stream>> /\ stream[s].status = "open"
    BY <1>4 DEF CloseStart, CloseCall, SetMode, devs
  <2>2. stream[s].dev \in Device
    BY <1>0 DEF LibraryType
  <2> QED
    BY <2>1, <2>2 DEF CallInv, CallDir
<1>5. CASE TerminateCall
  <2>1. cpc' = "term" /\ client'.op = "terminate" /\ client'.want = {}
    BY <1>5 DEF TerminateCall, NoCall
  <2> QED
    BY <2>1 DEF CallInv
<1>6. CASE TerminateSkip \/ DeviceTerminated
  <2>1. cpc' = "term" /\ client'.op = "terminate" /\ client'.want = client.want
    BY <1>0, <1>6 DEF TerminateSkip, DeviceTerminated, NextDevice, After, CallInv, ApplicationType
  <2>2. client.want = {}
    BY <1>6 DEF TerminateSkip, DeviceTerminated, After, CallInv
  <2> QED
    BY <2>1, <2>2 DEF CallInv
<1>7. CASE TerminateDevice
  <2>1. cpc' = "close" /\ client'.op = "terminate" /\ client'.want = {} /\ client'.d = client.d
    BY <1>7 DEF TerminateDevice, SetMode
  <2>2. client.d \in Device
    BY <1>0, <1>7, MaxDevicesAssumption DEF TerminateDevice, ApplicationType, Device
  <2> QED
    BY <2>1, <2>2 DEF CallInv
<1>8. CASE ModeClose \/ ModeZero \/ ModeNotOpened \/ ModeOpened \/ ModeOpenFails \/ ModeSet
  <2>1. /\ UNCHANGED <<client, stream, opened, tpc>>
        /\ cpc \notin {"idle", "term"} /\ cpc' \notin {"idle", "term", "close"}
        /\ cpc' = "zero" => cpc = "close" /\ mode' = mode
    BY <1>8 DEF ModeClose, ModeZero, ModeNotOpened, ModeOpened, ModeOpenFails, ModeSet, library
  <2> QED
    BY <2>1 DEF CallInv, CallDir, Live
<1>9. ASSUME UNCHANGED <<devs, library, application>>, \A t \in Streams : Live(t)' => Live(t)
      PROVE  CallInv'
  <2>1. UNCHANGED <<mode, stream, opened, cpc, client>>
    BY <1>9 DEF devs, library, application
  <2>2. \A t \in Streams : tpc[t] \in {"none", "exited"} => tpc'[t] \in {"none", "exited"}
    BY <1>9 DEF Live
  <2> QED
    BY <2>1, <2>2 DEF CallInv, CallDir, Live
<1>10. ASSUME NEW s \in Streams, ThreadStep(s)
       PROVE  CallInv'
  BY <1>9, <1>10, ThreadStepEffect
<1>11. ASSUME NEW s \in Streams, CloseCrash(s)
       PROVE  CallInv'
  BY <1>9, <1>11 DEF CloseCrash, CloseCall, library, Live
<1>12. CASE UNCHANGED vars
  BY <1>9, <1>12 DEF vars, Live
<1> QED
  BY <1>2, <1>3, <1>4, <1>5, <1>6, <1>7, <1>8, <1>10, <1>11, <1>12 DEF Next, ClientCall, ClientStep

-----------------------------------------------------------------------------
(***************************************************************************)
(* The streams.                                                            *)
(***************************************************************************)
\* What has failed or was abandoned stays so.
TroubleLasts ==
    \A d \in Device : \A w \in {"failed", "abandoned"} : w \in trouble[d] => w \in trouble'[d]

LEMMA TroubleStep ==
    ASSUME TypeOK, CallInv, [Next]_vars
    PROVE  TroubleLasts
<1>0. LibraryType /\ ApplicationType /\ ThreadsType
  BY DEF TypeOK
<1>1. ASSUME SameTrouble \/ trouble' = trouble
      PROVE  TroubleLasts
  BY <1>1 DEF SameTrouble, TroubleLasts
<1>2. ASSUME NEW s \in Streams, NEW d \in Used, NEW dir \in Direction,
             OpenEarly(s, d, dir) \/ OpenStart(s, d, dir)
      PROVE  TroubleLasts
  BY <1>1, <1>2, OpenEffect
<1>3. ASSUME NEW s \in Streams, CloseStart(s)
      PROVE  TroubleLasts
  BY <1>0, <1>1, <1>3, DisturbedEffect DEF CloseStart
<1>4. ASSUME NEW s \in Streams, CloseSkip(s) \/ CloseCrash(s)
      PROVE  TroubleLasts
  BY <1>1, <1>4 DEF CloseSkip, CloseCrash
<1>5. CASE TerminateReturns
  BY <1>0, <1>5 DEF TerminateReturns, TroubleLasts, ThreadsType
<1>6. CASE ModeOpenFails
  BY <1>0, <1>6 DEF ModeOpenFails, Trouble, TroubleLasts, ThreadsType
<1>7. CASE InOpened \/ InOpenedWithoutThread
  BY <1>0, <1>7 DEF InOpened, InOpenedWithoutThread, Trouble, TroubleLasts, ThreadsType
<1>8. CASE \/ Initialize \/ TerminateCall \/ TerminateSkip \/ TerminateDevice \/ DeviceTerminated
           \/ ModeClose \/ ModeZero \/ ModeNotOpened \/ ModeOpened \/ ModeSet
           \/ OpenFails \/ OutOpened \/ OutClosed \/ InClosed
  BY <1>1, <1>8 DEF Initialize, TerminateCall, TerminateSkip, TerminateDevice, DeviceTerminated,
     ModeClose, ModeZero, ModeNotOpened, ModeOpened, ModeSet, OpenFails, OutOpened, OutClosed, InClosed
<1>9. ASSUME NEW s \in Streams, ThreadStep(s)
      PROVE  TroubleLasts
  BY <1>1, <1>9, ThreadStepEffect
<1>10. CASE UNCHANGED vars
  BY <1>1, <1>10 DEF vars
<1> QED
  BY <1>2, <1>3, <1>4, <1>5, <1>6, <1>7, <1>8, <1>9, <1>10 DEF Next, ClientCall, ClientStep

LEMMA StreamFrame ==
    ASSUME TypeOK, StreamInv, TroubleLasts, UNCHANGED <<stream, opened>>,
           \A s \in Streams : Opening(s) => Opening(s)'
    PROVE  StreamInv'
<1>1. \A s \in Streams : Dev(s) \in Device
  BY DEF TypeOK, LibraryType, Dev
<1>2. \A d \in Device : trouble[d] \cap {"failed", "abandoned"} # {} => trouble'[d] \cap {"failed", "abandoned"} # {}
  BY DEF TroubleLasts
<1>3. \A s \in Streams : Dev(s)' = Dev(s)
  BY DEF Dev
<1> QED
  BY <1>1, <1>2, <1>3 DEF StreamInv

\* A stream that is freed takes its direction with it, and no other stream has it.
LEMMA StreamFree ==
    ASSUME TypeOK, StreamInv, TroubleLasts, NEW s \in Streams, stream[s].status = "open", Free(s),
           client.op # "open", Returns
    PROVE  StreamInv'
<1>1. \A t \in Streams : ~Opening(t) /\ ~Opening(t)'
  BY DEF Opening, Returns, NoCall
<1>2. ASSUME NEW t \in Streams, stream'[t].status = "open"
      PROVE  t # s /\ stream'[t] = stream[t] /\ Dev(t)' = Dev(t) /\ Dev(t) \in Device
  BY <1>2, FreeEffect DEF Dev, TypeOK, LibraryType
<1>3. ASSUME NEW t \in Streams, stream'[t].status = "open"
      PROVE  stream'[t].dir \in opened'[Dev(t)]
  <2>1. stream[t].dir \in opened[Dev(t)]
    BY <1>1, <1>2, <1>3 DEF StreamInv
  <2>2. Dev(t) # Dev(s) \/ stream[t].dir # stream[s].dir
    BY <1>2, <1>3 DEF StreamInv
  <2> QED
    BY <1>2, <1>3, <2>1, <2>2, FreeEffect
<1>4. ASSUME NEW t \in Streams, stream'[t].status = "open", ~stream'[t].set
      PROVE  trouble'[Dev(t)'] \cap {"failed", "abandoned"} # {}
  <2>1. trouble[Dev(t)] \cap {"failed", "abandoned"} # {}
    BY <1>1, <1>2, <1>4 DEF StreamInv
  <2> QED
    BY <1>2, <1>4, <2>1 DEF TroubleLasts
<1>5. ASSUME NEW t \in Streams, NEW u \in Streams, stream'[t].status = "open", stream'[u].status = "open",
             Dev(u)' = Dev(t)', stream'[u].dir = stream'[t].dir
      PROVE  u = t
  BY <1>2, <1>5 DEF StreamInv
<1> QED
  BY <1>2, <1>3, <1>4, <1>5 DEF StreamInv

LEMMA StreamOpen ==
    ASSUME TypeOK, CallInv, StreamInv, ModeInv, TroubleLasts,
           NEW s \in Streams, NEW d \in Used, NEW dir \in Direction,
           OpenEarly(s, d, dir) \/ OpenStart(s, d, dir)
    PROVE  StreamInv'
<1>0. LibraryType /\ DevsType /\ ThreadsType
  BY DEF TypeOK
<1>9. /\ stream'[s] = [status |-> "open", dev |-> d, dir |-> dir, set |-> FALSE]
      /\ \A t \in Streams \ {s} : stream'[t] = stream[t]
      /\ dir \notin opened[d]
  BY OpenEffect
<1>1. client.op = "none" /\ d \in Device /\ \A t \in Streams : ~Opening(t) /\ Dev(t) \in Device
  BY <1>0, OpenEffect DEF CallInv, Opening, LibraryType, Dev
<1>2. ASSUME NEW t \in Streams, t # s, stream'[t].status = "open"
      PROVE  /\ stream'[t] = stream[t] /\ Dev(t)' = Dev(t)
             /\ stream[t].dir \in opened[Dev(t)]
             /\ Dev(t) # d \/ stream[t].dir # dir
  <2>1. stream'[t] = stream[t] /\ Dev(t)' = Dev(t)
    BY <1>2, <1>9 DEF Dev
  <2>2. stream[t].dir \in opened[Dev(t)]
    BY <1>1, <1>2, <2>1 DEF StreamInv
  <2> QED
    BY <1>9, <2>1, <2>2
<1>3. \A e \in Device : opened[e] \subseteq opened'[e]
  BY <1>0 DEF LibraryType, OpenEarly, OpenStart
<1>4. \A t \in Streams : t # s => ~Opening(t)'
  BY DEF OpenEarly, OpenStart, Returns, SetMode, NoCall, Opening
<1>5. ~Opening(s)' => dir \in opened'[d] /\ trouble[d] \cap {"failed", "abandoned"} # {}
  <2>1. CASE OpenStart(s, d, dir)
    BY <2>1 DEF OpenStart, SetMode, Opening
  <2>2. CASE OpenEarly(s, d, dir)
    <3>1. mode[d] # opened[d]
      BY <2>2, OpenEffect DEF OpenEarly
    <3>2. ~Busy(d)
      BY OpenEffect DEF Busy
    <3>3. trouble[d] \cap {"failed", "abandoned"} # {}
      BY <1>1, <3>1, <3>2 DEF ModeInv, ModeOf
    <3>4. dir \in opened'[d]
      BY <1>0, <1>1, <2>2 DEF OpenEarly, LibraryType
    <3> QED
      BY <3>3, <3>4
  <2> QED
    BY <2>1, <2>2
<1>6. stream'[s].dev = d /\ stream'[s].dir = dir /\ Dev(s)' = d
  BY <1>9 DEF Dev
<1>7. ASSUME NEW t \in Streams, stream'[t].status = "open"
      PROVE  /\ ~Opening(t)' => stream'[t].dir \in opened'[Dev(t)']
             /\ ~Opening(t)' /\ ~stream'[t].set => trouble'[Dev(t)'] \cap {"failed", "abandoned"} # {}
  <2>1. CASE t = s
    BY <1>1, <1>5, <1>6, <2>1 DEF TroubleLasts
  <2>2. CASE t # s
    BY <1>1, <1>2, <1>3, <1>7, <2>2 DEF TroubleLasts, StreamInv
  <2> QED
    BY <2>1, <2>2
<1>8. ASSUME NEW t \in Streams, NEW u \in Streams, stream'[t].status = "open", stream'[u].status = "open",
             Dev(u)' = Dev(t)', stream'[u].dir = stream'[t].dir
      PROVE  u = t
  <2>1. CASE t # s /\ u # s
    BY <1>2, <1>8, <2>1 DEF StreamInv
  <2>2. CASE t = s \/ u = s
    BY <1>2, <1>6, <1>8, <2>2
  <2> QED
    BY <2>1, <2>2
<1> QED
  BY <1>7, <1>8 DEF StreamInv, Dev

\* A call that goes on with its stream: opened, and with the field set.
LEMMA SucceedsEffect ==
    ASSUME TypeOK, CallInv, NEW dir \in Direction, OpenSucceeds(dir)
    PROVE  /\ client.op = "open" /\ client.s \in Streams /\ client.d \in Device
           /\ stream[client.s].status = "open" /\ stream[client.s].dev = client.d /\ stream[client.s].dir = dir
           /\ ~Live(client.s)
           /\ stream'[client.s] = [stream[client.s] EXCEPT !.set = TRUE]
           /\ \A t \in Streams : t # client.s => stream'[t] = stream[t]
           /\ opened'[client.d] = opened[client.d] \cup {dir}
           /\ \A e \in Device : e # client.d => opened'[e] = opened[e]
<1>1. /\ client.op = "open" /\ client.s \in Streams /\ client.d \in Device
      /\ stream[client.s].status = "open" /\ stream[client.s].dev = client.d /\ stream[client.s].dir = dir
      /\ ~Live(client.s)
  BY DEF OpenSucceeds, After, CallInv
<1>2. stream' = [stream EXCEPT ![client.s] = [@ EXCEPT !.set = TRUE]]
  BY DEF OpenSucceeds
<1>3. /\ stream'[client.s] = [stream[client.s] EXCEPT !.set = TRUE]
      /\ \A t \in Streams : t # client.s => stream'[t] = stream[t]
  BY <1>1, <1>2 DEF TypeOK, LibraryType
<1>4. /\ opened'[client.d] = opened[client.d] \cup {dir}
      /\ \A e \in Device : e # client.d => opened'[e] = opened[e]
  BY <1>1 DEF OpenSucceeds, TypeOK, LibraryType
<1> QED
  BY <1>1, <1>3, <1>4

LEMMA StreamSucceeds ==
    ASSUME TypeOK, CallInv, StreamInv, TroubleLasts, NEW dir \in Direction, OpenSucceeds(dir)
    PROVE  StreamInv'
<1>1. PICK c \in Streams, e \in Device :
        /\ c = client.s /\ e = client.d
        /\ stream[c].status = "open" /\ stream[c].dev = e /\ stream[c].dir = dir
        /\ stream'[c] = [stream[c] EXCEPT !.set = TRUE]
        /\ \A t \in Streams : t # c => stream'[t] = stream[t]
        /\ opened'[e] = opened[e] \cup {dir}
        /\ \A x \in Device : x # e => opened'[x] = opened[x]
  BY SucceedsEffect
<1>2. stream'[c].dev = e /\ stream'[c].dir = dir /\ stream'[c].set = TRUE /\ stream'[c].status = "open"
  BY <1>1 DEF TypeOK, LibraryType
<1>3. \A t \in Streams : /\ stream'[t].status = stream[t].status /\ Dev(t)' = Dev(t) /\ Dev(t) \in Device
                         /\ stream'[t].dir = stream[t].dir
  BY <1>1, <1>2 DEF Dev, TypeOK, LibraryType
<1>4. \A t \in Streams : t # c => ~Opening(t)
  BY <1>1 DEF Opening
<1>5. ASSUME NEW t \in Streams, stream'[t].status = "open"
      PROVE  stream'[t].dir \in opened'[Dev(t)']
  BY <1>1, <1>2, <1>3, <1>4, <1>5 DEF StreamInv, Dev
<1>6. ASSUME NEW t \in Streams, stream'[t].status = "open", ~stream'[t].set
      PROVE  trouble'[Dev(t)'] \cap {"failed", "abandoned"} # {}
  <2>1. t # c /\ stream'[t] = stream[t]
    BY <1>1, <1>2, <1>6
  <2>2. trouble[Dev(t)] \cap {"failed", "abandoned"} # {}
    BY <1>4, <1>6, <2>1 DEF StreamInv
  <2> QED
    BY <1>3, <2>2 DEF TroubleLasts
<1>7. ASSUME NEW t \in Streams, NEW u \in Streams, stream'[t].status = "open", stream'[u].status = "open",
             Dev(u)' = Dev(t)', stream'[u].dir = stream'[t].dir
      PROVE  u = t
  BY <1>3, <1>7 DEF StreamInv
<1> QED
  BY <1>5, <1>6, <1>7 DEF StreamInv

LEMMA StreamStep ==
    ASSUME TypeOK, CallInv, StreamInv, ModeInv, [Next]_vars
    PROVE  StreamInv'
<1>0. LibraryType /\ ApplicationType
  BY DEF TypeOK
<1>1. TroubleLasts
  BY TroubleStep
<1>2. ASSUME NEW s \in Streams, NEW d \in Used, NEW dir \in Direction,
             OpenEarly(s, d, dir) \/ OpenStart(s, d, dir)
      PROVE  StreamInv'
  BY <1>1, <1>2, StreamOpen
<1>3. ASSUME NEW s \in Streams, CloseSkip(s)
      PROVE  StreamInv'
  <2>1. client.op # "open"
    BY <1>3 DEF CloseSkip, CloseCall, CallInv
  <2> QED
    BY <1>1, <1>3, <2>1, StreamFree DEF CloseSkip, CloseCall
<1>4. CASE OutClosed \/ InClosed
  <2>1. PICK c \in Streams : c = client.s /\ stream[c].status = "open" /\ client.op # "open"
    BY <1>4 DEF OutClosed, InClosed, After, CallInv
  <2>2. Free(c) /\ Returns
    BY <1>4, <2>1 DEF OutClosed, InClosed
  <2> QED
    BY <1>1, <2>1, <2>2, StreamFree
<1>5. CASE TerminateReturns
  <2>1. \A s \in Streams : stream'[s] = IF stream[s].status = "open" THEN Release(s, "leaked") ELSE stream[s]
    BY <1>5 DEF TerminateReturns
  <2>2. \A s \in Streams : Release(s, "leaked").status # "open"
    BY <1>0 DEF Release, NoStream, LibraryType
  <2> QED
    BY <2>1, <2>2 DEF StreamInv
<1>6. CASE OpenFails
  <2>1. PICK c \in Streams : c = client.s /\ ~Live(c)
    BY <1>6 DEF OpenFails, After, CallInv
  <2>2. stream' = [stream EXCEPT ![c] = NoStream] /\ opened' = opened /\ trouble' = trouble
    BY <1>6, <2>1 DEF OpenFails, Release
  <2>3. stream'[c].status # "open" /\ \A t \in Streams : t # c => stream'[t] = stream[t] /\ Dev(t)' = Dev(t)
    BY <1>0, <2>2 DEF LibraryType, NoStream, Dev
  <2>4. \A t \in Streams : t # c => ~Opening(t)
    BY <2>1 DEF Opening
  <2> QED
    BY <2>2, <2>3, <2>4 DEF StreamInv
<1>7. CASE OutOpened \/ InOpened \/ InOpenedWithoutThread
  <2>1. PICK dir \in Direction : OpenSucceeds(dir)
    BY <1>7 DEF OutOpened, InOpened, InOpenedWithoutThread, Direction
  <2> QED
    BY <1>1, <2>1, StreamSucceeds
<1>8. ASSUME UNCHANGED <<stream, opened>>, client.op # "open"
      PROVE  StreamInv'
  BY <1>1, <1>8, StreamFrame DEF Opening
<1>9. ASSUME NEW s \in Streams, CloseStart(s)
      PROVE  StreamInv'
  BY <1>8, <1>9 DEF CloseStart, CloseCall, CallInv
<1>10. CASE Initialize \/ TerminateCall \/ TerminateSkip \/ TerminateDevice \/ DeviceTerminated
  BY <1>8, <1>10 DEF Initialize, TerminateCall, TerminateSkip, TerminateDevice, DeviceTerminated, After,
     CallInv, library
<1>11. ASSUME UNCHANGED <<library, client>>
       PROVE  StreamInv'
  BY <1>1, <1>11, StreamFrame DEF Opening, library
<1>12. CASE ModeClose \/ ModeZero \/ ModeNotOpened \/ ModeOpened \/ ModeOpenFails \/ ModeSet
  BY <1>11, <1>12 DEF ModeClose, ModeZero, ModeNotOpened, ModeOpened, ModeOpenFails, ModeSet
<1>13. ASSUME NEW s \in Streams, CloseCrash(s) \/ ThreadStep(s)
       PROVE  StreamInv'
  BY <1>11, <1>13, ThreadStepEffect DEF CloseCrash, CloseCall, library, application
<1>14. CASE UNCHANGED vars
  BY <1>11, <1>14 DEF vars, application
<1> QED
  BY <1>2, <1>3, <1>4, <1>5, <1>6, <1>7, <1>9, <1>10, <1>12, <1>13, <1>14 DEF Next, ClientCall, ClientStep

-----------------------------------------------------------------------------
(***************************************************************************)
(* The threads.                                                            *)
(***************************************************************************)
\* The device of an open stream can still be served.
Sound(s) == "failed" \notin trouble[Dev(s)] /\ stream[s].status = "open"

LEMMA ThreadFrame ==
    ASSUME TypeOK, ThreadInv, TroubleLasts, NEW s \in Streams, Live(s), stream'[s] = stream[s],
           Sound(s) /\ "failed" \notin trouble'[Dev(s)] => thread'[Dev(s)] = thread[Dev(s)] /\ Served(s)'
    PROVE  ThreadOf(s)'
<1>1. Dev(s)' = Dev(s) /\ Dev(s) \in Device
  BY DEF Dev, TypeOK, LibraryType
<1>2. ThreadOf(s)
  BY DEF ThreadInv
<1>3. "failed" \notin trouble'[Dev(s)] => "failed" \notin trouble[Dev(s)]
  BY <1>1 DEF TroubleLasts
<1> QED
  BY <1>1, <1>2, <1>3 DEF ThreadOf, Sound

\* A device that no call is working on.
LEMMA ThreadQuiet ==
    ASSUME TypeOK, ThreadInv, TroubleLasts, NEW s \in Streams, Live(s), stream'[s] = stream[s],
           Sound(s) => /\ thread'[Dev(s)] = thread[Dev(s)] /\ mode'[Dev(s)] = mode[Dev(s)]
                       /\ ~Busy(Dev(s)) \/ (cpc = "after" /\ client.op # "terminate" /\ ~Closing(s))
    PROVE  ThreadOf(s)'
<1>1. Sound(s) => Served(s)'
  <2> SUFFICES ASSUME Sound(s) PROVE Served(s)'
    OBVIOUS
  <2>1. Served(s)
    BY DEF Sound, ThreadInv, ThreadOf
  <2>2. MIO_IN \in mode[Dev(s)]
    BY <2>1 DEF Served
  <2>3. Dev(s)' = Dev(s)
    BY DEF Dev
  <2> QED
    BY <2>2, <2>3 DEF Served
<1> QED
  BY <1>1, ThreadFrame

\* A stream that is freed under its thread: its device has failed.
LEMMA ThreadFreed ==
    ASSUME TypeOK, ThreadInv, TroubleLasts, NEW s \in Streams, Live(s), Free(s), ~Sound(s),
           stream[s].status = "open"
    PROVE  ThreadOf(s)'
<1>1. /\ stream'[s].dev = stream[s].dev /\ stream'[s].dir = stream[s].dir
      /\ stream'[s].set = stream[s].set
  BY FreeEffect
<1>2. Dev(s)' = Dev(s) /\ Dev(s) \in Device
  BY <1>1 DEF Dev, TypeOK, LibraryType
<1>3. "failed" \in trouble'[Dev(s)]
  BY <1>2 DEF Sound, TroubleLasts
<1> QED
  BY <1>1, <1>2, <1>3 DEF ThreadInv, ThreadOf

\* After the join the threads that are left serve other devices, or nobody.
LEMMA JoinEffect ==
    ASSUME TypeOK, ThreadInv, NEW s \in Streams, Live(s)', Joined, client.d \in Device
    PROVE  /\ Live(s)
           /\ Sound(s) => Dev(s) # client.d /\ thread'[Dev(s)] = thread[Dev(s)]
<1>0. DevsType /\ LibraryType /\ ThreadsType
  BY DEF TypeOK
<1>1. Live(s)
  BY <1>0 DEF Joined, Live, ThreadsType
<1>2. s # 0
  BY StreamsAssumption
<1>3. Sound(s) => thread[Dev(s)] = s
  BY <1>1 DEF ThreadInv, ThreadOf, Sound
<1>4. Sound(s) => Dev(s) # client.d
  BY <1>1, <1>2, <1>3 DEF Joined
<1>5. Dev(s) # client.d => thread'[Dev(s)] = thread[Dev(s)]
  BY <1>0 DEF Joined, DevsType, LibraryType, Dev
<1> QED
  BY <1>1, <1>4, <1>5

LEMMA ThreadCalls ==
    ASSUME TypeOK, CallInv, ThreadInv, TroubleLasts, ClientCall, NEW s \in Streams, Live(s)'
    PROVE  ThreadOf(s)'
<1>0. DevsType /\ LibraryType /\ ThreadsType
  BY DEF TypeOK
<1>1. ASSUME Live(s), stream'[s] = stream[s], UNCHANGED <<mode, thread>>, cpc = "idle"
      PROVE  ThreadOf(s)'
  BY <1>1, ThreadQuiet DEF Busy
<1>2. CASE Initialize \/ TerminateCall
  BY <1>1, <1>2 DEF Initialize, TerminateCall, devs, library, Live
<1>3. ASSUME NEW t \in Streams, NEW d \in Used, NEW dir \in Direction,
             OpenEarly(t, d, dir) \/ OpenStart(t, d, dir)
      PROVE  ThreadOf(s)'
  <2>1. /\ cpc = "idle" /\ UNCHANGED devs /\ ~Live(t)
        /\ \A u \in Streams \ {t} : stream'[u] = stream[u]
        /\ \A u \in Streams : Live(u)' <=> Live(u)
    BY <1>3, OpenEffect
  <2> QED
    BY <1>1, <2>1 DEF devs
<1>4. ASSUME NEW t \in Streams, CloseStart(t) \/ CloseCrash(t)
      PROVE  ThreadOf(s)'
  BY <1>1, <1>4 DEF CloseStart, CloseCrash, CloseCall, devs, Live
<1>5. ASSUME NEW t \in Streams, CloseSkip(t)
      PROVE  ThreadOf(s)'
  <2>1. /\ cpc = "idle" /\ UNCHANGED <<devs, tpc>> /\ Free(t) /\ stream[t].status = "open"
        /\ stream[t].dir \in mode[Dev(t)] => ~stream[t].set
    BY <1>5 DEF CloseSkip, CloseCall, Dev
  <2>2. Live(s)
    BY <2>1 DEF Live
  <2>3. CASE s # t
    BY <1>1, <2>1, <2>2, <2>3, FreeEffect DEF devs
  <2>4. CASE s = t
    <3>1. ~Sound(s)
      BY <2>1, <2>2, <2>4 DEF Sound, ThreadInv, ThreadOf, Served, Busy
    <3> QED
      BY <2>1, <2>2, <2>4, <3>1, ThreadFreed
  <2> QED
    BY <2>3, <2>4
<1> QED
  BY <1>2, <1>3, <1>4, <1>5 DEF ClientCall

LEMMA ThreadModes ==
    ASSUME TypeOK, CallInv, HandleInv, StreamInv, ThreadInv, TroubleLasts, NEW s \in Streams, Live(s),
           ModeClose \/ ModeZero \/ ModeNotOpened \/ ModeOpened \/ ModeOpenFails \/ ModeSet
    PROVE  ThreadOf(s)'
<1>0. DevsType /\ LibraryType /\ ThreadsType /\ ApplicationType
  BY DEF TypeOK
<1> DEFINE d == Dev(s)
<1>1. UNCHANGED <<thread, stream, opened, client>> /\ cpc \notin {"idle", "term"} /\ cpc' \notin {"idle", "term"}
  BY DEF ModeClose, ModeZero, ModeNotOpened, ModeOpened, ModeOpenFails, ModeSet, library, devs
<1>2. d \in Device /\ Dev(s)' = d
  BY <1>0, <1>1 DEF Dev, LibraryType
<1> SUFFICES ASSUME Sound(s), "failed" \notin trouble'[d] PROVE Served(s)'
  BY <1>1, ThreadFrame
<1>3. Served(s) /\ stream[s].status = "open" /\ stream[s].dir = MIO_IN
  BY DEF Sound, ThreadInv, ThreadOf
<1>4. ~Opening(s) /\ MIO_IN \in opened[d]
  BY <1>3 DEF StreamInv, CallInv, Opening
<1>5. CASE client.d # d
  <2>1. mode'[d] = mode[d]
    BY <1>0, <1>2, <1>5 DEF DevsType, ModeClose, ModeZero, ModeNotOpened, ModeOpened, ModeOpenFails, ModeSet, devs
  <2>2. MIO_IN \in mode[d]
    BY <1>3, <1>5 DEF Served, Busy
  <2> QED
    BY <1>2, <2>1, <2>2 DEF Served
<1>6. CASE client.d = d /\ (Closing(s) \/ client.op = "terminate")
  BY <1>1, <1>2, <1>6 DEF Served, Busy, Closing
<1>7. CASE client.d = d /\ ~(Closing(s) \/ client.op = "terminate")
  <2>1. HandleOf(d)
    BY <1>2 DEF HandleInv
  <2>2. CASE ModeClose
    BY <1>2, <1>3, <1>7, <2>2 DEF ModeClose, Served
  <2>3. CASE ModeZero
    <3>1. MIO_IN \in mode[d]
      BY <1>3, <1>7, <2>3 DEF ModeZero, Served
    <3>2. client.op \in {"open", "close"} /\ client.s \in Streams /\ stream[client.s].status = "open"
          /\ stream[client.s].dev = d
      BY <1>0, <1>7, <2>3 DEF ModeZero, CallInv, ApplicationType
    <3>3. client.op = "close" => CallDir # MIO_IN
      BY <1>3, <1>7, <3>2 DEF StreamInv, CallDir, Dev, Closing
    <3>4. MIO_IN \in client.want
      BY <1>7, <2>3, <3>1, <3>2, <3>3 DEF ModeZero, CallInv
    <3> QED
      BY <1>1, <1>2, <1>7, <2>3, <3>4 DEF ModeZero, Served, Busy
  <2>4. CASE ModeNotOpened
    <3>1. mode[d] = {}
      BY <1>7, <2>1, <2>4 DEF ModeNotOpened, HandleOf, Switching, Busy
    <3> QED
      BY <1>3, <1>7, <2>4, <3>1 DEF ModeNotOpened, Served
  <2>5. CASE ModeOpened
    <3>1. MIO_IN \in client.want
      BY <1>3, <1>7, <2>1, <2>5 DEF ModeOpened, HandleOf, Switching, Busy, Served
    <3>2. hdl'[d] = "open"
      BY <1>0, <1>2, <1>7, <2>5 DEF ModeOpened, DevsType
    <3> QED
      BY <1>1, <1>2, <1>7, <2>5, <3>1, <3>2 DEF ModeOpened, Served, Busy
  <2>6. CASE ModeOpenFails
    <3>1. MIO_IN \in client.want
      BY <1>3, <1>7, <2>1, <2>6 DEF ModeOpenFails, HandleOf, Switching, Busy, Served
    <3>2. "failed" \in trouble'[d]
      BY <1>0, <1>2, <1>4, <1>7, <2>6, <3>1 DEF ModeOpenFails, Trouble, ThreadsType
    <3> QED
      BY <3>2
  <2>7. CASE ModeSet
    <3>1. MIO_IN \in client.want /\ hdl[d] # "null"
      BY <1>3, <1>7, <2>1, <2>7 DEF ModeSet, HandleOf, Switching, Busy, Served
    <3>2. MIO_IN \in mode'[d]
      BY <1>0, <1>2, <1>7, <2>7, <3>1 DEF ModeSet, DevsType
    <3> QED
      BY <1>2, <3>2 DEF Served
  <2> QED
    BY <2>2, <2>3, <2>4, <2>5, <2>6, <2>7
<1> QED
  BY <1>5, <1>6, <1>7

LEMMA ThreadEnds ==
    ASSUME TypeOK, CallInv, StreamInv, ThreadInv, TroubleLasts, NEW s \in Streams, Live(s)',
           \/ TerminateSkip \/ TerminateDevice \/ TerminateReturns \/ DeviceTerminated
           \/ OpenFails \/ OutOpened \/ InOpened \/ InOpenedWithoutThread \/ OutClosed \/ InClosed
    PROVE  ThreadOf(s)'
<1>0. DevsType /\ LibraryType /\ ThreadsType
  BY DEF TypeOK
<1>1. CASE TerminateSkip \/ TerminateDevice
  <2>1. UNCHANGED <<mode, thread, stream, tpc>> /\ cpc = "term"
    BY <1>1 DEF TerminateSkip, TerminateDevice, devs, library
  <2> QED
    BY <2>1, ThreadQuiet DEF Live, Busy
<1>2. CASE TerminateReturns
  <2>1. Live(s) /\ stream'[s] = IF stream[s].status = "open" THEN Release(s, "leaked") ELSE stream[s]
    BY <1>2 DEF TerminateReturns, Live
  <2>2. /\ stream'[s].dev = stream[s].dev /\ stream'[s].dir = stream[s].dir /\ stream'[s].set = stream[s].set
        /\ stream'[s].status # "open"
        /\ stream'[s].status = "freed" => stream[s].status = "freed"
    BY <1>0, <2>1 DEF Release, LibraryType
  <2>3. Dev(s)' = Dev(s) /\ Dev(s) \in Device
    BY <1>0, <2>2 DEF Dev, LibraryType
  <2> QED
    BY <2>1, <2>2, <2>3 DEF ThreadInv, ThreadOf, TroubleLasts
<1>3. CASE DeviceTerminated
  <2>1. UNCHANGED <<stream, mode>> /\ cpc = "after" /\ client.op = "terminate" /\ client.d \in Device
    BY <1>3 DEF DeviceTerminated, After, library, devs, Joined, CallInv
  <2>2. Live(s) /\ (Sound(s) => Dev(s) # client.d /\ thread'[Dev(s)] = thread[Dev(s)])
    <3>1. CASE thread[client.d] # 0
      BY <1>3, <2>1, <3>1, JoinEffect DEF DeviceTerminated
    <3>2. CASE thread[client.d] = 0
      <4>1. UNCHANGED <<thread, tpc>> /\ Live(s)
        BY <1>3, <3>2 DEF DeviceTerminated, devs, Live
      <4>2. Sound(s) => thread[Dev(s)] = s /\ s # 0
        BY <4>1, StreamsAssumption DEF ThreadInv, ThreadOf, Sound
      <4> QED
        BY <3>2, <4>1, <4>2
    <3> QED
      BY <3>1, <3>2
  <2> QED
    BY <2>1, <2>2, ThreadQuiet DEF Busy
<1>4. CASE OpenFails
  <2>1. UNCHANGED <<mode, thread, tpc>> /\ cpc = "after" /\ client.op = "open"
    BY <1>4 DEF OpenFails, After
  <2>2. Live(s) /\ s # client.s
    BY <2>1 DEF Live, CallInv
  <2>3. stream'[s] = stream[s]
    BY <1>0, <1>4, <2>2 DEF OpenFails, LibraryType
  <2> QED
    BY <2>1, <2>2, <2>3, ThreadQuiet DEF Closing
<1>5. ASSUME NEW dir \in Direction, OpenSucceeds(dir), Live(s), s # client.s,
             Sound(s) => thread'[Dev(s)] = thread[Dev(s)]
      PROVE  ThreadOf(s)'
  <2>1. stream'[s] = stream[s]
    BY <1>5, SucceedsEffect
  <2>2. UNCHANGED mode /\ cpc = "after" /\ client.op = "open"
    BY <1>5 DEF OpenSucceeds, After
  <2> QED
    BY <1>5, <2>1, <2>2, ThreadQuiet DEF Closing
<1>6. CASE OutOpened \/ InOpenedWithoutThread
  <2>1. PICK dir \in Direction : OpenSucceeds(dir)
    BY <1>6 DEF OutOpened, InOpenedWithoutThread, Direction
  <2>2. UNCHANGED <<thread, tpc>>
    BY <1>6 DEF OutOpened, InOpenedWithoutThread
  <2>3. Live(s)
    BY <2>2 DEF Live
  <2>4. ~Live(client.s)
    BY <2>1, SucceedsEffect
  <2> QED
    BY <1>5, <2>1, <2>2, <2>3, <2>4
<1>7. CASE InOpened
  <2>0. MIO_IN \in Direction /\ OpenSucceeds(MIO_IN)
    BY <1>7 DEF InOpened, Direction
  <2>1. PICK c \in Streams, d \in Device :
          /\ c = client.s /\ d = client.d /\ client.op = "open"
          /\ stream[c].status = "open" /\ stream[c].dev = d /\ stream[c].dir = MIO_IN
          /\ stream'[c] = [stream[c] EXCEPT !.set = TRUE]
    BY <2>0, SucceedsEffect
  <2>2. thread' = [thread EXCEPT ![d] = c] /\ tpc' = [tpc EXCEPT ![c] = "test"] /\ MIO_IN \in mode[d] /\ mode' = mode
    BY <1>7, <2>1 DEF InOpened, OpenSucceeds
  <2>3. CASE s # c
    <3>1. Live(s)
      BY <1>0, <2>2, <2>3 DEF Live, ThreadsType
    <3>2. Sound(s) => Dev(s) # d
      BY <2>1, <2>3, <3>1 DEF Sound, ThreadInv, ThreadOf, StreamInv, Dev
    <3>3. Sound(s) => thread'[Dev(s)] = thread[Dev(s)]
      BY <1>0, <2>2, <3>2 DEF DevsType, LibraryType, Dev
    <3> QED
      BY <1>5, <2>0, <2>1, <2>3, <3>1, <3>3
  <2>4. CASE s = c
    <3>1. stream'[s].dev = d /\ stream'[s].dir = MIO_IN /\ stream'[s].set = TRUE /\ stream'[s].status = "open"
      BY <1>0, <2>1, <2>4 DEF LibraryType
    <3>2. Dev(s)' = d
      BY <3>1 DEF Dev
    <3>3. thread'[d] = s /\ MIO_IN \in mode'[d]
      BY <1>0, <2>2, <2>4 DEF DevsType
    <3> QED
      BY <3>1, <3>2, <3>3 DEF ThreadOf, Served
  <2> QED
    BY <2>3, <2>4
<1>8. CASE OutClosed
  <2>1. PICK c \in Streams : c = client.s /\ Free(c) /\ stream[c].dir = MIO_OUT
    BY <1>8 DEF OutClosed, After, CallInv
  <2>2. UNCHANGED <<mode, thread, tpc>> /\ cpc = "after" /\ client.op = "close"
    BY <1>8 DEF OutClosed, After, devs
  <2>3. Live(s)
    BY <2>2 DEF Live
  <2>4. s # c
    BY <2>1, <2>3 DEF ThreadInv, ThreadOf, MIO_IN, MIO_OUT
  <2>5. stream'[s] = stream[s]
    BY <2>1, <2>4, FreeEffect
  <2> QED
    BY <2>1, <2>2, <2>3, <2>4, <2>5, ThreadQuiet DEF Closing
<1>9. CASE InClosed
  <2>1. PICK c \in Streams : c = client.s /\ Free(c) /\ stream[c].status = "open" /\ stream[c].dev = client.d
    BY <1>9 DEF InClosed, After, CallInv
  <2>2. Joined /\ UNCHANGED mode /\ cpc = "after" /\ client.op = "close" /\ client.d \in Device
    BY <1>9 DEF InClosed, After, Joined, CallInv
  <2>3. Live(s) /\ (Sound(s) => Dev(s) # client.d /\ thread'[Dev(s)] = thread[Dev(s)])
    BY <2>2, JoinEffect
  <2>4. CASE s # c
    <3>1. stream'[s] = stream[s]
      BY <2>1, <2>4, FreeEffect
    <3> QED
      BY <2>1, <2>2, <2>3, <2>4, <3>1, ThreadQuiet DEF Closing
  <2>5. CASE s = c
    BY <2>1, <2>3, <2>5, ThreadFreed DEF Dev
  <2> QED
    BY <2>4, <2>5
<1> QED
  BY <1>1, <1>2, <1>3, <1>4, <1>6, <1>7, <1>8, <1>9

LEMMA ThreadInvStep ==
    ASSUME TypeOK, CallInv, HandleInv, StreamInv, ThreadInv, [Next]_vars
    PROVE  ThreadInv'
<1>1. TroubleLasts
  BY TroubleStep
<1> SUFFICES ASSUME NEW s \in Streams, Live(s)'
             PROVE  ThreadOf(s)'
  BY DEF ThreadInv
<1>2. CASE ClientCall
  BY <1>1, <1>2, ThreadCalls
<1>3. CASE ModeClose \/ ModeZero \/ ModeNotOpened \/ ModeOpened \/ ModeOpenFails \/ ModeSet
  <2>1. tpc' = tpc
    BY <1>3 DEF ModeClose, ModeZero, ModeNotOpened, ModeOpened, ModeOpenFails, ModeSet
  <2> QED
    BY <1>1, <1>3, <2>1, ThreadModes DEF Live
<1>4. CASE \/ TerminateSkip \/ TerminateDevice \/ TerminateReturns \/ DeviceTerminated
           \/ OpenFails \/ OutOpened \/ InOpened \/ InOpenedWithoutThread \/ OutClosed \/ InClosed
  BY <1>1, <1>4, ThreadEnds
<1>5. ASSUME UNCHANGED <<devs, library, application>>, Live(s)
      PROVE  ThreadOf(s)'
  <2>1. UNCHANGED <<mode, hdl, thread, stream, cpc, client>>
    BY <1>5 DEF devs, library, application
  <2>2. Served(s) => Served(s)'
    BY <2>1 DEF Served, Dev, Busy, Closing
  <2>3. Sound(s) => Served(s)
    BY <1>5 DEF Sound, ThreadInv, ThreadOf
  <2> QED
    BY <1>1, <1>5, <2>1, <2>2, <2>3, ThreadFrame
<1>6. ASSUME NEW t \in Streams, ThreadStep(t)
      PROVE  ThreadOf(s)'
  BY <1>5, <1>6, ThreadStepEffect
<1>7. CASE UNCHANGED vars
  BY <1>5, <1>7 DEF vars, Live
<1> QED
  BY <1>2, <1>3, <1>4, <1>6, <1>7 DEF Next, ClientStep

-----------------------------------------------------------------------------
(***************************************************************************)
(* The mode.                                                               *)
(***************************************************************************)
Calm(d) == trouble[d] \cap {"failed", "abandoned"} = {}

LEMMA CalmBefore ==
    ASSUME TroubleLasts, NEW d \in Device, Calm(d)'
    PROVE  Calm(d)
  BY DEF TroubleLasts, Calm

\* A device that no call is working on.
LEMMA ModeFrame ==
    ASSUME ModeInv, TroubleLasts, NEW d \in Device, mode'[d] = mode[d], opened'[d] = opened[d],
           ~Busy(d), ~Busy(d)' \/ cpc' = "close", client.op = "terminate" => client'.op = "terminate"
    PROVE  ModeOf(d)'
<1>1. Calm(d)' => mode[d] = opened[d] \/ (client.op = "terminate" /\ mode[d] = {})
  BY CalmBefore DEF ModeInv, ModeOf, Calm
<1> QED
  BY <1>1 DEF ModeOf, Calm, Busy

LEMMA ModeCalls ==
    ASSUME TypeOK, CallInv, StreamInv, ModeInv, TroubleLasts, ClientCall, NEW d \in Device
    PROVE  ModeOf(d)'
<1>0. DevsType /\ LibraryType /\ ThreadsType
  BY DEF TypeOK
<1>1. ASSUME cpc = "idle", cpc' \in {"idle", "term", "close"}, mode' = mode, opened'[d] = opened[d]
      PROVE  ModeOf(d)'
  <2>1. client.op = "none" /\ ~Busy(d) /\ (~Busy(d)' \/ cpc' = "close")
    BY <1>1 DEF CallInv, Busy
  <2> QED
    BY <1>1, <2>1, ModeFrame
<1>2. CASE Initialize \/ TerminateCall
  BY <1>1, <1>2 DEF Initialize, TerminateCall, Returns, devs, library
<1>3. ASSUME cpc = "idle", Calm(d)
      PROVE  mode[d] = opened[d]
  BY <1>3 DEF ModeInv, ModeOf, Calm, Busy, CallInv
<1>4. ASSUME NEW s \in Streams, NEW e \in Used, NEW dir \in Direction, OpenEarly(s, e, dir)
      PROVE  ModeOf(d)'
  <2>1. cpc = "idle" /\ e \in Device /\ dir \in mode[e] /\ dir \notin opened[e] /\ mode' = mode /\ cpc' = "idle"
    BY <1>4, OpenEffect DEF OpenEarly, Returns, devs
  <2>2. CASE d = e
    <3>1. ~Calm(d)
      BY <1>3, <2>1, <2>2
    <3>2. ~Calm(d)'
      BY <3>1, CalmBefore
    <3> QED
      BY <3>2 DEF ModeOf, Calm
  <2>3. CASE d # e
    <3>1. opened'[d] = opened[d]
      BY <1>0, <1>4, <2>1, <2>3 DEF OpenEarly, LibraryType
    <3> QED
      BY <1>1, <2>1, <3>1
  <2> QED
    BY <2>2, <2>3
<1>5. ASSUME NEW s \in Streams, NEW e \in Used, NEW dir \in Direction, OpenStart(s, e, dir)
      PROVE  ModeOf(d)'
  BY <1>1, <1>5 DEF OpenStart, OpenCall, SetMode, devs
<1>6. ASSUME NEW s \in Streams, CloseStart(s)
      PROVE  ModeOf(d)'
  BY <1>1, <1>6 DEF CloseStart, CloseCall, SetMode, devs
<1>7. ASSUME NEW s \in Streams, CloseSkip(s)
      PROVE  ModeOf(d)'
  <2>1. /\ cpc = "idle" /\ cpc' = "idle" /\ mode' = mode /\ Free(s)
        /\ stream[s].status = "open" /\ (stream[s].dir \in mode[Dev(s)] => ~stream[s].set)
    BY <1>7 DEF CloseSkip, CloseCall, Returns, devs, Dev
  <2>2. ~Opening(s)
    BY <2>1 DEF CallInv, Opening
  <2>3. CASE d = Dev(s)
    <3>1. stream[s].dir \in opened[d] /\ (~stream[s].set => ~Calm(d))
      BY <2>1, <2>2, <2>3 DEF StreamInv, Calm
    <3>2. ~Calm(d)
      BY <1>3, <2>1, <2>3, <3>1
    <3>3. ~Calm(d)'
      BY <3>2, CalmBefore
    <3> QED
      BY <3>3 DEF ModeOf, Calm
  <2>4. CASE d # Dev(s)
    BY <1>1, <2>1, <2>4, FreeEffect
  <2> QED
    BY <2>3, <2>4
<1>8. ASSUME NEW s \in Streams, CloseCrash(s)
      PROVE  ModeOf(d)'
  BY <1>1, <1>8 DEF CloseCrash, CloseCall, application, devs
<1> QED
  BY <1>2, <1>4, <1>5, <1>6, <1>7, <1>8 DEF ClientCall

LEMMA ModeModes ==
    ASSUME TypeOK, CallInv, HandleInv, ModeInv, TroubleLasts, NEW d \in Device,
           ModeClose \/ ModeZero \/ ModeNotOpened \/ ModeOpened \/ ModeOpenFails \/ ModeSet
    PROVE  ModeOf(d)'
<1>0. DevsType /\ LibraryType /\ ThreadsType /\ ApplicationType
  BY DEF TypeOK
<1>1. /\ UNCHANGED <<stream, opened, client>>
      /\ cpc \in {"close", "zero", "open", "set"} /\ cpc' \notin {"idle", "term", "close"}
  BY DEF ModeClose, ModeZero, ModeNotOpened, ModeOpened, ModeOpenFails, ModeSet, library
<1>2. CASE client.d # d
  <2>1. mode'[d] = mode[d]
    BY <1>0, <1>2 DEF DevsType, ModeClose, ModeZero, ModeNotOpened, ModeOpened, ModeOpenFails, ModeSet, devs
  <2> QED
    BY <1>1, <1>2, <2>1, ModeFrame DEF Busy
<1>3. CASE client.d = d
  <2> SUFFICES ASSUME Calm(d)' PROVE ModeOf(d)'
    BY DEF ModeOf, Calm
  <2>1. Calm(d) /\ ModeOf(d) /\ HandleOf(d)
    BY CalmBefore DEF ModeInv, HandleInv
  <2>2. Busy(d) /\ Busy(d)' /\ Target(d)' = Target(d) /\ client.op \in {"open", "close", "terminate"}
    BY <1>0, <1>1, <1>3 DEF Busy, Target, CallDir, CallInv, ApplicationType
  <2>3. CASE ModeClose
    BY <1>1, <2>1, <2>2, <2>3 DEF ModeClose, ModeOf, Calm
  <2>4. CASE ModeZero
    <3>1. mode[d] = opened[d] \/ client.op = "terminate"
      BY <2>1, <2>4 DEF ModeZero, ModeOf, Calm
    <3>2. client.want = Target(d)
      BY <1>3, <2>2, <2>4, <3>1 DEF ModeZero, CallInv, Target
    <3> QED
      BY <1>1, <2>2, <2>4, <3>2 DEF ModeZero, ModeOf
  <2>5. CASE ModeNotOpened
    BY <1>1, <2>1, <2>2, <2>5 DEF ModeNotOpened, ModeOf, Calm
  <2>6. CASE ModeOpened
    <3>1. hdl'[d] = "open"
      BY <1>0, <1>3, <2>6 DEF ModeOpened, DevsType
    <3> QED
      BY <1>1, <2>1, <2>2, <2>6, <3>1 DEF ModeOpened, ModeOf, Calm
  <2>7. CASE ModeOpenFails
    <3>1. client.want \cap opened[d] # {} => "failed" \in trouble'[d]
      BY <1>0, <1>3, <2>7 DEF ModeOpenFails, Trouble, ThreadsType
    <3>2. client.want \cap opened[d] = {}
      BY <3>1 DEF Calm
    <3> QED
      BY <1>1, <2>1, <2>2, <2>7, <3>2 DEF ModeOpenFails, ModeOf, Calm
  <2>8. CASE ModeSet
    <3>1. client.want = Target(d) /\ mode[d] = {} /\ (hdl[d] = "null" => client.want \cap opened[d] = {})
      BY <2>1, <2>2, <2>8 DEF ModeSet, ModeOf, HandleOf, Switching, Calm
    <3>2. mode'[d] = IF hdl[d] # "null" THEN client.want ELSE {}
      BY <1>0, <1>3, <2>8, <3>1 DEF ModeSet, DevsType
    <3>3. mode'[d] = Target(d) \/ (client.op = "open" /\ mode'[d] = opened[d])
      BY <3>1, <3>2 DEF Target
    <3> QED
      BY <1>1, <2>2, <2>8, <3>3 DEF ModeSet, ModeOf
  <2> QED
    BY <2>3, <2>4, <2>5, <2>6, <2>7, <2>8
<1> QED
  BY <1>2, <1>3

LEMMA ModeEnds ==
    ASSUME TypeOK, CallInv, ModeInv, TroubleLasts, NEW d \in Device,
           \/ TerminateSkip \/ TerminateDevice \/ TerminateReturns \/ DeviceTerminated
           \/ OpenFails \/ OutOpened \/ InOpened \/ InOpenedWithoutThread \/ OutClosed \/ InClosed
    PROVE  ModeOf(d)'
<1>0. DevsType /\ LibraryType /\ ThreadsType /\ ApplicationType
  BY DEF TypeOK
<1>1. CASE TerminateSkip \/ TerminateDevice
  <2>1. /\ UNCHANGED <<mode, opened>> /\ cpc = "term" /\ cpc' \in {"term", "close"}
        /\ client'.op = client.op
    BY <1>0, <1>1 DEF TerminateSkip, TerminateDevice, SetMode, NextDevice, ApplicationType, devs, library, CallInv
  <2> QED
    BY <2>1, ModeFrame DEF Busy
<1>2. CASE TerminateReturns
  <2>1. opened'[d] = {} /\ mode'[d] = mode[d] /\ (mode[d] # {} => "abandoned" \in trouble'[d]) /\ cpc' = "idle"
    BY <1>2 DEF TerminateReturns, Returns, devs
  <2> QED
    BY <2>1 DEF ModeOf, Busy
<1>3. ASSUME cpc = "after", cpc' \in {"idle", "term"}, mode' = mode, client.d # d, opened'[d] = opened[d],
             client.op = "terminate" => client'.op = "terminate"
      PROVE  ModeOf(d)'
  BY <1>3, ModeFrame DEF Busy
<1>4. ASSUME cpc = "after", cpc' \in {"idle", "term"}, mode' = mode, client.d = d,
             mode[d] = Target(d) \/ (client.op = "open" /\ mode[d] = opened[d])
             => mode[d] = opened'[d] \/ (client'.op = "terminate" /\ mode[d] = {})
      PROVE  ModeOf(d)'
  <2> SUFFICES ASSUME Calm(d)' PROVE ModeOf(d)'
    BY DEF ModeOf, Calm
  <2>1. mode[d] = Target(d) \/ (client.op = "open" /\ mode[d] = opened[d])
    BY <1>4, CalmBefore DEF ModeInv, ModeOf, Calm, Busy
  <2> QED
    BY <1>4, <2>1 DEF ModeOf, Busy
<1>5. CASE DeviceTerminated
  <2>1. /\ UNCHANGED <<mode, opened>> /\ cpc = "after" /\ cpc' = "term"
        /\ client.op = "terminate" /\ client'.op = "terminate"
    BY <1>0, <1>5 DEF DeviceTerminated, After, NextDevice, Joined, ApplicationType, devs, library
  <2> QED
    BY <1>3, <1>4, <2>1 DEF Target
<1>6. CASE OpenFails
  <2>1. /\ UNCHANGED <<mode, opened>> /\ cpc = "after" /\ cpc' = "idle" /\ client.op = "open"
        /\ CallDir \notin mode[client.d]
    BY <1>6 DEF OpenFails, After, Returns, CallDir
  <2> QED
    BY <1>3, <1>4, <2>1 DEF Target
<1>7. CASE OutOpened \/ InOpened \/ InOpenedWithoutThread
  <2>1. PICK dir \in Direction : OpenSucceeds(dir)
    BY <1>7 DEF OutOpened, InOpened, InOpenedWithoutThread, Direction
  <2>2. /\ mode' = mode /\ cpc = "after" /\ cpc' = "idle" /\ client.op = "open"
        /\ CallDir = dir /\ dir \in mode[client.d] /\ dir \notin opened[client.d]
    BY <2>1 DEF OpenSucceeds, After, Returns, CallDir, CallInv
  <2>3. /\ opened'[client.d] = opened[client.d] \cup {dir}
        /\ \A e \in Device : e # client.d => opened'[e] = opened[e]
    BY <2>1, SucceedsEffect
  <2> QED
    BY <1>3, <1>4, <2>2, <2>3 DEF Target
<1>8. CASE OutClosed \/ InClosed
  <2>1. PICK c \in Streams : c = client.s /\ Free(c) /\ stream[c].dev = client.d
    BY <1>8 DEF OutClosed, InClosed, After, CallInv
  <2>2. mode' = mode /\ cpc = "after" /\ cpc' = "idle" /\ client.op = "close"
    BY <1>8 DEF OutClosed, InClosed, After, Returns, Joined, devs
  <2>3. /\ opened'[client.d] = opened[client.d] \ {CallDir}
        /\ \A e \in Device : e # client.d => opened'[e] = opened[e]
    BY <2>1, FreeEffect DEF Dev, CallDir
  <2> QED
    BY <1>3, <1>4, <2>2, <2>3 DEF Target
<1> QED
  BY <1>1, <1>2, <1>5, <1>6, <1>7, <1>8

LEMMA ModeInvStep ==
    ASSUME TypeOK, CallInv, HandleInv, StreamInv, ModeInv, [Next]_vars
    PROVE  ModeInv'
<1>1. TroubleLasts
  BY TroubleStep
<1> SUFFICES ASSUME NEW d \in Device
             PROVE  ModeOf(d)'
  BY DEF ModeInv
<1>2. CASE ClientCall
  BY <1>1, <1>2, ModeCalls
<1>3. CASE ModeClose \/ ModeZero \/ ModeNotOpened \/ ModeOpened \/ ModeOpenFails \/ ModeSet
  BY <1>1, <1>3, ModeModes
<1>4. CASE \/ TerminateSkip \/ TerminateDevice \/ TerminateReturns \/ DeviceTerminated
           \/ OpenFails \/ OutOpened \/ InOpened \/ InOpenedWithoutThread \/ OutClosed \/ InClosed
  BY <1>1, <1>4, ModeEnds
<1>5. ASSUME UNCHANGED <<devs, library, application>>
      PROVE  ModeOf(d)'
  <2>1. UNCHANGED <<mode, hdl, stream, opened, cpc, client>>
    BY <1>5 DEF devs, library, application
  <2>2. Target(d)' = Target(d) /\ (Busy(d)' <=> Busy(d))
    BY <2>1 DEF Target, CallDir, Busy
  <2> QED
    BY <1>1, <2>1, <2>2, CalmBefore DEF ModeInv, ModeOf, Calm
<1>6. ASSUME NEW t \in Streams, ThreadStep(t)
      PROVE  ModeOf(d)'
  BY <1>5, <1>6, ThreadStepEffect
<1>7. CASE UNCHANGED vars
  BY <1>5, <1>7 DEF vars
<1> QED
  BY <1>2, <1>3, <1>4, <1>6, <1>7 DEF Next, ClientStep

-----------------------------------------------------------------------------
(***************************************************************************)
(* The service of the input streams.                                       *)
(***************************************************************************)
\* A call that is under way keeps its stream and its device.
LEMMA DisturbsFrame ==
    ASSUME TypeOK, CallInv, OutDisturbs, UNCHANGED <<stream, opened>>,
           client'.op \in {"open", "close"} => client' = client,
           \A d \in Device : trouble[d] \subseteq trouble'[d]
    PROVE  OutDisturbs'
<1> SUFFICES ASSUME client'.op \in {"open", "close"}, CallDir' = MIO_OUT, MIO_IN \in opened'[client'.d]
             PROVE  "disturbed" \in trouble'[client'.d]
  BY DEF OutDisturbs
<1>1. client' = client /\ CallDir = MIO_OUT /\ MIO_IN \in opened[client.d]
  BY DEF CallDir
<1>2. client.d \in Device
  BY <1>1 DEF CallInv, TypeOK, LibraryType
<1> QED
  BY <1>1, <1>2 DEF OutDisturbs

LEMMA DisturbsStep ==
    ASSUME TypeOK, CallInv, OutDisturbs, [Next]_vars
    PROVE  OutDisturbs'
<1>0. LibraryType /\ ApplicationType /\ ThreadsType
  BY DEF TypeOK
<1>1. ASSUME client'.op \notin {"open", "close"}
      PROVE  OutDisturbs'
  BY <1>1 DEF OutDisturbs
<1>2. CASE \/ Initialize \/ TerminateReturns
           \/ OpenFails \/ OutOpened \/ InOpened \/ InOpenedWithoutThread \/ OutClosed \/ InClosed
           \/ \E s \in Streams : CloseSkip(s)
           \/ \E s \in Streams, d \in Used, dir \in Direction : OpenEarly(s, d, dir)
  <2>1. Returns
    BY <1>2 DEF Initialize, TerminateReturns, OpenFails, OutOpened, InOpened, InOpenedWithoutThread,
       OpenSucceeds, OutClosed, InClosed, CloseSkip, OpenEarly
  <2> QED
    BY <1>1, <2>1 DEF Returns, NoCall
<1>3. CASE TerminateCall \/ TerminateSkip \/ TerminateDevice \/ DeviceTerminated
  <2>1. CASE TerminateCall \/ TerminateDevice
    <3>1. TerminateCall => client'.op = "terminate"
      BY DEF TerminateCall, NoCall
    <3>2. TerminateDevice => client'.op = "terminate"
      BY DEF TerminateDevice, SetMode
    <3> QED
      BY <1>1, <2>1, <3>1, <3>2
  <2>2. CASE TerminateSkip \/ DeviceTerminated
    <3>1. client.op = "terminate" /\ client' = [client EXCEPT !.d = @ + 1]
      BY <2>2 DEF TerminateSkip, DeviceTerminated, NextDevice, After, CallInv
    <3>2. client'.op = "terminate"
      BY <1>0, <3>1 DEF ApplicationType
    <3> QED
      BY <1>1, <3>2
  <2> QED
    BY <1>3, <2>1, <2>2
<1>4. ASSUME NEW d \in Device, NEW dir \in Direction, Disturbed(d, dir), client'.d = d, CallDir' = dir,
             opened' = opened
      PROVE  OutDisturbs'
  <2>1. dir = MIO_OUT /\ MIO_IN \in opened[d] => "disturbed" \in trouble'[d]
    BY <1>0, <1>4 DEF Disturbed, Trouble, ThreadsType
  <2> QED
    BY <1>4, <2>1 DEF OutDisturbs
<1>5. ASSUME NEW s \in Streams, NEW d \in Used, NEW dir \in Direction, OpenStart(s, d, dir)
      PROVE  OutDisturbs'
  <2>0. d \in Device /\ stream'[s] = [status |-> "open", dev |-> d, dir |-> dir, set |-> FALSE]
    BY <1>5, OpenEffect
  <2>1. stream'[s].dir = dir
    BY <2>0
  <2>2. client'.d = d /\ client'.s = s /\ opened' = opened /\ Disturbed(d, dir)
    BY <1>5 DEF OpenStart, SetMode
  <2> QED
    BY <1>4, <2>0, <2>1, <2>2 DEF CallDir
<1>6. ASSUME NEW s \in Streams, CloseStart(s)
      PROVE  OutDisturbs'
  <2>1. stream[s].dev \in Device /\ stream[s].dir \in Direction
    BY <1>0 DEF LibraryType
  <2>2. /\ client'.d = stream[s].dev /\ client'.s = s /\ UNCHANGED <<opened, stream>>
        /\ Disturbed(stream[s].dev, stream[s].dir)
    BY <1>6 DEF CloseStart, SetMode
  <2> QED
    BY <1>4, <2>1, <2>2 DEF CallDir
<1>7. CASE ModeClose \/ ModeZero \/ ModeNotOpened \/ ModeOpened \/ ModeOpenFails \/ ModeSet
  <2>1. UNCHANGED <<client, stream, opened>>
    BY <1>7 DEF ModeClose, ModeZero, ModeNotOpened, ModeOpened, ModeOpenFails, ModeSet, library
  <2>2. \A d \in Device : trouble[d] \subseteq trouble'[d]
    BY <1>0, <1>7 DEF ModeClose, ModeZero, ModeNotOpened, ModeOpened, ModeOpenFails, ModeSet, Trouble, ThreadsType
  <2> QED
    BY <2>1, <2>2, DisturbsFrame
<1>8. ASSUME NEW s \in Streams, ThreadStep(s)
      PROVE  OutDisturbs'
  BY <1>8, ThreadStepEffect, ThreadStepTrouble, DisturbsFrame DEF library, application
<1>9. ASSUME NEW s \in Streams, CloseCrash(s)
      PROVE  OutDisturbs'
  BY <1>9, DisturbsFrame DEF CloseCrash, CloseCall, application
<1>10. CASE UNCHANGED vars
  BY <1>10, DisturbsFrame DEF vars, library, application
<1> QED
  BY <1>2, <1>3, <1>5, <1>6, <1>7, <1>8, <1>9, <1>10 DEF Next, ClientCall, ClientStep

\* A stream that is as it was, or new.
LEMMA LiveFrame ==
    ASSUME TypeOK, LiveInv, TroubleLasts, NEW s \in Streams, Live(s), stream'[s] = stream[s]
    PROVE  Remembered(s)'
<1>1. Dev(s)' = Dev(s) /\ Dev(s) \in Device
  BY DEF Dev, TypeOK, LibraryType
<1> QED
  BY <1>1 DEF LiveInv, Remembered, TroubleLasts

LEMMA LiveStep ==
    ASSUME TypeOK, CallInv, ThreadInv, LiveInv, [Next]_vars
    PROVE  LiveInv'
<1>0. DevsType /\ LibraryType /\ ApplicationType /\ ThreadsType
  BY DEF TypeOK
<1>1. TroubleLasts
  BY TroubleStep
<1> SUFFICES ASSUME NEW s \in Streams, Live(s)'
             PROVE  Remembered(s)'
  BY DEF LiveInv
<1>2. ASSUME stream' = stream, Live(s)
      PROVE  Remembered(s)'
  BY <1>1, <1>2, LiveFrame
<1>3. ASSUME NEW c \in Streams, Live(s), stream' = [stream EXCEPT ![c] = Release(c, "freed")]
      PROVE  Remembered(s)'
  <2>1. CASE s = c
    <3>1. stream'[s].status = "freed"
      BY <1>0, <1>3, <2>1 DEF LibraryType, Release
    <3> QED
      BY <3>1 DEF Remembered
  <2>2. CASE s # c
    <3>1. stream'[s] = stream[s]
      BY <1>0, <1>3, <2>2 DEF LibraryType
    <3> QED
      BY <1>1, <1>3, <3>1, LiveFrame
  <2> QED
    BY <2>1, <2>2
<1>4. ASSUME NEW c \in Streams, NEW d \in Used, NEW dir \in Direction,
             OpenEarly(c, d, dir) \/ OpenStart(c, d, dir)
      PROVE  Remembered(s)'
  <2>1. Live(s) /\ s # c /\ stream'[s] = stream[s]
    BY <1>4, OpenEffect
  <2> QED
    BY <1>1, <2>1, LiveFrame
<1>5. ASSUME NEW c \in Streams, CloseSkip(c)
      PROVE  Remembered(s)'
  BY <1>3, <1>5 DEF CloseSkip, CloseCall, Free, Live
<1>6. CASE OpenFails \/ OutClosed \/ InClosed
  <2>1. client.s \in Streams
    BY <1>6 DEF OpenFails, OutClosed, InClosed, After, CallInv
  <2>2. Live(s)
    BY <1>0, <1>6 DEF OpenFails, OutClosed, InClosed, Joined, Live, ThreadsType
  <2> QED
    BY <1>3, <1>6, <2>1, <2>2 DEF OpenFails, OutClosed, InClosed, Free
<1>7. CASE OutOpened \/ InOpened \/ InOpenedWithoutThread
  <2>1. PICK dir \in Direction : OpenSucceeds(dir)
    BY <1>7 DEF OutOpened, InOpened, InOpenedWithoutThread, Direction
  <2>2. PICK c \in Streams :
          /\ c = client.s /\ stream[c].status = "open"
          /\ stream'[c] = [stream[c] EXCEPT !.set = TRUE]
          /\ \A t \in Streams : t # c => stream'[t] = stream[t]
    BY <2>1, SucceedsEffect
  <2>3. CASE s = c
    <3>1. stream'[s].status = "open"
      BY <1>0, <2>2, <2>3 DEF LibraryType
    <3> QED
      BY <3>1 DEF Remembered
  <2>4. CASE s # c
    <3>1. Live(s)
      BY <1>0, <1>7, <2>2, <2>4 DEF OutOpened, InOpened, InOpenedWithoutThread, Live, ThreadsType
    <3> QED
      BY <1>1, <2>2, <2>4, <3>1, LiveFrame
  <2> QED
    BY <2>3, <2>4
<1>8. CASE TerminateReturns
  <2>1. Live(s) /\ Dev(s) \in Device
    BY <1>0, <1>8 DEF TerminateReturns, Live, Dev, LibraryType
  <2>2. CASE stream[s].status # "open"
    <3>1. stream'[s] = stream[s]
      BY <1>8, <2>2 DEF TerminateReturns
    <3> QED
      BY <1>1, <2>1, <3>1, LiveFrame
  <2>3. CASE stream[s].status = "open"
    <3>1. stream'[s].status = "leaked" /\ stream'[s].dev = Dev(s)
      BY <1>0, <1>8, <2>1, <2>3 DEF TerminateReturns, Release, LibraryType, Dev
    <3>2. "failed" \notin trouble[Dev(s)] => MIO_IN \in mode[Dev(s)]
      BY <1>8, <2>1, <2>3 DEF TerminateReturns, ThreadInv, ThreadOf, Served, Busy
    <3>3. trouble'[Dev(s)] \cap {"failed", "abandoned"} # {}
      BY <1>1, <1>8, <2>1, <3>2 DEF TerminateReturns, TroubleLasts
    <3> QED
      BY <3>1, <3>3 DEF Remembered, Dev
  <2> QED
    BY <2>2, <2>3
<1>9. CASE DeviceTerminated
  BY <1>0, <1>2, <1>9 DEF DeviceTerminated, Joined, library, Live, ThreadsType
<1>10. CASE \/ Initialize \/ TerminateCall \/ TerminateSkip \/ TerminateDevice
            \/ ModeClose \/ ModeZero \/ ModeNotOpened \/ ModeOpened \/ ModeOpenFails \/ ModeSet
            \/ UNCHANGED vars
  BY <1>2, <1>10 DEF Initialize, TerminateCall, TerminateSkip, TerminateDevice, ModeClose, ModeZero, ModeNotOpened,
     ModeOpened, ModeOpenFails, ModeSet, library, vars, Live
<1>11. ASSUME NEW c \in Streams, CloseStart(c) \/ CloseCrash(c)
       PROVE  Remembered(s)'
  BY <1>2, <1>11 DEF CloseStart, CloseCrash, CloseCall, Live
<1>12. ASSUME NEW c \in Streams, ThreadStep(c)
       PROVE  Remembered(s)'
  BY <1>2, <1>12, ThreadStepEffect DEF library
<1> QED
  BY <1>4, <1>5, <1>6, <1>7, <1>8, <1>9, <1>10, <1>11, <1>12 DEF Next, ClientCall, ClientStep

\* The thread t is the one that serves the device.
Serves(t, d) == t = thread[d] /\ Live(t) /\ Dev(t) = d

\* A step that leaves the device its thread.
LEMMA AttendedFrame ==
    ASSUME NEW d \in Device, Attended(d), trouble'[d] = {} => trouble[d] = {},
           MIO_IN \in opened'[d] => MIO_IN \in opened[d], ~Ends(d)' => ~Ends(d),
           \A t \in Streams : Serves(t, d) /\ trouble'[d] = {} /\ MIO_IN \in opened'[d] /\ ~Ends(d)'
              => thread'[d] = t /\ Live(t)' /\ stream'[t].dev = stream[t].dev
    PROVE  Attended(d)'
<1>1. ASSUME trouble'[d] = {}, MIO_IN \in opened'[d], ~Ends(d)'
      PROVE  \E t \in Streams : thread'[d] = t /\ Live(t)' /\ Dev(t)' = d
  <2>1. PICK t \in Streams : Serves(t, d)
    BY <1>1 DEF Attended, Serves
  <2>2. thread'[d] = t /\ Live(t)' /\ stream'[t].dev = stream[t].dev
    BY <1>1, <2>1
  <2> QED
    BY <2>1, <2>2 DEF Dev, Serves
<1> QED
  BY <1>1 DEF Attended, Live, Dev

\* The calls and the first steps of Pm_Terminate.
LEMMA AttendedCalls ==
    ASSUME TypeOK, CallInv, StreamInv, ThreadInv, ModeInv, TroubleLasts, NEW d \in Device, Attended(d),
           ClientCall
    PROVE  Attended(d)'
<1>0. DevsType /\ LibraryType /\ ThreadsType
  BY DEF TypeOK
<1>1. cpc = "idle" /\ UNCHANGED devs
  BY OpenEffect DEF ClientCall, Initialize, TerminateCall, CloseStart, CloseSkip, CloseCrash, CloseCall
<1>2. ~Ends(d) /\ ~Busy(d)
  BY <1>1 DEF CallInv, Ends, Busy
<1>3. trouble[d] = {} => mode[d] = opened[d]
  BY <1>1, <1>2 DEF ModeInv, ModeOf, CallInv
<1>4. ASSUME UNCHANGED <<stream, opened, tpc>>, trouble[d] \subseteq trouble'[d]
      PROVE  Attended(d)'
  BY <1>1, <1>2, <1>4, AttendedFrame DEF devs, Serves, Live
<1>5. ASSUME NEW s \in Streams, NEW e \in Used, NEW dir \in Direction,
             OpenEarly(s, e, dir) \/ OpenStart(s, e, dir)
      PROVE  Attended(d)'
  <2>1. /\ e \in Device /\ dir \notin opened[e] /\ ~Live(s)
        /\ \A t \in Streams \ {s} : stream'[t] = stream[t]
        /\ \A t \in Streams : Live(t)' <=> Live(t)
    BY <1>5, OpenEffect
  <2>2. trouble[d] \subseteq trouble'[d]
    BY <1>0, <1>5 DEF OpenEarly, OpenStart, Disturbed, Trouble, ThreadsType
  <2>3. trouble[d] = {} /\ MIO_IN \in opened'[d] => MIO_IN \in opened[d]
    <3>1. CASE OpenStart(s, e, dir)
      BY <3>1 DEF OpenStart
    <3>2. CASE OpenEarly(s, e, dir)
      BY <1>0, <1>3, <2>1, <3>2 DEF OpenEarly, LibraryType
    <3> QED
      BY <1>5, <3>1, <3>2
  <2>4. \A t \in Streams : Serves(t, d) => thread'[d] = t /\ Live(t)' /\ stream'[t].dev = stream[t].dev
    BY <1>1, <2>1 DEF Serves, devs
  <2>5. CASE trouble'[d] = {}
    BY <1>2, <2>2, <2>3, <2>4, <2>5, AttendedFrame
  <2>6. CASE trouble'[d] # {}
    BY <2>6 DEF Attended
  <2> QED
    BY <2>5, <2>6
<1>6. ASSUME NEW s \in Streams, CloseSkip(s)
      PROVE  Attended(d)'
  <2>1. Free(s) /\ UNCHANGED <<tpc, trouble>>
    BY <1>6 DEF CloseSkip, CloseCall
  <2>2. \A e \in Device : opened'[e] \subseteq opened[e]
    BY <1>0, <2>1 DEF Free, LibraryType
  <2>3. ASSUME NEW t \in Streams, Serves(t, d), MIO_IN \in opened'[d]
        PROVE  t # s
    <3>1. stream[t].dir = MIO_IN /\ Dev(t) = d
      BY <2>3 DEF ThreadInv, ThreadOf, Serves
    <3> QED
      BY <2>1, <2>3, <3>1, FreeEffect
  <2>4. \A t \in Streams : t # s => stream'[t] = stream[t]
    BY <2>1, FreeEffect
  <2> QED
    BY <1>1, <1>2, <2>1, <2>2, <2>3, <2>4, AttendedFrame DEF devs, Serves, Live
<1>7. CASE Initialize \/ TerminateCall
  BY <1>4, <1>7 DEF Initialize, TerminateCall, library
<1>8. ASSUME NEW s \in Streams, CloseStart(s) \/ CloseCrash(s)
      PROVE  Attended(d)'
  <2>1. trouble[d] \subseteq trouble'[d]
    BY <1>0, <1>8 DEF CloseStart, CloseCrash, Disturbed, Trouble, ThreadsType
  <2> QED
    BY <1>4, <1>8, <2>1 DEF CloseStart, CloseCrash, CloseCall
<1> QED
  BY <1>5, <1>6, <1>7, <1>8 DEF ClientCall

\* A step that keeps the calls' locals and all that belongs to the threads.
LEMMA AttendedQuiet ==
    ASSUME NEW d \in Device, Attended(d), UNCHANGED <<thread, opened, stream, tpc>>,
           trouble[d] \subseteq trouble'[d],
           client' = client \/ (client.op = "terminate" /\ client'.op = "terminate")
    PROVE  Attended(d)'
<1>1. Ends(d)' <=> Ends(d)
  BY DEF Ends, CallDir
<1> QED
  BY <1>1, AttendedFrame DEF Serves, Live

\* The thread of an open input stream finds MIO_IN in the mode of its device,
\* while no call takes it away.
LEMMA TestHolds ==
    ASSUME TypeOK, CallInv, ModeInv, OutDisturbs, NEW d \in Device,
           trouble[d] = {}, MIO_IN \in opened[d], ~Ends(d)
    PROVE  MIO_IN \in mode[d]
<1>0. LibraryType /\ ApplicationType
  BY DEF TypeOK
<1>1. CASE Busy(d)
  <2>1. client.op \in {"open", "close"} /\ client.d = d
    BY <1>0, <1>1 DEF Busy, CallInv, Ends, ApplicationType
  <2>2. client.s \in Streams /\ CallDir \in {MIO_IN, MIO_OUT}
    BY <1>0, <2>1 DEF CallInv, CallDir, LibraryType, Direction
  <2>3. CallDir = MIO_OUT
    BY <2>1, <2>2 DEF CallInv, Ends
  <2> QED
    BY <2>1, <2>3 DEF OutDisturbs
<1>2. CASE ~Busy(d)
  BY <1>2 DEF ModeInv, ModeOf, Ends
<1> QED
  BY <1>1, <1>2

LEMMA AttendedThread ==
    ASSUME TypeOK, CallInv, ModeInv, OutDisturbs, NEW d \in Device, Attended(d),
           NEW s \in Streams, ThreadStep(s)
    PROVE  Attended(d)'
<1>0. LibraryType /\ ThreadsType
  BY DEF TypeOK
<1>1. UNCHANGED <<thread, opened, stream, client>> /\ trouble[d] \subseteq trouble'[d]
  BY ThreadStepEffect, ThreadStepTrouble DEF devs, library, application
<1>2. Ends(d)' <=> Ends(d)
  BY <1>1 DEF Ends, CallDir
<1>3. ASSUME NEW t \in Streams, Serves(t, d), trouble'[d] = {}, MIO_IN \in opened[d], ~Ends(d)
      PROVE  Live(t)'
  <2>1. CASE t # s
    BY <1>0, <1>3, <2>1
       DEF ThreadStep, TestEnds, TestGoesOn, PollFd, PollReturns, PollInterrupted, PollFails, Revents, MioRead,
           Deliver, ThreadCrash, ThreadGoesOn, Serves, Live, ThreadsType
  <2>2. CASE t = s
    <3>1. Dev(s) = d /\ ~TestEnds(s)
      BY <1>1, <1>3, <2>2, TestHolds DEF TestEnds, Serves
    <3>2. ~PollFails(s)
      BY <1>0, <1>3, <3>1 DEF PollFails, Trouble, ThreadsType
    <3>3. ASSUME NEW pc, pc \notin {"none", "exited"}, ThreadGoesOn(s, pc)
          PROVE  Live(t)'
      BY <1>0, <2>2, <3>3 DEF ThreadGoesOn, Live, ThreadsType
    <3>4. CASE ThreadCrash(s)
      BY <1>3, <3>4 DEF ThreadCrash, Live, Serves
    <3>5. CASE TestGoesOn(s) \/ PollFd(s) \/ PollReturns(s) \/ PollInterrupted(s) \/ Revents(s) \/ MioRead(s) \/ Deliver(s)
      BY <3>3, <3>5 DEF TestGoesOn, PollFd, PollReturns, PollInterrupted, Revents, MioRead, Deliver
    <3> QED
      BY <3>1, <3>2, <3>4, <3>5 DEF ThreadStep
  <2> QED
    BY <2>1, <2>2
<1> QED
  BY <1>1, <1>2, <1>3, AttendedFrame DEF Serves

LEMMA AttendedEnds ==
    ASSUME TypeOK, CallInv, ThreadInv, NEW d \in Device, Attended(d),
           \/ TerminateSkip \/ TerminateDevice \/ TerminateReturns \/ DeviceTerminated
           \/ OpenFails \/ OutOpened \/ InOpened \/ InOpenedWithoutThread \/ OutClosed \/ InClosed
    PROVE  Attended(d)'
<1>0. DevsType /\ LibraryType /\ ThreadsType /\ ApplicationType
  BY DEF TypeOK
<1>1. CASE TerminateSkip \/ TerminateDevice \/ DeviceTerminated
  <2>1. CASE TerminateDevice
    BY <2>1 DEF TerminateDevice, SetMode, Attended, Ends
  <2>2. CASE TerminateSkip \/ DeviceTerminated
    <3>1. client.op = "terminate" /\ client' = [client EXCEPT !.d = @ + 1]
      BY <2>2 DEF TerminateSkip, DeviceTerminated, NextDevice, After, CallInv
    <3>2. client'.op = "terminate"
      BY <1>0, <3>1 DEF ApplicationType
    <3> QED
      BY <3>2 DEF Attended, Ends
  <2> QED
    BY <1>1, <2>1, <2>2
<1>2. CASE TerminateReturns
  BY <1>2 DEF TerminateReturns, Attended
<1>3. CASE OpenFails
  <2>1. client.op = "open" /\ client.s \in Streams /\ ~Live(client.s)
    BY <1>3 DEF OpenFails, After, CallInv
  <2>2. \A t \in Streams : Live(t) => stream'[t] = stream[t]
    BY <1>0, <1>3, <2>1 DEF OpenFails, LibraryType
  <2>3. UNCHANGED <<thread, opened, tpc, trouble>> /\ ~Ends(d)
    BY <1>3, <2>1 DEF OpenFails, Ends
  <2> QED
    BY <2>2, <2>3, AttendedFrame DEF Serves, Live
<1>4. ASSUME NEW dir \in Direction, OpenSucceeds(dir), client.d # d \/ dir # MIO_IN,
             thread'[d] = thread[d], trouble'[d] = {} => trouble[d] = {},
             \A t \in Streams : Live(t) => Live(t)'
      PROVE  Attended(d)'
  <2>1. /\ client.op = "open" /\ ~Live(client.s) /\ client.d \in Device
        /\ \A t \in Streams : t # client.s => stream'[t] = stream[t]
        /\ opened'[client.d] = opened[client.d] \cup {dir}
        /\ \A e \in Device : e # client.d => opened'[e] = opened[e]
    BY <1>4, SucceedsEffect
  <2>2. MIO_IN \in opened'[d] => MIO_IN \in opened[d]
    BY <1>4, <2>1
  <2>3. ~Ends(d)
    BY <2>1 DEF Ends
  <2>4. \A t \in Streams : Serves(t, d) => thread'[d] = t /\ Live(t)' /\ stream'[t].dev = stream[t].dev
    BY <1>4, <2>1 DEF Serves
  <2> QED
    BY <1>4, <2>2, <2>3, <2>4, AttendedFrame
<1>5. CASE OutOpened
  BY <1>4, <1>5 DEF OutOpened, MIO_IN, MIO_OUT, Direction, Live
<1>6. CASE InOpenedWithoutThread
  <2>1. MIO_IN \in Direction /\ OpenSucceeds(MIO_IN) /\ UNCHANGED <<thread, tpc>>
    BY <1>6 DEF InOpenedWithoutThread, Direction
  <2>2. CASE client.d = d
    <3>1. trouble'[d] # {}
      BY <1>0, <1>6, <2>2 DEF InOpenedWithoutThread, Trouble, ThreadsType
    <3> QED
      BY <3>1 DEF Attended
  <2>3. CASE client.d # d
    <3>1. trouble'[d] = trouble[d]
      BY <1>0, <1>6, <2>3 DEF InOpenedWithoutThread, Trouble, ThreadsType
    <3> QED
      BY <1>4, <2>1, <2>3, <3>1 DEF Live
  <2> QED
    BY <2>2, <2>3
<1>7. CASE InOpened
  <2>1. MIO_IN \in Direction /\ OpenSucceeds(MIO_IN)
    BY <1>7 DEF InOpened, Direction
  <2>2. PICK c \in Streams : /\ c = client.s /\ stream[c].dev = client.d
                             /\ stream'[c] = [stream[c] EXCEPT !.set = TRUE]
    BY <2>1, SucceedsEffect
  <2>3. /\ thread' = [thread EXCEPT ![client.d] = c] /\ tpc' = [tpc EXCEPT ![c] = "test"]
        /\ trouble' = [trouble EXCEPT ![client.d] = @ \cap {"failed", "abandoned"}]
    BY <1>7, <2>2 DEF InOpened
  <2>4. CASE client.d = d
    <3>1. stream'[c].dev = d
      BY <1>0, <2>2, <2>4 DEF LibraryType
    <3>2. thread'[d] = c /\ tpc'[c] = "test"
      BY <1>0, <2>3, <2>4 DEF DevsType, ThreadsType
    <3> QED
      BY <3>1, <3>2 DEF Attended, Dev, Live
  <2>5. CASE client.d # d
    <3>1. thread'[d] = thread[d] /\ trouble'[d] = trouble[d]
      BY <1>0, <2>3, <2>5 DEF DevsType, ThreadsType
    <3>2. \A t \in Streams : Live(t) => Live(t)'
      BY <1>0, <2>3 DEF Live, ThreadsType
    <3> QED
      BY <1>4, <2>1, <2>5, <3>1, <3>2
  <2> QED
    BY <2>4, <2>5
<1>8. CASE OutClosed \/ InClosed
  <2>1. PICK c \in Streams : /\ c = client.s /\ Free(c) /\ Dev(c) = client.d /\ client.d \in Device
                             /\ stream[c].status = "open"
    BY <1>8 DEF OutClosed, InClosed, After, CallInv, Dev
  <2>2. trouble' = trouble /\ client.op = "close"
    BY <1>8 DEF OutClosed, InClosed, After
  <2>3. opened'[d] \subseteq opened[d] /\ (d = client.d => opened'[d] = opened[d] \ {stream[c].dir})
    BY <2>1, FreeEffect
  <2>4. CASE stream[c].dir = MIO_IN /\ client.d = d
    BY <2>3, <2>4 DEF Attended
  <2>5. CASE ~(stream[c].dir = MIO_IN /\ client.d = d)
    <3>1. ~Ends(d)
      BY <2>1, <2>2, <2>5 DEF Ends, CallDir
    <3>2. ASSUME NEW t \in Streams, Serves(t, d)
          PROVE  t # c /\ thread'[d] = t /\ Live(t)'
      <4>1. t # c
        BY <2>1, <2>5, <3>2 DEF Serves, ThreadInv, ThreadOf
      <4>2. CASE OutClosed
        BY <3>2, <4>1, <4>2 DEF OutClosed, devs, Serves, Live
      <4>3. CASE InClosed
        <5>1. client.d # d /\ Joined
          BY <2>1, <2>5, <4>3 DEF InClosed
        <5>2. thread'[d] = thread[d]
          BY <1>0, <5>1 DEF Joined, DevsType
        <5>3. t # thread[client.d]
          BY <2>1, <3>2, <5>1, StreamsAssumption DEF Joined, Serves
        <5>4. tpc'[t] = tpc[t]
          BY <5>1, <5>3 DEF Joined
        <5> QED
          BY <3>2, <4>1, <5>2, <5>4 DEF Serves, Live
      <4> QED
        BY <1>8, <4>2, <4>3
    <3>3. \A t \in Streams : t # c => stream'[t] = stream[t]
      BY <2>1, FreeEffect
    <3> QED
      BY <2>2, <2>3, <3>1, <3>2, <3>3, AttendedFrame
  <2> QED
    BY <2>4, <2>5
<1> QED
  BY <1>1, <1>2, <1>3, <1>5, <1>6, <1>7, <1>8

LEMMA ServiceStep ==
    ASSUME IInv, ServiceInv, [Next]_vars
    PROVE  ServiceInv'
<1>0. TypeOK /\ CallInv /\ HandleInv /\ StreamInv /\ ThreadInv /\ ModeInv /\ OutDisturbs /\ LiveInv
  BY DEF IInv, ServiceInv
<1>1. TroubleLasts
  BY <1>0, TroubleStep
<1>2. OutDisturbs' /\ LiveInv'
  BY <1>0, DisturbsStep, LiveStep
<1>3. ASSUME NEW d \in Device
      PROVE  Attended(d)'
  <2>1. Attended(d) /\ ThreadsType
    BY <1>0 DEF ServiceInv, TypeOK
  <2>2. CASE ClientCall
    BY <1>0, <1>1, <2>1, <2>2, AttendedCalls
  <2>3. CASE ModeClose \/ ModeZero \/ ModeNotOpened \/ ModeOpened \/ ModeOpenFails \/ ModeSet
    <3>1. UNCHANGED <<thread, opened, stream, tpc, client>>
      BY <2>3 DEF ModeClose, ModeZero, ModeNotOpened, ModeOpened, ModeOpenFails, ModeSet, devs, library
    <3>2. trouble[d] \subseteq trouble'[d]
      BY <2>1, <2>3 DEF ModeClose, ModeZero, ModeNotOpened, ModeOpened, ModeOpenFails, ModeSet, Trouble, ThreadsType
    <3> QED
      BY <2>1, <3>1, <3>2, AttendedQuiet
  <2>4. CASE \/ TerminateSkip \/ TerminateDevice \/ TerminateReturns \/ DeviceTerminated
             \/ OpenFails \/ OutOpened \/ InOpened \/ InOpenedWithoutThread \/ OutClosed \/ InClosed
    BY <1>0, <2>1, <2>4, AttendedEnds
  <2>5. ASSUME NEW s \in Streams, ThreadStep(s)
        PROVE  Attended(d)'
    BY <1>0, <2>1, <2>5, AttendedThread
  <2>6. CASE UNCHANGED vars
    BY <2>1, <2>6, AttendedQuiet DEF vars, devs, library, application
  <2> QED
    BY <2>2, <2>3, <2>4, <2>5, <2>6 DEF Next, ClientStep
<1> QED
  BY <1>2, <1>3 DEF ServiceInv

-----------------------------------------------------------------------------
(***************************************************************************)
(* The invariant and what it implies.                                      *)
(***************************************************************************)
LEMMA InvInit == Init => IInv
<1> SUFFICES ASSUME Init PROVE IInv
  OBVIOUS
<1>1. TypeOK
  BY TypeInit
<1>2. cpc = "idle" /\ client = NoCall /\ client.op = "none"
  BY DEF Init, NoCall
<1>3. CallInv
  BY <1>2 DEF CallInv
<1>4. HandleInv
  BY <1>2 DEF Init, HandleInv, HandleOf, Switching
<1>5. StreamInv
  BY DEF Init, StreamInv, NoStream
<1>6. ThreadInv
  BY DEF Init, ThreadInv, Live
<1>7. ModeInv
  BY <1>2 DEF Init, ModeInv, ModeOf, Busy
<1> QED
  BY <1>1, <1>3, <1>4, <1>5, <1>6, <1>7 DEF IInv

LEMMA InvStep == IInv /\ [Next]_vars => IInv'
  BY TypeStep, CallStep, HandleStep, StreamStep, ThreadInvStep, ModeInvStep DEF IInv

LEMMA Invariant == Spec => []IInv
  BY InvInit, InvStep, PTL DEF Spec

\* struct mio_dev, the descriptors, the streams and the call under way keep
\* their ranges; sndio never has two handles of a device.
THEOREM DeviceTypeCorrect == Spec => []TypeOK
<1>1. IInv => TypeOK
  BY DEF IInv
<1> QED
  BY <1>1, Invariant, PTL

\* set_mode, whichever of its opens fail, loses no handle and closes none
\* twice, for every number of devices and streams.
THEOREM HandlesOwned == Spec => []HandleOwned
<1>1. IInv => HandleOwned
  BY DEF IInv, HandleInv, HandleOf, HandleOwned, Switching
<1> QED
  BY <1>1, Invariant, PTL

\* Between calls mio_dev.mode holds the directions of the streams that are
\* open: Pm_OpenInput and Pm_Close leave the other direction as it was.
THEOREM ModesMatch == Spec => []ModeMatches
<1>1. IInv => ModeMatches
  BY DEF IInv, CallInv, ModeInv, ModeOf, ModeMatches, Quiet, Busy
<1> QED
  BY <1>1, Invariant, PTL

\* sndio_in_close joins the thread of the stream that Pm_Close is about to
\* free, unless the device failed under it.
THEOREM ThreadsJoined == Spec => []JoinedBeforeFree
<1>1. IInv => JoinedBeforeFree
  BY DEF IInv, ThreadInv, ThreadOf, JoinedBeforeFree
<1> QED
  BY <1>1, Invariant, PTL
LEMMA ServiceInit == Init => ServiceInv
BY DEF Init, ServiceInv, OutDisturbs, NoCall, LiveInv, Live, Attended

LEMMA ServiceImplies == ASSUME IInv, ServiceInv PROVE InputServed
<1>0. TypeOK /\ CallInv /\ StreamInv /\ ThreadInv /\ LiveInv
  BY DEF IInv, ServiceInv
<1> SUFFICES ASSUME NEW d \in Device, Quiet(d, {"disturbed", "failed", "abandoned"})
             PROVE  {s \in Streams : Live(s) /\ Dev(s) = d} = IF MIO_IN \in opened[d] THEN {thread[d]} ELSE {}
  BY DEF InputServed
<1>1. cpc = "idle" /\ trouble[d] = {} /\ client.op = "none"
  BY <1>0 DEF Quiet, CallInv, TypeOK, ThreadsType
<1>2. ASSUME NEW s \in Streams, Live(s), Dev(s) = d
      PROVE  MIO_IN \in opened[d] /\ thread[d] = s
  <2>1. ThreadOf(s) /\ Remembered(s) /\ stream[s].status \in {"none", "open", "freed", "leaked"}
    BY <1>0, <1>2 DEF ThreadInv, LiveInv, TypeOK, LibraryType
  <2>2. stream[s].status = "open" /\ stream[s].dir = MIO_IN /\ thread[d] = s
    BY <1>1, <1>2, <2>1 DEF ThreadOf, Remembered
  <2>3. MIO_IN \in opened[d]
    BY <1>0, <1>1, <1>2, <2>2 DEF StreamInv, Opening
  <2> QED
    BY <2>2, <2>3
<1>3. MIO_IN \in opened[d] => thread[d] \in Streams /\ Live(thread[d]) /\ Dev(thread[d]) = d
  BY <1>1 DEF ServiceInv, Attended, Ends
<1> QED
  BY <1>2, <1>3

\* Between calls an open input stream has exactly one thread, the one in
\* mio_dev.thread, unless an open or a poll failed or the other direction was
\* opened or closed; a device without an input stream has none.
THEOREM InputsServed == Spec => []InputServed
<1>1. Spec => []ServiceInv
  <2>1. IInv /\ ServiceInv /\ [Next]_vars => ServiceInv'
    BY ServiceStep
  <2> QED
    BY <2>1, ServiceInit, Invariant, PTL DEF Spec
<1>2. IInv /\ ServiceInv => InputServed
  BY ServiceImplies
<1> QED
  BY <1>1, <1>2, Invariant, PTL

-----------------------------------------------------------------------------
(***************************************************************************)
(* Sysex messages.                                                         *)
(***************************************************************************)
\* The first bytes of a sysex message.
Part(s) ==
    /\ s \in Seq(Byte) /\ s # << >>
    /\ s[1] = SYSEX
    /\ \A p \in 2 .. Len(s) : s[p] < 128

\* A whole one: nothing but its first and its last byte is a status byte.
Whole(s) ==
    /\ s \in Seq(Byte) /\ Len(s) >= 2
    /\ s[1] = SYSEX /\ s[Len(s)] = EOX
    /\ \A p \in 2 .. Len(s) - 1 : s[p] < 128

LEMMA PartStarts == Part(<<SYSEX>>)
  BY DEF Part, SYSEX, Byte

LEMMA PartGrows == ASSUME NEW s, Part(s), NEW c \in 0 .. 127 PROVE Part(Append(s, c))
<1>1. c \in Byte /\ Len(s) \in Nat \ {0}
  BY DEF Part, Byte
<1>2. Append(s, c) \in Seq(Byte) /\ Append(s, c) # << >>
  BY <1>1 DEF Part
<1>3. Append(s, c)[1] = SYSEX
  BY <1>1 DEF Part
<1>4. ASSUME NEW p \in 2 .. Len(Append(s, c)) PROVE Append(s, c)[p] < 128
  BY <1>1, <1>4 DEF Part
<1> QED
  BY <1>2, <1>3, <1>4 DEF Part

LEMMA PartEnds == ASSUME NEW s, Part(s) PROVE Whole(Append(s, EOX))
<1>1. EOX \in Byte /\ Len(s) \in Nat \ {0}
  BY DEF Part, Byte, EOX
<1>2. Append(s, EOX) \in Seq(Byte) /\ Len(Append(s, EOX)) = Len(s) + 1
  BY <1>1 DEF Part
<1>3. Append(s, EOX)[1] = SYSEX /\ Append(s, EOX)[Len(s) + 1] = EOX
  BY <1>1 DEF Part
<1>4. ASSUME NEW p \in 2 .. Len(s) PROVE Append(s, EOX)[p] < 128
  BY <1>1, <1>4 DEF Part
<1> QED
  BY <1>1, <1>2, <1>3, <1>4 DEF Whole

-----------------------------------------------------------------------------
(***************************************************************************)
(* What is packed: the loops of pm_read_bytes go through a whole sysex     *)
(* message, and leave it at its EOX or when it is given up.                *)
(***************************************************************************)
SysexDataInv == st = SYSEX => Part(sysex_data)

PackInv ==
    /\ sysex_in_progress \in BOOLEAN
    /\ dpc \in {"idle", "scan", "send", "bytes"}
    /\ dpc # "idle" => Whole(data) /\ i \in 0 .. Len(data)
    /\ dpc \in {"idle", "scan"} => ~sysex_in_progress
    /\ dpc \in {"idle", "scan", "send"} => sysex_message = << >>
    /\ dpc = "send" /\ sysex_in_progress => i < Len(data)
    /\ dpc = "bytes" => sysex_in_progress /\ i < Len(data) /\ sysex_message \in Seq(Byte)

LEMMA PackInit == SndioInit => PackInv /\ SysexDataInv
  BY DEF SndioInit, InputInit, PackInv, SysexDataInv, SYSEX

\* Where a byte of the message is a status byte.
LEMMA ByteIs ==
    ASSUME Whole(data), i \in 0 .. Len(data) - 1
    PROVE  /\ byte \in Byte
           /\ byte = EOX => i = Len(data) - 1
           /\ i = Len(data) - 1 => byte = EOX
           /\ ~IsRealTime(byte)
<1>1. i + 1 \in 1 .. Len(data) /\ Len(data) \in Nat
  BY DEF Whole
<1>2. byte \in Byte
  BY <1>1 DEF Whole, byte
<1>3. i = Len(data) - 1 => byte = EOX
  BY <1>1 DEF Whole, byte
<1>4. i = 0 => byte = SYSEX
  BY <1>1 DEF Whole, byte
<1>5. i # 0 /\ i # Len(data) - 1 => byte < 128
  BY <1>1 DEF Whole, byte
<1> QED
  BY <1>1, <1>2, <1>3, <1>4, <1>5 DEF EOX, SYSEX, IsRealTime, Byte

\* A short message or a real-time byte between two sysex messages.
LEMMA ReadShortOutside ==
    ASSUME NEW e, ~sysex_in_progress, sysex_in_progress \in BOOLEAN, ReadShort(e)
    PROVE  ~sysex_in_progress' /\ sysex_in_progress' \in BOOLEAN
           /\ sysex_message' = sysex_message
  BY DEF ReadShort, packing

LEMMA ScanStep ==
    ASSUME PackInv, ScanStart \/ ScanEox \/ ScanStatus \/ ScanData \/ ScanEnd
    PROVE  PackInv'
<1> USE DEF ReadBytesReturns, Advance, packing
<1>0. dpc = "scan" /\ Whole(data) /\ i \in 0 .. Len(data) /\ ~sysex_in_progress
      /\ sysex_in_progress \in BOOLEAN /\ sysex_message = << >> /\ Len(data) \in Nat
  BY DEF PackInv, ScanStart, ScanEox, ScanStatus, ScanData, ScanEnd, Whole
<1>1. CASE ScanStart
  BY <1>0, <1>1 DEF ScanStart, PackInv
<1>2. CASE ScanEox
  BY <1>0, <1>2 DEF ScanEox, PackInv
<1>3. CASE ScanStatus
  <2>1. /\ ~sysex_in_progress' /\ sysex_in_progress' \in BOOLEAN
        /\ sysex_message' = << >>
    BY <1>0, <1>3, ReadShortOutside DEF ScanStatus
  <2> QED
    BY <1>0, <1>3, <2>1 DEF ScanStatus, PackInv
<1>4. CASE ScanData
  BY <1>0, <1>4 DEF ScanData, PackInv
<1>5. CASE ScanEnd
  BY <1>0, <1>5 DEF ScanEnd, PackInv
<1> QED
  BY <1>1, <1>2, <1>3, <1>4, <1>5

LEMMA SendStep ==
    ASSUME PackInv, SendFour \/ SendBytes \/ SendEnd
    PROVE  PackInv'
<1> USE DEF ReadBytesReturns, Advance, packing
<1>0. dpc = "send" /\ Whole(data) /\ i \in 0 .. Len(data) /\ Len(data) \in Nat
      /\ sysex_in_progress \in BOOLEAN /\ sysex_message = << >>
  BY DEF PackInv, SendFour, SendBytes, SendEnd, Sending, Whole
<1>1. CASE SendFour
  <2>1. i + 4 <= Len(data) /\ data[i + 4] < 128
    <3>1. i + 4 <= Len(data) /\ ~IsStatus(data[i + 4])
      BY <1>1 DEF SendFour, FourData
    <3>2. data[i + 4] \in Byte
      BY <1>0, <3>1 DEF Whole
    <3>3. \A b \in Byte : ~IsStatus(b) => b < 128
      BY DEF IsStatus, Byte
    <3> QED
      BY <3>1, <3>2, <3>3
  <2>2. i + 4 # Len(data)
    BY <1>0, <2>1 DEF Whole, EOX
  <2>3. sysex_in_progress' = Accepts /\ dpc' = "send" /\ i' = i + 4
        /\ UNCHANGED <<data, sysex_message>>
    BY <1>1 DEF SendFour
  <2>4. Accepts \in BOOLEAN
    BY DEF Accepts
  <2>5. i' \in 0 .. Len(data) /\ i' < Len(data)
    BY <1>0, <2>1, <2>2, <2>3
  <2> QED
    BY <1>0, <2>3, <2>4, <2>5 DEF PackInv
<1>2. CASE SendBytes
  BY <1>0, <1>2 DEF SendBytes, Sending, PackInv
<1>3. CASE SendEnd
  BY <1>0, <1>3 DEF SendEnd, Sending, PackInv
<1> QED
  BY <1>1, <1>2, <1>3

LEMMA BytesStep ==
    ASSUME PackInv, OmitByte \/ SendEox \/ SendByte \/ BytesEnd
    PROVE  PackInv'
<1> USE DEF ReadBytesReturns, Advance, packing
<1>0. dpc = "bytes" /\ Whole(data) /\ i \in 0 .. Len(data) - 1 /\ Len(data) \in Nat
      /\ sysex_in_progress = TRUE /\ sysex_message \in Seq(Byte)
  <2>1. dpc = "bytes"
    BY DEF OmitByte, SendEox, SendByte, BytesEnd
  <2>2. /\ Whole(data) /\ i \in 0 .. Len(data) /\ i < Len(data)
        /\ sysex_in_progress = TRUE /\ sysex_message \in Seq(Byte)
    BY <2>1 DEF PackInv
  <2>3. Len(data) \in Nat
    BY <2>2 DEF Whole
  <2> QED
    BY <2>1, <2>2, <2>3
<1>1. /\ byte \in Byte /\ ~IsRealTime(byte)
      /\ i = Len(data) - 1 => byte = EOX
  BY <1>0, ByteIs
<1>2. CASE OmitByte
  BY <1>1, <1>2 DEF OmitByte
<1>3. CASE SendEox
  BY <1>0, <1>3 DEF SendEox, Flush, PackInv
<1>4. CASE SendByte
  <2>1. i + 1 \in 0 .. Len(data) /\ i + 1 < Len(data) /\ i' = i + 1 /\ data' = data
    BY <1>0, <1>1, <1>4 DEF SendByte
  <2>2. CASE Len(sysex_message) = 3
    <3>0. Len(Append(sysex_message, byte)) = Len(sysex_message) + 1
      BY <1>0, <1>1
    <3>1. Len(Append(sysex_message, byte)) = 4
      BY <2>2, <3>0
    <3>2. sysex_message' = << >> /\ sysex_in_progress' \in BOOLEAN /\ dpc' = "send"
      BY <1>4, <2>2, <3>1 DEF SendByte, Pack, Flush, Accepts
    <3> QED
      BY <1>0, <2>1, <3>2 DEF PackInv
  <2>3. CASE Len(sysex_message) # 3
    <3>1. /\ Len(Append(sysex_message, byte)) # 4
          /\ Append(sysex_message, byte) \in Seq(Byte)
      BY <1>0, <1>1, <2>3
    <3>2. /\ sysex_message' = Append(sysex_message, byte)
          /\ sysex_in_progress' = TRUE /\ dpc' = "bytes"
      BY <1>0, <1>4, <2>3, <3>1 DEF SendByte, Pack
    <3> QED
      BY <1>0, <2>1, <3>1, <3>2 DEF PackInv
  <2> QED
    BY <2>2, <2>3
<1>5. CASE BytesEnd
  BY <1>0, <1>5 DEF BytesEnd
<1> QED
  BY <1>2, <1>3, <1>4, <1>5

LEMMA ReadBytesKeeps == PackInv /\ ReadBytesStep => PackInv'
  BY ScanStep, SendStep, BytesStep DEF ReadBytesStep

\* A byte from the wire.
LEMMA InputKeeps ==
    ASSUME PackInv, SysexDataInv, NEW c \in Byte, InputByte(c)
    PROVE  PackInv' /\ SysexDataInv'
<1> USE DEF call, packing
<1>0. dpc = "idle" /\ ~sysex_in_progress /\ sysex_in_progress \in BOOLEAN
      /\ sysex_message = << >>
  BY DEF InputByte, PackInv
<1>1. CASE RealTime(c)
  <2>1. /\ ~sysex_in_progress' /\ sysex_in_progress' \in BOOLEAN
        /\ sysex_message' = << >>
    BY <1>0, <1>1, ReadShortOutside DEF RealTime
  <2> QED
    BY <1>0, <1>1, <2>1 DEF RealTime, parser, PackInv, SysexDataInv
<1>2. CASE SysexEnd(c)
  <2>1. SysexDataInv'
    BY <1>2 DEF SysexEnd, SysexDataInv, SYSEX
  <2>2. CASE st = SYSEX
    <3>1. Whole(Append(sysex_data, c))
      BY <1>2, <2>2, PartEnds DEF SysexDataInv, SysexEnd
    <3>2. data' = Append(sysex_data, c) /\ i' = 0 /\ dpc' = "scan" /\ UNCHANGED packing
      BY <1>0, <1>2, <2>2 DEF SysexEnd, ReadBytesCall
    <3>3. i' \in 0 .. Len(data')
      BY <3>1, <3>2 DEF Whole
    <3> QED
      BY <1>0, <2>1, <3>1, <3>2, <3>3 DEF PackInv
  <2>3. CASE st # SYSEX
    BY <1>0, <1>2, <2>1, <2>3 DEF SysexEnd, PackInv
  <2> QED
    BY <2>2, <2>3
<1>3. CASE SysexStart(c)
  BY <1>0, <1>3, PartStarts DEF SysexStart, PackInv, SysexDataInv
<1>4. CASE Status(c)
  BY <1>0, <1>4 DEF Status, PackInv, SysexDataInv
<1>5. CASE SysexData(c)
  <2>1. c \in 0 .. 127
    BY <1>5 DEF SysexData, Byte
  <2> QED
    BY <1>0, <1>5, <2>1, PartGrows DEF SysexData, PackInv, SysexDataInv
<1>6. CASE SysexTooLong(c)
  BY <1>0, <1>6 DEF SysexTooLong, PackInv, SysexDataInv, SYSEX
<1>7. CASE ShortData(c)
  <2>1. st # SYSEX /\ (st' = st \/ st' = 0) /\ UNCHANGED call
    BY <1>7 DEF ShortData
  <2>2. /\ ~sysex_in_progress' /\ sysex_in_progress' \in BOOLEAN
        /\ sysex_message' = << >>
    <3>1. UNCHANGED packing \/ \E e : ReadShort(e)
      BY <1>7 DEF ShortData
    <3> QED
      BY <1>0, <3>1, ReadShortOutside
  <2> QED
    BY <1>0, <2>1, <2>2 DEF PackInv, SysexDataInv, SYSEX
<1>8. CASE StrayData(c)
  BY <1>0, <1>8 DEF StrayData, parser, PackInv, SysexDataInv
<1> QED
  BY <1>1, <1>2, <1>3, <1>4, <1>5, <1>6, <1>7, <1>8 DEF InputByte

LEMMA ApplicationKeeps == PackInv /\ Application => PackInv'
  BY DEF Application, SetFilter, SetChannelMask, ReadStart, ReadEvent, ReadOverflow, ReadEnd,
     ReadReturns, PackInv, packing, call

-----------------------------------------------------------------------------
(***************************************************************************)
(* What is recognised: how far the parser is in the message on the wire.   *)
(***************************************************************************)
ShortWire(w) ==
    /\ w \in Seq(Byte) /\ Len(w) \in {2, 3}
    /\ w[1] \in (128 .. 246) \ {SYSEX} /\ Len(w) = LengthOf(w[1])
    /\ \A p \in 2 .. Len(w) : w[p] < 128

SysexWire(w) == Whole(w) /\ Len(w) # SYSEX_MAXLEN + 1

ShortState ==
    /\ st = wire[1] /\ idx = pos /\ len = Len(wire)
    /\ message = [p \in 0 .. 3 |-> IF p < pos THEN wire[p + 1] ELSE 0]

\* The bytes of a sysex message are kept while they fit; then the rest is skipped.
SysexState ==
    IF pos <= SYSEX_MAXLEN
      THEN /\ st = SYSEX
           /\ sysex_data \in Seq(Byte) /\ Len(sysex_data) = pos
           /\ \A p \in 1 .. pos : sysex_data[p] = wire[p]
      ELSE st = 0

ShortSent == /\ ShortWire(wire) /\ pos \in 1 .. Len(wire)
             /\ pos < Len(wire) => ShortState
SysexSent == /\ SysexWire(wire) /\ pos \in 1 .. Len(wire)
             /\ pos < Len(wire) => SysexState

WireInv ==
    /\ sent \in 0 .. MaxSent
    /\ (wire = << >> /\ pos = 0) \/ ShortSent \/ SysexSent

LEMMA WireInit == SndioInit => WireInv /\ Parses
  BY MaxSentAssumption DEF SndioInit, WireInv, Parses, Fits

\* The branch of input_thread that a byte takes.
LEMMA Branch ==
    ASSUME NEW c \in Byte, InputByte(c)
    PROVE  /\ c >= 248 => RealTime(c)
           /\ c = EOX => SysexEnd(c)
           /\ c = SYSEX => SysexStart(c)
           /\ c \in (128 .. 247) \ {SYSEX, EOX} => Status(c)
           /\ c < 128 => SysexData(c) \/ SysexTooLong(c) \/ ShortData(c) \/ StrayData(c)
<1>1. /\ RealTime(c) => c >= 248
      /\ SysexEnd(c) => c = EOX
      /\ SysexStart(c) => c = SYSEX
      /\ Status(c) => c \in (128 .. 247) \ {SYSEX, EOX}
      /\ SysexData(c) \/ SysexTooLong(c) \/ ShortData(c) \/ StrayData(c) => c < 128
  BY DEF RealTime, IsRealTime, SysexEnd, SysexStart, Status, SysexData, SysexTooLong, ShortData,
     StrayData
<1>2. /\ EOX = 247 /\ SYSEX = 240
      /\ c \in 0 .. 255
  BY DEF EOX, SYSEX, Byte
<1>3. RealTime(c) \/ SysexEnd(c) \/ SysexStart(c) \/ Status(c)
      \/ SysexData(c) \/ SysexTooLong(c) \/ ShortData(c) \/ StrayData(c)
  BY DEF InputByte
<1> QED
  BY <1>1, <1>2, <1>3

\* The messages of the device.
LEMMA SysexIsWhole ==
    ASSUME NEW n \in 0 .. 6, NEW length \in SysexLengths
    PROVE  SysexWire(SysexMessage(n, length))
<1> DEFINE w == SysexMessage(n, length)
<1>0. length \in 1 .. 15 /\ length # SYSEX_MAXLEN - 1 /\ SYSEX_MAXLEN \in Nat
  BY SysexAssumption, SysexLengthsAssumption
<1>1. /\ \A k \in 1 .. length + 2 : w[k] \in Byte
      /\ w[1] = SYSEX /\ w[length + 2] = EOX
      /\ \A k \in 2 .. length + 1 : w[k] < 128
  <2>1. /\ \A k \in 1 .. length + 2 :
             w[k] = CASE k = 1 -> SYSEX [] k = length + 2 -> EOX
                      [] OTHER -> 16 * n + length + 2 - k
        /\ 1 # length + 2 /\ 1 \in 1 .. length + 2 /\ length + 2 \in 1 .. length + 2
    BY <1>0 DEF SysexMessage
  <2> HIDE DEF w
  <2>2. w[1] = SYSEX /\ w[length + 2] = EOX
    BY <2>1
  <2>3. ASSUME NEW k \in 2 .. length + 1 PROVE w[k] \in 0 .. 127
    <3>1. k \in 1 .. length + 2 /\ k # 1 /\ k # length + 2
      BY <1>0, <2>3
    <3>2. w[k] = 16 * n + length + 2 - k
      BY <2>1, <3>1
    <3> QED
      BY <1>0, <2>3, <3>2
  <2>4. ASSUME NEW k \in 1 .. length + 2 PROVE w[k] \in Byte
    <3>1. k = 1 \/ k = length + 2 \/ k \in 2 .. length + 1
      BY <1>0, <2>4
    <3> QED
      BY <2>2, <2>3, <3>1 DEF Byte, SYSEX, EOX
  <2> QED
    BY <2>2, <2>3, <2>4
<1>2. DOMAIN w = 1 .. length + 2 /\ w = [k \in 1 .. length + 2 |-> w[k]]
  BY DEF SysexMessage
<1> HIDE DEF w
<1>3. w \in Seq(Byte) /\ Len(w) = length + 2
  <2>1. w \in [1 .. length + 2 -> Byte] /\ length + 2 \in Nat
    BY <1>0, <1>1, <1>2
  <2> QED
    BY <2>1
<1> QED
  <2>1. Whole(w) /\ Len(w) # SYSEX_MAXLEN + 1
    BY <1>0, <1>1, <1>3 DEF Whole
  <2> QED
    BY <2>1 DEF w, SysexWire

LEMMA ShortIsWhole == ASSUME NEW m \in ShortMessages PROVE ShortWire(m)
  BY ShortMessagesAssumption DEF ShortWire

\* What a message is like in front: no other byte of it is a status byte.
LEMMA ShortBytes ==
    ASSUME NEW w, ShortWire(w), NEW p \in 1 .. Len(w)
    PROVE  w[p] \in Byte /\ (p > 1 => w[p] < 128) /\ Len(w) \in Nat
  BY DEF ShortWire

LEMMA SysexBytes ==
    ASSUME NEW w, SysexWire(w), NEW p \in 1 .. Len(w)
    PROVE  /\ w[p] \in Byte /\ Len(w) \in Nat
           /\ p = Len(w) => w[p] = EOX
           /\ p > 1 /\ p < Len(w) => w[p] < 128
  BY DEF SysexWire, Whole

-----------------------------------------------------------------------------
LEMMA StartKeeps ==
    ASSUME WireInv, SendStart
    PROVE  WireInv' /\ Parses'
<1>1. PICK m \in Messages(sent) : wire' = m /\ Sent(m[1], 1)
  BY DEF SendStart
<1>2. sent \in 0 .. 6 /\ sent' \in 0 .. MaxSent
  BY MaxSentAssumption DEF WireInv, SendStart
<1>3. /\ pos' = 1 /\ InputByte(m[1])
      /\ done' = IF 1 = Len(m) THEN m ELSE << >>
  BY <1>1 DEF Sent
<1>4. CASE m \in ShortMessages
  <2>1. ShortWire(m) /\ Len(m) \in {2, 3}
    BY <1>4, ShortIsWhole DEF ShortWire
  <2>2. m[1] \in Byte /\ m[1] \in (128 .. 247) \ {SYSEX, EOX}
    <3>1. m[1] \in (128 .. 246) \ {SYSEX}
      BY <2>1 DEF ShortWire
    <3> QED
      BY <3>1 DEF Byte, EOX
  <2>3. Status(m[1])
    BY <1>3, <2>2, Branch
  <2>4. /\ st' = m[1] /\ idx' = 1 /\ len' = Len(m) /\ handed' = << >>
        /\ message' = [p \in 0 .. 3 |-> IF p = 0 THEN m[1] ELSE 0]
    BY <2>1, <2>3 DEF Status, ShortWire
  <2>5. message' = [p \in 0 .. 3 |-> IF p < 1 THEN m[p + 1] ELSE 0]
    BY <2>4
  <2>6. ShortState'
    BY <1>1, <1>3, <2>4, <2>5 DEF ShortState
  <2>7. ShortSent'
    BY <1>1, <1>3, <2>1, <2>6 DEF ShortSent
  <2>8. done' = << >>
    <3>1. Len(m) # 1
      BY <2>1
    <3> QED
      BY <1>3, <3>1
  <2> QED
    BY <1>2, <2>4, <2>7, <2>8 DEF WireInv, Parses, Fits
<1>5. CASE m \notin ShortMessages
  <2>1. SysexWire(m)
    <3>1. PICK length \in SysexLengths : m = SysexMessage(sent, length)
      BY <1>5 DEF Messages
    <3> QED
      BY <1>2, <3>1, SysexIsWhole
  <2>2. m[1] = SYSEX /\ SYSEX \in Byte /\ Len(m) \in Nat /\ Len(m) >= 2
    BY <2>1 DEF SysexWire, Whole, SYSEX, Byte
  <2>3. SysexStart(m[1])
    BY <1>3, <2>2, Branch
  <2>4. st' = SYSEX /\ sysex_data' = <<SYSEX>> /\ handed' = << >>
    BY <2>2, <2>3 DEF SysexStart
  <2>5. SysexState'
    BY <1>1, <1>3, <2>2, <2>4, SysexAssumption DEF SysexState
  <2>6. SysexSent'
    BY <1>1, <1>3, <2>1, <2>2, <2>5 DEF SysexSent
  <2>7. done' = << >>
    <3>1. Len(m) # 1
      BY <2>1 DEF SysexWire, Whole
    <3> QED
      BY <1>3, <3>1
  <2> QED
    BY <1>2, <2>4, <2>6, <2>7 DEF WireInv, Parses, Fits
<1> QED
  BY <1>4, <1>5

\* The next byte of a short message.
LEMMA ShortKeeps ==
    ASSUME ShortSent, SendNext
    PROVE  ShortSent' /\ Parses'
<1> DEFINE c == wire[pos + 1]
<1>0. /\ ShortWire(wire) /\ Len(wire) \in {2, 3} /\ pos \in 1 .. 2 /\ pos < Len(wire)
      /\ ShortState
  BY DEF ShortSent, SendNext, ShortWire
<1>1. /\ wire' = wire /\ pos' = pos + 1 /\ InputByte(c)
      /\ done' = IF pos + 1 = Len(wire) THEN wire ELSE << >>
  BY DEF SendNext, Sent
<1>2. c \in 0 .. 127
  <2>1. pos + 1 \in 1 .. Len(wire) /\ pos + 1 > 1
    BY <1>0
  <2>2. c \in Byte /\ c < 128
    BY <1>0, <2>1, ShortBytes
  <2> QED
    BY <2>2 DEF Byte
<1>3. st = wire[1] /\ st # SYSEX /\ st # 0
  <2>1. st = wire[1] /\ wire[1] \in (128 .. 246) \ {SYSEX}
    BY <1>0 DEF ShortWire, ShortState
  <2> QED
    BY <2>1
<1> HIDE DEF c
<1>4. ShortData(c)
  <2>1. SysexData(c) \/ SysexTooLong(c) \/ ShortData(c) \/ StrayData(c)
    <3>1. c \in Byte /\ c < 128
      BY <1>2 DEF Byte
    <3> QED
      BY <1>1, <3>1, Branch
  <2> QED
    BY <1>3, <2>1 DEF SysexData, SysexTooLong, StrayData
<1>5. /\ message' = [p \in 0 .. 3 |-> IF p = pos THEN BitOr(message[p], c) ELSE message[p]]
      /\ IF pos + 1 = Len(wire)
           THEN handed' = [p \in 1 .. Len(wire) |-> message'[p - 1]]
           ELSE idx' = pos + 1 /\ handed' = << >> /\ st' = st
      /\ len' = Len(wire)
  <2>1. idx = pos /\ len = Len(wire)
    BY <1>0 DEF ShortState
  <2> QED
    BY <1>0, <1>4, <2>1 DEF ShortData
<1>6. message' = [p \in 0 .. 3 |-> IF p < pos + 1 THEN wire[p + 1] ELSE 0]
  <2>1. message = [p \in 0 .. 3 |-> IF p < pos THEN wire[p + 1] ELSE 0]
    BY <1>0 DEF ShortState
  <2>2. BitOr(0, c) = c
    BY <1>2, BitOrAssumption DEF Byte
  <2>3. ASSUME NEW p \in 0 .. 3
        PROVE  (IF p = pos THEN BitOr(message[p], c) ELSE message[p])
                 = IF p < pos + 1 THEN wire[p + 1] ELSE 0
    BY <1>0, <2>1, <2>2 DEF c
  <2> QED
    BY <1>5, <2>3
<1>7. CASE pos + 1 = Len(wire)
  <2>1. wire = [p \in 1 .. Len(wire) |-> wire[p]]
    BY <1>0 DEF ShortWire
  <2>2. \A p \in 1 .. Len(wire) : message'[p - 1] = wire[p]
    BY <1>0, <1>6, <1>7
  <2>3. handed' = wire
    BY <1>5, <1>7, <2>1, <2>2
  <2>4. done' = wire /\ wire[1] # SYSEX
    BY <1>0, <1>1, <1>7 DEF ShortWire
  <2>5. Parses'
    BY <2>3, <2>4 DEF Parses, Fits
  <2>6. ShortSent'
    BY <1>0, <1>1, <1>7 DEF ShortSent
  <2> QED
    BY <2>5, <2>6
<1>8. CASE pos + 1 # Len(wire)
  <2>1. ShortState'
    BY <1>1, <1>3, <1>5, <1>6, <1>8 DEF ShortState
  <2>2. ShortSent'
    BY <1>0, <1>1, <1>8, <2>1 DEF ShortSent
  <2>3. done' = << >> /\ handed' = << >>
    BY <1>1, <1>5, <1>8
  <2> QED
    BY <2>2, <2>3 DEF Parses, Fits
<1> QED
  BY <1>7, <1>8

\* The next byte of a sysex message.
LEMMA SysexKeeps ==
    ASSUME SysexSent, SendNext
    PROVE  SysexSent' /\ Parses'
<1> DEFINE c == wire[pos + 1]
<1>0. /\ SysexWire(wire) /\ pos \in Nat \ {0} /\ Len(wire) \in Nat /\ pos < Len(wire)
      /\ SysexState /\ SYSEX_MAXLEN \in Nat \ {0} /\ wire[1] = SYSEX
      /\ Len(wire) # SYSEX_MAXLEN + 1
  BY SysexAssumption DEF SysexSent, SendNext, SysexWire, Whole
<1>1. /\ wire' = wire /\ pos' = pos + 1 /\ InputByte(c)
      /\ done' = IF pos + 1 = Len(wire) THEN wire ELSE << >>
  BY DEF SendNext, Sent
<1>2. /\ c \in Byte
      /\ pos + 1 = Len(wire) => c = EOX
      /\ pos + 1 # Len(wire) => c < 128
  <2>1. pos + 1 \in 1 .. Len(wire) /\ pos + 1 > 1
    BY <1>0
  <2>2. pos + 1 = Len(wire) \/ pos + 1 < Len(wire)
    BY <1>0
  <2> QED
    BY <1>0, <2>1, <2>2, SysexBytes
<1>3. pos' \in 1 .. Len(wire')
  BY <1>0, <1>1
<1>4. pos <= SYSEX_MAXLEN =>
        /\ st = SYSEX /\ sysex_data \in Seq(Byte) /\ Len(sysex_data) = pos
        /\ \A p \in 1 .. pos : sysex_data[p] = wire[p]
  BY <1>0 DEF SysexState
<1>5. pos > SYSEX_MAXLEN => st = 0
  BY <1>0 DEF SysexState
<1>6. /\ pos <= SYSEX_MAXLEN => Append(sysex_data, c) \in Seq(Byte)
                               /\ Len(Append(sysex_data, c)) = pos + 1
      /\ pos <= SYSEX_MAXLEN => \A p \in 1 .. pos + 1 : Append(sysex_data, c)[p] = wire[p]
  BY <1>0, <1>2, <1>4
<1> HIDE DEF c
<1>7. CASE pos + 1 = Len(wire)
  <2>1. SysexEnd(c)
    BY <1>1, <1>2, <1>7, Branch
  <2>2. SysexSent'
    BY <1>0, <1>1, <1>3, <1>7 DEF SysexSent
  <2>3. done' = wire
    BY <1>1, <1>7
  <2>4. CASE pos <= SYSEX_MAXLEN
    <3>1. handed' = Append(sysex_data, c)
      BY <1>4, <2>1, <2>4 DEF SysexEnd
    <3>2. Append(sysex_data, c) = wire
      <4>1. wire \in Seq(Byte)
        BY <1>0 DEF SysexWire, Whole
      <4> QED
        BY <1>6, <1>7, <2>4, <4>1
    <3>3. ~(Len(wire) > SYSEX_MAXLEN)
      BY <1>0, <1>7, <2>4
    <3> QED
      BY <2>2, <2>3, <3>1, <3>2, <3>3 DEF Parses, Fits
  <2>5. CASE pos > SYSEX_MAXLEN
    <3>1. handed' = << >>
      BY <1>5, <2>1, <2>5 DEF SysexEnd, SYSEX
    <3>2. Len(wire) > SYSEX_MAXLEN /\ wire # << >>
      BY <1>0, <2>5
    <3> QED
      BY <1>0, <2>2, <2>3, <3>1, <3>2 DEF Parses, Fits
  <2> QED
    BY <1>0, <2>4, <2>5
<1>8. CASE pos + 1 # Len(wire)
  <2>1. SysexData(c) \/ SysexTooLong(c) \/ ShortData(c) \/ StrayData(c)
    BY <1>1, <1>2, <1>8, Branch
  <2>2. handed' = << >> /\ done' = << >>
    <3>1. st = SYSEX \/ st = 0
      BY <1>0, <1>4, <1>5
    <3> QED
      BY <1>1, <1>8, <2>1, <3>1 DEF SysexData, SysexTooLong, ShortData, StrayData
  <2>3. SysexState'
    <3>1. CASE pos < SYSEX_MAXLEN
      <4>1. SysexData(c)
        BY <1>0, <1>4, <2>1, <3>1 DEF SysexTooLong, ShortData, StrayData, SYSEX
      <4>2. sysex_data' = Append(sysex_data, c) /\ st' = SYSEX
        BY <1>0, <1>4, <3>1, <4>1 DEF SysexData
      <4> QED
        BY <1>0, <1>1, <1>6, <3>1, <4>2 DEF SysexState
    <3>2. CASE pos = SYSEX_MAXLEN
      <4>1. SysexTooLong(c)
        BY <1>0, <1>4, <2>1, <3>2 DEF SysexData, ShortData, StrayData, SYSEX
      <4>2. st' = 0
        BY <4>1 DEF SysexTooLong
      <4> QED
        BY <1>0, <1>1, <3>2, <4>2 DEF SysexState
    <3>3. CASE pos > SYSEX_MAXLEN
      <4>1. StrayData(c)
        BY <1>5, <2>1, <3>3 DEF SysexData, ShortData, SysexTooLong, SYSEX
      <4>2. st' = 0
        BY <1>5, <3>3, <4>1 DEF StrayData, parser
      <4> QED
        BY <1>0, <1>1, <3>3, <4>2 DEF SysexState
    <3> QED
      BY <1>0, <3>1, <3>2, <3>3
  <2>4. SysexSent'
    BY <1>0, <1>1, <1>3, <2>3 DEF SysexSent
  <2> QED
    BY <2>2, <2>4 DEF Parses, Fits
<1> QED
  BY <1>7, <1>8

-----------------------------------------------------------------------------
(***************************************************************************)
(* The whole: both invariants, and the properties.                         *)
(***************************************************************************)
LEMMA RealTimeKeeps ==
    ASSUME WireInv, SendRealTime
    PROVE  WireInv' /\ Parses'
<1>1. PICK c \in RealTimes : InputByte(c) /\ done' = <<c>> /\ UNCHANGED device
  BY DEF SendRealTime
<1>2. c \in Byte /\ c >= 248
  BY RealTimesAssumption DEF Byte
<1>3. RealTime(c)
  BY <1>1, <1>2, Branch
<1>4. UNCHANGED <<device, parser>> /\ handed' = <<c>>
  BY <1>1, <1>3 DEF RealTime
<1>5. WireInv'
  BY <1>4 DEF WireInv, ShortSent, SysexSent, ShortState, SysexState, device, parser
<1>6. Parses'
  BY <1>1, <1>2, <1>4 DEF Parses, Fits, SYSEX
<1> QED
  BY <1>5, <1>6

LEMMA WireKeeps ==
    ASSUME WireInv, Parses, [SndioNext]_sndioVars
    PROVE  WireInv' /\ Parses'
<1>1. CASE SendStart
  BY <1>1, StartKeeps
<1>2. CASE SendNext
  <2>1. ~(wire = << >> /\ pos = 0)
    BY <1>2 DEF SendNext
  <2>2. (ShortSent' \/ SysexSent') /\ Parses'
    BY <1>2, <2>1, ShortKeeps, SysexKeeps DEF WireInv
  <2>3. sent' = sent
    BY <1>2 DEF SendNext
  <2> QED
    BY <2>2, <2>3 DEF WireInv
<1>3. CASE SendRealTime
  BY <1>3, RealTimeKeeps
<1>4. CASE UNCHANGED <<parser, device, done, handed>>
  <2>1. WireInv'
    BY <1>4 DEF WireInv, ShortSent, SysexSent, ShortState, SysexState, device, parser
  <2> QED
    BY <1>4, <2>1 DEF Parses
<1> QED
  BY <1>1, <1>2, <1>3, <1>4 DEF SndioNext, InputThread, sndioVars

LEMMA PackKeeps ==
    ASSUME WireInv, PackInv, SysexDataInv, [SndioNext]_sndioVars
    PROVE  PackInv' /\ SysexDataInv'
<1>1. ASSUME NEW c \in Byte, InputByte(c) PROVE PackInv' /\ SysexDataInv'
  BY <1>1, InputKeeps
<1>2. CASE SendStart
  <2>1. PICK m \in Messages(sent) : InputByte(m[1])
    BY <1>2 DEF SendStart, Sent
  <2>2. m[1] \in Byte
    <3>1. ShortWire(m) \/ SysexWire(m)
      <4>1. sent \in 0 .. 6
        BY <1>2, MaxSentAssumption DEF WireInv, SendStart
      <4> QED
        BY <2>1, <4>1, ShortIsWhole, SysexIsWhole DEF Messages
    <3>2. 1 \in 1 .. Len(m)
      BY <3>1 DEF ShortWire, SysexWire, Whole
    <3> QED
      BY <3>1, <3>2, ShortBytes, SysexBytes
  <2> QED
    BY <1>1, <2>1, <2>2
<1>3. CASE SendNext
  <2>1. InputByte(wire[pos + 1]) /\ pos < Len(wire)
    BY <1>3 DEF SendNext, Sent
  <2>2. wire[pos + 1] \in Byte
    <3>1. ShortWire(wire) \/ SysexWire(wire)
      BY <2>1 DEF WireInv, ShortSent, SysexSent
    <3>2. pos \in Nat /\ Len(wire) \in Nat
      BY <3>1 DEF WireInv, ShortSent, SysexSent, ShortWire, SysexWire, Whole
    <3>3. pos + 1 \in 1 .. Len(wire)
      BY <2>1, <3>2
    <3> QED
      BY <3>1, <3>3, ShortBytes, SysexBytes
  <2> QED
    BY <1>1, <2>1, <2>2
<1>4. CASE SendRealTime
  BY <1>1, <1>4, RealTimesAssumption DEF SendRealTime, Byte
<1>5. CASE ReadBytesStep /\ UNCHANGED <<parser, device, done, handed>>
  BY <1>5, ReadBytesKeeps DEF SysexDataInv, parser
<1>6. CASE Application /\ UNCHANGED <<parser, device, done, handed>>
  BY <1>6, ApplicationKeeps DEF SysexDataInv, parser
<1>7. CASE UNCHANGED sndioVars
  BY <1>7 DEF sndioVars, inputVars, packing, call, parser, PackInv, SysexDataInv
<1> QED
  BY <1>2, <1>3, <1>4, <1>5, <1>6, <1>7 DEF SndioNext, InputThread

LEMMA InputInvariant == SndioSpec => [](WireInv /\ Parses /\ PackInv /\ SysexDataInv)
<1>1. SndioInit => WireInv /\ Parses /\ PackInv /\ SysexDataInv
  BY WireInit, PackInit
<1>2. WireInv /\ Parses /\ PackInv /\ SysexDataInv /\ [SndioNext]_sndioVars
      => (WireInv /\ Parses /\ PackInv /\ SysexDataInv)'
  BY WireKeeps, PackKeeps
<1> QED
  BY <1>1, <1>2, PTL DEF SndioSpec

\* At the byte that completes a message, and at no other, input_thread hands over
\* that message: whatever was abandoned before it, wherever real-time bytes came,
\* for every size of sysex_data.
THEOREM InputParses == SndioSpec => []Parses
  BY InputInvariant, PTL

\* When pm_read_bytes has returned, no sysex message is in progress and none of
\* its bytes waits in the stream, whatever overflowed or was filtered meanwhile.
THEOREM NothingLeft == SndioSpec => []NothingLeftOver
<1>1. PackInv => NothingLeftOver
  BY DEF PackInv, NothingLeftOver
<1> QED
  BY <1>1, InputInvariant, PTL

-----------------------------------------------------------------------------
(***************************************************************************)
(* The stream of messages (StreamWhole): each byte that Pm_Read has        *)
(* returned or will return may follow the one before it.                   *)
(***************************************************************************)
Events == Seq(Seq(Byte))

\* Byte b may come after the last byte of the events, if there is one.
CanTake(events, b) ==
    \A k \in 1 .. Len(events) :
        (\A n \in k + 1 .. Len(events) : Places(events[n]) = {}) =>
            \A j \in Places(events[k]) :
                (\A n \in Places(events[k]) : n <= j) => Follows(ByteAt(events[k], j), b)

Packed == IF sysex_message = << >> THEN Stream ELSE Append(Stream, sysex_message)

\* What a sysex event may begin with: not the status byte of a short message.
Opens(b) == b \notin (128 .. 246) \ {SYSEX}

Typed ==
    /\ rret \in Events /\ rgot \in Events /\ queue \in Events
    /\ sysex_message \in Seq(Byte) /\ Len(sysex_message) <= 3
    /\ sysex_in_progress \in BOOLEAN

\* The events and the packed bytes follow each other, and outside of a sysex
\* message anything may follow.
WholeInv ==
    /\ Typed
    /\ rpc = "idle" => rgot = << >>
    /\ sysex_message # << >> => Opens(sysex_message[1])
    /\ InSequence(Packed)
    /\ ~sysex_in_progress => sysex_message = << >> /\ CanTake(Stream, SYSEX)
    /\ 0 \notin filters

IsSysex(m) ==
    /\ m \in Seq(Byte) /\ Len(m) >= 3
    /\ m[1] = SYSEX /\ m[Len(m)] = EOX
    /\ \A k \in 2 .. Len(m) - 1 : m[k] < 128
    /\ \A k \in 1 .. Len(m) - 1 : Follows(m[k], m[k + 1])

\* What is left of the bytes given to pm_read_bytes is the message from byte q + 1
\* to byte p, perhaps with a real-time byte before or after the first one.
Left == Len(data) - i
Feeds(m, q, p) ==
    /\ q \in 0 .. p /\ p \in 0 .. Len(m)
    /\ \/ /\ Left = p - q
          /\ \A k \in 1 .. Left : data[i + k] = m[q + k]
       \/ /\ Left = p - q + 1
          /\ IsRealTime(data[i + 1])
          /\ \A k \in 2 .. Left : data[i + k] = m[(q + k) - 1]
       \/ /\ Left = p - q + 1 /\ p > q
          /\ data[i + 1] = m[q + 1] /\ IsRealTime(data[i + 2])
          /\ \A k \in 3 .. Left : data[i + k] = m[(q + k) - 1]

\* Byte q + 1 of the message may come next.
MayGoOn(m, q) == sysex_in_progress => q < Len(m) /\ CanTake(Packed, m[q + 1])

CallOk ==
    /\ dpc \in {"idle", "scan", "send", "bytes"}
    /\ dpc = "scan" => ~sysex_in_progress
    /\ dpc = "bytes" => sysex_in_progress
    /\ data \in Seq(Byte) /\ i \in 0 .. Len(data)

\* pm_read_bytes is given the message up to byte p.
Going(m, p) ==
    IF dpc = "idle" THEN MayGoOn(m, p)
    ELSE \E q \in Nat : Feeds(m, q, p) /\ MayGoOn(m, q)

-----------------------------------------------------------------------------
(***************************************************************************)
(* Sequences of events: what may be added, and what may be taken off.      *)
(***************************************************************************)
LEMMA Appending ==
    ASSUME NEW s \in Events, NEW e \in Seq(Byte)
    PROVE  /\ Append(s, e) \in Events /\ Len(s) \in Nat
           /\ Len(Append(s, e)) = Len(s) + 1
           /\ \A k \in 1 .. Len(s) : Append(s, e)[k] = s[k]
           /\ Append(s, e)[Len(s) + 1] = e
  BY AppendProperties DEF Events

LEMMA Appending1 ==
    ASSUME NEW e \in Seq(Byte), NEW b \in Byte
    PROVE  /\ Append(e, b) \in Seq(Byte) /\ Len(e) \in Nat
           /\ Len(Append(e, b)) = Len(e) + 1
           /\ \A k \in 1 .. Len(e) : Append(e, b)[k] = e[k]
           /\ Append(e, b)[Len(e) + 1] = b
  BY AppendProperties

\* The last event of a sequence that takes byte b next.
LastTakes(e, b) ==
    \A j \in Places(e) : (\A n \in Places(e) : n <= j) => Follows(ByteAt(e, j), b)

SilentAfter(s, k) == \A n \in k + 1 .. Len(s) : Places(s[n]) = {}

SilentBetween(s, k, l) == \A n \in k + 1 .. l - 1 : Places(s[n]) = {}

LEMMA InSequenceIs ==
    \A s : InSequence(s) <=>
        /\ \A k \in 1 .. Len(s) : WholeEvent(s[k])
        /\ \A k, l \in 1 .. Len(s) : k < l /\ SilentBetween(s, k, l) => Joins(s[k], s[l])
  BY DEF InSequence, SilentBetween

LEMMA CanTakeIs ==
    \A s, b : CanTake(s, b) <=> \A k \in 1 .. Len(s) : SilentAfter(s, k) => LastTakes(s[k], b)
  BY DEF CanTake, SilentAfter, LastTakes

LEMMA AppendTakes ==
    ASSUME NEW s \in Events, NEW e \in Seq(Byte), NEW b,
           Places(e) = {} => CanTake(s, b),
           LastTakes(e, b)
    PROVE  CanTake(Append(s, e), b)
<1>0. PICK t : t = Append(s, e)
  OBVIOUS
<1>1. /\ Len(s) \in Nat /\ Len(t) = Len(s) + 1
      /\ \A k \in 1 .. Len(s) : t[k] = s[k]
      /\ t[Len(s) + 1] = e
  BY <1>0, Appending
<1>2. SUFFICES ASSUME NEW k \in 1 .. Len(t), SilentAfter(t, k) PROVE LastTakes(t[k], b)
  BY <1>0, CanTakeIs
<1>3. CASE k = Len(s) + 1
  BY <1>1, <1>3
<1>4. CASE k \in 1 .. Len(s)
  <2>1. Len(t) \in k + 1 .. Len(t)
    BY <1>1, <1>4
  <2>2. Places(e) = {}
    BY <1>1, <1>2, <2>1 DEF SilentAfter
  <2>3. SilentAfter(s, k)
    <3>1. \A n \in k + 1 .. Len(s) : n \in k + 1 .. Len(t) /\ t[n] = s[n]
      BY <1>1, <1>4
    <3> QED
      BY <1>2, <3>1 DEF SilentAfter
  <2> QED
    BY <1>1, <1>4, <2>2, <2>3, CanTakeIs
<1> QED
  BY <1>1, <1>3, <1>4

\* The same, from the longer sequence.
LEMMA TakesBefore ==
    ASSUME NEW s \in Events, NEW e \in Seq(Byte), NEW b, CanTake(Append(s, e), b)
    PROVE  /\ LastTakes(e, b)
           /\ Places(e) = {} => CanTake(s, b)
<1>0. PICK t : t = Append(s, e)
  OBVIOUS
<1>1. /\ Len(s) \in Nat /\ Len(t) = Len(s) + 1
      /\ \A k \in 1 .. Len(s) : t[k] = s[k]
      /\ t[Len(s) + 1] = e
  BY <1>0, Appending
<1>2. \A k \in 1 .. Len(t) : SilentAfter(t, k) => LastTakes(t[k], b)
  BY <1>0, CanTakeIs
<1>3. LastTakes(e, b)
  <2>1. SilentAfter(t, Len(t))
    BY <1>1 DEF SilentAfter
  <2>2. Len(t) \in 1 .. Len(t)
    BY <1>1
  <2> QED
    BY <1>1, <1>2, <2>1, <2>2
<1>4. ASSUME Places(e) = {}, NEW k \in 1 .. Len(s), SilentAfter(s, k) PROVE LastTakes(s[k], b)
  <2>1. SilentAfter(t, k)
    <3>1. \A n \in k + 1 .. Len(t) : n = Len(s) + 1 \/ (n \in k + 1 .. Len(s) /\ t[n] = s[n])
      BY <1>1
    <3> QED
      BY <1>1, <1>4, <3>1 DEF SilentAfter
  <2>2. k \in 1 .. Len(t) /\ t[k] = s[k]
    BY <1>1
  <2> QED
    BY <1>2, <2>1, <2>2
<1> QED
  BY <1>3, <1>4, CanTakeIs

LEMMA AppendInSequence ==
    ASSUME NEW s \in Events, NEW e \in Seq(Byte),
           InSequence(s), WholeEvent(e),
           \A m \in Places(e) : (\A n \in Places(e) : m <= n) => CanTake(s, ByteAt(e, m))
    PROVE  InSequence(Append(s, e))
<1>0. PICK t : t = Append(s, e)
  OBVIOUS
<1>1. /\ Len(s) \in Nat /\ Len(t) = Len(s) + 1
      /\ \A k \in 1 .. Len(s) : t[k] = s[k]
      /\ t[Len(s) + 1] = e
  BY <1>0, Appending
<1>2. \A k \in 1 .. Len(t) : k \in 1 .. Len(s) \/ k = Len(s) + 1
  BY <1>1
<1>3. \A k \in 1 .. Len(t) : WholeEvent(t[k])
  BY <1>1, <1>2 DEF InSequence
<1>4. ASSUME NEW k \in 1 .. Len(t), NEW l \in 1 .. Len(t), k < l,
             \A n \in k + 1 .. l - 1 : Places(t[n]) = {}
      PROVE  Joins(t[k], t[l])
  <2>1. CASE l \in 1 .. Len(s)
    <3>1. k \in 1 .. Len(s) /\ \A n \in k + 1 .. l - 1 : n \in 1 .. Len(s)
      BY <1>1, <1>4, <2>1
    <3>2. \A n \in k + 1 .. l - 1 : Places(s[n]) = {}
      BY <1>1, <1>4, <3>1
    <3>3. Joins(s[k], s[l])
      BY <1>4, <2>1, <3>1, <3>2 DEF InSequence
    <3> QED
      BY <1>1, <2>1, <3>1, <3>3
  <2>2. CASE l = Len(s) + 1
    <3>1. k \in 1 .. Len(s) /\ \A n \in k + 1 .. Len(s) : n \in k + 1 .. l - 1 /\ n \in 1 .. Len(s)
      BY <1>1, <1>4, <2>2
    <3>2. SilentAfter(s, k)
      BY <1>1, <1>4, <3>1 DEF SilentAfter
    <3>3. \A b : CanTake(s, b) => LastTakes(s[k], b)
      BY <3>1, <3>2, CanTakeIs
    <3>4. Joins(s[k], e)
      BY <3>3 DEF Joins, LastTakes
    <3> QED
      BY <1>1, <2>2, <3>1, <3>4
  <2> QED
    BY <1>2, <2>1, <2>2
<1> QED
  BY <1>0, <1>3, <1>4 DEF InSequence

LEMMA InSequenceBefore ==
    ASSUME NEW s \in Events, NEW e \in Seq(Byte), InSequence(Append(s, e))
    PROVE  /\ InSequence(s) /\ WholeEvent(e)
           /\ \A k \in 1 .. Len(s) : SilentAfter(s, k) => Joins(s[k], e)
<1>0. PICK t : t = Append(s, e)
  OBVIOUS
<1>1. /\ Len(s) \in Nat /\ Len(t) = Len(s) + 1
      /\ \A k \in 1 .. Len(s) : t[k] = s[k]
      /\ t[Len(s) + 1] = e
  BY <1>0, Appending
<1>2. InSequence(t)
  BY <1>0
<1>3. \A k \in 1 .. Len(s) : k \in 1 .. Len(t)
  BY <1>1
<1>4. Len(s) + 1 \in 1 .. Len(t)
  BY <1>1
<1>5. WholeEvent(e) /\ \A k \in 1 .. Len(s) : WholeEvent(s[k])
  BY <1>1, <1>2, <1>3, <1>4 DEF InSequence
<1>6. ASSUME NEW k \in 1 .. Len(s), NEW l \in 1 .. Len(s), k < l,
             \A n \in k + 1 .. l - 1 : Places(s[n]) = {}
      PROVE  Joins(s[k], s[l])
  <2>1. \A n \in k + 1 .. l - 1 : n \in 1 .. Len(s)
    BY <1>1
  <2>2. \A n \in k + 1 .. l - 1 : Places(t[n]) = {}
    BY <1>1, <1>6, <2>1
  <2>3. Joins(t[k], t[l])
    BY <1>2, <1>3, <1>6, <2>2 DEF InSequence
  <2> QED
    BY <1>1, <2>3
<1>7. ASSUME NEW k \in 1 .. Len(s), SilentAfter(s, k) PROVE Joins(s[k], e)
  <2>1. \A n \in k + 1 .. (Len(s) + 1) - 1 : n \in k + 1 .. Len(s) /\ n \in 1 .. Len(s)
    BY <1>1
  <2>2. \A n \in k + 1 .. (Len(s) + 1) - 1 : Places(t[n]) = {}
    BY <1>1, <1>7, <2>1 DEF SilentAfter
  <2>3. k < Len(s) + 1
    BY <1>1
  <2>4. SilentBetween(t, k, Len(s) + 1)
    BY <2>2 DEF SilentBetween
  <2>5. Joins(t[k], t[Len(s) + 1])
    BY <1>2, <1>3, <1>4, <2>3, <2>4, InSequenceIs
  <2> QED
    BY <1>1, <2>5
<1> QED
  BY <1>5, <1>6, <1>7 DEF InSequence

LEMMA SuffixInSequence ==
    ASSUME NEW s \in Events, NEW t \in Events
    PROVE  /\ InSequence(s \o t) => InSequence(t)
           /\ \A b : CanTake(s \o t, b) => CanTake(t, b)
<1>0. PICK u, d : u = s \o t /\ d = Len(s)
  OBVIOUS
<1>1. /\ d \in Nat /\ Len(t) \in Nat /\ Len(u) = d + Len(t)
      /\ \A k \in 1 .. Len(t) : u[d + k] = t[k]
  <2>1. /\ d = Len(s) /\ d \in Nat /\ Len(t) \in Nat /\ Len(u) = d + Len(t)
        /\ \A k \in 1 .. Len(u) : u[k] = IF k <= Len(s) THEN s[k] ELSE t[k - Len(s)]
    BY <1>0, ConcatProperties DEF Events
  <2>2. \A k \in 1 .. Len(t) : d + k \in 1 .. Len(u) /\ ~(d + k <= d) /\ d + k - d = k
    BY <2>1
  <2> QED
    BY <2>1, <2>2
<1>2. \A k \in 1 .. Len(t) : d + k \in 1 .. Len(u)
  BY <1>1
<1>3. ASSUME InSequence(u) PROVE InSequence(t)
  <2>1. \A k \in 1 .. Len(t) : WholeEvent(t[k])
    BY <1>1, <1>2, <1>3 DEF InSequence
  <2>2. ASSUME NEW k \in 1 .. Len(t), NEW l \in 1 .. Len(t), k < l,
               \A n \in k + 1 .. l - 1 : Places(t[n]) = {}
        PROVE  Joins(t[k], t[l])
    <3>1. ASSUME NEW n \in (d + k) + 1 .. (d + l) - 1 PROVE Places(u[n]) = {}
      <4>1. n - d \in k + 1 .. l - 1 /\ n - d \in 1 .. Len(t) /\ d + (n - d) = n
        BY <1>1
      <4> QED
        BY <1>1, <2>2, <4>1
    <3>2. d + k < d + l
      BY <1>1, <2>2
    <3>3. SilentBetween(u, d + k, d + l)
      BY <3>1 DEF SilentBetween
    <3>4. Joins(u[d + k], u[d + l])
      BY <1>2, <1>3, <3>2, <3>3, InSequenceIs
    <3> QED
      BY <1>1, <3>4
  <2> QED
    BY <2>1, <2>2 DEF InSequence
<1>4. ASSUME NEW b, CanTake(u, b) PROVE CanTake(t, b)
  <2>1. ASSUME NEW k \in 1 .. Len(t), SilentAfter(t, k) PROVE LastTakes(t[k], b)
    <3>1. ASSUME NEW n \in d + k + 1 .. Len(u) PROVE Places(u[n]) = {}
      <4>1. n - d \in k + 1 .. Len(t) /\ n - d \in 1 .. Len(t) /\ d + (n - d) = n
        BY <1>1
      <4> QED
        BY <1>1, <2>1, <4>1 DEF SilentAfter
    <3>2. SilentAfter(u, d + k)
      BY <3>1 DEF SilentAfter
    <3> QED
      BY <1>1, <1>2, <1>4, <3>2, CanTakeIs
  <2> QED
    BY <2>1, CanTakeIs
<1> QED
  BY <1>0, <1>3, <1>4

-----------------------------------------------------------------------------
(***************************************************************************)
(* The events that pm_read_short and pm_read_bytes make.                   *)
(***************************************************************************)
LEMMA FollowsFacts ==
    /\ \A a : Follows(a, Lost)
    /\ Follows(Lost, SYSEX)
    /\ \A a, b \in 128 .. 255 : a # SYSEX => Follows(a, SYSEX)
    /\ \A a : \A b \in 128 .. 246 : Follows(a, SYSEX) => Follows(a, b)
<1>1. SYSEX = 240 /\ EOX = 247 /\ Lost = -1
  BY DEF SYSEX, EOX, Lost
<1>2. \A a : Follows(a, Lost)
  BY DEF Follows
<1>3. \A a : Follows(a, SYSEX) <=> EndsMessage(a)
  BY <1>1 DEF Follows
<1>4. \A a : \A b \in 128 .. 246 : EndsMessage(a) => Follows(a, b)
  BY <1>1 DEF Follows
<1>5. EndsMessage(Lost) /\ \A a \in 128 .. 255 : a # SYSEX => EndsMessage(a)
  BY DEF EndsMessage
<1> QED
  BY <1>2, <1>3, <1>4, <1>5

LEMMA LossPlaces == Places(Loss) = {1} /\ ByteAt(Loss, 1) = Lost /\ WholeEvent(Loss) /\ Loss \in Seq(Byte)
<1>1. Places(Loss) = {1} /\ ByteAt(Loss, 1) = Lost
  BY DEF Places, ByteAt
<1>2. \A j, m \in {1} : ~(j < m)
  OBVIOUS
<1>3. Loss \in Seq(Byte)
  BY DEF Loss
<1> QED
  BY <1>1, <1>2, <1>3 DEF WholeEvent

\* An overflow may come anywhere, and any message after it.
LEMMA LossAdded ==
    ASSUME NEW s \in Events, InSequence(s)
    PROVE  InSequence(Append(s, Loss)) /\ CanTake(Append(s, Loss), SYSEX)
<1>1. CanTake(s, Lost)
  BY FollowsFacts DEF CanTake
<1>2. InSequence(Append(s, Loss))
  BY <1>1, LossPlaces, AppendInSequence
<1>3. LastTakes(Loss, SYSEX)
  BY LossPlaces, FollowsFacts DEF LastTakes
<1>4. CanTake(Append(s, Loss), SYSEX)
  BY <1>3, LossPlaces, AppendTakes
<1> QED
  BY <1>2, <1>4

LEMMA ShortTakes ==
    ASSUME NEW s, CanTake(s, SYSEX), NEW b \in (128 .. 246) \ {SYSEX}
    PROVE  CanTake(s, b) /\ Follows(b, SYSEX)
<1>1. b \in 128 .. 246 /\ b \in 128 .. 255 /\ b # SYSEX
  OBVIOUS
<1>2. \A a : Follows(a, SYSEX) => Follows(a, b)
  BY <1>1, FollowsFacts
<1>3. CanTake(s, b)
  BY <1>2 DEF CanTake
<1>4. Follows(b, SYSEX)
  BY <1>1, FollowsFacts
<1> QED
  BY <1>3, <1>4

LEMMA ShortAdded ==
    ASSUME NEW s \in Events, InSequence(s), CanTake(s, SYSEX),
           NEW e \in Seq(Byte), e # << >>, e[1] \in (128 .. 246) \ {SYSEX}
    PROVE  InSequence(Append(s, e)) /\ CanTake(Append(s, e), SYSEX)
<1>1. Places(e) = {1} /\ ByteAt(e, 1) = e[1]
  BY DEF Places, IsShort, ByteAt, Loss
<1>2. WholeEvent(e)
  <2>1. \A j, m \in {1} : ~(j < m)
    OBVIOUS
  <2> QED
    BY <1>1, <2>1 DEF WholeEvent
<1>3. CanTake(s, e[1]) /\ Follows(e[1], SYSEX)
  BY ShortTakes
<1>4. LastTakes(e, SYSEX)
  BY <1>1, <1>3 DEF LastTakes
<1> QED
  BY <1>1, <1>2, <1>3, <1>4, AppendInSequence, AppendTakes

LEMMA SysexPlaces ==
    ASSUME NEW e \in Seq(Byte), e # << >>, Opens(e[1])
    PROVE  /\ Places(e) = {j \in 1 .. Len(e) : ~IsRealTime(e[j])}
           /\ \A j \in 1 .. Len(e) : ByteAt(e, j) = e[j]
  BY DEF Places, IsShort, ByteAt, Loss, Opens

\* A run of sysex bytes.
LEMMA RunAdded ==
    ASSUME NEW s \in Events, InSequence(s),
           NEW e \in Seq(Byte), e # << >>, Opens(e[1]), \A j \in 1 .. Len(e) : ~IsRealTime(e[j]),
           \A j \in 1 .. Len(e) - 1 : Follows(e[j], e[j + 1]),
           CanTake(s, e[1])
    PROVE  /\ InSequence(Append(s, e))
           /\ \A c : Follows(e[Len(e)], c) => CanTake(Append(s, e), c)
<1>1. Len(e) \in Nat \ {0}
  BY EmptySeq
<1>2. Places(e) = 1 .. Len(e) /\ \A j \in 1 .. Len(e) : ByteAt(e, j) = e[j]
  BY SysexPlaces
<1>3. WholeEvent(e)
  <2> SUFFICES ASSUME NEW j \in 1 .. Len(e), NEW m \in 1 .. Len(e), j < m,
                      \A n \in 1 .. Len(e) : n <= j \/ m <= n
               PROVE  Follows(e[j], e[m])
    BY <1>2 DEF WholeEvent
  <2>1. j + 1 \in 1 .. Len(e) /\ j \in 1 .. Len(e) - 1
    BY <1>1
  <2>2. m = j + 1
    BY <1>1, <2>1
  <2> QED
    BY <2>1, <2>2
<1>4. \A m \in Places(e) : (\A n \in Places(e) : m <= n) => CanTake(s, ByteAt(e, m))
  <2>1. ASSUME NEW m \in 1 .. Len(e), \A n \in 1 .. Len(e) : m <= n PROVE m = 1
    BY <1>1, <2>1
  <2> QED
    BY <1>2, <2>1
<1>5. ASSUME NEW c, Follows(e[Len(e)], c) PROVE LastTakes(e, c)
  <2>1. ASSUME NEW j \in 1 .. Len(e), \A n \in 1 .. Len(e) : n <= j PROVE j = Len(e)
    BY <1>1, <2>1
  <2> QED
    BY <1>2, <1>5, <2>1 DEF LastTakes
<1>6. Places(e) # {}
  BY <1>1, <1>2
<1> QED
  BY <1>3, <1>4, <1>5, <1>6, AppendInSequence, AppendTakes

\* The events with the bytes that are packed.
With(s, e) == IF e = << >> THEN s ELSE Append(s, e)

\* One more byte is packed.
LEMMA ByteAdded ==
    ASSUME NEW s \in Events, NEW e \in Seq(Byte), NEW b \in Byte,
           e # << >> => Opens(e[1]),
           e = << >> => Opens(b),
           InSequence(With(s, e)),
           IsRealTime(b) \/ CanTake(With(s, e), b)
    PROVE  /\ InSequence(Append(s, Append(e, b)))
           /\ \A c : (IF IsRealTime(b) THEN CanTake(With(s, e), c) ELSE Follows(b, c))
                        => CanTake(Append(s, Append(e, b)), c)
           /\ Opens(Append(e, b)[1])
<1>0. PICK f : f = Append(e, b)
  OBVIOUS
<1>1. /\ f \in Seq(Byte) /\ f # << >> /\ Len(e) \in Nat /\ Len(f) = Len(e) + 1
      /\ \A k \in 1 .. Len(e) : f[k] = e[k]
      /\ f[Len(e) + 1] = b
  BY <1>0, AppendProperties
<1>2. e = << >> <=> Len(e) = 0
  BY EmptySeq
<1>3. Opens(f[1])
  BY <1>1, <1>2
<1>4. /\ Places(f) = {j \in 1 .. Len(f) : ~IsRealTime(f[j])}
      /\ \A j \in 1 .. Len(f) : ByteAt(f, j) = f[j]
  BY <1>1, <1>3, SysexPlaces
<1> DEFINE old == {j \in 1 .. Len(e) : ~IsRealTime(e[j])}
<1>5. e # << >> => Places(e) = old /\ \A j \in 1 .. Len(e) : ByteAt(e, j) = e[j]
  BY SysexPlaces
<1>6. old = {} \/ e # << >>
  BY <1>2
<1>7. Places(f) = old \cup (IF IsRealTime(b) THEN {} ELSE {Len(f)})
  BY <1>1, <1>4
<1>8. \A j \in old : j \in 1 .. Len(e) /\ f[j] = e[j] /\ ByteAt(f, j) = e[j]
  BY <1>1, <1>4
<1>9. ByteAt(f, Len(f)) = b /\ \A j \in old : j < Len(f) /\ j \in Int
  BY <1>1, <1>4
<1>10. /\ InSequence(s)
       /\ e # << >> => WholeEvent(e) /\ \A k \in 1 .. Len(s) : SilentAfter(s, k) => Joins(s[k], e)
       /\ \A c : CanTake(With(s, e), c) =>
            /\ old = {} => CanTake(s, c)
            /\ e # << >> => LastTakes(e, c)
  BY <1>5, <1>6, InSequenceBefore, TakesBefore DEF With
<1> HIDE DEF old
<1>11. WholeEvent(f)
  <2> SUFFICES ASSUME NEW j \in Places(f), NEW m \in Places(f), j < m,
                      \A n \in Places(f) : n <= j \/ m <= n
               PROVE  Follows(f[j], f[m])
    BY DEF WholeEvent
  <2>1. CASE m \in old
    <3>1. j \in old
      <4>1. j \in old \/ j = Len(f)
        BY <1>7
      <4>2. m < Len(f) /\ m \in Int /\ Len(f) \in Int
        BY <1>1, <1>9, <2>1
      <4> QED
        BY <4>1, <4>2
    <3>2. \A n \in old : n <= j \/ m <= n
      BY <1>7
    <3>3. Follows(e[j], e[m])
      BY <1>5, <1>6, <1>10, <2>1, <3>1, <3>2 DEF WholeEvent
    <3> QED
      BY <1>8, <2>1, <3>1, <3>3
  <2>2. CASE m \notin old
    <3>1. m = Len(f) /\ ~IsRealTime(b)
      BY <1>7, <2>2
    <3>2. j \in old
      BY <1>1, <1>7, <3>1
    <3>3. \A n \in old : n <= j
      <4>1. \A n \in old : n < Len(f) /\ n \in Int /\ (n <= j \/ Len(f) <= n)
        BY <1>7, <1>9, <3>1
      <4>2. Len(f) \in Int
        BY <1>1
      <4> QED
        BY <4>1, <4>2
    <3>4. LastTakes(e, b) /\ e # << >>
      BY <1>6, <1>10, <3>1, <3>2
    <3>5. Follows(e[j], b)
      BY <1>5, <1>8, <3>2, <3>3, <3>4 DEF LastTakes
    <3> QED
      BY <1>1, <1>8, <3>1, <3>2, <3>5
  <2> QED
    BY <2>1, <2>2
<1>12. ASSUME NEW k \in 1 .. Len(s), SilentAfter(s, k) PROVE Joins(s[k], f)
  <2> SUFFICES ASSUME NEW j \in Places(s[k]), NEW m \in Places(f),
                      \A n \in Places(s[k]) : n <= j, \A n \in Places(f) : m <= n
               PROVE  Follows(ByteAt(s[k], j), ByteAt(f, m))
    BY DEF Joins
  <2>1. CASE m \in old
    <3>1. Joins(s[k], e) /\ Places(e) = old /\ ByteAt(e, m) = e[m]
      BY <1>5, <1>6, <1>8, <1>10, <1>12, <2>1
    <3>2. \A n \in old : m <= n
      BY <1>7
    <3>3. Follows(ByteAt(s[k], j), e[m])
      BY <2>1, <3>1, <3>2 DEF Joins
    <3> QED
      BY <1>8, <2>1, <3>3
  <2>2. CASE m \notin old
    <3>1. m = Len(f) /\ ~IsRealTime(b)
      BY <1>7, <2>2
    <3>2. old = {}
      <4>1. \A n \in old : n < Len(f) /\ n \in Int /\ Len(f) <= n
        BY <1>7, <1>9, <3>1
      <4>2. Len(f) \in Int
        BY <1>1
      <4> QED
        BY <4>1, <4>2
    <3>3. CanTake(s, b)
      BY <1>10, <3>1, <3>2
    <3>4. LastTakes(s[k], b)
      BY <1>12, <3>3, CanTakeIs
    <3> QED
      BY <1>9, <3>1, <3>4 DEF LastTakes
  <2> QED
    BY <2>1, <2>2
<1>13. ASSUME NEW m \in Places(f), \A n \in Places(f) : m <= n PROVE CanTake(s, ByteAt(f, m))
  <2>1. \A k \in 1 .. Len(s) : SilentAfter(s, k) => LastTakes(s[k], ByteAt(f, m))
    BY <1>12, <1>13 DEF Joins, LastTakes
  <2> QED
    BY <2>1, CanTakeIs
<1>14. InSequence(Append(s, f))
  BY <1>1, <1>10, <1>11, <1>13, AppendInSequence
<1>15. ASSUME NEW c, IF IsRealTime(b) THEN CanTake(With(s, e), c) ELSE Follows(b, c)
       PROVE  CanTake(Append(s, f), c)
  <2>1. CASE IsRealTime(b)
    <3>1. Places(f) = old
      BY <1>7, <2>1
    <3>2. Places(f) = {} => CanTake(s, c)
      BY <1>10, <1>15, <2>1, <3>1
    <3>3. LastTakes(f, c)
      <4> SUFFICES ASSUME NEW j \in old, \A n \in old : n <= j PROVE Follows(e[j], c)
        BY <1>8, <3>1 DEF LastTakes
      <4>1. e # << >> /\ LastTakes(e, c)
        BY <1>6, <1>10, <1>15, <2>1
      <4> QED
        BY <1>5, <1>8, <4>1 DEF LastTakes
    <3> QED
      BY <1>1, <3>2, <3>3, AppendTakes
  <2>2. CASE ~IsRealTime(b)
    <3>1. Len(f) \in Places(f)
      BY <1>7, <2>2
    <3>2. LastTakes(f, c)
      <4> SUFFICES ASSUME NEW j \in Places(f), \A n \in Places(f) : n <= j
                   PROVE  Follows(ByteAt(f, j), c)
        BY DEF LastTakes
      <4>1. Len(f) <= j /\ (j \in old \/ j = Len(f)) /\ Len(f) \in Int
        BY <1>1, <1>7, <3>1
      <4>2. j = Len(f)
        BY <1>9, <4>1
      <4> QED
        BY <1>9, <1>15, <2>2, <4>2
    <3> QED
      BY <1>1, <3>1, <3>2, AppendTakes
  <2> QED
    BY <2>1, <2>2
<1> QED
  BY <1>0, <1>3, <1>14, <1>15

-----------------------------------------------------------------------------
(***************************************************************************)
(* Pm_Enqueue, pm_flush_sysex and the packing, on the whole stream.        *)
(***************************************************************************)
LEMMA EventsConcat ==
    ASSUME NEW s \in Events, NEW t \in Events
    PROVE  /\ s \o t \in Events /\ Len(s) \in Nat /\ Len(t) \in Nat
           /\ Len(s \o t) = Len(s) + Len(t)
           /\ \A k \in 1 .. Len(s \o t) : (s \o t)[k] = IF k <= Len(s) THEN s[k] ELSE t[k - Len(s)]
  BY ConcatProperties DEF Events

LEMMA EventsAssociate ==
    ASSUME NEW s \in Events, NEW t \in Events, NEW u \in Events
    PROVE  (s \o t) \o u = s \o (t \o u)
  BY ConcatAssociative DEF Events

LEMMA EventsEqual ==
    ASSUME NEW s \in Events, NEW t \in Events, Len(s) = Len(t), \A k \in 1 .. Len(s) : s[k] = t[k]
    PROVE  s = t
  BY SeqEqual DEF Events

LEMMA EventsAppend ==
    ASSUME NEW t \in Events, NEW u \in Events, NEW e \in Seq(Byte)
    PROVE  Append(t \o u, e) = t \o Append(u, e) /\ Append(u, e) \in Events
<1>1. PICK v : v = t \o u
  OBVIOUS
<1>2. PICK w : w = Append(u, e)
  OBVIOUS
<1>3. /\ v \in Events /\ Len(t) \in Nat /\ Len(u) \in Nat /\ Len(v) = Len(t) + Len(u)
      /\ \A k \in 1 .. Len(v) : v[k] = IF k <= Len(t) THEN t[k] ELSE u[k - Len(t)]
  BY <1>1, EventsConcat
<1>4. /\ w \in Events /\ Len(w) = Len(u) + 1
      /\ \A k \in 1 .. Len(u) : w[k] = u[k]
      /\ w[Len(u) + 1] = e
  BY <1>2, Appending
<1>5. PICK x : x = Append(v, e)
  OBVIOUS
<1>6. PICK y : y = t \o w
  OBVIOUS
<1>7. /\ x \in Events /\ Len(x) = Len(v) + 1
      /\ \A k \in 1 .. Len(v) : x[k] = v[k]
      /\ x[Len(v) + 1] = e
  BY <1>3, <1>5, Appending
<1>8. /\ y \in Events /\ Len(y) = Len(t) + Len(w)
      /\ \A k \in 1 .. Len(y) : y[k] = IF k <= Len(t) THEN t[k] ELSE w[k - Len(t)]
  BY <1>4, <1>6, EventsConcat
<1>9. Len(x) = Len(y)
  BY <1>3, <1>4, <1>7, <1>8
<1>10. ASSUME NEW k \in 1 .. Len(x) PROVE x[k] = y[k]
  <2>1. CASE k <= Len(t)
    <3>1. k \in 1 .. Len(v) /\ k \in 1 .. Len(y)
      BY <1>3, <1>9, <2>1
    <3> QED
      BY <1>3, <1>7, <1>8, <2>1, <3>1
  <2>2. CASE ~(k <= Len(t)) /\ k <= Len(v)
    <3>1. k - Len(t) \in 1 .. Len(u) /\ k \in 1 .. Len(v) /\ k \in 1 .. Len(y)
      BY <1>3, <1>9, <2>2
    <3> QED
      BY <1>3, <1>4, <1>7, <1>8, <2>2, <3>1
  <2>3. CASE ~(k <= Len(v))
    <3>1. k = Len(v) + 1 /\ k - Len(t) = Len(u) + 1 /\ ~(k <= Len(t)) /\ k \in 1 .. Len(y)
      BY <1>3, <1>7, <1>9, <2>3
    <3> QED
      BY <1>4, <1>7, <1>8, <3>1
  <2> QED
    BY <2>1, <2>2, <2>3
<1>11. x = y
  BY <1>7, <1>8, <1>9, <1>10, EventsEqual
<1> QED
  BY <1>1, <1>2, <1>4, <1>5, <1>6, <1>11

LEMMA StreamIs ==
    ASSUME Typed
    PROVE  /\ Stream \in Events /\ rret \o rgot \in Events
           /\ \A e \in Seq(Byte) : (rret \o rgot) \o Append(queue, e) = Append(Stream, e)
           /\ queue # << >> => Stream # << >> /\ Stream[Len(Stream)] = queue[Len(queue)]
<1>1. PICK h : h = rret \o rgot
  OBVIOUS
<1>2. h \in Events
  BY <1>1, ConcatProperties DEF Typed, Events
<1>3. Stream \in Events /\ Stream = h \o queue
  BY <1>1, <1>2, ConcatProperties DEF Typed, Events, Stream
<1>4. ASSUME NEW e \in Seq(Byte) PROVE h \o Append(queue, e) = Append(Stream, e)
  <2>1. queue \in Events
    BY DEF Typed
  <2> QED
    BY <1>2, <1>3, <2>1, EventsAppend
<1>5. ASSUME queue # << >> PROVE Stream # << >> /\ Stream[Len(Stream)] = queue[Len(queue)]
  <2>1. /\ Len(queue) \in Nat \ {0} /\ Len(h) \in Nat /\ Len(Stream) = Len(h) + Len(queue)
        /\ \A k \in 1 .. Len(Stream) : Stream[k] = IF k <= Len(h) THEN h[k] ELSE queue[k - Len(h)]
    BY <1>2, <1>3, <1>5, ConcatProperties, EmptySeq DEF Typed, Events
  <2>2. PICK n : n = Len(Stream)
    OBVIOUS
  <2>3. n \in 1 .. Len(Stream) /\ ~(n <= Len(h)) /\ n - Len(h) = Len(queue) /\ n # 0
    BY <2>1, <2>2
  <2> QED
    BY <1>3, <2>1, <2>2, <2>3, EmptySeq DEF Events
<1> QED
  BY <1>1, <1>2, <1>3, <1>4, <1>5

LEMMA PackedIs ==
    /\ Packed = With(Stream, sysex_message)
    /\ WholeInv => InSequence(Stream)
<1>1. Packed = With(Stream, sysex_message)
  BY DEF Packed, With
<1>2. ASSUME WholeInv PROVE InSequence(Stream)
  BY <1>2, StreamIs, InSequenceBefore DEF WholeInv, Packed, Typed
<1> QED
  BY <1>1, <1>2

\* After an overflow any message may come.
LEMMA LossTakes ==
    ASSUME NEW s \in Events, s # << >>, s[Len(s)] = Loss
    PROVE  CanTake(s, SYSEX)
<1>1. Len(s) \in Nat \ {0}
  BY EmptySeq DEF Events
<1>2. ASSUME NEW k \in 1 .. Len(s), SilentAfter(s, k) PROVE LastTakes(s[k], SYSEX)
  <2>1. CASE k = Len(s)
    BY <2>1, LossPlaces, FollowsFacts DEF LastTakes
  <2>2. CASE k # Len(s)
    <3>1. Len(s) \in k + 1 .. Len(s)
      BY <1>1, <2>2
    <3> QED
      BY <1>2, <3>1, LossPlaces DEF SilentAfter
  <2> QED
    BY <2>1, <2>2
<1> QED
  BY <1>2, CanTakeIs

\* Pm_Enqueue with room.
LEMMA Taken ==
    ASSUME Typed, Accepts, NEW e \in Seq(Byte), Enqueue(e), UNCHANGED reading
    PROVE  Stream' = Append(Stream, e) /\ queue' \in Events
<1>1. queue' = Append(queue, e) /\ rret' = rret /\ rgot' = rgot
  BY DEF Enqueue, Accepts, reading
<1>2. queue' \in Events
  BY <1>1 DEF Typed, Events
<1> QED
  BY <1>1, <1>2, StreamIs DEF Stream

\* Pm_Enqueue without room.
LEMMA Refused ==
    ASSUME Typed, InSequence(Stream), ~Accepts, NEW e, Enqueue(e), UNCHANGED reading
    PROVE  queue' \in Events /\ InSequence(Stream') /\ CanTake(Stream', SYSEX)
<1>1. rret' = rret /\ rgot' = rgot
  BY DEF reading
<1>2. CASE Overflowed
  <2>1. queue' = queue
    BY <1>2 DEF Enqueue, Accepts
  <2>2. Stream' = Stream
    BY <1>1, <2>1 DEF Stream
  <2>3. CanTake(Stream, SYSEX)
    BY <1>2, StreamIs, LossTakes DEF Overflowed
  <2> QED
    BY <2>1, <2>2, <2>3 DEF Typed
<1>3. CASE ~Overflowed
  <2>1. queue' = Append(queue, Loss)
    BY <1>3 DEF Enqueue, Accepts
  <2>2. queue' \in Events
    BY <2>1, LossPlaces DEF Typed, Events
  <2>3. Stream' = Append(Stream, Loss)
    BY <1>1, <2>1, StreamIs, LossPlaces DEF Stream
  <2> QED
    BY <2>2, <2>3, StreamIs, LossAdded
<1> QED
  BY <1>2, <1>3

LEMMA FlushEffect ==
    ASSUME WholeInv, NEW bytes \in Seq(Byte), NEW last \in BOOLEAN, Flush(bytes, last),
           UNCHANGED reading, UNCHANGED filters,
           InSequence(Append(Stream, bytes)),
           last => CanTake(Append(Stream, bytes), SYSEX)
    PROVE  /\ WholeInv'
           /\ last => ~sysex_in_progress'
           /\ sysex_in_progress' => Packed' = Append(Stream, bytes)
<1>1. /\ Enqueue(bytes) /\ sysex_in_progress' = (~last /\ Accepts) /\ sysex_message' = << >>
      /\ rret' = rret /\ rgot' = rgot /\ rpc' = rpc /\ filters' = filters
  BY DEF Flush, reading
<1>2. Typed /\ InSequence(Stream)
  BY PackedIs DEF WholeInv
<1>3. Packed' = Stream'
  BY <1>1 DEF Packed
<1>4. CASE Accepts
  <2>1. Stream' = Append(Stream, bytes) /\ queue' \in Events
    BY <1>1, <1>2, <1>4, Taken
  <2>2. Typed'
    BY <1>1, <1>2, <2>1 DEF Typed
  <2> QED
    BY <1>1, <1>2, <1>3, <1>4, <2>1, <2>2 DEF WholeInv
<1>5. CASE ~Accepts
  <2>1. queue' \in Events /\ InSequence(Stream') /\ CanTake(Stream', SYSEX)
    BY <1>1, <1>2, <1>5, Refused
  <2>2. Typed'
    BY <1>1, <1>2, <2>1 DEF Typed
  <2> QED
    BY <1>1, <1>2, <1>3, <1>5, <2>1, <2>2 DEF WholeInv
<1> QED
  BY <1>4, <1>5

\* A byte of a sysex message is packed.
LEMMA PackEffect ==
    ASSUME WholeInv, sysex_in_progress, NEW b \in Byte, Pack(b),
           UNCHANGED reading, UNCHANGED filters,
           IsRealTime(b) \/ CanTake(Packed, b),
           Opens(b)
    PROVE  /\ WholeInv'
           /\ sysex_in_progress' => \A c : (IF IsRealTime(b) THEN CanTake(Packed, c) ELSE Follows(b, c))
                                             => CanTake(Packed', c)
           /\ Len(sysex_message) # 3 => sysex_in_progress'
<1>1. PICK bytes : bytes = Append(sysex_message, b)
  OBVIOUS
<1>2. Typed /\ Stream \in Events /\ sysex_message \in Seq(Byte)
  BY StreamIs DEF WholeInv, Typed
<1>3. /\ bytes \in Seq(Byte) /\ bytes # << >> /\ Len(sysex_message) \in Nat
      /\ Len(bytes) = Len(sysex_message) + 1
  BY <1>1, <1>2, AppendProperties
<1>4. /\ InSequence(Append(Stream, bytes))
      /\ \A c : (IF IsRealTime(b) THEN CanTake(Packed, c) ELSE Follows(b, c))
                  => CanTake(Append(Stream, bytes), c)
      /\ Opens(bytes[1])
  BY <1>1, <1>2, PackedIs, ByteAdded DEF WholeInv
<1>5. CASE Len(bytes) = 4
  <2>1. Flush(bytes, FALSE)
    BY <1>1, <1>5 DEF Pack
  <2>2. WholeInv' /\ (sysex_in_progress' => Packed' = Append(Stream, bytes))
    BY <1>3, <1>4, <2>1, FlushEffect
  <2>3. Len(sysex_message) = 3
    <3>1. \A n \in Nat : n + 1 = 4 => n = 3
      OBVIOUS
    <3> QED
      BY <1>3, <1>5, <3>1
  <2> QED
    BY <1>4, <2>2, <2>3
<1>6. CASE Len(bytes) # 4
  <2>1. sysex_message' = bytes /\ sysex_in_progress' = sysex_in_progress /\ queue' = queue
    BY <1>1, <1>6 DEF Pack
  <2>2. rret' = rret /\ rgot' = rgot /\ rpc' = rpc /\ filters' = filters
    BY DEF reading
  <2>3. Stream' = Stream /\ Packed' = Append(Stream, bytes)
    BY <1>3, <2>1, <2>2 DEF Stream, Packed
  <2>4. Len(bytes) <= 3
    BY <1>2, <1>3, <1>6 DEF Typed
  <2>5. Typed'
    BY <1>2, <1>3, <2>1, <2>2, <2>4 DEF Typed
  <2>6. WholeInv'
    BY <1>3, <1>4, <2>1, <2>2, <2>3, <2>5 DEF WholeInv
  <2> QED
    BY <1>4, <2>1, <2>3, <2>6
<1> QED
  BY <1>5, <1>6

\* An event of real-time bytes only changes nothing for the others.
LEMMA QuietAdded ==
    ASSUME NEW s \in Events, InSequence(s), NEW b \in Byte, IsRealTime(b)
    PROVE  /\ <<b>> \in Seq(Byte)
           /\ InSequence(Append(s, <<b>>))
           /\ \A c : CanTake(s, c) => CanTake(Append(s, <<b>>), c)
<1>1. PICK e : e = <<b>>
  OBVIOUS
<1>2. e \in Seq(Byte) /\ e # << >> /\ Len(e) = 1 /\ e[1] = b
  BY <1>1
<1>3. Opens(b)
  BY DEF Opens, IsRealTime, SYSEX
<1>4. Places(e) = {}
  BY <1>2, <1>3, SysexPlaces
<1>5. WholeEvent(e) /\ \A c : LastTakes(e, c)
  BY <1>4 DEF WholeEvent, LastTakes
<1> QED
  BY <1>1, <1>2, <1>4, <1>5, AppendInSequence, AppendTakes

-----------------------------------------------------------------------------
\* A short message outside of a sysex message.
LEMMA ShortEffect ==
    ASSUME WholeInv, ~sysex_in_progress,
           NEW e \in Seq(Byte), e # << >>, e[1] \in (128 .. 246) \ {SYSEX},
           ReadShort(e), UNCHANGED reading, UNCHANGED filters
    PROVE  WholeInv' /\ ~sysex_in_progress'
<1>1. CASE ~Passes(e[1])
  <2>1. UNCHANGED <<packing, queue>>
    BY <1>1 DEF ReadShort
  <2> QED
    BY <2>1 DEF packing, reading, WholeInv, Typed, Packed, Stream
<1>2. CASE Passes(e[1])
  <2>1. /\ Enqueue(e) /\ sysex_in_progress' = FALSE /\ sysex_message' = sysex_message
        /\ rret' = rret /\ rgot' = rgot /\ rpc' = rpc /\ filters' = filters
    BY <1>2 DEF ReadShort, reading
  <2>2. Typed /\ InSequence(Stream) /\ CanTake(Stream, SYSEX) /\ sysex_message = << >>
    BY PackedIs DEF WholeInv
  <2>3. queue' \in Events /\ InSequence(Stream') /\ CanTake(Stream', SYSEX)
    BY <2>1, <2>2, Taken, Refused, ShortAdded, StreamIs
  <2>4. Packed' = Stream'
    BY <2>1, <2>2 DEF Packed
  <2>5. Typed'
    BY <2>1, <2>2, <2>3 DEF Typed
  <2> QED
    BY <2>1, <2>2, <2>3, <2>4, <2>5 DEF WholeInv
<1> QED
  BY <1>1, <1>2

\* A real-time byte.
LEMMA RealTimeEffect ==
    ASSUME WholeInv, NEW b \in Byte, IsRealTime(b),
           ReadShort(<<b>>), UNCHANGED reading, UNCHANGED filters
    PROVE  /\ WholeInv'
           /\ ~sysex_in_progress => ~sysex_in_progress'
           /\ sysex_in_progress' => \A c : CanTake(Packed, c) => CanTake(Packed', c)
<1> <<b>>[1] = b
  OBVIOUS
<1>1. CASE ~Passes(b)
  <2>1. UNCHANGED <<packing, queue>>
    BY <1>1 DEF ReadShort
  <2>2. UNCHANGED Packed
    BY <2>1 DEF packing, reading, Packed, Stream
  <2> QED
    BY <2>1, <2>2 DEF packing, reading, WholeInv, Typed, Stream
<1>2. CASE Passes(b) /\ sysex_in_progress
  <2>1. Pack(b)
    BY <1>2 DEF ReadShort, IsStatus, IsRealTime, Byte
  <2>2. Opens(b)
    BY DEF Opens, IsRealTime, SYSEX
  <2> QED
    BY <1>2, <2>1, <2>2, PackEffect
<1>3. CASE Passes(b) /\ ~sysex_in_progress
  <2>1. /\ Enqueue(<<b>>) /\ sysex_in_progress' = FALSE /\ sysex_message' = sysex_message
        /\ rret' = rret /\ rgot' = rgot /\ rpc' = rpc /\ filters' = filters
    BY <1>3 DEF ReadShort, reading
  <2>2. Typed /\ InSequence(Stream) /\ CanTake(Stream, SYSEX) /\ sysex_message = << >>
    BY <1>3, PackedIs DEF WholeInv
  <2>3. /\ InSequence(Append(Stream, <<b>>)) /\ CanTake(Append(Stream, <<b>>), SYSEX)
        /\ <<b>> \in Seq(Byte)
    BY <2>2, StreamIs, QuietAdded
  <2>4. queue' \in Events /\ InSequence(Stream') /\ CanTake(Stream', SYSEX)
    BY <2>1, <2>2, <2>3, Taken, Refused
  <2>5. Packed' = Stream'
    BY <2>1, <2>2 DEF Packed
  <2>6. Typed'
    BY <2>1, <2>2, <2>4 DEF Typed
  <2> QED
    BY <1>3, <2>1, <2>2, <2>4, <2>5, <2>6 DEF WholeInv
<1> QED
  BY <1>1, <1>2, <1>3

-----------------------------------------------------------------------------
(***************************************************************************)
(* The loops of pm_read_bytes: what is left of the bytes continues the     *)
(* stream.                                                                 *)
(***************************************************************************)
\* The bytes of a sysex message.
LEMMA SysexByteIs ==
    ASSUME NEW m, IsSysex(m), NEW k \in 1 .. Len(m)
    PROVE  /\ m[k] \in Byte /\ ~IsRealTime(m[k]) /\ Opens(m[k])
           /\ Len(m) \in Nat
           /\ m[k] < 128 => k < Len(m) /\ k # 1
           /\ m[k] = SYSEX => k < Len(m)
           /\ m[k] # EOX => k < Len(m)
           /\ m[k] < 128 \/ m[k] = SYSEX \/ m[k] = EOX
           /\ k < Len(m) => Follows(m[k], m[k + 1])
<1>1. Len(m) \in Nat /\ Len(m) >= 3 /\ m[k] \in Byte
  BY DEF IsSysex
<1>2. k = 1 \/ k = Len(m) \/ k \in 2 .. Len(m) - 1
  BY <1>1
<1>3. k = 1 \/ k = Len(m) \/ m[k] < 128
  BY <1>2 DEF IsSysex
<1>4. k < Len(m) => k \in 1 .. Len(m) - 1
  BY <1>1
<1>5. k < Len(m) => Follows(m[k], m[k + 1])
  BY <1>4 DEF IsSysex
<1>6. (k = 1 => m[k] = 240) /\ (k = Len(m) => m[k] = 247)
  BY DEF IsSysex, SYSEX, EOX
<1>7. PICK b, n : b = m[k] /\ n = Len(m)
  OBVIOUS
<1>8. /\ n \in Nat /\ n >= 3 /\ b \in 0 .. 255 /\ k \in 1 .. n
      /\ k = 1 => b = 240
      /\ k = n => b = 247
      /\ k = 1 \/ k = n \/ b < 128
  BY <1>1, <1>3, <1>6, <1>7 DEF Byte
<1>9. /\ b < 128 => k < n /\ k # 1
      /\ b = 240 => k < n
      /\ b # 247 => k < n
      /\ b < 128 \/ b = 240 \/ b = 247
  BY <1>8
<1>10. ~(b >= 248) /\ b \notin (128 .. 246) \ {240}
  BY <1>8
<1> QED
  BY <1>1, <1>5, <1>7, <1>9, <1>10 DEF IsRealTime, Opens, SYSEX, EOX

\* One byte is processed.
LEMMA OneByte ==
    ASSUME NEW m, IsSysex(m), NEW q \in Nat, NEW p, Feeds(m, q, p), CallOk, i < Len(data)
    PROVE  /\ byte \in Byte
           /\ \/ IsRealTime(byte) /\ (i' = i + 1 /\ data' = data => Feeds(m, q, p)')
              \/ /\ q + 1 \in 1 .. Len(m) /\ byte = m[q + 1]
                 /\ i' = i + 1 /\ data' = data => Feeds(m, q + 1, p)'
<1>1. /\ i \in Nat /\ Len(data) \in Nat /\ Len(m) \in Nat /\ q \in Nat /\ p \in Nat
      /\ q <= p /\ p <= Len(m)
  <2>1. i \in Nat /\ Len(data) \in Nat
    BY DEF CallOk
  <2>2. Len(m) \in Nat /\ q \in 0 .. p /\ p \in 0 .. Len(m)
    BY DEF Feeds, IsSysex
  <2> QED
    BY <2>1, <2>2
<1>2. i + 1 \in 1 .. Len(data) /\ byte = data[i + 1]
  BY <1>1 DEF byte
<1>3. byte \in Byte
  BY <1>2 DEF CallOk
<1>4. CASE /\ Left = p - q
           /\ \A k \in 1 .. Left : data[i + k] = m[q + k]
  <2>1. q < p /\ 1 \in 1 .. Left
    BY <1>1, <1>4 DEF Left
  <2>2. q + 1 \in 1 .. Len(m) /\ byte = m[q + 1] /\ q + 1 \in 0 .. p
    <3>1. q + 1 \in 1 .. Len(m) /\ q + 1 \in 0 .. p
      BY <1>1, <2>1
    <3> QED
      BY <1>2, <1>4, <2>1, <3>1
  <2>3. ASSUME i' = i + 1, data' = data PROVE Feeds(m, q + 1, p)'
    <3>0. Left' = Len(data) - (i + 1) /\ Left = Len(data) - i
      BY <2>3 DEF Left
    <3>4. Left = p - q
      BY <1>4
    <3>1. Left' = p - (q + 1) /\ Left' = Left - 1 /\ Left \in Int
      BY <1>1, <3>0, <3>4
    <3>2. ASSUME NEW k \in 1 .. Left' PROVE data'[i' + k] = m[(q + 1) + k]
      <4>1. k + 1 \in 1 .. Left /\ i' + k = i + (k + 1) /\ (q + 1) + k = q + (k + 1)
        BY <1>1, <2>3, <3>1
      <4> QED
        BY <1>4, <2>3, <4>1
    <3> QED
      BY <1>1, <2>2, <3>1, <3>2 DEF Feeds
  <2> QED
    BY <1>3, <2>2, <2>3
<1>5. CASE /\ Left = p - q + 1
           /\ IsRealTime(data[i + 1])
           /\ \A k \in 2 .. Left : data[i + k] = m[(q + k) - 1]
  <2>1. ASSUME i' = i + 1, data' = data PROVE Feeds(m, q, p)'
    <3>0. Left' = Len(data) - (i + 1) /\ Left = Len(data) - i
      BY <2>1 DEF Left
    <3>4. Left = p - q + 1
      BY <1>5
    <3>1. Left' = p - q /\ Left' = Left - 1 /\ Left \in Int
      BY <1>1, <3>0, <3>4
    <3>2. ASSUME NEW k \in 1 .. Left' PROVE data'[i' + k] = m[q + k]
      <4>1. k + 1 \in 2 .. Left /\ i' + k = i + (k + 1) /\ q + k = (q + (k + 1)) - 1
        BY <1>1, <2>1, <3>1
      <4> QED
        BY <1>5, <2>1, <4>1
    <3>3. q \in 0 .. p /\ p \in 0 .. Len(m)
      BY <1>1
    <3> QED
      BY <3>1, <3>2, <3>3 DEF Feeds
  <2> QED
    BY <1>2, <1>3, <1>5, <2>1
<1>6. CASE /\ Left = p - q + 1 /\ p > q
           /\ data[i + 1] = m[q + 1] /\ IsRealTime(data[i + 2])
           /\ \A k \in 3 .. Left : data[i + k] = m[(q + k) - 1]
  <2>1. q + 1 \in 1 .. Len(m) /\ byte = m[q + 1] /\ q + 1 \in 0 .. p /\ p \in 0 .. Len(m)
    BY <1>1, <1>2, <1>6
  <2>2. ASSUME i' = i + 1, data' = data PROVE Feeds(m, q + 1, p)'
    <3>0. Left' = Len(data) - (i + 1) /\ Left = Len(data) - i
      BY <2>2 DEF Left
    <3>4. Left = p - q + 1
      BY <1>6
    <3>1. Left' = p - (q + 1) + 1 /\ Left' = Left - 1 /\ Left \in Int /\ i' + 1 = i + 2
      BY <1>1, <2>2, <3>0, <3>4
    <3>2. ASSUME NEW k \in 2 .. Left' PROVE data'[i' + k] = m[((q + 1) + k) - 1]
      <4>1. k + 1 \in 3 .. Left /\ i' + k = i + (k + 1) /\ ((q + 1) + k) - 1 = (q + (k + 1)) - 1
        BY <1>1, <2>2, <3>1
      <4> QED
        BY <1>6, <2>2, <4>1
    <3> QED
      BY <1>6, <2>1, <2>2, <3>1, <3>2 DEF Feeds
  <2> QED
    BY <1>3, <2>1, <2>2
<1> QED
  BY <1>4, <1>5, <1>6 DEF Feeds

\* Four data bytes are processed.
LEMMA FourBytes ==
    ASSUME NEW m, IsSysex(m), NEW q \in Nat, NEW p, Feeds(m, q, p), CallOk, FourData
    PROVE  /\ q + 4 \in 1 .. Len(m) /\ q + 1 \in 1 .. Len(m)
           /\ \A k \in 1 .. 4 : data[i + k] = m[q + k] /\ m[q + k] < 128 /\ q + k \in 1 .. Len(m)
           /\ i' = i + 4 /\ data' = data => Feeds(m, q + 4, p)'
<1>1. /\ i \in Nat /\ Len(data) \in Nat /\ Len(m) \in Nat /\ q \in Nat /\ p \in Nat
      /\ q <= p /\ p <= Len(m) /\ i + 4 <= Len(data)
  <2>1. i \in Nat /\ Len(data) \in Nat /\ i + 4 <= Len(data)
    BY DEF CallOk, FourData
  <2>2. Len(m) \in Nat /\ q \in 0 .. p /\ p \in 0 .. Len(m)
    BY DEF Feeds, IsSysex
  <2> QED
    BY <2>1, <2>2
<1>2. \A k \in 1 .. 4 : data[i + k] \in Byte /\ data[i + k] < 128
  <2>1. \A k \in 1 .. 4 : i + k \in 1 .. Len(data)
    BY <1>1
  <2>2. \A k \in 1 .. 4 : data[i + k] \in Byte
    BY <2>1 DEF CallOk
  <2>3. \A k \in 1 .. 4 : ~(data[i + k] >= 128)
    BY DEF FourData, IsStatus
  <2>4. \A b \in Byte : ~(b >= 128) => b < 128
    BY DEF Byte
  <2> QED
    BY <2>2, <2>3, <2>4
<1>3. ~IsRealTime(data[i + 1]) /\ ~IsRealTime(data[i + 2])
  BY <1>2 DEF IsRealTime, Byte
<1>4. Left = p - q /\ \A k \in 1 .. Left : data[i + k] = m[q + k]
  BY <1>3 DEF Feeds
<1>5. q + 4 <= p /\ Left \in Nat /\ 4 <= Left
  BY <1>1, <1>4 DEF Left
<1>6. \A k \in 1 .. 4 : k \in 1 .. Left /\ q + k \in 1 .. Len(m)
  BY <1>1, <1>5
<1>7. \A k \in 1 .. 4 : data[i + k] = m[q + k] /\ m[q + k] < 128 /\ q + k \in 1 .. Len(m)
  BY <1>2, <1>4, <1>6
<1>8. ASSUME i' = i + 4, data' = data PROVE Feeds(m, q + 4, p)'
  <2>0. Left' = Len(data) - (i + 4) /\ Left = Len(data) - i
    BY <1>8 DEF Left
  <2>4. Left = p - q
    BY <1>4
  <2>1. Left' = p - (q + 4) /\ Left' = Left - 4
    BY <1>1, <2>0, <2>4
  <2>2. ASSUME NEW k \in 1 .. Left' PROVE data'[i' + k] = m[(q + 4) + k]
    <3>1. k + 4 \in 1 .. Left /\ i' + k = i + (k + 4) /\ (q + 4) + k = q + (k + 4)
      BY <1>1, <1>5, <1>8, <2>1
    <3> QED
      BY <1>4, <1>8, <3>1
  <2>3. q + 4 \in 0 .. p /\ p \in 0 .. Len(m)
    BY <1>1, <1>5
  <2> QED
    BY <2>1, <2>2, <2>3 DEF Feeds
<1> QED
  BY <1>6, <1>7, <1>8

\* All bytes are processed.
LEMMA AllGiven ==
    ASSUME NEW m, NEW q \in Nat, NEW p, Feeds(m, q, p), CallOk, i = Len(data)
    PROVE  q = p
<1>1. Left = 0 /\ q \in Nat /\ p \in Nat /\ q <= p
  BY DEF Left, CallOk, Feeds
<1> QED
  BY <1>1 DEF Feeds

\* Nothing changes but how far pm_read_bytes is.
LEMMA SameWholeInv ==
    ASSUME UNCHANGED <<settings, packing, queue, reading>>
    PROVE  (WholeInv => WholeInv') /\ Packed' = Packed /\ sysex_in_progress' = sysex_in_progress
           /\ Stream' = Stream
  BY DEF settings, packing, reading, WholeInv, Typed, Packed, Stream

LEMMA FeedsSame ==
    ASSUME UNCHANGED <<data, i>>, NEW m, NEW q, NEW p, Feeds(m, q, p)
    PROVE  Feeds(m, q, p)'
  BY DEF Feeds, Left

LEMMA Returned ==
    ASSUME ReadBytesReturns, NEW m, NEW p, MayGoOn(m, p)'
    PROVE  CallOk' /\ Going(m, p)'
<1>1. dpc' = "idle" /\ data' = << >> /\ i' = 0
  BY DEF ReadBytesReturns
<1>2. data' \in Seq(Byte) /\ i' \in 0 .. Len(data')
  BY <1>1
<1> QED
  BY <1>1, <1>2 DEF CallOk, Going

-----------------------------------------------------------------------------
\* pm_read_bytes looks for the start of a sysex message.
LEMMA ScanSteps ==
    ASSUME NEW m, IsSysex(m), NEW p, WholeInv, CallOk, dpc # "idle", Going(m, p),
           ScanStart \/ ScanEox \/ ScanStatus \/ ScanData \/ ScanEnd
    PROVE  (WholeInv /\ CallOk /\ Going(m, p))'
<1>1. dpc = "scan" /\ ~sysex_in_progress
  BY DEF ScanStart, ScanEox, ScanStatus, ScanData, ScanEnd, CallOk
<1>2. PICK q \in Nat : Feeds(m, q, p) /\ MayGoOn(m, q)
  BY DEF Going
<1>3. sysex_message = << >> /\ CanTake(Stream, SYSEX) /\ Packed = Stream
  BY <1>1 DEF WholeInv, Packed
<1>4. i \in Nat /\ Len(data) \in Nat /\ i <= Len(data) /\ data \in Seq(Byte)
  BY DEF CallOk
<1>5. CASE ScanStart
  <2>1. /\ i < Len(data) /\ byte = SYSEX /\ sysex_in_progress' = TRUE /\ dpc' = "send"
        /\ UNCHANGED <<data, i>>
    BY <1>4, <1>5 DEF ScanStart, Advance
  <2>2. UNCHANGED <<filters, sysex_message, queue, rpc, rgot, rret>>
    BY <1>5 DEF ScanStart, settings, reading
  <2>3. Stream' = Stream /\ Packed' = Packed
    BY <2>2 DEF Stream, Packed
  <2>4. WholeInv'
    BY <1>3, <2>1, <2>2, <2>3 DEF WholeInv, Typed
  <2>5. CallOk'
    BY <1>4, <2>1 DEF CallOk
  <2>6. q + 1 \in 1 .. Len(m) /\ byte = m[q + 1]
    BY <1>2, <2>1, OneByte DEF IsRealTime, SYSEX
  <2>7. MayGoOn(m, q)'
    <3>1. q < Len(m) /\ CanTake(Packed', m[q + 1])
      BY <1>3, <2>1, <2>3, <2>6, SysexByteIs
    <3> QED
      BY <3>1 DEF MayGoOn
  <2>8. Feeds(m, q, p)'
    BY <1>2, <2>1, FeedsSame
  <2> QED
    BY <2>1, <2>4, <2>5, <2>7, <2>8 DEF Going
<1>6. CASE ScanEox
  <2>1. ReadBytesReturns /\ sysex_in_progress' = FALSE
    BY <1>6 DEF ScanEox
  <2>2. UNCHANGED <<filters, sysex_message, queue, rpc, rgot, rret>>
    BY <1>6 DEF ScanEox, settings, reading
  <2>3. Stream' = Stream /\ Packed' = Packed
    BY <2>2 DEF Stream, Packed
  <2>4. WholeInv'
    BY <1>3, <2>1, <2>2, <2>3 DEF WholeInv, Typed
  <2> QED
    BY <2>1, <2>4, Returned DEF MayGoOn
<1>7. CASE ScanStatus
  <2>1. /\ i < Len(data) /\ IsStatus(byte) /\ byte # EOX /\ ReadShort(<<byte>>)
        /\ i' = i + 1 /\ dpc' = "scan" /\ data' = data /\ UNCHANGED reading /\ UNCHANGED filters
    BY <1>7 DEF ScanStatus, Advance, settings
  <2>2. byte # SYSEX
    BY <1>7 DEF ScanStatus, RealtimeFiltered, SYSEX, WholeInv
  <2>3. byte \in Byte /\ IsRealTime(byte) /\ Feeds(m, q, p)'
    <3>1. ASSUME q + 1 \in 1 .. Len(m), byte = m[q + 1] PROVE FALSE
      <4>1. (m[q + 1] < 128 \/ m[q + 1] = SYSEX \/ m[q + 1] = EOX) /\ m[q + 1] \in Byte
        BY <3>1, SysexByteIs
      <4>2. byte \in Byte /\ byte < 128
        BY <2>1, <2>2, <3>1, <4>1
      <4>3. byte >= 128
        BY <2>1 DEF IsStatus
      <4> QED
        BY <4>2, <4>3 DEF Byte
    <3> QED
      BY <1>2, <2>1, <3>1, OneByte
  <2>4. WholeInv' /\ ~sysex_in_progress'
    BY <1>1, <2>1, <2>3, RealTimeEffect
  <2>5. CallOk'
    <3>1. i + 1 \in 0 .. Len(data)
      BY <1>4, <2>1
    <3> QED
      BY <1>4, <2>1, <2>4, <3>1 DEF CallOk
  <2> QED
    BY <2>1, <2>3, <2>4, <2>5 DEF Going, MayGoOn
<1>8. CASE ScanData
  <2>1. /\ i < Len(data) /\ ~IsStatus(byte)
        /\ i' = i + 1 /\ dpc' = "scan" /\ data' = data
        /\ UNCHANGED <<settings, packing, queue, reading>>
    BY <1>8 DEF ScanData, Advance
  <2>2. WholeInv' /\ ~sysex_in_progress'
    BY <1>1, <2>1, SameWholeInv
  <2>3. \E r \in Nat : Feeds(m, r, p)'
    BY <1>2, <2>1, OneByte
  <2>4. CallOk'
    <3>1. i + 1 \in 0 .. Len(data)
      BY <1>4, <2>1
    <3> QED
      BY <1>4, <2>1, <2>2, <3>1 DEF CallOk
  <2> QED
    BY <2>1, <2>2, <2>3, <2>4 DEF Going, MayGoOn
<1>9. CASE ScanEnd
  <2>1. ReadBytesReturns /\ UNCHANGED <<settings, packing, queue, reading>>
    BY <1>9 DEF ScanEnd
  <2>2. WholeInv' /\ ~sysex_in_progress'
    BY <1>1, <2>1, SameWholeInv
  <2> QED
    BY <2>1, <2>2, Returned DEF MayGoOn
<1> QED
  BY <1>5, <1>6, <1>7, <1>8, <1>9

-----------------------------------------------------------------------------
\* pm_read_bytes sends the bytes of a sysex message.
LEMMA SendFourStep ==
    ASSUME NEW m, IsSysex(m), NEW p, WholeInv, CallOk, Going(m, p), SendFour
    PROVE  (WholeInv /\ CallOk /\ Going(m, p))'
<1>1. /\ dpc = "send" /\ sysex_in_progress /\ FourData /\ Enqueue(SubSeq(data, i + 1, i + 4))
      /\ sysex_in_progress' = Accepts /\ i' = i + 4 /\ dpc' = "send" /\ data' = data
      /\ sysex_message' = sysex_message /\ UNCHANGED reading /\ UNCHANGED filters
  BY DEF SendFour, Sending, Advance, settings
<1>2. PICK q \in Nat : Feeds(m, q, p) /\ MayGoOn(m, q)
  BY <1>1 DEF Going
<1>3. /\ q + 4 \in 1 .. Len(m) /\ q + 1 \in 1 .. Len(m)
      /\ \A k \in 1 .. 4 : data[i + k] = m[q + k] /\ m[q + k] < 128 /\ q + k \in 1 .. Len(m)
      /\ Feeds(m, q + 4, p)'
  BY <1>1, <1>2, FourBytes
<1>4. i \in Nat /\ Len(data) \in Nat /\ data \in Seq(Byte) /\ i + 4 <= Len(data)
  BY <1>1 DEF CallOk, FourData
<1>5. PICK e : e = SubSeq(data, i + 1, i + 4)
  OBVIOUS
<1>6. /\ e \in Seq(Byte) /\ Len(e) = 4 /\ e # << >>
      /\ \A k \in 1 .. 4 : e[k] = data[i + k]
  <2>1. \A k \in 1 .. 4 : (i + 1) + k - 1 = i + k
    BY <1>4
  <2>2. i + 1 \in 1 .. Len(data) + 1 /\ i + 4 \in i + 1 - 1 .. Len(data)
        /\ i + 1 \in 1 .. i + 4 /\ (i + 4) - (i + 1) + 1 = 4
    BY <1>4
  <2>3. \A k \in i + 1 .. i + 4 : data[k] \in Byte
    BY <1>4
  <2>4. e = [k \in 1 .. 4 |-> data[i + k]]
    BY <1>4, <1>5, <2>1, <2>2
  <2>5. \A k \in 1 .. 4 : i + k \in i + 1 .. i + 4
    BY <1>4
  <2> QED
    BY <2>3, <2>4, <2>5
<1>7. /\ \A k \in 1 .. 4 : e[k] = m[q + k]
      /\ sysex_message = << >> /\ Packed = Stream /\ InSequence(Stream)
      /\ CanTake(Stream, m[q + 1])
  BY <1>1, <1>2, <1>3, <1>6, PackedIs DEF FourData, Packed, MayGoOn
<1>8. \A k \in 1 .. 4 : ~IsRealTime(m[q + k]) /\ q + k < Len(m) /\ Follows(m[q + k], m[(q + k) + 1])
  BY <1>3, SysexByteIs
<1>9. \A k \in 1 .. 3 : Follows(e[k], e[k + 1])
  <2>1. \A k \in 1 .. 3 : k \in 1 .. 4 /\ k + 1 \in 1 .. 4 /\ (q + k) + 1 = q + (k + 1)
    BY <1>2
  <2> QED
    BY <1>7, <1>8, <2>1
<1>10. /\ InSequence(Append(Stream, e))
       /\ \A c : Follows(m[q + 4], c) => CanTake(Append(Stream, e), c)
  <2>1. Opens(e[1]) /\ CanTake(Stream, e[1]) /\ e[4] = m[q + 4] /\ Stream \in Events
    BY <1>3, <1>7, SysexByteIs, StreamIs DEF WholeInv
  <2>2. 4 - 1 = 3
    OBVIOUS
  <2> QED
    BY <1>6, <1>7, <1>8, <1>9, <2>1, <2>2, RunAdded
<1>11. Typed /\ rret' = rret /\ rgot' = rgot /\ rpc' = rpc /\ filters' = filters
  BY <1>1 DEF WholeInv, reading
<1>12. Packed' = Stream'
  BY <1>1, <1>7 DEF Packed
<1>13. CallOk'
  <2>1. i + 4 \in 0 .. Len(data)
    BY <1>4
  <2> QED
    BY <1>1, <1>4, <2>1 DEF CallOk
<1>14. CASE Accepts
  <2>1. Stream' = Append(Stream, e) /\ queue' \in Events
    BY <1>1, <1>5, <1>6, <1>11, <1>14, Taken
  <2>2. Typed'
    BY <1>1, <1>11, <1>14, <2>1 DEF Typed
  <2>3. WholeInv'
    BY <1>1, <1>7, <1>10, <1>11, <1>12, <1>14, <2>1, <2>2 DEF WholeInv
  <2>4. MayGoOn(m, q + 4)'
    <3>1. 4 \in 1 .. 4
      OBVIOUS
    <3>2. q + 4 < Len(m) /\ CanTake(Packed', m[(q + 4) + 1])
      BY <1>8, <1>10, <1>12, <2>1, <3>1
    <3> QED
      BY <3>2 DEF MayGoOn
  <2> QED
    BY <1>1, <1>2, <1>3, <1>13, <2>3, <2>4 DEF Going
<1>15. CASE ~Accepts
  <2>1. queue' \in Events /\ InSequence(Stream') /\ CanTake(Stream', SYSEX)
    BY <1>1, <1>7, <1>11, <1>15, Refused
  <2>2. Typed'
    <3>1. sysex_in_progress' = FALSE
      BY <1>1, <1>15 DEF Accepts
    <3> QED
      BY <1>1, <1>11, <2>1, <3>1 DEF Typed
  <2>3. WholeInv'
    BY <1>1, <1>7, <1>11, <1>12, <1>15, <2>1, <2>2 DEF WholeInv
  <2> QED
    BY <1>1, <1>2, <1>3, <1>13, <1>15, <2>3 DEF Going, MayGoOn
<1> QED
  BY <1>14, <1>15

LEMMA SendByteStep ==
    ASSUME NEW m, IsSysex(m), NEW p, WholeInv, CallOk, Going(m, p), SendByte
    PROVE  (WholeInv /\ CallOk /\ Going(m, p))'
<1>1. /\ dpc = "bytes" /\ sysex_in_progress /\ i < Len(data) /\ byte # EOX /\ Pack(byte)
      /\ i' = i + 1 /\ data' = data /\ dpc' = (IF Len(sysex_message) = 3 THEN "send" ELSE "bytes")
      /\ UNCHANGED reading /\ UNCHANGED filters
  BY DEF SendByte, Advance, settings, CallOk
<1>2. PICK q \in Nat : Feeds(m, q, p) /\ MayGoOn(m, q)
  BY <1>1 DEF Going
<1>3. q < Len(m) /\ CanTake(Packed, m[q + 1])
  BY <1>1, <1>2 DEF MayGoOn
<1>4. i \in Nat /\ Len(data) \in Nat /\ data \in Seq(Byte) /\ i + 1 \in 0 .. Len(data)
  BY <1>1 DEF CallOk
<1>5. byte \in Byte
  BY <1>1, <1>2, OneByte
<1>6. CASE IsRealTime(byte) /\ Feeds(m, q, p)'
  <2>1. Opens(byte)
    BY <1>6 DEF Opens, IsRealTime, SYSEX
  <2>2. /\ WholeInv' /\ (sysex_in_progress' => CanTake(Packed', m[q + 1]))
        /\ Len(sysex_message) # 3 => sysex_in_progress'
    BY <1>1, <1>3, <1>5, <1>6, <2>1, PackEffect
  <2>3. CallOk'
    BY <1>1, <1>4, <2>2 DEF CallOk
  <2>4. MayGoOn(m, q)'
    BY <1>3, <2>2 DEF MayGoOn
  <2> QED
    BY <1>1, <1>2, <1>6, <2>2, <2>3, <2>4 DEF Going
<1>7. CASE q + 1 \in 1 .. Len(m) /\ byte = m[q + 1] /\ Feeds(m, q + 1, p)'
  <2>1. /\ ~IsRealTime(byte) /\ Opens(byte) /\ q + 1 < Len(m)
        /\ Follows(byte, m[(q + 1) + 1])
    BY <1>1, <1>7, SysexByteIs
  <2>2. /\ WholeInv' /\ (sysex_in_progress' => CanTake(Packed', m[(q + 1) + 1]))
        /\ Len(sysex_message) # 3 => sysex_in_progress'
    BY <1>1, <1>3, <1>5, <1>7, <2>1, PackEffect
  <2>3. CallOk'
    BY <1>1, <1>4, <2>2 DEF CallOk
  <2>4. MayGoOn(m, q + 1)'
    BY <2>1, <2>2 DEF MayGoOn
  <2>5. q + 1 \in Nat
    BY <1>2
  <2> QED
    BY <1>1, <1>7, <2>2, <2>3, <2>4, <2>5 DEF Going
<1> QED
  BY <1>1, <1>2, <1>6, <1>7, OneByte

LEMMA SendEoxStep ==
    ASSUME NEW m, IsSysex(m), NEW p, WholeInv, CallOk, Going(m, p), SendEox
    PROVE  (WholeInv /\ CallOk /\ Going(m, p))'
<1>1. /\ dpc = "bytes" /\ sysex_in_progress /\ i < Len(data) /\ byte = EOX
      /\ Flush(Append(sysex_message, byte), TRUE) /\ ReadBytesReturns
      /\ UNCHANGED reading /\ UNCHANGED filters
  BY DEF SendEox, settings, CallOk
<1>2. PICK q \in Nat : Feeds(m, q, p) /\ MayGoOn(m, q)
  BY <1>1 DEF Going
<1>3. CanTake(Packed, byte) /\ byte \in Byte
  <2>1. ~IsRealTime(byte)
    BY <1>1 DEF EOX, IsRealTime
  <2> QED
    BY <1>1, <1>2, <2>1, OneByte DEF MayGoOn
<1>4. Opens(byte) /\ ~IsRealTime(byte) /\ Follows(byte, SYSEX)
  <2>1. EOX \in 128 .. 255 /\ EOX # SYSEX
    BY DEF EOX, SYSEX
  <2>2. Follows(EOX, SYSEX)
    BY <2>1, FollowsFacts
  <2>3. Opens(EOX) /\ ~IsRealTime(EOX)
    BY DEF Opens, IsRealTime, EOX
  <2> QED
    BY <1>1, <2>2, <2>3
<1>5. PICK bytes : bytes = Append(sysex_message, byte)
  OBVIOUS
<1>6. Stream \in Events /\ sysex_message \in Seq(Byte) /\ bytes \in Seq(Byte)
  BY <1>3, <1>5, StreamIs DEF WholeInv, Typed
<1>7. InSequence(Append(Stream, bytes)) /\ CanTake(Append(Stream, bytes), SYSEX)
  BY <1>3, <1>4, <1>5, <1>6, PackedIs, ByteAdded DEF WholeInv
<1>8. WholeInv' /\ ~sysex_in_progress'
  BY <1>1, <1>5, <1>6, <1>7, FlushEffect
<1> QED
  BY <1>1, <1>8, Returned DEF MayGoOn

LEMMA OtherSendSteps ==
    ASSUME NEW m, IsSysex(m), NEW p, WholeInv, CallOk, Going(m, p),
           SendBytes \/ SendEnd \/ OmitByte \/ BytesEnd
    PROVE  (WholeInv /\ CallOk /\ Going(m, p))'
<1>1. /\ dpc = "send" \/ dpc = "bytes"
      /\ UNCHANGED <<settings, packing, queue, reading>>
  BY DEF SendBytes, SendEnd, OmitByte, BytesEnd, Sending
<1>2. PICK q \in Nat : Feeds(m, q, p) /\ MayGoOn(m, q)
  BY <1>1 DEF Going
<1>3. WholeInv' /\ Packed' = Packed /\ sysex_in_progress' = sysex_in_progress
  BY <1>1, SameWholeInv
<1>4. MayGoOn(m, q)'
  BY <1>2, <1>3 DEF MayGoOn
<1>5. i \in Nat /\ Len(data) \in Nat /\ data \in Seq(Byte) /\ i <= Len(data)
  BY DEF CallOk
<1>6. CASE SendBytes
  <2>1. sysex_in_progress /\ dpc' = "bytes" /\ UNCHANGED <<data, i>>
    BY <1>5, <1>6 DEF SendBytes, Sending, Advance
  <2>2. CallOk'
    BY <1>3, <1>5, <2>1 DEF CallOk
  <2>3. Feeds(m, q, p)'
    BY <1>2, <2>1, FeedsSame
  <2> QED
    BY <1>2, <1>3, <1>4, <2>1, <2>2, <2>3 DEF Going
<1>7. CASE SendEnd
  <2>1. dpc = "send" /\ ReadBytesReturns /\ (i = Len(data) \/ ~sysex_in_progress)
    BY <1>5, <1>7 DEF SendEnd, Sending
  <2>2. i = Len(data) => q = p
    BY <1>2, AllGiven
  <2>3. MayGoOn(m, p)'
    BY <1>3, <1>4, <2>1, <2>2 DEF MayGoOn
  <2> QED
    BY <1>3, <2>1, <2>3, Returned
<1>8. CASE OmitByte
  <2>1. dpc = "bytes" /\ i < Len(data) /\ IsRealTime(byte) /\ dpc' = "bytes" /\ i' = i + 1 /\ data' = data
    BY <1>8 DEF OmitByte, Advance
  <2>2. Feeds(m, q, p)'
    <3>1. q + 1 \in 1 .. Len(m) => ~IsRealTime(m[q + 1])
      BY SysexByteIs
    <3> QED
      BY <1>2, <2>1, <3>1, OneByte
  <2>3. CallOk'
    <3>1. i + 1 \in 0 .. Len(data)
      BY <1>5, <2>1
    <3> QED
      BY <1>3, <1>5, <2>1, <3>1 DEF CallOk
  <2> QED
    BY <1>2, <1>3, <1>4, <2>1, <2>2, <2>3 DEF Going
<1>9. CASE BytesEnd
  <2>1. dpc' = "send" /\ UNCHANGED <<data, i>>
    BY <1>5, <1>9 DEF BytesEnd, Advance
  <2>2. CallOk'
    BY <1>3, <1>5, <2>1 DEF CallOk
  <2>3. Feeds(m, q, p)'
    BY <1>2, <2>1, FeedsSame
  <2> QED
    BY <1>2, <1>3, <1>4, <2>1, <2>2, <2>3 DEF Going
<1> QED
  BY <1>6, <1>7, <1>8, <1>9

LEMMA ReadBytesSteps ==
    ASSUME NEW m, IsSysex(m), NEW p, WholeInv, CallOk, Going(m, p), ReadBytesStep
    PROVE  (WholeInv /\ CallOk /\ Going(m, p))'
<1>1. dpc # "idle"
  BY DEF ReadBytesStep, ScanStart, ScanEox, ScanStatus, ScanData, ScanEnd, SendFour, SendBytes,
         SendEnd, OmitByte, SendEox, SendByte, BytesEnd, Sending
<1> QED
  BY <1>1, ScanSteps, SendFourStep, SendByteStep, SendEoxStep, OtherSendSteps DEF ReadBytesStep

-----------------------------------------------------------------------------
(***************************************************************************)
(* Pm_Read: events move from the queue to what it returns, and those       *)
(* returned before, or dropped at an overflow, leave the stream in front.  *)
(***************************************************************************)
LEMMA HeadMoves ==
    ASSUME NEW s \in Events, NEW t \in Events, t # << >>
    PROVE  s \o t = Append(s, Head(t)) \o Tail(t)
<1>1. PICK h : h = Head(t)
  OBVIOUS
<1>2. PICK u : u = Tail(t)
  OBVIOUS
<1>3. PICK v : v = Append(s, h)
  OBVIOUS
<1>4. /\ h \in Seq(Byte) /\ h = t[1] /\ u \in Events /\ Len(s) \in Nat
      /\ Len(t) \in Nat \ {0} /\ Len(u) = Len(t) - 1 /\ \A k \in 1 .. Len(u) : u[k] = t[k + 1]
  BY <1>1, <1>2, HeadTailProperties, EmptySeq DEF Events
<1>5. /\ v \in Events /\ Len(v) = Len(s) + 1
      /\ \A k \in 1 .. Len(s) : v[k] = s[k]
      /\ v[Len(s) + 1] = h
  BY <1>3, <1>4, Appending
<1>6. PICK x : x = s \o t
  OBVIOUS
<1>7. PICK y : y = v \o u
  OBVIOUS
<1>8. /\ x \in Events /\ Len(x) = Len(s) + Len(t)
      /\ \A k \in 1 .. Len(x) : x[k] = IF k <= Len(s) THEN s[k] ELSE t[k - Len(s)]
  BY <1>6, EventsConcat
<1>9. /\ y \in Events /\ Len(y) = Len(v) + Len(u)
      /\ \A k \in 1 .. Len(y) : y[k] = IF k <= Len(v) THEN v[k] ELSE u[k - Len(v)]
  BY <1>4, <1>5, <1>7, EventsConcat
<1>10. Len(x) = Len(y)
  BY <1>4, <1>5, <1>8, <1>9
<1>11. ASSUME NEW k \in 1 .. Len(x) PROVE x[k] = y[k]
  <2>1. CASE k <= Len(s)
    <3>1. k \in 1 .. Len(s) /\ k <= Len(v) /\ k \in 1 .. Len(y)
      BY <1>4, <1>5, <1>10, <2>1
    <3> QED
      BY <1>5, <1>8, <1>9, <2>1, <3>1
  <2>2. CASE k = Len(s) + 1
    <3>1. ~(k <= Len(s)) /\ k <= Len(v) /\ k - Len(s) = 1 /\ k \in 1 .. Len(y)
      BY <1>4, <1>5, <1>10, <2>2
    <3> QED
      BY <1>4, <1>5, <1>8, <1>9, <2>2, <3>1
  <2>3. CASE k > Len(s) + 1
    <3>1. /\ k - Len(v) \in 1 .. Len(u) /\ ~(k <= Len(s)) /\ ~(k <= Len(v))
          /\ (k - Len(v)) + 1 = k - Len(s) /\ k \in 1 .. Len(y)
      BY <1>4, <1>5, <1>8, <1>10, <2>3
    <3> QED
      BY <1>4, <1>8, <1>9, <3>1
  <2> QED
    BY <1>4, <1>8, <2>1, <2>2, <2>3
<1>12. x = y
  BY <1>8, <1>9, <1>10, <1>11, EventsEqual
<1> QED
  BY <1>1, <1>2, <1>3, <1>6, <1>7, <1>12

\* The application takes the oldest events.
LEMMA PrefixTaken ==
    ASSUME NEW t \in Events, NEW u \in Events, NEW e \in Seq(Byte)
    PROVE  /\ InSequence(With(t \o u, e)) => InSequence(With(u, e))
           /\ \A b : CanTake(With(t \o u, e), b) => CanTake(With(u, e), b)
<1>1. CASE e = << >>
  BY <1>1, SuffixInSequence DEF With
<1>2. CASE e # << >>
  <2>1. Append(t \o u, e) = t \o Append(u, e) /\ Append(u, e) \in Events
    BY EventsAppend
  <2>2. With(t \o u, e) = t \o Append(u, e) /\ With(u, e) = Append(u, e)
    BY <1>2, <2>1 DEF With
  <2> QED
    BY <2>1, <2>2, SuffixInSequence
<1> QED
  BY <1>1, <1>2

LEMMA ApplicationSteps ==
    ASSUME WholeInv, \A f \in FilterSets : 0 \notin f, Application
    PROVE  /\ WholeInv' /\ UNCHANGED <<packing, call>>
           /\ \A b : CanTake(Packed, b) => CanTake(Packed', b)
<1>1. /\ Typed /\ rret \in Events /\ rgot \in Events /\ queue \in Events /\ Stream \in Events
      /\ sysex_message \in Seq(Byte)
      /\ rpc = "idle" => rgot = << >>
      /\ 0 \notin filters
  BY StreamIs DEF WholeInv, Typed
\* It is enough that what is left of the events is a suffix of them.
<1>2. ASSUME UNCHANGED <<packing, call>>, 0 \notin filters', rpc' = "idle" => rgot' = << >>,
             rret' \in Events, rgot' \in Events, queue' \in Events,
             NEW t \in Events, Stream' \in Events, Stream = t \o Stream'
      PROVE  WholeInv' /\ \A b : CanTake(Packed, b) => CanTake(Packed', b)
  <2>1. sysex_message' = sysex_message /\ sysex_in_progress' = sysex_in_progress
    BY <1>2 DEF packing
  <2>2. Packed = With(t \o Stream', sysex_message) /\ Packed' = With(Stream', sysex_message)
    BY <1>2, <2>1 DEF Packed, With
  <2>3. PICK u \in Events : u = Stream'
    BY <1>2
  <2>4. /\ InSequence(Packed) => InSequence(Packed')
        /\ \A b : CanTake(Packed, b) => CanTake(Packed', b)
    <3>1. /\ InSequence(With(t \o u, sysex_message)) => InSequence(With(u, sysex_message))
          /\ \A b : CanTake(With(t \o u, sysex_message), b) => CanTake(With(u, sysex_message), b)
      BY <1>1, PrefixTaken
    <3> QED
      BY <2>2, <2>3, <3>1
  <2>5. \A b : CanTake(Stream, b) => CanTake(Stream', b)
    BY <1>2, <2>3, SuffixInSequence
  <2>6. Typed'
    BY <1>1, <1>2, <2>1 DEF Typed
  <2> QED
    BY <1>2, <2>1, <2>4, <2>5, <2>6 DEF WholeInv
<1>3. ASSUME UNCHANGED <<packing, call>>, 0 \notin filters', rpc' = "idle" => rgot' = << >>,
             rret' \in Events, rgot' \in Events, queue' \in Events, Stream' = Stream
      PROVE  WholeInv' /\ \A b : CanTake(Packed, b) => CanTake(Packed', b)
  <2>1. << >> \in Events /\ Stream = << >> \o Stream
    BY <1>1 DEF Events
  <2> QED
    BY <1>1, <1>2, <1>3, <2>1
<1>4. CASE (\E f \in FilterSets : SetFilter(f)) \/ (\E m \in ChannelMasks : SetChannelMask(m))
  <2>1. /\ UNCHANGED <<packing, call>> /\ queue' = queue /\ rpc' = rpc /\ rgot' = rgot /\ rret' = rret
        /\ 0 \notin filters'
    BY <1>1, <1>4 DEF SetFilter, SetChannelMask, reading
  <2>2. Stream' = Stream
    BY <2>1 DEF Stream
  <2> QED
    BY <1>1, <1>3, <2>1, <2>2
<1>5. CASE \E length \in 1 .. MaxRead : ReadStart(length)
  <2>1. /\ UNCHANGED <<packing, call>> /\ queue' = queue /\ rret' = rret /\ filters' = filters
        /\ rgot = << >> /\ rgot' = << >>
    BY <1>1, <1>5 DEF ReadStart, settings
  <2>2. Stream' = Stream
    BY <2>1 DEF Stream
  <2> QED
    BY <1>1, <1>3, <2>1, <2>2
<1>6. CASE ReadEvent
  <2>1. /\ UNCHANGED <<packing, call>> /\ rret' = rret /\ filters' = filters /\ rpc' = rpc /\ rpc # "idle" /\ queue # << >>
        /\ rgot' = Append(rgot, Head(queue)) /\ queue' = Tail(queue)
    BY <1>6 DEF ReadEvent, settings
  <2>2. queue' \in Events /\ rgot' \in Events /\ rret' \in Events
    BY <1>1, <2>1, HeadTailProperties DEF Events
  <2>3. (rret \o rgot) \o queue = (rret \o Append(rgot, Head(queue))) \o Tail(queue)
    <3>1. PICK h : h = rret \o rgot
      OBVIOUS
    <3>2. h \in Events /\ Head(queue) \in Seq(Byte)
      BY <1>1, <2>1, <3>1, StreamIs, HeadTailProperties DEF Events
    <3>3. h \o queue = Append(h, Head(queue)) \o Tail(queue)
      BY <1>1, <2>1, <3>2, HeadMoves DEF Events
    <3>4. Append(h, Head(queue)) = rret \o Append(rgot, Head(queue))
      <4>1. PICK g \in Seq(Byte) : g = Head(queue)
        BY <3>2
      <4>2. Append(rret \o rgot, g) = rret \o Append(rgot, g)
        BY <1>1, EventsAppend
      <4> QED
        BY <3>1, <4>1, <4>2
    <3> QED
      BY <3>1, <3>3, <3>4
  <2>4. Stream' = Stream
    BY <2>1, <2>3 DEF Stream
  <2> QED
    BY <1>1, <1>3, <2>1, <2>2, <2>4
<1>7. CASE ReadOverflow
  <2>1. /\ UNCHANGED <<packing, call>> /\ filters' = filters /\ rgot' = << >> /\ queue # << >> /\ Head(queue) = Loss
        /\ rret' = <<Loss>> /\ queue' = Tail(queue)
    BY <1>7 DEF ReadOverflow, ReadReturns, settings
  <2>2. queue' \in Events /\ rret' \in Events /\ rgot' \in Events
    BY <1>1, <2>1, LossPlaces DEF Events
  <2>3. Stream' = queue
    <3>1. Stream' = <<Loss>> \o Tail(queue)
      BY <2>1, LossPlaces DEF Stream
    <3> QED
      BY <1>1, <2>1, <3>1 DEF Events
  <2>4. Stream = (rret \o rgot) \o queue
    BY DEF Stream
  <2>5. rret \o rgot \in Events
    BY <1>1, StreamIs
  <2> QED
    BY <1>1, <1>2, <2>1, <2>2, <2>3, <2>4, <2>5
<1>8. CASE ReadEnd
  <2>1. /\ UNCHANGED <<packing, call>> /\ filters' = filters /\ queue' = queue /\ rgot' = << >>
        /\ rret' = (IF rgot = << >> THEN rret ELSE rgot)
    BY <1>8 DEF ReadEnd, ReadReturns, settings
  <2>2. rret' \in Events /\ rgot' \in Events
    BY <1>1, <2>1 DEF Events
  <2>3. \A a \in Events : a \o << >> = a
    BY DEF Events
  <2>4. CASE rgot = << >>
    <3>1. Stream' = Stream
      BY <2>1, <2>4 DEF Stream
    <3> QED
      BY <1>1, <1>3, <2>1, <2>2, <3>1
  <2>5. CASE rgot # << >>
    <3>1. Stream' = rgot \o queue
      BY <1>1, <2>1, <2>3, <2>5 DEF Stream
    <3>2. Stream = rret \o (rgot \o queue) /\ rgot \o queue \in Events
      <4>1. (rret \o rgot) \o queue = rret \o (rgot \o queue)
        BY <1>1, EventsAssociate
      <4>2. rgot \o queue \in Events
        BY <1>1, EventsConcat
      <4> QED
        BY <4>1, <4>2 DEF Stream
    <3> QED
      BY <1>1, <1>2, <2>1, <2>2, <3>1, <3>2
  <2> QED
    BY <2>4, <2>5
<1>9. UNCHANGED <<packing, call>>
  BY DEF Application, SetFilter, SetChannelMask, ReadStart, ReadEvent, ReadOverflow, ReadEnd, ReadReturns
<1> QED
  BY <1>4, <1>5, <1>6, <1>7, <1>8, <1>9 DEF Application

-----------------------------------------------------------------------------
(***************************************************************************)
(* Any driver that keeps the rules.                                        *)
(***************************************************************************)
LEMMA SysexMessageIs ==
    ASSUME NEW n \in 0 .. 6, NEW length \in SysexLengths
    PROVE  IsSysex(SysexMessage(n, length)) /\ Len(SysexMessage(n, length)) = length + 2
<1>0. length \in 1 .. 15
  BY SysexLengthsAssumption
<1>1. PICK w : w = SysexMessage(n, length)
  OBVIOUS
<1>2. /\ DOMAIN w = 1 .. length + 2
      /\ w = [k \in 1 .. length + 2 |-> w[k]]
      /\ \A k \in 1 .. length + 2 :
           w[k] = CASE k = 1 -> SYSEX [] k = length + 2 -> EOX [] OTHER -> 16 * n + length + 2 - k
  BY <1>1 DEF SysexMessage
<1>3. w[1] = SYSEX /\ w[length + 2] = EOX
  BY <1>0, <1>2
<1>4. ASSUME NEW k \in 2 .. length + 1
      PROVE  w[k] = (16 * n + length + 2) - k /\ w[k] \in 0 .. 127 /\ w[k] \in Byte
  <2>1. k \in 1 .. length + 2 /\ k # 1 /\ k # length + 2
    BY <1>0
  <2>2. w[k] = 16 * n + length + 2 - k
    BY <1>2, <2>1
  <2>3. w[k] = (16 * n + length + 2) - k
    BY <1>0, <2>1, <2>2
  <2>4. w[k] \in 0 .. 127
    BY <1>0, <1>4, <2>3
  <2> QED
    BY <2>3, <2>4 DEF Byte
<1>5. w \in Seq(Byte) /\ Len(w) = length + 2
  <2>1. ASSUME NEW k \in 1 .. length + 2 PROVE w[k] \in Byte
    <3>1. k = 1 \/ k = length + 2 \/ k \in 2 .. length + 1
      BY <1>0
    <3> QED
      BY <1>3, <1>4, <3>1 DEF Byte, SYSEX, EOX
  <2>2. w \in [1 .. length + 2 -> Byte] /\ length + 2 \in Nat
    BY <1>0, <1>2, <2>1
  <2> QED
    BY <2>2
<1>6. ASSUME NEW k \in 1 .. length + 1 PROVE Follows(w[k], w[k + 1])
  <2>1. CASE k = 1
    <3>1. k + 1 \in 2 .. length + 1
      BY <1>0, <2>1
    <3> QED
      BY <1>3, <1>4, <2>1, <3>1 DEF Follows
  <2>2. CASE k \in 2 .. length
    <3>1. k \in 2 .. length + 1 /\ k + 1 \in 2 .. length + 1
      BY <1>0, <2>2
    <3>2. w[k] = (16 * n + length + 2) - k /\ w[k + 1] = (16 * n + length + 2) - (k + 1) /\ w[k + 1] \in 0 .. 127
      BY <1>4, <3>1
    <3>3. w[k] = w[k + 1] + 1
      BY <1>0, <3>2
    <3> QED
      BY <3>2, <3>3 DEF Follows
  <2>3. CASE k = length + 1
    <3>1. w[k] = 16 * n + 1 /\ k \in 2 .. length + 1 /\ k + 1 = length + 2
      BY <1>0, <1>4, <2>3
    <3>2. w[k] < 128 /\ w[k] % 16 = 1
      <4>1. \A x \in 0 .. 6 : (16 * x + 1) % 16 = 1
        OBVIOUS
      <4> QED
        BY <1>4, <3>1, <4>1
    <3> QED
      BY <1>3, <3>1, <3>2 DEF Follows
  <2> QED
    BY <1>0, <2>1, <2>2, <2>3
<1>7. IsSysex(w)
  <2>1. (length + 2) - 1 = length + 1 /\ length + 2 >= 3
    BY <1>0
  <2>2. \A k \in 2 .. length + 1 : w[k] < 128
    BY <1>4
  <2> QED
    BY <1>3, <1>5, <1>6, <2>1, <2>2 DEF IsSysex
<1> QED
  BY <1>1, <1>5, <1>7

\* pm_read_bytes is called with the bytes of the message from byte q + 1 to byte p.
LEMMA CallStarts ==
    ASSUME NEW m, IsSysex(m), NEW q \in Nat, NEW p \in Nat, q < p, p <= Len(m),
           WholeInv, MayGoOn(m, q), UNCHANGED <<settings, reading>>,
           NEW bytes \in Seq(Byte), ReadBytesCall(bytes),
           \/ bytes = SubSeq(m, q + 1, p)
           \/ \E rt \in Byte : IsRealTime(rt) /\ bytes = <<m[q + 1], rt>> \o SubSeq(m, q + 2, p)
    PROVE  (WholeInv /\ CallOk /\ Going(m, p))' /\ dpc' # "idle"
<1>1. /\ data' = bytes /\ i' = 0 /\ dpc' = (IF sysex_in_progress THEN "send" ELSE "scan")
      /\ UNCHANGED <<settings, packing, queue, reading>>
  BY DEF ReadBytesCall
<1>2. WholeInv' /\ Packed' = Packed /\ sysex_in_progress' = sysex_in_progress
  BY <1>1, SameWholeInv
<1>3. CallOk'
  BY <1>1, <1>2 DEF CallOk
<1>4. MayGoOn(m, q)'
  BY <1>2 DEF MayGoOn
<1>5. m \in Seq(Byte) /\ Len(m) \in Nat /\ q \in 0 .. p /\ p \in 0 .. Len(m)
  BY DEF IsSysex
<1>6. CASE bytes = SubSeq(m, q + 1, p)
  <2>1. /\ Len(bytes) = p - q
        /\ \A k \in 1 .. p - q : bytes[k] = m[q + k]
    <3>1. \A k \in q + 1 .. p : m[k] \in Byte
      BY <1>5
    <3>2. /\ Len(bytes) = IF q + 1 <= p THEN p - (q + 1) + 1 ELSE 0
          /\ \A k \in 1 .. p - (q + 1) + 1 : bytes[k] = m[(q + 1) + k - 1]
      BY <1>6, <3>1, SubSeqProperties
    <3>3. q + 1 <= p /\ p - (q + 1) + 1 = p - q /\ \A k \in 1 .. p - q : (q + 1) + k - 1 = q + k
      OBVIOUS
    <3> QED
      BY <3>2, <3>3
  <2>2. Left' = p - q /\ \A k \in 1 .. p - q : data'[i' + k] = m[q + k]
    BY <1>1, <2>1 DEF Left
  <2>3. Feeds(m, q, p)'
    BY <1>5, <2>2 DEF Feeds
  <2> QED
    BY <1>1, <1>2, <1>3, <1>4, <2>3 DEF Going
<1>7. CASE \E rt \in Byte : IsRealTime(rt) /\ bytes = <<m[q + 1], rt>> \o SubSeq(m, q + 2, p)
  <2>1. PICK rt \in Byte : IsRealTime(rt) /\ bytes = <<m[q + 1], rt>> \o SubSeq(m, q + 2, p)
    BY <1>7
  <2>2. PICK u : u = SubSeq(m, q + 2, p)
    OBVIOUS
  <2>3. /\ u \in Seq(Byte) /\ Len(u) = (p - q) - 1
        /\ \A k \in 1 .. (p - q) - 1 : u[k] = m[(q + 1) + k]
    <3>1. \A k \in q + 2 .. p : m[k] \in Byte
      BY <1>5
    <3>2. /\ u \in Seq(Byte)
          /\ Len(u) = IF q + 2 <= p THEN p - (q + 2) + 1 ELSE 0
          /\ \A k \in 1 .. p - (q + 2) + 1 : u[k] = m[(q + 2) + k - 1]
      BY <2>2, <3>1, SubSeqProperties
    <3>3. /\ (IF q + 2 <= p THEN p - (q + 2) + 1 ELSE 0) = (p - q) - 1
          /\ p - (q + 2) + 1 = (p - q) - 1
          /\ \A k \in 1 .. (p - q) - 1 : (q + 2) + k - 1 = (q + 1) + k
      OBVIOUS
    <3> QED
      BY <3>2, <3>3
  <2>4. PICK h : h = <<m[q + 1], rt>>
    OBVIOUS
  <2>5. h \in Seq(Byte) /\ Len(h) = 2 /\ h[1] = m[q + 1] /\ h[2] = rt
    <3>1. q + 1 \in 1 .. Len(m)
      BY <1>5
    <3>2. m[q + 1] \in Byte
      BY <1>5, <3>1
    <3> QED
      BY <2>4, <3>2
  <2>6. /\ Len(bytes) = 2 + ((p - q) - 1)
        /\ \A k \in 1 .. 2 + ((p - q) - 1) : bytes[k] = IF k <= 2 THEN h[k] ELSE u[k - 2]
    BY <2>1, <2>2, <2>3, <2>4, <2>5, ConcatProperties
  <2>7. /\ Len(bytes) = p - q + 1 /\ bytes[1] = m[q + 1] /\ bytes[2] = rt
    BY <2>5, <2>6
  <2>8. ASSUME NEW k \in 3 .. p - q + 1 PROVE bytes[k] = m[(q + k) - 1]
    <3>1. k \in 1 .. 2 + ((p - q) - 1) /\ ~(k <= 2) /\ k - 2 \in 1 .. (p - q) - 1 /\ (q + 1) + (k - 2) = (q + k) - 1
      OBVIOUS
    <3> QED
      BY <2>3, <2>6, <3>1
  <2>9. /\ Left' = p - q + 1 /\ data'[i' + 1] = m[q + 1] /\ IsRealTime(data'[i' + 2])
        /\ \A k \in 3 .. p - q + 1 : data'[i' + k] = m[(q + k) - 1]
    <3>1. i' + 1 = 1 /\ i' + 2 = 2 /\ \A k \in 3 .. p - q + 1 : i' + k = k
      BY <1>1
    <3>2. Left' = Len(bytes)
      BY <1>1, <2>7 DEF Left
    <3> QED
      BY <1>1, <2>1, <2>7, <2>8, <3>1, <3>2
  <2>10. Feeds(m, q, p)'
    BY <1>5, <2>9 DEF Feeds
  <2> QED
    BY <1>1, <1>2, <1>3, <1>4, <2>10 DEF Going
<1> QED
  BY <1>6, <1>7

\* How far the message is handed over.
CableInv ==
    /\ started \in Nat
    /\ IF cable = << >> THEN fed = 0 /\ dpc = "idle" /\ ~sysex_in_progress
       ELSE IsSysex(cable) /\ fed \in 0 .. Len(cable) /\ Going(cable, fed)

LEMMA StreamInit == InputInit => WholeInv /\ CallOk
<1> SUFFICES ASSUME InputInit PROVE WholeInv /\ CallOk
  OBVIOUS
<1> USE DEF InputInit
<1>1. << >> \in Events /\ << >> \in Seq(Byte) /\ Len(<< >>) = 0 /\ Len(<< >>) <= 3
  BY EmptySeq DEF Events
<1>2. Typed
  <2>1. rret = << >> /\ rgot = << >> /\ queue = << >> /\ sysex_message = << >> /\ sysex_in_progress = FALSE
    OBVIOUS
  <2> QED
    BY <1>1, <2>1, Zenon DEF Typed
<1>3. Stream = << >> /\ Packed = << >>
  BY DEF Stream, Packed
<1>4. InSequence(<< >>) /\ CanTake(<< >>, SYSEX)
  BY <1>1 DEF InSequence, CanTake
<1>5. WholeInv
  BY <1>2, <1>3, <1>4 DEF WholeInv
<1> QED
  BY <1>1, <1>5 DEF CallOk

\* A piece of the message is handed over.
LEMMA PieceStarts ==
    ASSUME NEW m, IsSysex(m), NEW q \in Nat, NEW p \in PieceEnds(m, q + 1), q < Len(m), p > q,
           WholeInv, MayGoOn(m, q), UNCHANGED <<settings, reading>>, Piece(m, q + 1, p)
    PROVE  (WholeInv /\ CallOk /\ Going(m, p))' /\ p \in 0 .. Len(m)
<1>1. Len(m) \in Nat /\ p \in Nat /\ p <= Len(m) /\ m \in Seq(Byte) /\ q + 1 \in 1 .. Len(m)
  BY DEF PieceEnds, IsSysex
<1>2. SubSeq(m, q + 1, p) \in Seq(Byte) /\ SubSeq(m, q + 2, p) \in Seq(Byte) /\ m[q + 1] \in Byte
  <2>1. (\A k \in q + 1 .. p : m[k] \in Byte) /\ (\A k \in q + 2 .. p : m[k] \in Byte)
    BY <1>1
  <2> QED
    BY <1>1, <2>1, SubSeqProperties
<1>0. q < p /\ p \in 0 .. Len(m)
  BY <1>1
<1>3. CASE ReadBytesCall(SubSeq(m, q + 1, p))
  <2>1. PICK bytes : bytes = SubSeq(m, q + 1, p)
    OBVIOUS
  <2>2. bytes \in Seq(Byte) /\ ReadBytesCall(bytes)
    BY <1>2, <1>3, <2>1
  <2>3. (WholeInv /\ CallOk /\ Going(m, p))'
    BY <1>0, <1>1, <2>1, <2>2, CallStarts
  <2> QED
    BY <1>0, <2>3
<1>4. CASE \E rt \in {Clock, ActiveSensing} : ReadBytesCall(<<m[q + 1], rt>> \o SubSeq(m, q + 2, p))
  <2>1. PICK rt \in {Clock, ActiveSensing} : ReadBytesCall(<<m[q + 1], rt>> \o SubSeq(m, q + 2, p))
    BY <1>4
  <2>2. rt \in Byte /\ IsRealTime(rt)
    BY DEF Clock, ActiveSensing, Byte, IsRealTime
  <2>3. PICK bytes : bytes = <<m[q + 1], rt>> \o SubSeq(m, q + 2, p)
    OBVIOUS
  <2>4. bytes \in Seq(Byte)
    BY <1>2, <2>2, <2>3, ConcatProperties
  <2>5. ReadBytesCall(bytes)
    BY <2>1, <2>3
  <2>6. \E x \in Byte : IsRealTime(x) /\ bytes = <<m[q + 1], x>> \o SubSeq(m, q + 2, p)
    BY <2>2, <2>3
  <2>7. (WholeInv /\ CallOk /\ Going(m, p))'
    BY <1>0, <1>1, <2>4, <2>5, <2>6, CallStarts
  <2> QED
    BY <1>0, <2>7
<1>5. (q + 1) + 1 = q + 2
  OBVIOUS
<1> QED
  BY <1>3, <1>4, <1>5 DEF Piece

LEMMA DriverKeeps ==
    ASSUME ~Truncates, \A f \in FilterSets : 0 \notin f,
           WholeInv, CallOk, CableInv, [DriverNext]_driverVars
    PROVE  (WholeInv /\ CallOk /\ CableInv)'
<1>1. dpc = "idle" /\ AllFed => ~sysex_in_progress
  BY DEF CableInv, AllFed, Going, MayGoOn, IsSysex
<1>2. CASE SysexStarts
  <2>1. PICK length \in SysexLengths, p \in Nat :
          /\ started' = started + 1 /\ dpc = "idle" /\ started < MaxSent /\ AllFed
          /\ cable' = SysexMessage(started, length)
          /\ p \in PieceEnds(cable', 1) /\ fed' = p /\ Piece(cable', 1, p)
          /\ UNCHANGED <<settings, reading>>
    BY <1>2 DEF SysexStarts, PieceEnds
  <2>2. started \in 0 .. 6
    BY <2>1, MaxSentAssumption DEF CableInv
  <2>3. PICK m : m = cable'
    OBVIOUS
  <2>4. IsSysex(m) /\ Len(m) \in Nat /\ Len(m) >= 3
    BY <2>1, <2>2, <2>3, SysexMessageIs DEF IsSysex
  <2>5. MayGoOn(m, 0)
    BY <1>1, <2>1 DEF MayGoOn
  <2>6. 0 \in Nat /\ 0 + 1 = 1 /\ 0 < Len(m) /\ p > 0
    BY <2>1, <2>3, <2>4 DEF PieceEnds
  <2>7. (WholeInv /\ CallOk /\ Going(m, p))' /\ p \in 0 .. Len(m)
    BY <2>1, <2>3, <2>4, <2>5, <2>6, PieceStarts
  <2>8. cable' # << >> /\ started' \in Nat
    BY <2>1, <2>2, <2>3, <2>4, EmptySeq
  <2> QED
    BY <2>1, <2>3, <2>4, <2>7, <2>8 DEF CableInv
<1>3. CASE SysexGoesOn
  <2>1. PICK p \in Nat :
          /\ dpc = "idle" /\ ~AllFed /\ p \in PieceEnds(cable, fed + 1) /\ fed' = p
          /\ Piece(cable, fed + 1, p) /\ UNCHANGED <<cable, started, settings, reading>>
    BY <1>3 DEF SysexGoesOn, PieceEnds
  <2>2. cable # << >>
    BY <2>1, EmptySeq DEF CableInv, AllFed
  <2>3. IsSysex(cable) /\ fed \in Nat /\ fed < Len(cable) /\ MayGoOn(cable, fed) /\ Len(cable) \in Nat
    BY <2>1, <2>2 DEF CableInv, AllFed, Going, IsSysex
  <2>4. p > fed
    BY <2>1, <2>3 DEF PieceEnds
  <2>5. PICK m : m = cable
    OBVIOUS
  <2>6. PICK q : q = fed
    OBVIOUS
  <2>7. (WholeInv /\ CallOk /\ Going(m, p))' /\ p \in 0 .. Len(m)
    BY <2>1, <2>3, <2>4, <2>5, <2>6, PieceStarts
  <2> QED
    BY <2>1, <2>2, <2>3, <2>5, <2>7 DEF CableInv
<1>4. CASE ShortStarts
  <2>1. /\ dpc = "idle" /\ AllFed /\ ReadShort(ANote) /\ started' = started + 1
        /\ cable' = << >> /\ fed' = 0 /\ UNCHANGED <<settings, call, reading>>
    BY <1>4 DEF ShortStarts
  <2>2. ANote \in Seq(Byte) /\ ANote # << >> /\ ANote[1] \in (128 .. 246) \ {SYSEX}
    BY DEF ANote, Byte, SYSEX
  <2>3. WholeInv' /\ ~sysex_in_progress'
    BY <1>1, <2>1, <2>2, ShortEffect DEF settings
  <2>4. CallOk' /\ dpc' = "idle"
    BY <2>1 DEF CallOk, call
  <2> QED
    BY <2>1, <2>3, <2>4 DEF CableInv
<1>5. CASE RealTimeComes
  <2>1. /\ dpc = "idle" /\ ~AllFed /\ ReadShort(<<Clock>>)
        /\ UNCHANGED <<cable, fed, started, settings, call, reading>>
    BY <1>5 DEF RealTimeComes
  <2>2. Clock \in Byte /\ IsRealTime(Clock)
    BY DEF Clock, Byte, IsRealTime
  <2>3. /\ WholeInv'
        /\ ~sysex_in_progress => ~sysex_in_progress'
        /\ sysex_in_progress' => \A c : CanTake(Packed, c) => CanTake(Packed', c)
    BY <2>1, <2>2, RealTimeEffect DEF settings
  <2>4. cable # << >>
    BY <2>1, EmptySeq DEF CableInv, AllFed
  <2>5. MayGoOn(cable, fed)'
    BY <2>1, <2>3, <2>4 DEF CableInv, Going, MayGoOn, WholeInv, Typed
  <2>6. CallOk' /\ dpc' = "idle"
    BY <2>1 DEF CallOk, call
  <2>7. Going(cable, fed)'
    BY <2>5, <2>6 DEF Going
  <2> QED
    BY <2>1, <2>3, <2>4, <2>6, <2>7 DEF CableInv
<1>6. CASE ReadBytesStep /\ UNCHANGED <<cable, fed, started, clocks>>
  <2>1. dpc # "idle"
    BY <1>6 DEF ReadBytesStep, ScanStart, ScanEox, ScanStatus, ScanData, ScanEnd, SendFour, SendBytes,
         SendEnd, OmitByte, SendEox, SendByte, BytesEnd, Sending
  <2>2. PICK m, p : m = cable /\ p = fed
    OBVIOUS
  <2>3. (WholeInv /\ CallOk /\ Going(m, p))'
    BY <1>6, <2>1, <2>2, ReadBytesSteps DEF CableInv
  <2>4. cable' = m /\ fed' = p
    BY <1>6, <2>2
  <2>5. Going(cable, fed)'
    BY <2>3, <2>4 DEF Going, Feeds, MayGoOn
  <2> QED
    BY <1>6, <2>1, <2>3, <2>5 DEF CableInv
<1>7. CASE Application /\ UNCHANGED <<cable, fed, started, clocks>>
  <2>1. /\ WholeInv' /\ UNCHANGED <<packing, call>>
        /\ \A b : CanTake(Packed, b) => CanTake(Packed', b)
    BY <1>7, ApplicationSteps
  <2>2. CallOk' /\ sysex_in_progress' = sysex_in_progress /\ UNCHANGED <<dpc, data, i>>
    BY <2>1 DEF CallOk, packing, call
  <2>3. ASSUME NEW q, MayGoOn(cable, q) PROVE MayGoOn(cable, q)'
    BY <1>7, <2>1, <2>2, <2>3 DEF MayGoOn
  <2>4. ASSUME NEW q, Feeds(cable, q, fed) PROVE Feeds(cable, q, fed)'
    BY <1>7, <2>2, <2>4 DEF Feeds, Left
  <2>5. Going(cable, fed) => Going(cable, fed)'
    BY <1>7, <2>2, <2>3, <2>4 DEF Going
  <2> QED
    BY <1>7, <2>1, <2>2, <2>5 DEF CableInv
<1>8. CASE UNCHANGED driverVars
  <2>1. UNCHANGED <<settings, packing, queue, reading, call, cable, fed, started>>
    BY <1>8 DEF driverVars, inputVars
  <2>2. WholeInv'
    BY <2>1, SameWholeInv
  <2>3. UNCHANGED Packed
    BY <2>1, SameWholeInv
  <2> QED
    BY <2>1, <2>2, <2>3 DEF CallOk, call, packing, CableInv, Going, Feeds, Left, MayGoOn
<1> QED
  BY <1>2, <1>3, <1>4, <1>5, <1>6, <1>7, <1>8 DEF DriverNext, Driver

\* A sysex message reaches the application whole and in order, or cut short by an
\* overflow that it is told of, from any driver that gives pm_read_bytes the
\* message in pieces, with real-time bytes in it and while Pm_Read, the filters
\* and the channel mask change: for every size of the queue.
THEOREM DriverStreamWhole ==
    ASSUME ~Truncates, \A f \in FilterSets : 0 \notin f
    PROVE  DriverSpec => []StreamWhole
<1>1. DriverInit => WholeInv /\ CallOk /\ CableInv
  BY StreamInit DEF DriverInit, CableInv, InputInit
<1>2. WholeInv /\ CallOk /\ CableInv /\ [DriverNext]_driverVars => (WholeInv /\ CallOk /\ CableInv)'
  BY DriverKeeps
<1>3. WholeInv => StreamWhole
  BY PackedIs DEF StreamWhole
<1> QED
  BY <1>1, <1>2, <1>3, PTL DEF DriverSpec

-----------------------------------------------------------------------------
(***************************************************************************)
(* input_thread is such a driver: it gives pm_read_bytes whole messages.   *)
(***************************************************************************)
WireOk == wire = << >> \/ wire \in ShortMessages \/ IsSysex(wire)

\* What pm_read_bytes is given is all of some sysex message.
HandedInv ==
    /\ idx \in 0 .. 4
    /\ IF dpc = "idle" THEN ~sysex_in_progress
       ELSE \E m \in Seq(Byte) : IsSysex(m) /\ Going(m, Len(m))

\* What a byte makes input_thread hand over.
LEMMA HandsOver ==
    ASSUME WireInv, WireOk, Parses', SendStart \/ SendNext \/ SendRealTime
    PROVE  /\ WireOk'
           /\ \E c : /\ InputByte(c)
                     /\ \/ IsRealTime(c) /\ c \in Byte
                        \/ handed' = << >> \/ handed' \in ShortMessages
                        \/ IsSysex(handed') /\ c = EOX
<1>1. CASE SendRealTime
  <2>1. PICK c \in RealTimes : InputByte(c) /\ UNCHANGED device
    BY <1>1 DEF SendRealTime
  <2>2. IsRealTime(c) /\ c \in Byte
    BY RealTimesAssumption DEF IsRealTime, Byte
  <2>3. WireOk'
    BY <2>1 DEF WireOk, device
  <2> QED
    BY <2>1, <2>2, <2>3
<1>2. ASSUME NEW c, NEW p, Sent(c, p), WireOk', p = Len(wire') => c = wire'[Len(wire')]
      PROVE  /\ InputByte(c)
             /\ handed' = << >> \/ handed' \in ShortMessages \/ (IsSysex(handed') /\ c = EOX)
  <2>1. InputByte(c) /\ done' = (IF p = Len(wire') THEN wire' ELSE << >>)
    BY <1>2 DEF Sent
  <2>2. handed' = << >> \/ handed' = done'
    BY DEF Parses, Fits
  <2>3. IsSysex(wire') => wire'[Len(wire')] = EOX
    BY DEF IsSysex
  <2> QED
    BY <1>2, <2>1, <2>2, <2>3 DEF WireOk
<1>3. CASE SendStart
  <2>1. PICK m \in Messages(sent) : wire' = m /\ Sent(m[1], 1) /\ sent < MaxSent
    BY <1>3 DEF SendStart
  <2>2. sent \in 0 .. 6
    BY <2>1, MaxSentAssumption DEF WireInv
  <2>3. m \in ShortMessages \/ IsSysex(m)
    BY <2>2, SysexMessageIs DEF Messages
  <2>4. WireOk'
    BY <2>1, <2>3 DEF WireOk
  <2> QED
    BY <1>2, <2>1, <2>4
<1>4. CASE SendNext
  <2>1. wire' = wire /\ Sent(wire[pos + 1], pos + 1)
    BY <1>4 DEF SendNext
  <2>2. WireOk'
    BY <2>1 DEF WireOk
  <2> QED
    BY <1>2, <2>1, <2>2
<1> QED
  BY <1>1, <1>3, <1>4

LEMMA InputByteKeeps ==
    ASSUME WholeInv, CallOk, HandedInv, SysexDataInv, NEW c, InputByte(c),
           \/ IsRealTime(c) /\ c \in Byte
           \/ handed' = << >> \/ handed' \in ShortMessages
           \/ IsSysex(handed') /\ c = EOX
    PROVE  (WholeInv /\ CallOk /\ HandedInv)'
<1>1. dpc = "idle" /\ ~sysex_in_progress /\ UNCHANGED <<settings, reading>>
  BY DEF InputByte, HandedInv
<1>9. idx' \in 0 .. 4
  <2>1. idx \in 0 .. 4
    BY DEF HandedInv
  <2>2. RealTime(c) \/ SysexStart(c) \/ SysexData(c) \/ StrayData(c) => idx' = idx
    BY DEF RealTime, SysexStart, SysexData, StrayData, parser
  <2>3. SysexEnd(c) \/ SysexTooLong(c) \/ Status(c) => idx' \in {0, 1}
    BY DEF SysexEnd, SysexTooLong, Status
  <2>4. ShortData(c) => idx' \in {0, 2, 4} \/ (idx' = idx + 1 /\ idx < 4)
    BY DEF ShortData
  <2>5. idx' \in {0, 1, 2, 4} \/ idx' = idx \/ (idx' = idx + 1 /\ idx < 4)
    BY <2>2, <2>3, <2>4 DEF InputByte
  <2> QED
    BY <2>1, <2>5
<1>2. ASSUME UNCHANGED call, WholeInv', ~sysex_in_progress'
      PROVE  (WholeInv /\ CallOk /\ HandedInv)'
  BY <1>9, <1>1, <1>2 DEF CallOk, HandedInv, call
<1>3. ASSUME UNCHANGED <<packing, queue, call>>
      PROVE  (WholeInv /\ CallOk /\ HandedInv)'
  BY <1>1, <1>2, <1>3, SameWholeInv
<1>4. CASE IsRealTime(c) /\ c \in Byte
  <2>1. RealTime(c)
    BY <1>4, Branch DEF IsRealTime
  <2>2. ReadShort(<<c>>) /\ UNCHANGED call
    BY <2>1 DEF RealTime
  <2> QED
    BY <1>1, <1>2, <1>4, <2>2, RealTimeEffect DEF settings
<1>5. CASE RealTime(c)
  <2>1. handed' = <<c>> /\ IsRealTime(c)
    BY <1>5 DEF RealTime
  <2>2. handed' # << >> /\ handed'[1] = c /\ Len(handed') = 1
    BY <2>1
  <2>3. handed' \notin ShortMessages
    <3>1. \A m \in ShortMessages : Len(m) # 1
      BY ShortMessagesAssumption
    <3> QED
      BY <2>2, <3>1
  <2>4. ~IsSysex(handed')
    BY <2>2 DEF IsSysex
  <2> QED
    BY <1>4, <2>2, <2>3, <2>4
<1>6. CASE SysexEnd(c)
  <2>1. c = EOX
    BY <1>6 DEF SysexEnd
  <2>2. CASE st # SYSEX
    BY <1>3, <1>6, <2>2 DEF SysexEnd
  <2>3. CASE st = SYSEX
    <3>1. PICK bytes : bytes = Append(sysex_data, EOX)
      OBVIOUS
    <3>2. ReadBytesCall(bytes) /\ handed' = bytes
      BY <1>6, <2>1, <2>3, <3>1 DEF SysexEnd
    <3>3. Whole(bytes)
      BY <2>3, <3>1, PartEnds DEF SysexDataInv
    <3>4. bytes # << >> /\ bytes \notin ShortMessages
      BY <3>3, ShortMessagesAssumption DEF Whole
    <3>5. IsSysex(bytes) \/ IsRealTime(EOX)
      BY <2>1, <3>2, <3>4
    <3>6. IsSysex(bytes)
      BY <3>5 DEF IsRealTime, EOX
    <3>7. /\ bytes \in Seq(Byte) /\ Len(bytes) \in Nat /\ 0 < Len(bytes)
          /\ bytes = SubSeq(bytes, 0 + 1, Len(bytes))
      <4>1. bytes \in Seq(Byte) /\ Len(bytes) \in Nat /\ 0 < Len(bytes) /\ 0 + 1 = 1
        BY <3>6 DEF IsSysex
      <4> QED
        BY <4>1, SubSeqFull
    <3>8. MayGoOn(bytes, 0)
      BY <1>1 DEF MayGoOn
    <3>9. PICK p : p = Len(bytes) /\ p \in Nat
      BY <3>7
    <3>10. (WholeInv /\ CallOk /\ Going(bytes, p))' /\ dpc' # "idle"
      BY <1>1, <3>2, <3>6, <3>7, <3>8, <3>9, CallStarts
    <3> QED
      BY <1>9, <3>6, <3>7, <3>9, <3>10 DEF HandedInv
  <2> QED
    BY <2>2, <2>3
<1>7. CASE SysexStart(c) \/ Status(c) \/ SysexData(c) \/ SysexTooLong(c) \/ StrayData(c)
  BY <1>3, <1>7 DEF SysexStart, Status, SysexData, SysexTooLong, StrayData
<1>8. CASE ShortData(c)
  <2>1. UNCHANGED call /\ c < 128
    BY <1>8 DEF ShortData
  <2>2. CASE UNCHANGED <<packing, queue>>
    BY <1>3, <2>1, <2>2
  <2>3. CASE ~(UNCHANGED <<packing, queue>>) /\ \E e : ReadShort(e) /\ handed' = e
    <3>1. ReadShort(handed')
      BY <2>3
    <3>2. CASE handed' \in ShortMessages
      <4>1. PICK e : e = handed'
        OBVIOUS
      <4>2. e \in Seq(Byte) /\ e # << >> /\ e[1] \in (128 .. 246) \ {SYSEX} /\ ReadShort(e)
        BY <3>1, <3>2, <4>1, ShortMessagesAssumption
      <4> QED
        BY <1>1, <1>2, <2>1, <4>2, ShortEffect DEF settings
    <3>3. c # EOX
      BY <2>1 DEF EOX
    <3>4. handed' # << >>
      <4>1. PICK next : next = IF idx = 0 THEN 2 ELSE IF idx < 4 THEN idx + 1 ELSE 4
        OBVIOUS
      <4>2. next >= 1 /\ next \in Nat
        BY <4>1 DEF HandedInv
      <4>3. next = len \/ UNCHANGED <<packing, queue>>
        BY <1>8, <4>1 DEF ShortData
      <4>4. next = len => handed' = [p \in 1 .. len |-> message'[p - 1]]
        BY <1>8, <4>1 DEF ShortData
      <4>5. CASE next = len
        <5>1. 1 \in 1 .. len
          BY <4>2, <4>5
        <5>2. 1 \in DOMAIN handed'
          BY <4>4, <4>5, <5>1
        <5>3. 1 \notin DOMAIN << >>
          OBVIOUS
        <5> QED
          BY <5>2, <5>3
      <4> QED
        BY <2>3, <4>3, <4>5
    <3> QED
      BY <1>4, <3>2, <3>3, <3>4
  <2> QED
    BY <1>8, <2>2, <2>3 DEF ShortData
<1> QED
  BY <1>5, <1>6, <1>7, <1>8 DEF InputByte

LEMMA SndioKeeps ==
    ASSUME \A f \in FilterSets : 0 \notin f,
           WireInv, Parses', SysexDataInv, WireOk, WholeInv, CallOk, HandedInv, [SndioNext]_sndioVars
    PROVE  (WireOk /\ WholeInv /\ CallOk /\ HandedInv)'
<1>1. CASE SendStart \/ SendNext \/ SendRealTime
  <2>1. WireOk'
    BY <1>1, HandsOver
  <2>2. PICK c : /\ InputByte(c)
                 /\ \/ IsRealTime(c) /\ c \in Byte
                    \/ handed' = << >> \/ handed' \in ShortMessages
                    \/ IsSysex(handed') /\ c = EOX
    BY <1>1, HandsOver
  <2> QED
    BY <2>1, <2>2, InputByteKeeps
<1>2. CASE ReadBytesStep /\ UNCHANGED <<parser, device, done, handed>>
  <2>1. dpc # "idle"
    BY <1>2 DEF ReadBytesStep, ScanStart, ScanEox, ScanStatus, ScanData, ScanEnd, SendFour, SendBytes,
         SendEnd, OmitByte, SendEox, SendByte, BytesEnd, Sending
  <2>2. PICK m \in Seq(Byte) : IsSysex(m) /\ Going(m, Len(m))
    BY <2>1 DEF HandedInv
  <2>3. PICK p \in Nat : p = Len(m)
    BY <2>2 DEF IsSysex
  <2>4. (WholeInv /\ CallOk /\ Going(m, p))'
    BY <1>2, <2>2, <2>3, ReadBytesSteps
  <2>5. HandedInv'
    <3>3. idx' \in 0 .. 4
      BY <1>2 DEF HandedInv, parser
    <3>1. CASE dpc' = "idle"
      <4>1. sysex_in_progress' => p < Len(m)
        BY <2>4, <3>1 DEF Going, MayGoOn
      <4>2. ~(p < Len(m))
        BY <2>3
      <4> QED
        BY <3>1, <3>3, <4>1, <4>2 DEF HandedInv
    <3>2. CASE dpc' # "idle"
      BY <2>2, <2>3, <2>4, <3>2, <3>3 DEF HandedInv
    <3> QED
      BY <3>1, <3>2
  <2>6. WireOk'
    BY <1>2 DEF WireOk, device
  <2> QED
    BY <2>4, <2>5, <2>6
<1>3. CASE Application /\ UNCHANGED <<parser, device, done, handed>>
  <2>1. /\ WholeInv' /\ UNCHANGED <<packing, call>>
        /\ \A b : CanTake(Packed, b) => CanTake(Packed', b)
    BY <1>3, ApplicationSteps
  <2>2. CallOk' /\ sysex_in_progress' = sysex_in_progress /\ UNCHANGED <<dpc, data, i>>
    BY <2>1 DEF CallOk, packing, call
  <2>3. ASSUME NEW m, NEW q, MayGoOn(m, q) PROVE MayGoOn(m, q)'
    BY <2>1, <2>2, <2>3 DEF MayGoOn
  <2>4. ASSUME NEW m, NEW q, NEW p, Feeds(m, q, p) PROVE Feeds(m, q, p)'
    BY <2>2, <2>4 DEF Feeds, Left
  <2>5. ASSUME NEW m, Going(m, Len(m)) PROVE Going(m, Len(m))'
    BY <2>2, <2>3, <2>4, <2>5 DEF Going
  <2>6. HandedInv'
    BY <1>3, <2>2, <2>5 DEF HandedInv, parser
  <2>7. WireOk'
    BY <1>3 DEF WireOk, device
  <2> QED
    BY <2>1, <2>2, <2>6, <2>7
<1>4. CASE UNCHANGED sndioVars
  <2>1. UNCHANGED <<settings, packing, queue, reading, call, device, parser>>
    BY <1>4 DEF sndioVars, inputVars
  <2>2. WholeInv' /\ Packed' = Packed
    BY <2>1, SameWholeInv
  <2>3. CallOk' /\ sysex_in_progress' = sysex_in_progress /\ UNCHANGED <<dpc, data, i>>
    BY <2>1 DEF CallOk, packing, call
  <2>4. ASSUME NEW m, NEW q, MayGoOn(m, q) PROVE MayGoOn(m, q)'
    BY <2>2, <2>3, <2>4 DEF MayGoOn
  <2>5. ASSUME NEW m, NEW q, NEW p, Feeds(m, q, p) PROVE Feeds(m, q, p)'
    BY <2>3, <2>5 DEF Feeds, Left
  <2>6. ASSUME NEW m, Going(m, Len(m)) PROVE Going(m, Len(m))'
    BY <2>3, <2>4, <2>5, <2>6 DEF Going
  <2>7. HandedInv' /\ WireOk'
    BY <2>1, <2>3, <2>6 DEF HandedInv, WireOk, device, parser
  <2> QED
    BY <2>2, <2>3, <2>7
<1> QED
  BY <1>1, <1>2, <1>3, <1>4 DEF SndioNext, InputThread

\* The same from input_thread: whatever the device sends and abandons, no byte of a
\* sysex message comes to the application out of its place, unless it is told that
\* the queue overflowed.
THEOREM SndioStreamWhole ==
    ASSUME \A f \in FilterSets : 0 \notin f
    PROVE  SndioSpec => []StreamWhole
<1>1. SndioInit => WireOk /\ WholeInv /\ CallOk /\ HandedInv
  <2>1. SndioInit => InputInit /\ WireOk
    BY DEF SndioInit, WireOk
  <2>2. SndioInit => HandedInv
    BY DEF SndioInit, InputInit, HandedInv
  <2> QED
    BY <2>1, <2>2, StreamInit
<1>2. /\ WireInv /\ Parses' /\ SysexDataInv /\ WireOk /\ WholeInv /\ CallOk /\ HandedInv
      /\ [SndioNext]_sndioVars
      => (WireOk /\ WholeInv /\ CallOk /\ HandedInv)'
  BY SndioKeeps
<1>3. WholeInv => StreamWhole
  BY PackedIs DEF StreamWhole
<1> QED
  BY <1>1, <1>2, <1>3, InputInvariant, PTL DEF SndioSpec

=============================================================================
