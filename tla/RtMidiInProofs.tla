--------------------------- MODULE RtMidiInProofs ---------------------------
(***************************************************************************)
(* Proofs about the input of RtMidi, for every size of the ring, all       *)
(* messages and any number of events, chunks, openings and calls:          *)
(*                                                                         *)
(*   - the ring of MidiQueue is a queue (QueueInv), and MidiInAlsa uses it *)
(*     as RtMidiQueue has it, so that this holds of MidiInAlsa;            *)
(*   - closePort leaves no input thread behind (CloseInv);                 *)
(*   - messages come in the order of arrival (ArrivalInv) and whole        *)
(*     (WholeInv).                                                         *)
(*                                                                         *)
(* The number of messages in the ring is what has been pushed and not      *)
(* popped, and the slots from front to back hold these messages in their   *)
(* order.  A push under way knows of a free slot, at back, and a pop under *)
(* way of a full one, at front, whatever the other side does meanwhile.    *)
(***************************************************************************)
EXTENDS RtMidiAlsaIn, SequenceTheorems, TLAPS

Count == SizeOf(back, front)

PushInv ==
    /\ ppc # "idle" => pback = back /\ Count < RingSize - 1
    /\ ppc = "advance" => ring[back] = pmsg

PopInv ==
    /\ qpc # "idle" => qfront = front /\ Count > 0
    /\ qpc = "advance" => qmsg = ring[front]

Contents ==
    /\ Len(pushed) = Len(popped) + Count
    /\ \A i \in Slot : SizeOf(i, front) < Count =>
           ring[i] = pushed[Len(popped) + 1 + SizeOf(i, front)]
    /\ \A k \in 1 .. Len(popped) : popped[k] = pushed[k]

QueueInv == QueueTypeOK /\ PushInv /\ PopInv /\ Contents

-----------------------------------------------------------------------------
\* The slot after another, and the distances that change with it.
LEMMA AfterSlot ==
    ASSUME NEW i \in Slot
    PROVE  /\ After(i) \in Slot
           /\ After(i) = IF i = RingSize - 1 THEN 0 ELSE i + 1
  <1>1. RingSize \in Nat \ {0}
    BY RingAssumption
  <1>2. CASE i = RingSize - 1
    <2>1. i + 1 = RingSize
      BY <1>1, <1>2
    <2>2. RingSize % RingSize = 0
      BY <1>1
    <2> QED
      BY <1>1, <1>2, <2>1, <2>2 DEF After, Slot
  <1>3. CASE i # RingSize - 1
    <2>1. i + 1 \in 0 .. RingSize - 1
      BY <1>1, <1>3 DEF Slot
    <2>2. (i + 1) % RingSize = i + 1
      BY <1>1, <2>1
    <2> QED
      BY <1>1, <1>3, <2>1, <2>2 DEF After, Slot
  <1> QED
    BY <1>2, <1>3

LEMMA Distances ==
    ASSUME NEW b \in Slot, NEW f \in Slot
    PROVE  /\ SizeOf(b, f) \in Slot
           /\ SizeOf(b, f) = 0 <=> b = f
           /\ SizeOf(b, f) < RingSize - 1 => SizeOf(After(b), f) = SizeOf(b, f) + 1
           /\ SizeOf(b, f) > 0 => SizeOf(b, After(f)) = SizeOf(b, f) - 1
  BY RingAssumption, AfterSlot DEF SizeOf, Slot

LEMMA LastDistance ==
    ASSUME NEW f \in Slot
    PROVE  SizeOf(f, After(f)) = RingSize - 1
  BY RingAssumption, AfterSlot DEF SizeOf, Slot

LEMMA DistancesDiffer ==
    ASSUME NEW f \in Slot, NEW b \in Slot, NEW c \in Slot, SizeOf(b, f) = SizeOf(c, f)
    PROVE  b = c
  BY RingAssumption DEF SizeOf, Slot
-----------------------------------------------------------------------------
LEMMA QueueInitInv == QueueInit => QueueInv
  <1> SUFFICES ASSUME QueueInit PROVE QueueInv
    OBVIOUS
  <1> USE RingAssumption
  <1>1. QueueTypeOK
    BY DEF QueueInit, QueueTypeOK, Slot
  <1>2. Count = 0 /\ Len(pushed) = 0 /\ Len(popped) = 0
    BY DEF QueueInit, Count, SizeOf
  <1>3. PushInv /\ PopInv
    BY DEF QueueInit, PushInv, PopInv
  <1>4. ASSUME NEW i \in Slot PROVE ~(SizeOf(i, front) < 0)
    BY <1>4, <1>1, Distances DEF Slot, QueueTypeOK
  <1> QED
    BY <1>1, <1>2, <1>3, <1>4 DEF QueueInv, Contents

LEMMA QueueStepType ==
    ASSUME QueueTypeOK, QueueNext
    PROVE  QueueTypeOK'
  <1> USE RingAssumption
  <1>0. 0 \in Slot
    BY DEF Slot
  <1>1. ASSUME NEW m \in Message, PushSize(m) PROVE QueueTypeOK'
    BY <1>1 DEF PushSize, QueueTypeOK, pushVars, popVars
  <1>2. CASE PushStore
    BY <1>2 DEF PushStore, QueueTypeOK, popVars
  <1>3. CASE PushAdvance
    <2>1. After(back) \in Slot
      BY AfterSlot DEF QueueTypeOK
    <2>2. Append(pushed, pmsg) \in Seq(Message)
      BY DEF QueueTypeOK
    <2> QED
      BY <1>0, <1>3, <2>1, <2>2 DEF PushAdvance, QueueTypeOK, popVars
  <1>4. CASE PopSize
    BY <1>4 DEF PopSize, QueueTypeOK, pushVars
  <1>5. CASE PopCopy
    BY <1>5 DEF PopCopy, QueueTypeOK, pushVars
  <1>6. CASE PopAdvance
    <2>1. After(front) \in Slot
      BY AfterSlot DEF QueueTypeOK
    <2>2. Append(popped, qmsg) \in Seq(Message)
      BY DEF QueueTypeOK
    <2> QED
      BY <1>0, <1>6, <2>1, <2>2 DEF PopAdvance, QueueTypeOK, pushVars
  <1> QED
    BY <1>1, <1>2, <1>3, <1>4, <1>5, <1>6 DEF QueueNext, PushStep, PopStep

LEMMA QueueStepInv ==
    ASSUME QueueInv, QueueNext
    PROVE  QueueInv'
  <1> USE RingAssumption
  <1>0. QueueTypeOK /\ QueueTypeOK' /\ PushInv /\ PopInv /\ Contents
    BY QueueStepType DEF QueueInv
  <1>a. Count \in Slot /\ Count' \in Slot
    BY <1>0, Distances DEF Count, QueueTypeOK
  <1>1. ASSUME NEW m \in Message, PushSize(m) PROVE QueueInv'
    <2>1. UNCHANGED <<ring, front, back, qpc, qfront, qmsg, pushed, popped>>
      BY <1>1 DEF PushSize, popVars
    <2>2. UNCHANGED Count
      BY <2>1 DEF Count
    <2>3. PushInv'
      <3>1. CASE Room
        BY <1>0, <1>1, <2>1, <2>2, <3>1 DEF PushSize, PushInv, Room, Count, pushVars
      <3>2. CASE ~Room
        BY <1>0, <1>1, <2>1, <2>2, <3>2 DEF PushSize, PushInv, pushVars
      <3> QED
        BY <3>1, <3>2
    <2> QED
      BY <1>0, <2>1, <2>2, <2>3 DEF QueueInv, PopInv, Contents
  <1>2. CASE PushStore
    <2>1. /\ UNCHANGED <<front, back, pmsg, pback, qpc, qfront, qmsg, pushed, popped>>
          /\ ring' = [ring EXCEPT ![pback] = pmsg] /\ ppc = "store" /\ ppc' = "advance"
      BY <1>2 DEF PushStore, popVars
    <2>2. UNCHANGED Count
      BY <2>1 DEF Count
    <2>3. pback = back /\ Count < RingSize - 1
      BY <1>0, <2>1 DEF PushInv
    <2>4. PushInv'
      BY <1>0, <2>1, <2>2, <2>3 DEF PushInv, QueueTypeOK
    <2>5. \A i \in Slot : SizeOf(i, front) < Count => i # back
      BY <1>0, <1>a DEF Count, Slot
    <2>6. \A i \in Slot : SizeOf(i, front) < Count => ring'[i] = ring[i]
      BY <1>0, <2>1, <2>3, <2>5 DEF QueueTypeOK
    <2>7. PopInv'
      <3>1. qpc # "idle" => SizeOf(front, front) < Count
        BY <1>0, Distances DEF PopInv, QueueTypeOK
      <3>2. qpc # "idle" => ring'[front] = ring[front]
        BY <1>0, <2>6, <3>1 DEF QueueTypeOK
      <3> QED
        BY <1>0, <2>1, <2>2, <3>2 DEF PopInv
    <2>8. Contents'
      BY <1>0, <2>1, <2>2, <2>6 DEF Contents
    <2> QED
      BY <1>0, <2>4, <2>7, <2>8 DEF QueueInv
  <1>3. CASE PushAdvance
    <2>1. /\ UNCHANGED <<ring, front, qpc, qfront, qmsg, popped>>
          /\ ppc = "advance" /\ ppc' = "idle"
          /\ back' = After(back) /\ pushed' = Append(pushed, pmsg)
      BY <1>3 DEF PushAdvance, popVars
    <2>2. pback = back /\ Count < RingSize - 1 /\ ring[back] = pmsg
      BY <1>0, <2>1 DEF PushInv
    <2>3. Count' = Count + 1
      BY <1>0, <2>1, <2>2, Distances DEF Count, QueueTypeOK
    <2>4. PushInv' /\ PopInv'
      BY <1>0, <1>a, <2>1, <2>3 DEF PushInv, PopInv, Slot
    <2>5. /\ Len(pushed) \in Nat /\ Len(popped) \in Nat
          /\ Len(pushed') = Len(pushed) + 1 /\ pushed'[Len(pushed) + 1] = pmsg
          /\ \A k \in 1 .. Len(pushed) : pushed'[k] = pushed[k]
      BY <1>0, <2>1 DEF QueueTypeOK
    <2>6. ASSUME NEW i \in Slot, SizeOf(i, front) < Count + 1
          PROVE  ring[i] = pushed'[Len(popped) + 1 + SizeOf(i, front)]
      <3>0. SizeOf(i, front) \in Slot
        BY <1>0, Distances DEF QueueTypeOK
      <3>1. CASE SizeOf(i, front) < Count
        <4>1. ring[i] = pushed[Len(popped) + 1 + SizeOf(i, front)]
          BY <1>0, <3>1 DEF Contents
        <4>2. Len(popped) + 1 + SizeOf(i, front) \in 1 .. Len(pushed)
          BY <1>0, <1>a, <2>5, <3>0, <3>1 DEF Contents, Slot
        <4> QED
          BY <2>5, <4>1, <4>2
      <3>2. CASE SizeOf(i, front) = Count
        <4>1. i = back
          BY <1>0, <3>2, DistancesDiffer DEF Count, QueueTypeOK
        <4>2. Len(popped) + 1 + SizeOf(i, front) = Len(pushed) + 1
          BY <1>0, <1>a, <2>5, <3>2 DEF Contents, Slot
        <4> QED
          BY <2>2, <2>5, <4>1, <4>2
      <3> QED
        BY <1>a, <2>6, <3>0, <3>1, <3>2 DEF Slot
    <2>7. \A k \in 1 .. Len(popped) : popped[k] = pushed'[k]
      <3>1. Len(popped) <= Len(pushed)
        BY <1>0, <1>a, <2>5 DEF Contents, Slot
      <3> QED
        BY <1>0, <2>5, <3>1 DEF Contents
    <2>8. Contents'
      <3>1. Len(pushed') = Len(popped') + Count'
        BY <1>0, <1>a, <2>1, <2>3, <2>5 DEF Contents, Slot
      <3> QED
        BY <2>1, <2>3, <2>6, <2>7, <3>1 DEF Contents
    <2> QED
      BY <1>0, <2>4, <2>8 DEF QueueInv
  <1>4. CASE PopSize
    <2>1. /\ UNCHANGED <<ring, front, back, ppc, pmsg, pback, qmsg, pushed, popped>>
          /\ qpc' = "copy" /\ qfront' = front /\ SizeOf(back, front) # 0
      BY <1>4 DEF PopSize, pushVars, Empty
    <2>2. UNCHANGED Count /\ Count > 0
      BY <1>a, <2>1 DEF Count, Slot
    <2>3. PushInv' /\ PopInv' /\ Contents'
      BY <1>0, <2>1, <2>2 DEF PushInv, PopInv, Contents
    <2> QED
      BY <1>0, <2>3 DEF QueueInv
  <1>5. CASE PopCopy
    <2>1. /\ UNCHANGED <<ring, front, back, ppc, pmsg, pback, qfront, pushed, popped>>
          /\ qpc = "copy" /\ qpc' = "advance" /\ qmsg' = ring[qfront]
      BY <1>5 DEF PopCopy, pushVars
    <2>2. UNCHANGED Count
      BY <2>1 DEF Count
    <2>3. PushInv' /\ PopInv' /\ Contents'
      BY <1>0, <2>1, <2>2 DEF PushInv, PopInv, Contents
    <2> QED
      BY <1>0, <2>3 DEF QueueInv
  <1>6. CASE PopAdvance
    <2>1. /\ UNCHANGED <<ring, back, ppc, pmsg, pback, pushed>>
          /\ qpc = "advance" /\ qpc' = "idle"
          /\ front' = After(front) /\ popped' = Append(popped, qmsg)
      BY <1>6 DEF PopAdvance, pushVars
    <2>2. qfront = front /\ Count > 0 /\ qmsg = ring[front]
      BY <1>0, <2>1 DEF PopInv
    <2>3. Count' = Count - 1
      BY <1>0, <2>1, <2>2, Distances DEF Count, QueueTypeOK
    <2>4. PushInv' /\ PopInv'
      BY <1>0, <1>a, <2>1, <2>3 DEF PushInv, PopInv, Slot
    <2>5. /\ Len(pushed) \in Nat /\ Len(popped) \in Nat
          /\ Len(popped') = Len(popped) + 1 /\ popped'[Len(popped) + 1] = qmsg
          /\ \A k \in 1 .. Len(popped) : popped'[k] = popped[k]
      BY <1>0, <2>1 DEF QueueTypeOK
    <2>6. qmsg = pushed[Len(popped) + 1]
      <3>1. SizeOf(front, front) = 0
        BY <1>0, Distances DEF QueueTypeOK
      <3> QED
        BY <1>0, <2>2, <2>5, <3>1 DEF Contents, QueueTypeOK
    <2>7. ASSUME NEW i \in Slot, SizeOf(i, front') < Count - 1
          PROVE  ring[i] = pushed[Len(popped) + 2 + SizeOf(i, front')]
      <3>0. SizeOf(i, front) \in Slot /\ SizeOf(i, front') \in Slot
        BY <1>0, Distances DEF QueueTypeOK
      <3>1. SizeOf(i, front) > 0
        <4>1. SizeOf(i, front') # RingSize - 1
          BY <1>a, <2>7, <3>0 DEF Slot
        <4>2. i # front
          BY <1>0, <2>1, <4>1, LastDistance DEF QueueTypeOK
        <4> QED
          BY <1>0, <3>0, <4>2, Distances DEF Slot, QueueTypeOK
      <3>2. SizeOf(i, front') = SizeOf(i, front) - 1
        BY <1>0, <2>1, <3>1, Distances DEF QueueTypeOK
      <3>3. SizeOf(i, front) < Count
        BY <1>a, <2>7, <3>0, <3>2 DEF Slot
      <3>4. ring[i] = pushed[Len(popped) + 1 + SizeOf(i, front)]
        BY <1>0, <3>3 DEF Contents
      <3>5. Len(popped) + 1 + SizeOf(i, front) = Len(popped) + 2 + SizeOf(i, front')
        BY <2>5, <3>0, <3>2 DEF Slot
      <3> QED
        BY <3>4, <3>5
    <2>8. \A k \in 1 .. Len(popped') : popped'[k] = pushed[k]
      BY <1>0, <2>5, <2>6 DEF Contents
    <2>9. Contents'
      <3>1. Len(pushed) = Len(popped') + Count'
        BY <1>0, <1>a, <2>3, <2>5 DEF Contents, Slot
      <3>2. \A i \in Slot : SizeOf(i, front') < Count' =>
                ring[i] = pushed[Len(popped') + 1 + SizeOf(i, front')]
        <4>1. \A i \in Slot : Len(popped') + 1 + SizeOf(i, front') = Len(popped) + 2 + SizeOf(i, front')
          BY <1>0, <2>5, Distances DEF Slot, QueueTypeOK
        <4> QED
          BY <2>3, <2>7, <4>1
      <3> QED
        BY <2>1, <2>8, <3>1, <3>2 DEF Contents
    <2> QED
      BY <1>0, <2>4, <2>9 DEF QueueInv
  <1> QED
    BY <1>1, <1>2, <1>3, <1>4, <1>5, <1>6 DEF QueueNext, PushStep, PopStep

LEMMA QueueStutter ==
    ASSUME QueueInv, UNCHANGED queueVars
    PROVE  QueueInv'
  BY DEF QueueInv, QueueTypeOK, PushInv, PopInv, Contents, Count, queueVars, pushVars, popVars

LEMMA QueueInvImplies ==
    ASSUME QueueInv
    PROVE  PopsInOrder /\ SlotExclusive
  <1> USE RingAssumption
  <1>1. Count \in Slot /\ Len(popped) \in Nat /\ Len(pushed) \in Nat
    BY Distances DEF QueueInv, QueueTypeOK, Count
  <1>2. Len(popped) <= Len(pushed)
    BY <1>1 DEF QueueInv, Contents, Slot
  <1>3. popped = SubSeq(pushed, 1, Len(popped))
    <2> DEFINE s == SubSeq(pushed, 1, Len(popped))
    <2>1. s \in Seq(Message) /\ Len(s) = Len(popped) /\ \A k \in 1 .. Len(popped) : s[k] = pushed[k]
      BY <1>1, <1>2 DEF QueueInv, QueueTypeOK
    <2>2. popped \in Seq(Message) /\ \A k \in 1 .. Len(popped) : s[k] = popped[k]
      BY <2>1 DEF QueueInv, QueueTypeOK, Contents
    <2> HIDE DEF s
    <2> QED
      BY <2>1, <2>2, SeqEqual DEF s
  <1>4. SlotExclusive
    <2> SUFFICES ASSUME ppc = "store", qpc = "copy" PROVE pback # qfront
      BY DEF SlotExclusive
    <2>1. pback = back /\ qfront = front /\ SizeOf(back, front) > 0
      BY DEF QueueInv, PushInv, PopInv, Count
    <2>2. back \in Slot /\ front \in Slot
      BY DEF QueueInv, QueueTypeOK
    <2> QED
      BY <2>1, <2>2, Distances
  <1>5. ASSUME Empty PROVE popped = pushed
    <2>1. Len(pushed) = Len(popped)
      BY <1>1, <1>5 DEF Empty, Count, QueueInv, Contents
    <2>2. /\ popped \in Seq(Message) /\ pushed \in Seq(Message)
          /\ \A k \in 1 .. Len(popped) : popped[k] = pushed[k]
      BY DEF QueueInv, QueueTypeOK, Contents
    <2> QED
      BY <2>1, <2>2, SeqEqual
  <1> QED
    BY <1>2, <1>3, <1>4, <1>5 DEF PopsInOrder

(***************************************************************************)
(* The results.                                                            *)
(***************************************************************************)
\* The inductive invariant of the ring.
THEOREM QueueCorrect == QueueSpec => []QueueInv
  <1>1. QueueInv /\ [QueueNext]_queueVars => QueueInv'
    BY QueueStepInv, QueueStutter
  <1> QED
    BY <1>1, QueueInitInv, PTL DEF QueueSpec

\* getMessage gets all that was pushed, in its order and unharmed, whatever
\* the size of the ring.
THEOREM QueuePopsInOrder == QueueSpec => []PopsInOrder
  BY QueueCorrect, QueueInvImplies, PTL

\* No slot is written while it is copied.
THEOREM QueueSlotExclusive == QueueSpec => []SlotExclusive
  BY QueueCorrect, QueueInvImplies, PTL

-----------------------------------------------------------------------------
(***************************************************************************)
(* Closing.  The thread takes its identifier away as the last thing it     *)
(* does, and without a failed malloc only closePort clears doInput.        *)
(***************************************************************************)
HandlerStates == {"none", "start", "failed", "loop", "input", "poll", "deliver", "callback",
                  "push", "exit"}

ControlType ==
    /\ doInput \in BOOLEAN /\ starved \in BOOLEAN
    /\ thread \in {"dummy", "handler"} /\ tpc \in HandlerStates
    /\ apc \in {"idle", "wake", "test", "join", "closed", "ignoring"}

CloseInv ==
    /\ ControlType
    /\ thread = "dummy" => tpc = "none"
    /\ apc \in {"idle", "closed", "ignoring"} /\ ~doInput /\ ~starved => tpc = "none"

LEMMA CloseInit == AlsaInit => CloseInv
  BY DEF AlsaInit, CloseInv, ControlType, HandlerStates

\* Steps that leave what CloseInv is about alone.
LEMMA CloseKept ==
    ASSUME CloseInv, UNCHANGED <<doInput, starved, thread, tpc, apc>>
    PROVE  CloseInv'
  BY DEF CloseInv, ControlType

LEMMA CloseSend ==
    ASSUME CloseInv, SendRealtime \/ SendNote \/ SendChunk
    PROVE  CloseInv'
  BY CloseKept DEF SendRealtime, SendNote, SendChunk, Send, object, handler, call

LEMMA CloseHandler ==
    ASSUME CloseInv, HandlerStep
    PROVE  CloseInv'
  <1> USE DEF CloseInv, ControlType, HandlerStates
  <1>1. CASE Start \/ Failed \/ LoopTest \/ NothingPending \/ CallbackReturns
    BY <1>1 DEF Start, Failed, LoopTest, NothingPending, CallbackReturns, object, call, history
  <1>2. CASE StartFails
    BY <1>2 DEF StartFails, call
  <1>3. CASE Poll
    BY <1>3 DEF Poll, call, history
  <1>4. CASE Overrun
    BY <1>4 DEF Overrun, object, call
  <1>5. CASE Decode \/ Ignore
    <2>1. /\ UNCHANGED <<doInput, starved, thread, apc>>
          /\ tpc = "input" /\ tpc' \in {"loop", "deliver"}
      BY <1>5 DEF Decode, Ignore, InputEvent, object, call
    <2> QED
      BY <2>1
  <1>6. CASE ResizeFails
    BY <1>6 DEF ResizeFails, InputEvent, call
  <1>7. CASE Deliver
    <2>1. /\ UNCHANGED <<doInput, starved, thread, apc>>
          /\ tpc = "deliver" /\ tpc' \in {"callback", "push"}
      BY <1>7 DEF Deliver, object, call
    <2> QED
      BY <2>1
  <1>8. CASE Push
    <2>1. /\ UNCHANGED <<doInput, starved, thread, apc>>
          /\ tpc = "push" /\ tpc' \in {"loop", "push"}
      BY <1>8 DEF Push, object, call, history
    <2> QED
      BY <2>1
  <1>9. CASE Exit
    BY <1>9 DEF Exit, call
  <1> QED
    BY <1>1, <1>2, <1>3, <1>4, <1>5, <1>6, <1>7, <1>8, <1>9 DEF HandlerStep

LEMMA CloseApp ==
    ASSUME CloseInv, AppStep
    PROVE  CloseInv'
  <1> USE DEF CloseInv, ControlType, HandlerStates
  <1>1. CASE OpenPort \/ OpenVirtualPort
    <2>1. UNCHANGED <<starved, apc>>
      BY <1>1 DEF OpenPort, OpenVirtualPort, history
    <2>2. StartThread
      BY <1>1 DEF OpenPort, OpenVirtualPort
    <2> QED
      BY <2>1, <2>2 DEF StartThread
  <1>2. CASE OpenVirtualPortFails
    BY <1>2, CloseKept DEF OpenVirtualPortFails, handler, call, history
  <1>3. CASE ClosePort
    BY <1>3 DEF ClosePort, Idle, handler, history
  <1>4. CASE WakeHandler
    BY <1>4 DEF WakeHandler, handler, history
  <1>5. CASE JoinTest \/ Join
    BY <1>5 DEF JoinTest, Join, object, handler, history
  <1>6. CASE Closed
    BY <1>6 DEF Closed, handler, history
  <1>7. CASE IgnoreTypes
    BY <1>7 DEF IgnoreTypes, Idle, handler, history
  <1>8. CASE IgnoreFlag
    <2>1. /\ UNCHANGED <<doInput, starved, thread, tpc>>
          /\ apc = "ignoring" /\ apc' \in {"ignoring", "idle"}
      BY <1>8 DEF IgnoreFlag, handler, history
    <2> QED
      BY <2>1
  <1>9. CASE SetCallback \/ CancelCallback
    BY <1>9, CloseKept DEF SetCallback, CancelCallback, handler, call, history
  <1>10. CASE GetMessage
    BY <1>10, CloseKept DEF GetMessage, object, handler, call, history
  <1> QED
    BY <1>1, <1>2, <1>3, <1>4, <1>5, <1>6, <1>7, <1>8, <1>9, <1>10 DEF AppStep, CloseStep

\* closePort and the destructor leave no thread behind, for all values of the
\* constants.
THEOREM AlsaClosedMeansQuiet == AlsaSpec => []ClosedMeansQuiet
  <1>1. CloseInv /\ [AlsaNext]_alsaVars => CloseInv'
    <2> SUFFICES ASSUME CloseInv, [AlsaNext]_alsaVars PROVE CloseInv'
      OBVIOUS
    <2>1. CASE UNCHANGED alsaVars
      BY <2>1, CloseKept DEF alsaVars, object, handler, call, history
    <2>2. CASE AlsaNext
      BY <2>2, CloseSend, CloseHandler, CloseApp DEF AlsaNext
    <2> QED
      BY <2>1, <2>2
  <1>2. CloseInv => ClosedMeansQuiet
    BY DEF CloseInv, ClosedMeansQuiet
  <1> QED
    BY <1>1, <1>2, CloseInit, PTL DEF AlsaSpec
-----------------------------------------------------------------------------
(***************************************************************************)
(* The ring.  What the handler pushes is a message, and no other step of   *)
(* MidiInAlsa or of its surroundings changes the queue.                    *)
(***************************************************************************)
MessageInv ==
    /\ sent \in Nat /\ of \in Nat /\ part \in Nat
    /\ pending \in Seq(Events) /\ message \in Seq(Events)

LEMMA MessageInit == AlsaInit => MessageInv
  BY DEF AlsaInit, MessageInv, NoMessage

LEMMA MessageSent ==
    ASSUME MessageInv, NEW e \in Events, Send(e)
    PROVE  sent' \in Nat /\ pending' \in Seq(Events) /\ message' \in Seq(Events)
  <1>1. message' = message /\ sent' = sent + 1
    BY DEF Send, handler
  <1>2. pending' = pending \/ pending' = Append(pending, e)
    BY DEF Send, Lost, alsa
  <1> QED
    BY <1>1, <1>2 DEF MessageInv

LEMMA MessageStep ==
    ASSUME MessageInv, AlsaNext
    PROVE  MessageInv'
  <1>0. Chunks \in Nat \ {0} /\ Realtime \subseteq {"time", "sense"}
    BY AlsaAssumption
  <1>1. CASE SendRealtime
    <2>1. PICK k \in Realtime : Send(Event(k, sent + 1, 1)) /\ UNCHANGED <<of, part>>
      BY <1>1 DEF SendRealtime
    <2>2. Event(k, sent + 1, 1) \in Events
      BY <1>0 DEF Event, Events, MessageInv
    <2> QED
      BY <2>1, <2>2, MessageSent DEF MessageInv
  <1>2. CASE SendNote
    <2>1. Event("note", sent + 1, 1) \in Events
      BY DEF Event, Events, MessageInv
    <2> QED
      BY <1>2, <2>1, MessageSent DEF SendNote, MessageInv
  <1>3. CASE SendChunk
    <2>1. of' \in Nat
      BY <1>3 DEF SendChunk, MessageInv
    <2>2. part' \in Nat
      BY <1>0, <1>3 DEF SendChunk, MessageInv
    <2>3. Event("sysex", of', part + 1) \in Events
      BY <2>1 DEF Event, Events, MessageInv
    <2>4. Send(Event("sysex", of', part + 1))
      BY <1>3 DEF SendChunk
    <2>5. sent' \in Nat /\ pending' \in Seq(Events) /\ message' \in Seq(Events)
      BY <2>3, <2>4, MessageSent
    <2> QED
      BY <2>1, <2>2, <2>5 DEF MessageInv
  <1>4. ASSUME HandlerStep PROVE MessageInv'
    <2>0. Begun \in Seq(Events)
      BY DEF Begun, NoMessage, MessageInv
    <2>1. CASE Start \/ StartFails \/ Failed \/ LoopTest \/ NothingPending \/ CallbackReturns
      BY <2>1 DEF Start, StartFails, Failed, LoopTest, NothingPending, CallbackReturns, MessageInv,
                  source, alsa
    <2>2. CASE Poll \/ Deliver \/ Push
      BY <2>2 DEF Poll, Deliver, Push, MessageInv, source, alsa
    <2>3. CASE Overrun
      BY <2>3 DEF Overrun, MessageInv, source
    <2>4. CASE Decode
      <3>1. pending # <<>> /\ pending' = Tail(pending) /\ UNCHANGED source
        BY <2>4 DEF Decode, InputEvent
      <3>2. Head(pending) \in Events
        BY <3>1 DEF MessageInv
      <3>3. message' = Begun \o <<Head(pending)>>
        BY <2>4 DEF Decode, Joined
      <3> QED
        BY <2>0, <3>1, <3>2, <3>3 DEF MessageInv, source
    <2>5. CASE Ignore \/ ResizeFails
      <3>1. pending # <<>> /\ pending' = Tail(pending) /\ UNCHANGED source /\ message' = Begun
        BY <2>5 DEF Ignore, ResizeFails, InputEvent
      <3> QED
        BY <2>0, <3>1 DEF MessageInv, source
    <2>6. CASE Exit
      BY <2>6 DEF Exit, MessageInv, NoMessage, source, alsa
    <2> QED
      BY <1>4, <2>1, <2>2, <2>3, <2>4, <2>5, <2>6 DEF HandlerStep
  <1>5. ASSUME AppStep PROVE UNCHANGED <<source, alsa, message>>
    <2>1. CASE OpenPort \/ OpenVirtualPort \/ OpenVirtualPortFails
      BY <2>1 DEF OpenPort, OpenVirtualPort, OpenVirtualPortFails, handler
    <2>2. CASE ClosePort \/ CloseStep
      BY <2>2 DEF ClosePort, CloseStep, WakeHandler, JoinTest, Join, Closed, handler
    <2>3. CASE IgnoreTypes \/ IgnoreFlag \/ SetCallback \/ CancelCallback \/ GetMessage
      BY <2>3 DEF IgnoreTypes, IgnoreFlag, SetCallback, CancelCallback, GetMessage, handler
    <2> QED
      BY <1>5, <2>1, <2>2, <2>3 DEF AppStep
  <1>6. CASE AppStep
    BY <1>5, <1>6 DEF MessageInv, source, alsa
  <1> QED
    BY <1>1, <1>2, <1>3, <1>4, <1>6 DEF AlsaNext

LEMMA QueueUse ==
    ASSUME MessageInv, Seq(Events) \subseteq Message, AlsaNext
    PROVE  QueueNext \/ UNCHANGED queueVars
  <1>1. CASE SendRealtime \/ SendNote \/ SendChunk
    BY <1>1 DEF SendRealtime, SendNote, SendChunk, Send
  <1>2. CASE Deliver
    <2>1. message \in Message
      BY DEF MessageInv
    <2> QED
      BY <1>2, <2>1 DEF Deliver, QueueNext
  <1>3. CASE Push
    BY <1>3 DEF Push, QueueNext
  <1>4. CASE HandlerStep /\ ~Deliver /\ ~Push
    BY <1>4 DEF HandlerStep, Start, StartFails, Failed, LoopTest, NothingPending, Poll, Overrun,
                Decode, Ignore, ResizeFails, InputEvent, CallbackReturns, Exit
  <1>5. CASE GetMessage
    BY <1>5 DEF GetMessage, QueueNext
  <1>6. CASE AppStep /\ ~GetMessage
    BY <1>6 DEF AppStep, CloseStep, OpenPort, OpenVirtualPort, OpenVirtualPortFails, ClosePort,
                WakeHandler, JoinTest, Join, Closed, IgnoreTypes, IgnoreFlag, SetCallback,
                CancelCallback
  <1> QED
    BY <1>1, <1>2, <1>3, <1>4, <1>5, <1>6 DEF AlsaNext

\* MidiInAlsa uses its ring as RtMidiQueue says: each of its steps is one of
\* a queue or leaves the queue alone.
THEOREM AlsaUsesQueue ==
    ASSUME Seq(Events) \subseteq Message
    PROVE  AlsaSpec => QueueSpec
  <1>1. AlsaInit => QueueInit
    BY DEF AlsaInit
  <1>2. MessageInv /\ [AlsaNext]_alsaVars => MessageInv'
    <2>1. MessageInv /\ UNCHANGED alsaVars => MessageInv'
      BY DEF alsaVars, MessageInv, source, alsa, handler
    <2> QED
      BY <2>1, MessageStep
  <1>3. MessageInv /\ [AlsaNext]_alsaVars => [QueueNext]_queueVars
    BY QueueUse DEF alsaVars
  <1> QED
    BY <1>1, <1>2, <1>3, MessageInit, PTL DEF AlsaSpec, QueueSpec

\* What getMessage of an ALSA input gets is what its handler pushed, in order,
\* whatever the size of the ring.
THEOREM AlsaPopsInOrder ==
    ASSUME Seq(Events) \subseteq Message
    PROVE  AlsaSpec => []PopsInOrder
  BY AlsaUsesQueue, QueuePopsInOrder, PTL

\* And the handler does not write the slot that getMessage copies.
THEOREM AlsaSlotExclusive ==
    ASSUME Seq(Events) \subseteq Message
    PROVE  AlsaSpec => []SlotExclusive
  BY AlsaUsesQueue, QueueSlotExclusive, PTL
-----------------------------------------------------------------------------
(***************************************************************************)
(* What arrives: the messages that were handed over, the one that is       *)
(* carried by the thread, and the events that the sequencer holds.         *)
(***************************************************************************)
\* The message that is begun, or whole and not yet handed over.
Carried == IF continueSysex \/ tpc = "deliver" THEN message ELSE NoMessage

\* An event as the source numbers it.
Numbered(x) ==
    /\ x \in Events /\ x.of <= x.id /\ x.id <= sent
    /\ x.part \in 1 .. Chunks /\ (x.part = 1 => x.id = x.of)
    /\ x.kind # "sysex" => x.part = 1

AllNumbered(s) == s \in Seq(Events) /\ \A k \in 1 .. Len(s) : Numbered(s[k])

Ordered(s) == \A k, l \in 1 .. Len(s) : k < l => s[k].id < s[l].id

Before(s, t) == \A k \in 1 .. Len(s), l \in 1 .. Len(t) : s[k].id < t[l].id

SourceType == sent \in Nat /\ of \in Nat /\ of <= sent /\ part \in 0 .. Chunks - 1

CarriedInv ==
    /\ AllNumbered(message) /\ Ordered(Carried) /\ Before(Carried, pending)
    /\ tpc = "deliver" => ~continueSysex

DeliveredInv ==
    /\ delivered \in Seq(Seq(Events))
    /\ \A i \in 1 .. Len(delivered) :
        /\ AllNumbered(delivered[i]) /\ Ordered(delivered[i])
        /\ Before(delivered[i], Carried) /\ Before(delivered[i], pending)
        /\ \A j \in 1 .. Len(delivered) : i < j => Before(delivered[i], delivered[j])

ArrivalInv ==
    SourceType /\ AllNumbered(pending) /\ Ordered(pending) /\ CarriedInv /\ DeliveredInv

LEMMA Appended ==
    ASSUME NEW S, NEW s \in Seq(S), NEW e \in S
    PROVE  /\ Append(s, e) \in Seq(S) /\ Len(s) \in Nat /\ Len(Append(s, e)) = Len(s) + 1
           /\ \A k \in 1 .. Len(s) : Append(s, e)[k] = s[k]
           /\ Append(s, e)[Len(s) + 1] = e
           /\ \A k \in 1 .. Len(Append(s, e)) : k \in 1 .. Len(s) \/ k = Len(s) + 1
  OBVIOUS

LEMMA Consumed ==
    ASSUME NEW S, NEW s \in Seq(S), s # <<>>
    PROVE  /\ Tail(s) \in Seq(S) /\ Len(s) \in Nat /\ Len(Tail(s)) = Len(s) - 1
           /\ Head(s) = s[1] /\ 1 \in 1 .. Len(s)
           /\ \A k \in 1 .. Len(Tail(s)) :
                Tail(s)[k] = s[k + 1] /\ k + 1 \in 1 .. Len(s) /\ 1 < k + 1
  OBVIOUS

\* Appending what is later than everything keeps the order.
LEMMA OrderAppended ==
    ASSUME NEW s \in Seq(Events), NEW e \in Events, Ordered(s),
           \A k \in 1 .. Len(s) : s[k].id < e.id
    PROVE  Ordered(Append(s, e))
  <1> DEFINE t == Append(s, e)
  <1>1. /\ Len(s) \in Nat /\ Len(t) = Len(s) + 1
        /\ \A k \in 1 .. Len(s) : t[k] = s[k]
        /\ t[Len(s) + 1] = e
        /\ \A k \in 1 .. Len(t) : k \in 1 .. Len(s) \/ k = Len(s) + 1
    BY Appended
  <1> HIDE DEF t
  <1>2. ASSUME NEW k \in 1 .. Len(t), NEW l \in 1 .. Len(t), k < l
        PROVE  t[k].id < t[l].id
    <2>1. k \in 1 .. Len(s)
      BY <1>1, <1>2
    <2>2. CASE l \in 1 .. Len(s)
      BY <1>1, <1>2, <2>1, <2>2 DEF Ordered
    <2>3. CASE l = Len(s) + 1
      BY <1>1, <2>1, <2>3
    <2> QED
      BY <1>1, <2>2, <2>3
  <1> QED
    BY <1>2 DEF Ordered, t

LEMMA BeforeAppended ==
    ASSUME NEW s \in Seq(Events), NEW t \in Seq(Events), NEW e \in Events, Before(s, t),
           \A k \in 1 .. Len(s) : s[k].id < e.id
    PROVE  Before(s, Append(t, e))
  BY Appended DEF Before

LEMMA AppendedBefore ==
    ASSUME NEW s \in Seq(Events), NEW t \in Seq(Events), NEW e \in Events, Before(s, t),
           \A k \in 1 .. Len(t) : e.id < t[k].id
    PROVE  Before(Append(s, e), t)
  BY Appended DEF Before

LEMMA TailOrdered ==
    ASSUME NEW s \in Seq(Events), s # <<>>, Ordered(s)
    PROVE  /\ Ordered(Tail(s))
           /\ \A k \in 1 .. Len(Tail(s)) : Head(s).id < Tail(s)[k].id
  <1>1. /\ Len(s) \in Nat /\ Len(Tail(s)) = Len(s) - 1 /\ Head(s) = s[1] /\ 1 \in 1 .. Len(s)
        /\ \A k \in 1 .. Len(Tail(s)) :
             Tail(s)[k] = s[k + 1] /\ k + 1 \in 1 .. Len(s) /\ 1 < k + 1
    BY Consumed
  <1> QED
    BY <1>1 DEF Ordered

LEMMA TailAfter ==
    ASSUME NEW s \in Seq(Events), NEW t \in Seq(Events), t # <<>>, Before(s, t)
    PROVE  /\ Before(s, Tail(t))
           /\ \A k \in 1 .. Len(s) : s[k].id < Head(t).id
  BY Consumed DEF Before

LEMMA NumberedTyped ==
    ASSUME NEW s, AllNumbered(s)
    PROVE  /\ s \in Seq(Events) /\ \A k \in 1 .. Len(s) : s[k] \in Events /\ s[k].id <= sent
  BY DEF AllNumbered, Numbered

-----------------------------------------------------------------------------
LEMMA ArrivalInit == AlsaInit => ArrivalInv
  <1> SUFFICES ASSUME AlsaInit PROVE ArrivalInv
    OBVIOUS
  <1>1. /\ sent = 0 /\ of = 0 /\ part = 0 /\ pending = <<>> /\ message = <<>>
        /\ delivered = <<>> /\ tpc = "none" /\ ~continueSysex
    BY DEF AlsaInit, NoMessage
  <1>2. SourceType
    BY <1>1, AlsaAssumption DEF SourceType
  <1> QED
    BY <1>1, <1>2 DEF ArrivalInv, AllNumbered, Ordered, Before, CarriedInv, Carried, NoMessage,
                      DeliveredInv

\* Steps that neither take an event nor hand over a message.
LEMMA ArrivalKept ==
    ASSUME ArrivalInv, UNCHANGED <<source, pending, continueSysex, message, delivered>>,
           tpc' = "deliver" <=> tpc = "deliver"
    PROVE  ArrivalInv'
  <1>1. Carried' = Carried
    BY DEF Carried
  <1>2. SourceType' /\ AllNumbered(pending)' /\ Ordered(pending)'
    BY DEF ArrivalInv, SourceType, source, AllNumbered, Numbered, Ordered
  <1>3. CarriedInv'
    BY <1>1 DEF ArrivalInv, CarriedInv, source, AllNumbered, Numbered, Ordered, Before
  <1>4. DeliveredInv'
    BY <1>1 DEF ArrivalInv, DeliveredInv, source, AllNumbered, Numbered, Ordered, Before
  <1> QED
    BY <1>2, <1>3, <1>4 DEF ArrivalInv

\* An event more of the source.
LEMMA ArrivalSent ==
    ASSUME ArrivalInv, NEW e, Send(e), SourceType', e.id = sent + 1, Numbered(e)'
    PROVE  ArrivalInv'
  <1>1. /\ sent' = sent + 1 /\ sent \in Nat
        /\ UNCHANGED <<continueSysex, message, tpc, delivered>>
    BY DEF Send, handler, ArrivalInv, SourceType
  <1>2. Carried' = Carried
    BY <1>1 DEF Carried
  <1>3. \A x : Numbered(x) => Numbered(x)'
    BY <1>1 DEF Numbered, Events
  <1>4. \A s : AllNumbered(s) => AllNumbered(s)'
    BY <1>3 DEF AllNumbered
  <1>5. e \in Events /\ pending \in Seq(Events)
    BY DEF Numbered, ArrivalInv, AllNumbered
  <1>6. \A s : AllNumbered(s) => \A k \in 1 .. Len(s) : s[k].id < e.id
    BY <1>1 DEF AllNumbered, Numbered, Events
  <1>7. AllNumbered(Carried) /\ Carried \in Seq(Events)
    BY DEF ArrivalInv, CarriedInv, Carried, AllNumbered, NoMessage
  <1>8. pending' = pending \/ pending' = Append(pending, e)
    BY DEF Send, Lost, alsa
  <1>9. AllNumbered(pending)' /\ Ordered(pending')
    <2>1. CASE pending' = pending
      BY <2>1, <1>4 DEF ArrivalInv, AllNumbered
    <2>2. CASE pending' = Append(pending, e)
      <3>1. Ordered(pending')
        BY <2>2, <1>5, <1>6, OrderAppended DEF ArrivalInv
      <3>2. ASSUME NEW k \in 1 .. Len(pending') PROVE Numbered(pending[k])'
        <4>1. CASE k \in 1 .. Len(pending)
          <5>1. Numbered(pending[k]) /\ pending'[k] = pending[k]
            BY <1>5, <2>2, <4>1, Appended DEF ArrivalInv, AllNumbered
          <5> QED
            BY <1>1, <5>1 DEF Numbered, Events
        <4>2. CASE k = Len(pending) + 1
          <5>1. pending'[k] = e
            BY <1>5, <2>2, <4>2, Appended
          <5> QED
            BY <5>1 DEF Numbered
        <4> QED
          BY <1>5, <2>2, <4>1, <4>2, Appended
      <3> QED
        BY <1>5, <2>2, <3>1, <3>2, Appended DEF AllNumbered
    <2> QED
      BY <1>8, <2>1, <2>2
  <1>10. \A s : AllNumbered(s) /\ Before(s, pending) => Before(s, pending')
    <2> SUFFICES ASSUME NEW s, AllNumbered(s), Before(s, pending), pending' # pending
                 PROVE  Before(s, pending')
      OBVIOUS
    <2>1. s \in Seq(Events)
      BY DEF AllNumbered
    <2> QED
      BY <1>5, <1>6, <1>8, <2>1, BeforeAppended
  <1>11. CarriedInv'
    BY <1>1, <1>2, <1>4, <1>7, <1>10 DEF ArrivalInv, CarriedInv
  <1>12. DeliveredInv'
    BY <1>1, <1>2, <1>4, <1>10 DEF ArrivalInv, DeliveredInv
  <1> QED
    BY <1>9, <1>11, <1>12 DEF ArrivalInv

LEMMA ArrivalOverrun ==
    ASSUME ArrivalInv, Overrun
    PROVE  ArrivalInv'
  <1>1. /\ tpc = "input" /\ tpc' = "loop" /\ pending' = <<>>
        /\ UNCHANGED <<sent, of, part, continueSysex, message, delivered>>
    BY DEF Overrun, source
  <1>2. Carried' = Carried
    BY <1>1 DEF Carried
  <1>3. SourceType' /\ AllNumbered(pending)' /\ Ordered(pending)'
    BY <1>1 DEF ArrivalInv, SourceType, AllNumbered, Ordered
  <1>4. CarriedInv'
    BY <1>1, <1>2 DEF ArrivalInv, CarriedInv, AllNumbered, Numbered, Ordered, Before
  <1>5. DeliveredInv'
    BY <1>1, <1>2 DEF ArrivalInv, DeliveredInv, AllNumbered, Numbered, Ordered, Before
  <1> QED
    BY <1>3, <1>4, <1>5 DEF ArrivalInv

\* The event that waits first is taken, and appended to the message or not.
LEMMA ArrivalTaken ==
    ASSUME ArrivalInv, tpc = "input", pending # <<>>, pending' = Tail(pending),
           UNCHANGED <<source, delivered>>,
           \/ message' = Begun /\ UNCHANGED continueSysex /\ tpc' = "loop"
           \/ /\ message' = Joined(Head(pending))
              /\ tpc' = IF continueSysex' THEN "loop" ELSE "deliver"
    PROVE  ArrivalInv'
  <1> DEFINE e == Head(pending)
  <1>1. Carried = Begun /\ AllNumbered(Begun) /\ Begun \in Seq(Events)
    BY DEF ArrivalInv, CarriedInv, Carried, Begun, AllNumbered, NoMessage
  <1>2. pending \in Seq(Events) /\ Ordered(pending) /\ Before(Begun, pending) /\ Ordered(Begun)
    BY <1>1 DEF ArrivalInv, AllNumbered, CarriedInv
  <1>3. e \in Events /\ Numbered(e)
    BY <1>2, Consumed DEF ArrivalInv, AllNumbered
  <1>4. UNCHANGED <<sent, of, part>>
    BY DEF source
  <1>5. \A s : AllNumbered(s) <=> AllNumbered(s)'
    BY <1>4 DEF AllNumbered, Numbered
  <1>6. SourceType' /\ AllNumbered(pending)' /\ Ordered(pending)'
    <2>1. AllNumbered(Tail(pending))
      BY <1>2, Consumed DEF ArrivalInv, AllNumbered
    <2>2. Ordered(Tail(pending))
      BY <1>2, TailOrdered
    <2> QED
      BY <1>4, <1>5, <2>1, <2>2 DEF ArrivalInv, SourceType, AllNumbered
  <1>7. \A s : AllNumbered(s) /\ Before(s, pending) =>
                   Before(s, pending') /\ \A k \in 1 .. Len(s) : s[k].id < e.id
    BY <1>2, TailAfter DEF AllNumbered
  <1>8. CASE message' = Begun /\ UNCHANGED continueSysex /\ tpc' = "loop"
    <2>1. Carried' = Carried
      BY <1>1, <1>8 DEF Carried, Begun, NoMessage
    <2>2. CarriedInv'
      BY <1>1, <1>2, <1>5, <1>7, <1>8, <2>1 DEF CarriedInv
    <2>3. DeliveredInv'
      BY <1>5, <1>7, <2>1 DEF ArrivalInv, DeliveredInv
    <2> QED
      BY <1>6, <2>2, <2>3 DEF ArrivalInv
  <1>9. CASE /\ message' = Joined(e)
             /\ tpc' = IF continueSysex' THEN "loop" ELSE "deliver"
    <2>1. message' = Append(Begun, e) /\ Carried' = message'
      <3>1. Begun \o <<e>> = Append(Begun, e)
        BY <1>1, <1>3
      <3>2. continueSysex' \/ tpc' = "deliver"
        BY <1>9
      <3> QED
        BY <1>9, <3>1, <3>2 DEF Joined, Carried
    <2> HIDE DEF e
    <2>2. \A k \in 1 .. Len(Begun) : Begun[k].id < e.id
      BY <1>1, <1>2, <1>7
    <2>3. AllNumbered(message)'
      <3>1. AllNumbered(Append(Begun, e))
        BY <1>1, <1>3, Appended DEF AllNumbered
      <3> QED
        BY <1>5, <2>1, <3>1 DEF AllNumbered
    <2>4. Ordered(Carried')
      BY <1>1, <1>2, <1>3, <2>1, <2>2, OrderAppended
    <2>5. Before(Carried', pending')
      <3>1. Tail(pending) \in Seq(Events) /\ \A k \in 1 .. Len(Tail(pending)) : e.id < Tail(pending)[k].id
        BY <1>2, TailOrdered, Consumed DEF e
      <3>2. Before(Begun, Tail(pending))
        BY <1>1, <1>2, <1>7
      <3> QED
        BY <1>1, <1>3, <2>1, <3>1, <3>2, AppendedBefore
    <2>6. CarriedInv'
      <3>1. tpc' = "deliver" => ~continueSysex'
        BY <1>9
      <3> QED
        BY <2>3, <2>4, <2>5, <3>1 DEF CarriedInv
    <2>7. \A s : AllNumbered(s) /\ Before(s, Carried) /\ Before(s, pending) => Before(s, Carried')
      <3> SUFFICES ASSUME NEW s, AllNumbered(s), Before(s, Carried), Before(s, pending)
                   PROVE  Before(s, Append(Begun, e))
        BY <2>1
      <3>1. s \in Seq(Events) /\ Before(s, Begun) /\ \A k \in 1 .. Len(s) : s[k].id < e.id
        BY <1>1, <1>7 DEF AllNumbered
      <3> QED
        BY <1>1, <1>3, <3>1, BeforeAppended
    <2>8. DeliveredInv'
      BY <1>5, <1>7, <2>7 DEF ArrivalInv, DeliveredInv
    <2> QED
      BY <1>6, <2>6, <2>8 DEF ArrivalInv
  <1> QED
    BY <1>8, <1>9

LEMMA ArrivalDeliver ==
    ASSUME ArrivalInv, Deliver
    PROVE  ArrivalInv'
  <1>1. /\ tpc = "deliver" /\ tpc' # "deliver" /\ ~continueSysex
        /\ delivered' = Append(delivered, message)
        /\ UNCHANGED <<sent, of, part, pending, continueSysex, message>>
    BY DEF Deliver, source, alsa, ArrivalInv, CarriedInv
  <1>2. Carried = message /\ Carried' = <<>>
    BY <1>1 DEF Carried, NoMessage
  <1>3. \A s : AllNumbered(s) <=> AllNumbered(s)'
    BY <1>1 DEF AllNumbered, Numbered
  <1>4. SourceType' /\ AllNumbered(pending)' /\ Ordered(pending)'
    BY <1>1 DEF ArrivalInv, SourceType, AllNumbered, Numbered
  <1>5. CarriedInv'
    BY <1>1, <1>2, <1>3 DEF ArrivalInv, CarriedInv, Ordered, Before
  <1>6. message \in Seq(Events) /\ delivered \in Seq(Seq(Events))
    BY DEF ArrivalInv, CarriedInv, AllNumbered, DeliveredInv
  <1>7. /\ delivered' \in Seq(Seq(Events)) /\ Len(delivered) \in Nat
        /\ \A k \in 1 .. Len(delivered) : delivered'[k] = delivered[k]
        /\ delivered'[Len(delivered) + 1] = message
        /\ \A k \in 1 .. Len(delivered') : k \in 1 .. Len(delivered) \/ k = Len(delivered) + 1
    BY <1>1, <1>6, Appended
  <1>8. AllNumbered(message) /\ Ordered(message) /\ Before(message, pending)
    BY <1>2 DEF ArrivalInv, CarriedInv
  <1>9. \A s : Before(s, Carried')
    BY <1>2 DEF Before
  <1>10. ASSUME NEW i \in 1 .. Len(delivered')
         PROVE  /\ AllNumbered(delivered'[i]) /\ Ordered(delivered'[i])
                /\ Before(delivered'[i], Carried') /\ Before(delivered'[i], pending')
                /\ \A j \in 1 .. Len(delivered') : i < j => Before(delivered'[i], delivered'[j])
    <2>1. CASE i = Len(delivered) + 1
      <3>1. \A j \in 1 .. Len(delivered') : ~(i < j)
        <4> DEFINE n == Len(delivered)
        <4>1. n \in Nat /\ i = n + 1 /\ \A j \in 1 .. Len(delivered') : j \in 1 .. n \/ j = n + 1
          BY <1>7, <2>1
        <4> HIDE DEF n
        <4> QED
          BY <4>1
      <3> QED
        BY <1>1, <1>7, <1>8, <1>9, <2>1, <3>1
    <2>2. CASE i \in 1 .. Len(delivered)
      <3>1. \A j \in 1 .. Len(delivered') : i < j => Before(delivered'[i], delivered'[j])
        BY <1>2, <1>7, <2>2 DEF ArrivalInv, DeliveredInv
      <3> QED
        BY <1>1, <1>7, <1>9, <2>2, <3>1 DEF ArrivalInv, DeliveredInv
    <2> QED
      BY <1>7, <2>1, <2>2
  <1>11. DeliveredInv'
    <2>1. \A x : AllNumbered(x) => x \in Seq(Events) /\ \A k \in 1 .. Len(x) : Numbered(x[k])
      BY DEF AllNumbered
    <2> QED
      BY <1>1, <1>7, <1>10 DEF DeliveredInv, AllNumbered, Numbered
  <1> QED
    BY <1>4, <1>5, <1>11 DEF ArrivalInv

LEMMA ArrivalExit ==
    ASSUME ArrivalInv, Exit
    PROVE  ArrivalInv'
  <1>1. /\ tpc' = "none" /\ ~continueSysex' /\ message' = <<>>
        /\ UNCHANGED <<sent, of, part, pending, delivered>>
    BY DEF Exit, source, alsa, NoMessage
  <1>2. Carried' = <<>>
    BY <1>1 DEF Carried, NoMessage
  <1>3. SourceType' /\ AllNumbered(pending)' /\ Ordered(pending)'
    BY <1>1 DEF ArrivalInv, SourceType, AllNumbered, Numbered
  <1>4. CarriedInv'
    BY <1>1, <1>2 DEF CarriedInv, AllNumbered, Ordered, Before
  <1>5. DeliveredInv'
    <2>1. \A s : AllNumbered(s)' <=> AllNumbered(s)
      BY <1>1 DEF AllNumbered, Numbered
    <2>2. \A s : Before(s, Carried')
      BY <1>2 DEF Before
    <2>3. \A i \in 1 .. Len(delivered) : AllNumbered(delivered[i])'
      BY <1>1, <2>1 DEF ArrivalInv, DeliveredInv
    <2>4. \A i \in 1 .. Len(delivered) : Before(delivered[i], Carried')
      BY <2>2
    <2> QED
      BY <1>1, <2>3, <2>4 DEF ArrivalInv, DeliveredInv
  <1> QED
    BY <1>3, <1>4, <1>5 DEF ArrivalInv

\* What the source sends: an event of its own, or the next chunk of its message.
IsNext(e) ==
    /\ e.id = sent + 1
    /\ \/ e.kind # "sysex" /\ e.of = sent + 1 /\ e.part = 1 /\ UNCHANGED <<of, part>>
       \/ /\ e.kind = "sysex" /\ e.of = of' /\ e.part = part + 1
          /\ of' = IF part = 0 THEN sent + 1 ELSE of
          /\ part' = IF part + 1 = Chunks THEN 0 ELSE part + 1

LEMMA SourceSends ==
    ASSUME SourceType, SendRealtime \/ SendNote \/ SendChunk
    PROVE  \E e : Send(e) /\ IsNext(e) /\ SourceType' /\ Numbered(e)'
  <1>0. Chunks \in Nat \ {0} /\ Realtime \subseteq {"time", "sense"}
    BY AlsaAssumption
  <1> USE DEF SourceType, Event, Events, IsNext, Numbered
  <1>1. CASE SendRealtime
    <2>1. PICK k \in Realtime : Send(Event(k, sent + 1, 1)) /\ UNCHANGED <<of, part>>
      BY <1>1 DEF SendRealtime
    <2>2. sent' = sent + 1
      BY <2>1 DEF Send
    <2>3. IsNext(Event(k, sent + 1, 1)) /\ SourceType'
      BY <1>0, <2>1, <2>2
    <2> QED
      BY <1>0, <2>1, <2>2, <2>3
  <1>2. CASE SendNote
    <2>1. Send(Event("note", sent + 1, 1)) /\ UNCHANGED <<of, part>> /\ sent' = sent + 1
      BY <1>2 DEF SendNote, Send
    <2>2. IsNext(Event("note", sent + 1, 1)) /\ SourceType'
      BY <1>0, <2>1
    <2> QED
      BY <1>0, <2>1, <2>2
  <1>3. CASE SendChunk
    <2>1. /\ Send(Event("sysex", of', part + 1)) /\ sent' = sent + 1
          /\ of' = IF part = 0 THEN sent + 1 ELSE of
          /\ part' = (part + 1) % Chunks
      BY <1>3 DEF SendChunk, Send
    <2>2. part' = IF part + 1 = Chunks THEN 0 ELSE part + 1
      BY <1>0, <2>1
    <2>3. IsNext(Event("sysex", of', part + 1)) /\ SourceType'
      BY <1>0, <2>1, <2>2
    <2> QED
      BY <1>0, <2>1, <2>2, <2>3
  <1> QED
    BY <1>1, <1>2, <1>3

\* The steps that neither take an event nor hand over a message.
LEMMA OtherSteps ==
    ASSUME AlsaNext
    PROVE  \/ SendRealtime \/ SendNote \/ SendChunk
           \/ Overrun \/ Decode \/ Ignore \/ ResizeFails \/ Deliver \/ Exit
           \/ /\ UNCHANGED <<source, pending, continueSysex, message, delivered, broken>>
              /\ tpc' = "deliver" <=> tpc = "deliver"
  <1> USE DEF alsa, history
  <1>1. CASE Start \/ StartFails \/ Failed \/ LoopTest
    BY <1>1 DEF Start, StartFails, Failed, LoopTest
  <1>2. CASE NothingPending \/ Poll \/ CallbackReturns \/ Push
    BY <1>2 DEF NothingPending, Poll, CallbackReturns, Push
  <1>3. CASE OpenPort \/ OpenVirtualPort \/ OpenVirtualPortFails
    BY <1>3 DEF OpenPort, OpenVirtualPort, OpenVirtualPortFails, StartThread, handler
  <1>4. CASE ClosePort \/ CloseStep
    BY <1>4 DEF ClosePort, CloseStep, WakeHandler, JoinTest, Join, Closed, handler
  <1>5. CASE IgnoreTypes \/ IgnoreFlag \/ SetCallback \/ CancelCallback \/ GetMessage
    BY <1>5 DEF IgnoreTypes, IgnoreFlag, SetCallback, CancelCallback, GetMessage, handler
  <1> QED
    BY <1>1, <1>2, <1>3, <1>4, <1>5 DEF AlsaNext, HandlerStep, AppStep

LEMMA TakingSteps ==
    ASSUME Decode \/ Ignore \/ ResizeFails
    PROVE  /\ tpc = "input" /\ pending # <<>> /\ pending' = Tail(pending)
           /\ UNCHANGED <<source, delivered>>
           /\ \/ /\ message' = Begun /\ UNCHANGED continueSysex /\ tpc' = "loop"
                 /\ broken' = broken \cup {Head(pending).of}
              \/ /\ message' = Joined(Head(pending))
                 /\ continueSysex' = Unfinished(Head(pending))
                 /\ tpc' = IF continueSysex' THEN "loop" ELSE "deliver"
                 /\ broken' = IF Origins(Begun) \subseteq {Head(pending).of} THEN broken
                              ELSE broken \cup Origins(Begun) \cup {Head(pending).of}
  BY DEF Decode, Ignore, ResizeFails, InputEvent

LEMMA ArrivalStep ==
    ASSUME ArrivalInv, [AlsaNext]_alsaVars
    PROVE  ArrivalInv'
  <1>1. CASE SendRealtime \/ SendNote \/ SendChunk
    <2>1. PICK e : Send(e) /\ IsNext(e) /\ SourceType' /\ Numbered(e)'
      BY <1>1, SourceSends DEF ArrivalInv
    <2> QED
      BY <2>1, ArrivalSent DEF IsNext
  <1>2. CASE Overrun \/ Deliver \/ Exit
    BY <1>2, ArrivalOverrun, ArrivalDeliver, ArrivalExit
  <1>3. CASE Decode \/ Ignore \/ ResizeFails
    BY <1>3, TakingSteps, ArrivalTaken
  <1>4. CASE /\ UNCHANGED <<source, pending, continueSysex, message, delivered>>
             /\ tpc' = "deliver" <=> tpc = "deliver"
    BY <1>4, ArrivalKept
  <1>5. CASE UNCHANGED alsaVars
    BY <1>4, <1>5 DEF alsaVars, handler, history, alsa
  <1> QED
    BY <1>1, <1>2, <1>3, <1>4, <1>5, OtherSteps

LEMMA ArrivalInvariance == AlsaSpec => []ArrivalInv
  <1>1. ArrivalInv /\ [AlsaNext]_alsaVars => ArrivalInv'
    BY ArrivalStep
  <1> QED
    BY ArrivalInit, <1>1, PTL DEF AlsaSpec

\* What is handed over comes in the order of arrival and only once, whatever the
\* sequencer holds, however many events come and whenever ports are closed and opened.
THEOREM AlsaArrivalOrder == AlsaSpec => []ArrivalOrder
  <1>1. ArrivalInv => ArrivalOrder
    <2> SUFFICES ASSUME ArrivalInv,
                        NEW i \in DOMAIN delivered, NEW j \in DOMAIN delivered,
                        NEW k \in DOMAIN delivered[i], NEW l \in DOMAIN delivered[j],
                        i < j \/ (i = j /\ k < l)
                 PROVE  delivered[i][k].id < delivered[j][l].id
      BY DEF ArrivalOrder
    <2>1. i \in 1 .. Len(delivered) /\ j \in 1 .. Len(delivered)
      BY DEF ArrivalInv, DeliveredInv
    <2>2. k \in 1 .. Len(delivered[i]) /\ l \in 1 .. Len(delivered[j])
      BY <2>1 DEF ArrivalInv, DeliveredInv, AllNumbered
    <2>3. CASE i < j
      BY <2>1, <2>2, <2>3 DEF ArrivalInv, DeliveredInv, Before
    <2>4. CASE i = j /\ k < l
      BY <2>1, <2>2, <2>4 DEF ArrivalInv, DeliveredInv, Ordered
    <2> QED
      BY <2>3, <2>4
  <1> QED
    BY <1>1, ArrivalInvariance, PTL

-----------------------------------------------------------------------------
(***************************************************************************)
(* Messages that are whole.  A chunk follows the one before it, which      *)
(* waits or ends the message that is begun, or its message is broken.      *)
(***************************************************************************)
IsChunk(e, o, p) == e.kind = "sysex" /\ e.of = o /\ e.part = p

EndsWith(m, o, p) == m # <<>> /\ IsChunk(m[Len(m)], o, p)

\* What comes last of the message o before the k-th event that waits, after the begun
\* message m, is its p-th chunk.
Trail(held, m, k, o, p) ==
    \/ \E j \in 1 .. k - 1 :
        IsChunk(held[j], o, p) /\ \A i \in j + 1 .. k - 1 : held[i].of # o
    \/ (\A i \in 1 .. k - 1 : held[i].of # o) /\ EndsWith(m, o, p)

\* Of what is not broken no chunk is missing, neither before one that waits nor before
\* the next one that is sent.
NoneMissing ==
    /\ \A k \in 1 .. Len(pending) :
        pending[k].part > 1 /\ pending[k].of \notin broken =>
            Trail(pending, Begun, k, pending[k].of, pending[k].part - 1)
    /\ part # 0 /\ of \notin broken => Trail(pending, Begun, Len(pending) + 1, of, part)

\* The chunks of one message from the first on.
Consecutive(m) == \A k \in 1 .. Len(m) : IsChunk(m[k], m[1].of, k)

BegunInv ==
    /\ continueSysex => message # <<>>
    /\ Origins(Begun) \cap broken = {} => Consecutive(Begun)

ReadyInv == tpc = "deliver" /\ Origins(message) \cap broken = {} => Whole(message)

WholeInv == NoneMissing /\ BegunInv /\ ReadyInv /\ WholeMessages


LEMMA TrailPrefix ==
    ASSUME NEW s, NEW t, NEW m, NEW k \in Nat, NEW o, NEW p,
           \A i \in 1 .. k - 1 : t[i] = s[i], Trail(s, m, k, o, p)
    PROVE  Trail(t, m, k, o, p)
  <1>1. CASE (\A i \in 1 .. k - 1 : s[i].of # o) /\ EndsWith(m, o, p)
    BY <1>1 DEF Trail
  <1>2. ASSUME NEW j \in 1 .. k - 1, IsChunk(s[j], o, p), \A i \in j + 1 .. k - 1 : s[i].of # o
        PROVE  Trail(t, m, k, o, p)
    <2>1. IsChunk(t[j], o, p) /\ \A i \in j + 1 .. k - 1 : t[i].of # o
      BY <1>2
    <2> QED
      BY <2>1 DEF Trail
  <1> QED
    BY <1>1, <1>2 DEF Trail

\* An event more is a chunk of the message, or of another one.
LEMMA TrailAppended ==
    ASSUME NEW s \in Seq(Events), NEW e \in Events, NEW m, NEW o, NEW p,
           \/ IsChunk(e, o, p)
           \/ e.of # o /\ Trail(s, m, Len(s) + 1, o, p)
    PROVE  Trail(Append(s, e), m, Len(s) + 2, o, p)
  <1> DEFINE t == Append(s, e)
             n == Len(s)
  <1>1. n \in Nat /\ t[n + 1] = e /\ \A i \in 1 .. n : t[i] = s[i]
    BY Appended
  <1> HIDE DEF t
  <1>2. CASE IsChunk(e, o, p)
    <2> HIDE DEF n
    <2> DEFINE a == n + 1
               b == n + 2
    <2>1. a \in 1 .. b - 1 /\ \A i \in a + 1 .. b - 1 : FALSE
      BY <1>1
    <2>2. IsChunk(t[a], o, p)
      BY <1>1, <1>2
    <2>3. Trail(t, m, b, o, p)
      <3> HIDE DEF a, b
      <3> QED
        BY <2>1, <2>2 DEF Trail
    <2> QED
      BY <2>3 DEF t, n
  <1>3. CASE e.of # o /\ Trail(s, m, n + 1, o, p)
    <2> HIDE DEF n
    <2>1. ASSUME \A i \in 1 .. (n + 1) - 1 : s[i].of # o, EndsWith(m, o, p)
          PROVE  Trail(t, m, n + 2, o, p)
      <3>1. ASSUME NEW i \in 1 .. (n + 2) - 1 PROVE t[i].of # o
        <4>1. i \in 1 .. n \/ i = n + 1
          BY <1>1
        <4>2. i \in 1 .. n => i \in 1 .. (n + 1) - 1
          BY <1>1
        <4> QED
          BY <1>1, <1>3, <2>1, <4>1, <4>2
      <3> QED
        BY <2>1, <3>1 DEF Trail
    <2>2. ASSUME NEW j \in 1 .. (n + 1) - 1, IsChunk(s[j], o, p),
                 \A i \in j + 1 .. (n + 1) - 1 : s[i].of # o
          PROVE  Trail(t, m, n + 2, o, p)
      <3>1. j \in 1 .. n /\ j \in 1 .. (n + 2) - 1
        BY <1>1
      <3>2. IsChunk(t[j], o, p)
        BY <1>1, <2>2, <3>1
      <3>3. ASSUME NEW i \in j + 1 .. (n + 2) - 1 PROVE t[i].of # o
        <4>1. i = n + 1 \/ (i \in 1 .. n /\ i \in j + 1 .. (n + 1) - 1)
          BY <1>1, <3>1
        <4> QED
          BY <1>1, <1>3, <2>2, <4>1
      <3> QED
        BY <3>1, <3>2, <3>3 DEF Trail
    <2>3. \/ \E j \in 1 .. (n + 1) - 1 :
                IsChunk(s[j], o, p) /\ \A i \in j + 1 .. (n + 1) - 1 : s[i].of # o
          \/ (\A i \in 1 .. (n + 1) - 1 : s[i].of # o) /\ EndsWith(m, o, p)
      BY <1>3, Zenon DEF Trail
    <2>4. Trail(t, m, n + 2, o, p)
      BY <2>1, <2>2, <2>3
    <2> QED
      BY <2>4 DEF t, n
  <1> QED
    BY <1>2, <1>3

\* The first event is taken: if it is the chunk, the message that is begun ends with it.
LEMMA TrailTaken ==
    ASSUME NEW s \in Seq(Events), s # <<>>, NEW m, NEW n, NEW k \in 1 .. Len(s), NEW o, NEW p,
           Trail(s, m, k + 1, o, p),
           IsChunk(Head(s), o, p) => EndsWith(n, o, p),
           Head(s).of # o /\ EndsWith(m, o, p) => EndsWith(n, o, p)
    PROVE  Trail(Tail(s), n, k, o, p)
  <1> DEFINE t == Tail(s)
             z == Len(s)
             e == Head(s)
  <1>1. /\ z \in Nat /\ e = s[1] /\ k \in 1 .. z
        /\ \A i \in 1 .. z - 1 : t[i] = s[i + 1]
    BY Consumed
  <1>2. /\ IsChunk(e, o, p) => EndsWith(n, o, p)
        /\ e.of # o /\ EndsWith(m, o, p) => EndsWith(n, o, p)
        /\ Trail(s, m, k + 1, o, p)
    OBVIOUS
  <1> HIDE DEF t, z, e
  <1>3. \A i \in 1 .. k - 1 : t[i] = s[i + 1] /\ i + 1 \in 1 .. (k + 1) - 1
    BY <1>1
  <1>4. 1 \in 1 .. (k + 1) - 1
    BY <1>1
  <1>5. CASE (\A i \in 1 .. (k + 1) - 1 : s[i].of # o) /\ EndsWith(m, o, p)
    <2>1. EndsWith(n, o, p)
      BY <1>1, <1>2, <1>4, <1>5
    <2>2. \A i \in 1 .. k - 1 : t[i].of # o
      BY <1>3, <1>5
    <2> QED
      BY <2>1, <2>2 DEF Trail, t
  <1>6. ASSUME NEW j \in 1 .. (k + 1) - 1, IsChunk(s[j], o, p),
               \A i \in j + 1 .. (k + 1) - 1 : s[i].of # o
        PROVE  Trail(t, n, k, o, p)
    <2>1. \A i \in 1 .. k - 1 : j <= i => t[i].of # o
      <3>1. \A i \in 1 .. k - 1 : j <= i => i + 1 \in j + 1 .. (k + 1) - 1
        BY <1>1
      <3> QED
        BY <1>3, <1>6, <3>1
    <2>2. CASE j = 1
      <3>1. EndsWith(n, o, p)
        BY <1>1, <1>2, <1>6, <2>2
      <3>2. \A i \in 1 .. k - 1 : t[i].of # o
        BY <2>1, <2>2
      <3> QED
        BY <3>1, <3>2 DEF Trail
    <2>3. CASE j # 1
      <3> DEFINE i == j - 1
      <3>1. i \in 1 .. k - 1 /\ i + 1 = j /\ \A l \in i + 1 .. k - 1 : l \in 1 .. k - 1 /\ j <= l
        BY <1>1, <2>3
      <3> HIDE DEF i
      <3>2. IsChunk(t[i], o, p)
        BY <1>3, <1>6, <3>1
      <3> QED
        BY <2>1, <3>1, <3>2 DEF Trail
    <2> QED
      BY <2>2, <2>3
  <1> QED
    BY <1>2, <1>5, <1>6 DEF Trail, t

\* The begun message is another one.
LEMMA TrailOther ==
    ASSUME NEW s, NEW m, NEW n, NEW k, NEW o, NEW p, Trail(s, m, k, o, p),
           EndsWith(m, o, p) => EndsWith(n, o, p)
    PROVE  Trail(s, n, k, o, p)
  BY DEF Trail

LEMMA OriginOf ==
    ASSUME NEW s \in Seq(Events)
    PROVE  /\ \A k \in 1 .. Len(s) : s[k].of \in Origins(s)
           /\ \A o, p : EndsWith(s, o, p) => o \in Origins(s)
  <1>1. \A k \in 1 .. Len(s) : s[k].of \in Origins(s)
    BY DEF Origins
  <1>2. ASSUME NEW o, NEW p, EndsWith(s, o, p) PROVE o \in Origins(s)
    <2>1. Len(s) \in 1 .. Len(s) /\ s[Len(s)].of = o
      BY <1>2 DEF EndsWith, IsChunk
    <2> QED
      BY <1>1, <2>1
  <1> QED
    BY <1>1, <1>2

\* What was handed over stays whole when no more is unbroken than before.
LEMMA DeliveredStays ==
    ASSUME WholeMessages, delivered' = delivered, broken \subseteq broken'
    PROVE  WholeMessages'
  BY DEF WholeMessages, Origins, Whole

-----------------------------------------------------------------------------
LEMMA WholeInit == AlsaInit => WholeInv
  <1> SUFFICES ASSUME AlsaInit PROVE WholeInv
    OBVIOUS
  <1>1. /\ part = 0 /\ pending = <<>> /\ message = <<>> /\ delivered = <<>>
        /\ tpc = "none" /\ ~continueSysex /\ Begun = <<>>
    BY DEF AlsaInit, NoMessage, Begun
  <1> QED
    BY <1>1 DEF WholeInv, NoneMissing, BegunInv, Consecutive, ReadyInv, WholeMessages

LEMMA WholeKept ==
    ASSUME WholeInv, UNCHANGED <<source, pending, continueSysex, message, delivered, broken>>,
           tpc' = "deliver" <=> tpc = "deliver"
    PROVE  WholeInv'
  <1>1. Begun' = Begun
    BY DEF Begun
  <1>2. NoneMissing'
    BY <1>1 DEF WholeInv, NoneMissing, source
  <1>3. BegunInv' /\ ReadyInv' /\ WholeMessages'
    BY <1>1 DEF WholeInv, BegunInv, ReadyInv, WholeMessages, Origins, Whole, Consecutive
  <1> QED
    BY <1>2, <1>3 DEF WholeInv

LEMMA WholeSent ==
    ASSUME ArrivalInv, WholeInv, NEW e, Send(e), IsNext(e), SourceType', Numbered(e)'
    PROVE  WholeInv'
  <1>1. /\ sent' = sent + 1 /\ sent \in Nat /\ of \in Nat /\ of <= sent /\ part \in Nat
        /\ UNCHANGED <<continueSysex, message, tpc, delivered>>
    BY DEF Send, handler, ArrivalInv, SourceType
  <1>2. Begun' = Begun
    BY <1>1 DEF Begun
  <1>3. pending \in Seq(Events) /\ e \in Events /\ Len(pending) \in Nat
    BY DEF ArrivalInv, AllNumbered, Numbered
  <1>4. \/ pending' = pending /\ broken' = broken \cup {e.of}
        \/ pending' = Append(pending, e) /\ broken' = broken
    BY DEF Send, Lost, alsa
  <1>5. BegunInv' /\ ReadyInv' /\ WholeMessages'
    <2>1. broken \subseteq broken'
      BY <1>4
    <2> QED
      BY <1>1, <1>2, <2>1, DeliveredStays DEF WholeInv, BegunInv, ReadyInv
  <1>6. \/ e.kind # "sysex" /\ e.of = sent + 1 /\ e.part = 1 /\ UNCHANGED <<of, part>>
        \/ /\ IsChunk(e, of', part + 1) /\ (part # 0 => of' = of)
           /\ part' = IF part + 1 = Chunks THEN 0 ELSE part + 1
    BY DEF IsNext, IsChunk
  <1>7. NoneMissing'
    <2>1. ASSUME NEW k \in 1 .. Len(pending'), pending'[k].part > 1, pending'[k].of \notin broken'
          PROVE  Trail(pending', Begun, k, pending'[k].of, pending'[k].part - 1)
      <3>1. CASE k \in 1 .. Len(pending)
        <4>1. pending'[k] = pending[k] /\ \A i \in 1 .. k - 1 : pending'[i] = pending[i]
          BY <1>3, <1>4, <3>1, Appended
        <4>2. Trail(pending, Begun, k, pending[k].of, pending[k].part - 1)
          BY <1>4, <2>1, <3>1, <4>1 DEF WholeInv, NoneMissing
        <4> QED
          BY <3>1, <4>1, <4>2, TrailPrefix
      <3>2. CASE k \notin 1 .. Len(pending)
        <4>1. /\ pending' = Append(pending, e) /\ broken' = broken
              /\ k = Len(pending) + 1 /\ pending'[k] = e
              /\ \A i \in 1 .. k - 1 : pending'[i] = pending[i]
          BY <1>3, <1>4, <2>1, <3>2, Appended
        <4>2. e.part = part + 1 /\ part # 0 /\ e.of = of
          BY <1>1, <1>6, <2>1, <4>1 DEF IsChunk
        <4>3. Trail(pending, Begun, k, of, part)
          BY <2>1, <4>1, <4>2 DEF WholeInv, NoneMissing
        <4>4. e.part - 1 = part /\ k \in Nat
          BY <1>1, <1>3, <4>1, <4>2
        <4> QED
          BY <4>1, <4>2, <4>3, <4>4, TrailPrefix
      <3> QED
        BY <3>1, <3>2
    <2>2. ASSUME part' # 0, of' \notin broken'
          PROVE  Trail(pending', Begun, Len(pending') + 1, of', part')
      <3>1. CASE pending' = pending /\ broken' = broken \cup {e.of}
        BY <1>6, <2>2, <3>1 DEF IsChunk, WholeInv, NoneMissing
      <3>2. CASE pending' = Append(pending, e) /\ broken' = broken
        <4>1. Len(pending') + 1 = Len(pending) + 2
          BY <1>3, <3>2
        <4>2. \/ IsChunk(e, of', part')
              \/ e.of # of' /\ Trail(pending, Begun, Len(pending) + 1, of', part')
          <5>1. CASE e.kind # "sysex" /\ e.of = sent + 1 /\ UNCHANGED <<of, part>>
            <6>1. e.of # of
              BY <1>1, <5>1
            <6> QED
              BY <2>2, <3>2, <5>1, <6>1 DEF WholeInv, NoneMissing
          <5>2. CASE IsChunk(e, of', part + 1) /\ part' = IF part + 1 = Chunks THEN 0 ELSE part + 1
            BY <2>2, <5>2
          <5> QED
            BY <1>6, <5>1, <5>2
        <4>3. Trail(Append(pending, e), Begun, Len(pending) + 2, of', part')
          BY <1>3, <4>2, TrailAppended
        <4> QED
          BY <3>2, <4>1, <4>3
      <3> QED
        BY <1>4, <3>1, <3>2
    <2> QED
      BY <1>2, <2>1, <2>2 DEF NoneMissing
  <1> QED
    BY <1>5, <1>7 DEF WholeInv

LEMMA WholeOverrun ==
    ASSUME ArrivalInv, WholeInv, Overrun
    PROVE  WholeInv'
  <1>1. /\ tpc' = "loop" /\ pending' = <<>>
        /\ broken' = broken \cup Origins(pending)
        /\ UNCHANGED <<sent, of, part, continueSysex, message, delivered>>
    BY DEF Overrun, source, Origins
  <1>2. Begun' = Begun
    BY <1>1 DEF Begun
  <1>3. BegunInv' /\ ReadyInv' /\ WholeMessages'
    <2>1. broken \subseteq broken'
      BY <1>1
    <2> QED
      BY <1>1, <1>2, <2>1, DeliveredStays DEF WholeInv, BegunInv, ReadyInv
  <1>4. ASSUME part # 0, of \notin broken'
        PROVE  Trail(<<>>, Begun, 1, of, part)
    <2>1. Trail(pending, Begun, Len(pending) + 1, of, part)
      BY <1>1, <1>4 DEF WholeInv, NoneMissing
    <2>2. pending \in Seq(Events) /\ Len(pending) \in Nat
      BY DEF ArrivalInv, AllNumbered
    <2>3. \A j \in 1 .. Len(pending) : pending[j].of # of
      BY <1>1, <1>4, <2>2, OriginOf
    <2>4. EndsWith(Begun, of, part)
      BY <2>1, <2>2, <2>3 DEF Trail, IsChunk
    <2> QED
      BY <2>4 DEF Trail
  <1>5. NoneMissing'
    BY <1>1, <1>2, <1>4 DEF NoneMissing
  <1> QED
    BY <1>3, <1>5 DEF WholeInv

LEMMA WholeExit ==
    ASSUME ArrivalInv, WholeInv, Exit
    PROVE  WholeInv'
  <1>1. /\ tpc' = "none" /\ ~continueSysex' /\ Begun' = <<>>
        /\ broken' = broken \cup Origins(Begun)
        /\ UNCHANGED <<sent, of, part, pending, delivered>>
    BY DEF Exit, source, alsa, Begun, NoMessage
  <1>2. Begun \in Seq(Events)
    BY DEF ArrivalInv, CarriedInv, AllNumbered, Begun, NoMessage
  <1>3. BegunInv' /\ ReadyInv' /\ WholeMessages'
    <2>1. Consecutive(<<>>)
      BY DEF Consecutive
    <2>2. WholeMessages'
      BY <1>1, DeliveredStays DEF WholeInv
    <2> QED
      BY <1>1, <2>1, <2>2 DEF BegunInv, ReadyInv
  <1>4. ASSUME NEW k, NEW o, NEW p, o \notin broken', Trail(pending, Begun, k, o, p)
        PROVE  Trail(pending, Begun', k, o, p)
    <2>1. ~EndsWith(Begun, o, p)
      BY <1>1, <1>2, <1>4, OriginOf
    <2> QED
      BY <1>4, <2>1 DEF Trail
  <1>5. NoneMissing'
    <2>1. ASSUME NEW k \in 1 .. Len(pending), pending[k].part > 1, pending[k].of \notin broken'
          PROVE  Trail(pending, Begun', k, pending[k].of, pending[k].part - 1)
      BY <1>1, <1>4, <2>1 DEF WholeInv, NoneMissing
    <2>2. ASSUME part # 0, of \notin broken'
          PROVE  Trail(pending, Begun', Len(pending) + 1, of, part)
      BY <1>1, <1>4, <2>2 DEF WholeInv, NoneMissing
    <2> QED
      BY <1>1, <2>1, <2>2 DEF NoneMissing
  <1> QED
    BY <1>3, <1>5 DEF WholeInv

LEMMA WholeDeliver ==
    ASSUME ArrivalInv, WholeInv, Deliver
    PROVE  WholeInv'
  <1>1. /\ tpc = "deliver" /\ tpc' # "deliver"
        /\ delivered' = Append(delivered, message)
        /\ UNCHANGED <<sent, of, part, pending, continueSysex, message, broken>>
    BY DEF Deliver, source, alsa
  <1>2. Begun' = Begun
    BY <1>1 DEF Begun
  <1>3. NoneMissing' /\ BegunInv' /\ ReadyInv'
    BY <1>1, <1>2 DEF WholeInv, NoneMissing, BegunInv, ReadyInv
  <1>4. delivered \in Seq(Seq(Events)) /\ message \in Seq(Events)
    BY DEF ArrivalInv, DeliveredInv, CarriedInv, AllNumbered
  <1>5. ASSUME NEW i \in DOMAIN delivered', Origins(delivered'[i]) \cap broken = {}
        PROVE  Whole(delivered'[i])
    <2>1. (i \in DOMAIN delivered /\ delivered'[i] = delivered[i]) \/ delivered'[i] = message
      BY <1>1, <1>4, Appended
    <2> QED
      BY <1>1, <1>5, <2>1 DEF WholeInv, WholeMessages, ReadyInv
  <1>6. WholeMessages'
    BY <1>1, <1>5 DEF WholeMessages, Origins, Whole
  <1> QED
    BY <1>3, <1>6 DEF WholeInv

\* An event that is joined to the message: what comes of it is broken, or an event by
\* itself, or the chunks of one message so far.
LEMMA BegunJoined ==
    ASSUME ArrivalInv, WholeInv, tpc = "input", pending # <<>>,
           Origins(Begun) \subseteq {Head(pending).of}, Head(pending).of \notin broken
    PROVE  \/ Head(pending).kind # "sysex" /\ Begun = <<>>
           \/ Consecutive(Append(Begun, Head(pending)))
  <1> DEFINE e == Head(pending)
             m == Append(Begun, e)
             n == Len(Begun)
  <1>1. pending \in Seq(Events) /\ Numbered(e) /\ e = pending[1] /\ 1 \in 1 .. Len(pending)
    <2>1. pending \in Seq(Events)
      BY DEF ArrivalInv, AllNumbered
    <2> QED
      BY <2>1, Consumed DEF ArrivalInv, AllNumbered
  <1>2. AllNumbered(Begun) /\ Begun \in Seq(Events) /\ Before(Begun, pending)
    BY DEF ArrivalInv, CarriedInv, Carried, Begun, AllNumbered, NoMessage
  <1>3. /\ e \in Events /\ n \in Nat
        /\ Len(m) = n + 1 /\ m[n + 1] = e
        /\ \A k \in 1 .. n : m[k] = Begun[k]
        /\ \A k \in 1 .. Len(m) : k \in 1 .. n \/ k = n + 1
    BY <1>1, <1>2, Appended DEF Numbered
  <1>4. Origins(Begun) \subseteq {e.of} /\ e.of \notin broken
    OBVIOUS
  <1> HIDE DEF e, m, n
  <1>5. CASE e.part = 1
    <2>1. ASSUME Begun # <<>> PROVE FALSE
      <3>1. 1 \in 1 .. Len(Begun) /\ Begun[1] \in Events /\ Numbered(Begun[1])
        BY <1>2, <2>1 DEF AllNumbered
      <3>2. Begun[1].of = e.of
        BY <1>2, <1>4, <3>1, OriginOf
      <3>3. Begun[1].id < e.id
        BY <1>1, <1>2, <3>1 DEF Before
      <3>4. e.id = e.of /\ e.id \in Nat /\ Begun[1].of <= Begun[1].id /\ Begun[1].id \in Nat
        BY <1>1, <1>5, <3>1 DEF Numbered, Events
      <3> QED
        BY <3>2, <3>3, <3>4
    <2>2. n = 0
      BY <1>2, <2>1 DEF n
    <2>3. CASE e.kind = "sysex"
      <3>1. Len(m) = 1 /\ m[1] = e
        BY <1>3, <2>2
      <3>2. Consecutive(m)
        BY <1>5, <2>3, <3>1 DEF Consecutive, IsChunk
      <3> QED
        BY <3>2 DEF m, e
    <2> QED
      BY <2>1, <2>3 DEF e
  <1>6. CASE e.part # 1
    <2>1. e.kind = "sysex" /\ e.part > 1 /\ e.part \in Nat
      BY <1>1, <1>6, AlsaAssumption DEF Numbered
    <2>2. Trail(pending, Begun, 1, e.of, e.part - 1)
      BY <1>1, <1>4, <2>1 DEF WholeInv, NoneMissing
    <2>3. EndsWith(Begun, e.of, e.part - 1)
      BY <2>2 DEF Trail
    <2>4. Consecutive(Begun)
      BY <1>4 DEF WholeInv, BegunInv
    <2>5. n \in 1 .. n /\ 1 \in 1 .. n /\ n = e.part - 1 /\ Begun[1].of = e.of
      <3>1. n \in 1 .. n /\ 1 \in 1 .. n
        BY <1>2, <2>3 DEF EndsWith, n
      <3> QED
        BY <2>3, <2>4, <3>1 DEF Consecutive, EndsWith, IsChunk, n
    <2>6. ASSUME NEW k \in 1 .. Len(m) PROVE IsChunk(m[k], m[1].of, k)
      <3>1. m[1].of = e.of
        BY <1>3, <2>5
      <3>2. CASE k \in 1 .. n
        <4>1. IsChunk(Begun[k], Begun[1].of, k)
          BY <2>4, <3>2 DEF Consecutive, n
        <4>2. m[k] = Begun[k]
          BY <1>3, <3>2
        <4> QED
          BY <2>5, <3>1, <4>1, <4>2
      <3>3. CASE k = n + 1
        <4>1. m[k] = e
          BY <1>3, <3>3
        <4>2. e.part = k
          BY <1>3, <2>1, <2>5, <3>3
        <4> QED
          BY <2>1, <3>1, <4>1, <4>2 DEF IsChunk
      <3> QED
        BY <1>3, <3>2, <3>3
    <2>7. Consecutive(m)
      BY <2>6 DEF Consecutive
    <2> QED
      BY <2>7 DEF m, e
  <1> QED
    BY <1>5, <1>6

\* The place of an event does not matter to what is missing, as long as it goes into the
\* begun message, or its message or the begun one is broken.
LEMMA NoneMissingTaken ==
    ASSUME ArrivalInv, WholeInv, pending # <<>>, pending' = Tail(pending), UNCHANGED source,
           broken \subseteq broken',
           \A o \in Nat \ broken', p \in 1 .. Chunks - 1 :
               /\ IsChunk(Head(pending), o, p) => EndsWith(Begun', o, p)
               /\ Head(pending).of # o /\ EndsWith(Begun, o, p) => EndsWith(Begun', o, p)
    PROVE  NoneMissing'
  <1>1. pending \in Seq(Events) /\ \A k \in 1 .. Len(pending) : Numbered(pending[k])
    BY DEF ArrivalInv, AllNumbered
  <1>2. /\ Len(pending) \in Nat /\ Len(pending') = Len(pending) - 1
        /\ \A k \in 1 .. Len(pending') :
             pending'[k] = pending[k + 1] /\ k + 1 \in 1 .. Len(pending) /\ k \in 1 .. Len(pending)
        /\ Len(pending) \in 1 .. Len(pending)
    <2>1. /\ Len(pending) \in Nat /\ Len(pending') = Len(pending) - 1 /\ 1 \in 1 .. Len(pending)
          /\ \A k \in 1 .. Len(pending') : pending'[k] = pending[k + 1] /\ k + 1 \in 1 .. Len(pending)
      BY <1>1, Consumed
    <2> QED
      BY <2>1
  <1>3. ASSUME NEW k \in 1 .. Len(pending), NEW o \in Nat \ broken', NEW p \in 1 .. Chunks - 1,
               Trail(pending, Begun, k + 1, o, p)
        PROVE  Trail(pending', Begun', k, o, p)
    BY <1>1, <1>3, TrailTaken
  <1>4. ASSUME NEW k \in 1 .. Len(pending'), pending'[k].part > 1, pending'[k].of \notin broken'
        PROVE  Trail(pending', Begun', k, pending'[k].of, pending'[k].part - 1)
    <2>1. Trail(pending, Begun, k + 1, pending[k + 1].of, pending[k + 1].part - 1)
      BY <1>2, <1>4 DEF WholeInv, NoneMissing
    <2>2. Numbered(pending[k + 1])
      BY <1>1, <1>2
    <2>3. pending[k + 1].of \in Nat /\ pending[k + 1].part - 1 \in 1 .. Chunks - 1
      BY <1>2, <1>4, <2>2, AlsaAssumption DEF Numbered, Events
    <2> QED
      BY <1>2, <1>3, <1>4, <2>1, <2>3
  <1>5. ASSUME part # 0, of \notin broken'
        PROVE  Trail(pending', Begun', Len(pending') + 1, of, part)
    <2>1. Trail(pending, Begun, Len(pending) + 1, of, part)
      BY <1>5 DEF WholeInv, NoneMissing
    <2>2. of \in Nat /\ part \in 1 .. Chunks - 1
      BY <1>5, AlsaAssumption DEF ArrivalInv, SourceType
    <2>3. Len(pending') + 1 = Len(pending)
      BY <1>2
    <2> QED
      BY <1>2, <1>3, <1>5, <2>1, <2>2, <2>3
  <1> QED
    BY <1>4, <1>5 DEF NoneMissing, source

LEMMA WholeTaken ==
    ASSUME ArrivalInv, WholeInv, Decode \/ Ignore \/ ResizeFails
    PROVE  WholeInv'
  <1> DEFINE e == Head(pending)
  <1>1. /\ tpc = "input" /\ pending # <<>> /\ pending' = Tail(pending)
        /\ UNCHANGED source /\ delivered' = delivered
    BY TakingSteps
  <1>2. Begun \in Seq(Events) /\ pending \in Seq(Events)
    BY DEF ArrivalInv, CarriedInv, AllNumbered, Begun, NoMessage
  <1>3. e \in Events /\ (e.kind # "sysex" => e.part = 1)
    <2>1. Numbered(e)
      BY <1>1, <1>2, Consumed DEF ArrivalInv, AllNumbered
    <2> QED
      BY <2>1 DEF Numbered
  <1>4. ASSUME message' = Begun, UNCHANGED continueSysex, tpc' = "loop", broken' = broken \cup {e.of}
        PROVE  WholeInv'
    <2>1. Begun' = Begun
      BY <1>4 DEF Begun, NoMessage
    <2>2. NoneMissing'
      <3>1. \A o \in Nat \ broken', p \in 1 .. Chunks - 1 :
               /\ IsChunk(e, o, p) => EndsWith(Begun', o, p)
               /\ e.of # o /\ EndsWith(Begun, o, p) => EndsWith(Begun', o, p)
        BY <1>4, <2>1 DEF IsChunk
      <3> QED
        BY <1>1, <1>4, <3>1, NoneMissingTaken
    <2>3. BegunInv'
      <3>1. continueSysex' => message' # <<>>
        BY <1>4 DEF Begun, WholeInv, BegunInv
      <3> QED
        BY <1>4, <2>1, <3>1 DEF WholeInv, BegunInv
    <2>4. ReadyInv' /\ WholeMessages'
      BY <1>1, <1>4, DeliveredStays DEF WholeInv, ReadyInv
    <2> QED
      BY <2>2, <2>3, <2>4 DEF WholeInv
  <1>5. ASSUME message' = Joined(e), continueSysex' = Unfinished(e),
               tpc' = IF continueSysex' THEN "loop" ELSE "deliver",
               broken' = IF Origins(Begun) \subseteq {e.of} THEN broken
                         ELSE broken \cup Origins(Begun) \cup {e.of}
        PROVE  WholeInv'
    <2> DEFINE m == Append(Begun, e)
    <2>1. /\ m = Begun \o <<e>> /\ m \in Seq(Events) /\ m # <<>>
          /\ Len(m) = Len(Begun) + 1 /\ m[Len(m)] = e /\ Len(Begun) \in Nat
          /\ \A k \in 1 .. Len(Begun) : m[k] = Begun[k] /\ k \in 1 .. Len(m)
          /\ Len(m) \in 1 .. Len(m)
      BY <1>2, <1>3
    <2> HIDE DEF m
    <2>2. /\ message' = m /\ Begun' = IF Unfinished(e) THEN m ELSE <<>>
          /\ tpc' = "deliver" <=> ~Unfinished(e)
      BY <1>5, <2>1 DEF Joined, Begun, NoMessage
    <2>3. e.of \in Origins(m)
      BY <2>1, OriginOf
    <2>4. e.of \notin broken' => Origins(Begun) \subseteq {e.of} /\ broken' = broken
      BY <1>5
    <2>5. NoneMissing'
      <3>1. ASSUME NEW o \in Nat \ broken', NEW p \in 1 .. Chunks - 1
            PROVE  /\ IsChunk(e, o, p) => EndsWith(Begun', o, p)
                   /\ e.of # o /\ EndsWith(Begun, o, p) => EndsWith(Begun', o, p)
        <4>1. ASSUME IsChunk(e, o, p) PROVE EndsWith(Begun', o, p)
          <5>1. Unfinished(e)
            BY <4>1, AlsaAssumption DEF IsChunk, Unfinished
          <5> QED
            BY <2>1, <2>2, <4>1, <5>1 DEF EndsWith
        <4>2. ASSUME e.of # o, EndsWith(Begun, o, p) PROVE FALSE
          <5>1. o \in Origins(Begun)
            BY <1>2, <4>2, OriginOf
          <5>2. o \in broken'
            BY <1>5, <4>2, <5>1
          <5> QED
            BY <5>2
        <4> QED
          BY <4>1, <4>2
      <3>2. broken \subseteq broken'
        BY <1>5
      <3> QED
        BY <1>1, <3>1, <3>2, NoneMissingTaken
    <2>6. ASSUME Origins(m) \cap broken' = {}
          PROVE  (e.kind # "sysex" /\ Begun = <<>>) \/ Consecutive(m)
      <3>1. e.of \notin broken' /\ Origins(Begun) \subseteq {e.of} /\ e.of \notin broken
        BY <2>3, <2>4, <2>6
      <3> QED
        BY <1>1, <3>1, BegunJoined DEF m
    <2>7. BegunInv'
      <3>1. CASE Unfinished(e)
        <4>1. e.kind = "sysex"
          BY <3>1 DEF Unfinished
        <4> QED
          BY <2>1, <2>2, <2>6, <3>1, <4>1 DEF BegunInv
      <3>2. CASE ~Unfinished(e)
        BY <1>5, <2>2, <3>2 DEF BegunInv, Consecutive
      <3> QED
        BY <3>1, <3>2
    <2>8. ASSUME ~Unfinished(e), Origins(m) \cap broken' = {} PROVE Whole(m)
      <3>1. DOMAIN m = 1 .. Len(m)
        BY <2>1
      <3>2. CASE e.kind # "sysex" /\ Begun = <<>>
        <4>1. Len(m) = 1 /\ m[1] = e
          BY <2>1, <3>2
        <4> QED
          BY <3>2, <4>1 DEF Whole
      <3>3. CASE Consecutive(m)
        <4>1. IsChunk(e, m[1].of, Len(m))
          BY <2>1, <3>3 DEF Consecutive
        <4>2. Len(m) = Chunks
          BY <2>8, <4>1 DEF IsChunk, Unfinished
        <4> QED
          BY <3>1, <3>3, <4>2 DEF Whole, Consecutive, IsChunk
      <3> QED
        BY <2>6, <2>8, <3>2, <3>3
    <2>9. ReadyInv'
      BY <2>2, <2>8 DEF ReadyInv
    <2>10. WholeMessages'
      <3>1. broken \subseteq broken'
        BY <1>5
      <3> QED
        BY <1>1, <3>1, DeliveredStays DEF WholeInv
    <2> QED
      BY <2>5, <2>7, <2>9, <2>10 DEF WholeInv
  <1> QED
    BY <1>4, <1>5, TakingSteps

LEMMA WholeStep ==
    ASSUME ArrivalInv, WholeInv, [AlsaNext]_alsaVars
    PROVE  WholeInv'
  <1>1. CASE SendRealtime \/ SendNote \/ SendChunk
    <2>1. PICK e : Send(e) /\ IsNext(e) /\ SourceType' /\ Numbered(e)'
      BY <1>1, SourceSends DEF ArrivalInv
    <2> QED
      BY <2>1, WholeSent
  <1>2. CASE Overrun \/ Deliver \/ Exit
    BY <1>2, WholeOverrun, WholeDeliver, WholeExit
  <1>3. CASE Decode \/ Ignore \/ ResizeFails
    BY <1>3, WholeTaken
  <1>4. CASE /\ UNCHANGED <<source, pending, continueSysex, message, delivered, broken>>
             /\ tpc' = "deliver" <=> tpc = "deliver"
    BY <1>4, WholeKept
  <1>5. CASE UNCHANGED alsaVars
    BY <1>4, <1>5 DEF alsaVars, handler, history, alsa
  <1> QED
    BY <1>1, <1>2, <1>3, <1>4, <1>5, OtherSteps

\* A message that is handed over is one MIDI message, all of it, unless a part of it was
\* lost or ignored or another event was joined to it: for every number of chunks and of
\* events, whatever the sequencer holds and whenever ports are closed and opened.
THEOREM AlsaWholeMessages == AlsaSpec => []WholeMessages
  <1>1. ArrivalInv /\ WholeInv /\ [AlsaNext]_alsaVars => WholeInv'
    BY WholeStep
  <1>2. WholeInv => WholeMessages
    BY DEF WholeInv
  <1> QED
    BY <1>1, <1>2, WholeInit, ArrivalInvariance, PTL DEF AlsaSpec
=============================================================================
