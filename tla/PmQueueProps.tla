---------------------------- MODULE PmQueueProps -----------------------------
(***************************************************************************)
(* What makes the queue of module PmQueue correct.                         *)
(***************************************************************************)
EXTENDS PmQueue

(***************************************************************************)
(* Types.                                                                  *)
(***************************************************************************)
SharedType ==
    /\ buffer \in [Slot -> [Word -> 0 .. MaxMsgs]]
    /\ overflow \in 0 .. Slots

WriterType ==
    /\ tail \in Slot
    /\ wpc \in {"idle", "scan"}
    /\ wcall \in {"Enqueue", "QueueFull"}
    /\ wi \in Word
    /\ wret \in {"none", "Enqueue", "QueueFull", "SetOverflow"}
                \X {"none", "NoError", "BufferOverflow", "TRUE", "FALSE"}
    /\ offered \in 0 .. MaxMsgs
    /\ marked \in BOOLEAN

ReaderType ==
    /\ head \in Slot
    /\ peek_flag \in BOOLEAN
    /\ peek \in 0 .. MaxMsgs
    /\ peek_overflow \in BOOLEAN
    /\ rpc \in {"idle", "overflow", "head", "scan", "take"}
    /\ rcall \in {"Dequeue", "Peek"}
    /\ ri \in Word
    /\ rret \in {"none", "NoData", "GotData", "BufferOverflow",
                 "Null", "Peeked", "Empty", "NotEmpty"}
    /\ lastGot \in 0 .. MaxMsgs
    /\ lossSeen \in BOOLEAN

StoresType ==
    /\ wpend \in [Slot -> [Word -> 0 .. MaxMsgs]]
    /\ wover \in 0 .. Slots
    /\ rpend \subseteq Slot \X Word
    /\ rover \in BOOLEAN

\* Every field of PmQueueRep and every local of the calls stays in its range;
\* in particular head and tail stay slots of the buffer.
TypeOK == SharedType /\ WriterType /\ ReaderType /\ StoresType

(***************************************************************************)
(* Safety.                                                                 *)
(***************************************************************************)
\* A message is copied out whole: when Pm_Dequeue reaches its memcpy, all the
\* words of the slot are those of one message, whatever order they arrived in.
NoTornMessage ==
    rpc = "take" =>
        \E m \in Msg : \A w \in Word : ReaderSees(head, w) = m

\* The two threads never have a store under way to the same word, and the
\* writer never writes over a word that is still in use.
NoOverwrite ==
    \A s \in Slot, w \in Word :
        wpend[s][w] # 0 => buffer[s][w] = 0 /\ <<s, w>> \notin rpend

\* Messages come out in the order they went in, and where one is missing an
\* overflow was reported between its neighbours.  That none comes out twice is
\* ImplementsQueue's.
LossReported ==
    [][lastGot' # lastGot =>
          \/ lastGot' = lastGot + 1
          \/ lastGot' > lastGot /\ lossSeen]_vars

(***************************************************************************)
(* The queue implements the abstract queue of module PmQueueSpec: what the *)
(* reader has still to receive is an overflow held back by a peek, the     *)
(* peeked message, the messages in the ring and an overflow set and not    *)
(* yet acknowledged, in this order.                                        *)
(***************************************************************************)
Loss == 0

Occupied(s) == wpend[s][0] # 0 \/ (buffer[s][0] # 0 /\ <<s, 0>> \notin rpend)

\* The messages in the ring: head and tail meet when it is empty or full.
Count ==
    IF tail > head THEN tail - head
    ELSE IF tail < head THEN Slots - head + tail
    ELSE IF Occupied(head) THEN Slots ELSE 0

SlotAt(i) == IF head + i < Slots THEN head + i ELSE head + i - Slots

OverflowSet == WriterOverflow # 0 /\ ~rover

Pending ==
    LET One(present, item) == IF present THEN <<item>> ELSE << >>
    IN  One(peek_overflow, Loss) \o One(peek_flag, peek)
          \o [i \in 1 .. Count |-> WriterSees(SlotAt(i - 1), 0)]
          \o One(OverflowSet, Loss)

\* An Enqueue that is still scanning has not offered its message yet.
Offered == IF wpc = "scan" /\ wcall = "Enqueue" THEN offered - 1 ELSE offered

Abstract == INSTANCE PmQueueSpec WITH items <- Pending, next <- Offered

\* Pm_Enqueue, Pm_Dequeue and Pm_QueuePeek together, at every interleaving of
\* their loads and stores, behave as the lossy queue that pmutil.h describes:
\* the reader meets an overflow exactly where messages were lost.
ImplementsQueue == Abstract!Spec

(***************************************************************************)
(* Liveness.  The hardware completes every store, a call that has started  *)
(* runs to its end, and the application keeps calling Pm_Dequeue.          *)
(***************************************************************************)
StoresComplete ==
    /\ \A s \in Slot, w \in Word :
         WF_vars(CommitWord(s, w)) /\ WF_vars(CommitClear(s, w))
    /\ WF_vars(CommitOverflow)
    /\ WF_vars(CommitAcknowledge)

CallsEnd == WF_vars(WriterStep) /\ WF_vars(ReaderStep)

FairSpec == Spec /\ StoresComplete /\ CallsEnd /\ SF_vars(DequeueCall)

EnqueueReturned(m, result) ==
    wpc = "idle" /\ wret = <<"Enqueue", result>> /\ offered = m

\* A message for which Pm_Enqueue returned pmNoError reaches the reader.
AcceptedDelivered ==
    \A m \in Msg : EnqueueReturned(m, "NoError") ~> lastGot >= m

\* A message for which Pm_Enqueue returned pmBufferOverflow is reported to the
\* reader, before any later message: "the reader will be notified when data
\* is lost due to overflow" (pmutil.h:57-58).
LossEventuallyReported ==
    \A m \in Msg : EnqueueReturned(m, "BufferOverflow") ~> lossSeen \/ lastGot > m

(***************************************************************************)
(* Why the safety properties hold: the inductive invariant.                *)
(***************************************************************************)
Scanning(call) == wpc = "scan" /\ wcall = call

\* How far slot s is behind the head, going round.
Dist(s) == IF s >= head THEN s - head ELSE s - head + Slots

\* The number of messages in a ring that is not empty.
Length == IF tail = head THEN Slots ELSE Dist(tail)

\* An occupied slot holds one message, each word of it in memory or under way;
\* the words of a free slot are zero or about to be.
WordInv(s, w) ==
    /\ Occupied(s) =>
         /\ <<s, w>> \notin rpend
         /\ \/ wpend[s][w] = WriterSees(s, 0) /\ buffer[s][w] = 0
            \/ wpend[s][w] = 0 /\ buffer[s][w] = WriterSees(s, 0)
    /\ ~Occupied(s) =>
         /\ wpend[s][w] = 0
         /\ buffer[s][w] # 0 <=> <<s, w>> \in rpend

SlotInv == \A s \in Slot, w \in Word : WordInv(s, w)

\* The occupied slots are those from the head up to the tail, and their
\* messages are numbered without a gap.
RingInv ==
    /\ head # tail => \A s \in Slot : Occupied(s) <=> Dist(s) < Dist(tail)
    /\ head = tail => \A s \in Slot : Occupied(s) <=> Occupied(head)
    /\ \A s \in Slot :
         Occupied(s) => WriterSees(s, 0) = WriterSees(head, 0) + Dist(s)

\* overflow is set at the tail, stops the writer, and is acknowledged when the
\* ring is empty and the reader has been told.
OverflowInv ==
    /\ wover # 0 => overflow = 0 /\ wover = tail + 1 /\ ~rover
    /\ overflow # 0 => /\ overflow = tail + 1
                       /\ \A w \in Word : wpend[tail][w] = 0
    /\ rover => overflow # 0
    /\ WriterOverflow # 0 => marked /\ ~Scanning("Enqueue")
    /\ marked /\ ~OverflowSet =>
         /\ ~Occupied(head)
         /\ ~peek_flag
         /\ lossSeen \/ peek_overflow

\* What the two threads know from the words they have looked at.
ProgressInv ==
    /\ wpc = "scan" => \A w \in Word : w < wi => WriterSees(tail, w) = 0
    /\ rpc = "scan" => \A w \in Word : w > ri => ReaderSees(head, w) # 0
    /\ rpc = "take" => \A w \in Word : ReaderSees(head, w) # 0
    /\ rpc = "head" => ReaderOverflow = head + 1 /\ ri = Words - 1
    /\ rpc # "idle" => ~peek_flag /\ (rcall = "Dequeue" => ~peek_overflow)

\* Nothing is missing between two messages unless an overflow stands there.
Follows(m, last, loss) == m = last + 1 \/ (m > last /\ loss)

OrderInv ==
    LET reported == lossSeen \/ peek_overflow
        taken == IF peek_flag THEN peek ELSE lastGot
    IN  /\ peek_flag => Follows(peek, lastGot, reported)
        /\ Occupied(head) =>
             /\ Follows(WriterSees(head, 0), taken, ~peek_flag /\ reported)
             /\ WriterSees(head, 0) + Length - 1 <= Offered
             /\ ~marked => WriterSees(head, 0) + Length - 1 = Offered
        /\ taken <= Offered
        /\ ~Occupied(head) /\ ~marked => taken = Offered

IInv ==
    /\ TypeOK
    /\ Scanning("Enqueue") => offered > 0
    /\ SlotInv
    /\ RingInv
    /\ OverflowInv
    /\ ProgressInv
    /\ OrderInv
=============================================================================
