---------------------------- MODULE PmQueueProofs ----------------------------
(***************************************************************************)
(* Proofs of the safety of the queue, and that it implements the lossy     *)
(* FIFO of PmQueueSpec, for every number of slots, words and messages.     *)
(***************************************************************************)
EXTENDS PmQueueProps, PmQueueCodec, SequenceTheorems, TLAPS

-----------------------------------------------------------------------------
(***************************************************************************)
(* Types.                                                                  *)
(***************************************************************************)
LEMMA TypeInit == Init => TypeOK
<1> SUFFICES ASSUME Init PROVE TypeOK
  OBVIOUS
<1>1. 0 \in Slot /\ 0 \in Word /\ 0 \in 0 .. MaxMsgs /\ 0 \in 0 .. Slots
  BY SlotsAssumption, WordsAssumption, MaxMsgsAssumption DEF Slot, Word
<1>2. SharedType /\ StoresType
  BY <1>1 DEF Init, SharedType, StoresType
<1>3. WriterType
  BY <1>1 DEF Init, WriterType
<1>4. ReaderType
  BY <1>1 DEF Init, ReaderType
<1> QED
  BY <1>2, <1>3, <1>4 DEF TypeOK

\* A group of variables that does not change keeps its types.
LEMMA TypeFrame ==
    /\ SharedType /\ UNCHANGED shared => SharedType'
    /\ WriterType /\ UNCHANGED writer => WriterType'
    /\ ReaderType /\ UNCHANGED reader => ReaderType'
    /\ StoresType /\ UNCHANGED stores => StoresType'
<1>1. SharedType /\ UNCHANGED shared => SharedType'
  BY DEF SharedType, shared
<1>2. WriterType /\ UNCHANGED writer => WriterType'
  BY DEF WriterType, writer
<1>3. ReaderType /\ UNCHANGED reader => ReaderType'
  BY DEF ReaderType, reader, peeks, seen
<1>4. StoresType /\ UNCHANGED stores => StoresType'
  BY DEF StoresType, stores
<1> QED
  BY <1>1, <1>2, <1>3, <1>4

LEMMA NextSlotType == \A s \in Slot : NextSlot(s) \in Slot
  BY SlotsAssumption DEF Slot, NextSlot

LEMMA SeesType ==
    TypeOK => \A s \in Slot, w \in Word :
                  ReaderSees(s, w) \in 0 .. MaxMsgs /\ WriterSees(s, w) \in 0 .. MaxMsgs
  BY MaxMsgsAssumption DEF TypeOK, SharedType, StoresType, ReaderSees, WriterSees

LEMMA TypeStep == TypeOK /\ [Next]_vars => TypeOK'
<1> SUFFICES ASSUME TypeOK, [Next]_vars PROVE TypeOK'
  OBVIOUS
<1> USE SlotsAssumption, WordsAssumption, MaxMsgsAssumption
<1>0. SharedType /\ WriterType /\ ReaderType /\ StoresType
  BY DEF TypeOK
<1>1. CASE EnqueueRefused
  <2>1. UNCHANGED <<shared, reader, stores>>
    BY <1>1 DEF EnqueueRefused
  <2>2. WriterType'
    BY <1>0, <1>1 DEF WriterType, EnqueueRefused, WriterReturns
  <2> QED
    BY <1>0, <2>1, <2>2, TypeFrame DEF TypeOK
<1>2. CASE EnqueueStart
  <2>1. UNCHANGED <<shared, reader, stores>>
    BY <1>2 DEF EnqueueStart
  <2>2. WriterType'
    BY <1>0, <1>2 DEF WriterType, EnqueueStart, WriterScans, Slot, Word
  <2> QED
    BY <1>0, <2>1, <2>2, TypeFrame DEF TypeOK
<1>3. CASE QueueFullStart
  <2>1. UNCHANGED <<shared, reader, stores>>
    BY <1>3 DEF QueueFullStart
  <2>2. WriterType'
    BY <1>0, <1>3 DEF WriterType, QueueFullStart, WriterScans, Slot, Word
  <2> QED
    BY <1>0, <2>1, <2>2, TypeFrame DEF TypeOK
<1>4. CASE SetOverflow
  <2>1. UNCHANGED <<shared, reader>>
    BY <1>4 DEF SetOverflow
  <2>2. WriterType'
    BY <1>0, <1>4 DEF WriterType, SetOverflow, StoreOverflow, WriterReturns, stores
  <2>3. StoresType'
    BY <1>0, <1>4 DEF StoresType, SetOverflow, StoreOverflow, WriterReturns, WriterType, Slot, stores
  <2> QED
    BY <1>0, <2>1, <2>2, <2>3, TypeFrame DEF TypeOK
<1>5. CASE ScanFree
  <2>1. UNCHANGED <<shared, reader, stores>>
    BY <1>5 DEF ScanFree
  <2>2. WriterType'
    BY <1>0, <1>5 DEF WriterType, ScanFree, Word
  <2> QED
    BY <1>0, <2>1, <2>2, TypeFrame DEF TypeOK
<1>6. CASE QueueFullTrue
  <2>1. UNCHANGED <<shared, reader, stores>>
    BY <1>6 DEF QueueFullTrue
  <2>2. WriterType'
    BY <1>0, <1>6 DEF WriterType, QueueFullTrue, WriterReturns
  <2> QED
    BY <1>0, <2>1, <2>2, TypeFrame DEF TypeOK
<1>7. CASE QueueFullFalse
  <2>1. UNCHANGED <<shared, reader, stores>>
    BY <1>7 DEF QueueFullFalse
  <2>2. WriterType'
    BY <1>0, <1>7 DEF WriterType, QueueFullFalse, WriterReturns
  <2> QED
    BY <1>0, <2>1, <2>2, TypeFrame DEF TypeOK
<1>8. CASE EnqueueOverflows
  <2>1. UNCHANGED <<shared, reader>>
    BY <1>8 DEF EnqueueOverflows
  <2>2. WriterType'
    BY <1>0, <1>8 DEF WriterType, EnqueueOverflows, StoreOverflow, WriterReturns
  <2>3. StoresType'
    BY <1>0, <1>8 DEF StoresType, EnqueueOverflows, StoreOverflow, WriterReturns, WriterType, Slot, stores
  <2> QED
    BY <1>0, <2>1, <2>2, <2>3, TypeFrame DEF TypeOK
<1>9. CASE EnqueueStores
  <2>1. UNCHANGED <<shared, reader>>
    BY <1>9 DEF EnqueueStores
  <2>2. WriterType'
    BY <1>0, <1>9, NextSlotType DEF WriterType, EnqueueStores, WriterReturns, ScanDone
  <2>3. StoresType'
    BY <1>0, <1>9 DEF StoresType, EnqueueStores, WriterReturns, NextSlot, WriterType
  <2> QED
    BY <1>0, <2>1, <2>2, <2>3, TypeFrame DEF TypeOK
<1>10. CASE DequeuePeekedOverflow
  <2>1. UNCHANGED <<shared, writer, stores>>
    BY <1>10 DEF DequeuePeekedOverflow
  <2>2. ReaderType'
    BY <1>0, <1>10 DEF ReaderType, DequeuePeekedOverflow, ReportOverflow, ReaderReturns, peeks, seen
  <2> QED
    BY <1>0, <2>1, <2>2, TypeFrame DEF TypeOK
<1>11. CASE DequeuePeeked
  <2>1. UNCHANGED <<shared, writer, stores>>
    BY <1>11 DEF DequeuePeeked
  <2>2. ReaderType'
    BY <1>0, <1>11 DEF ReaderType, DequeuePeeked, GiveMessage, ReaderReturns, peeks, seen
  <2> QED
    BY <1>0, <2>1, <2>2, TypeFrame DEF TypeOK
<1>12. CASE DequeueStart
  <2>1. UNCHANGED <<shared, writer, stores>>
    BY <1>12 DEF DequeueStart
  <2>2. ReaderType'
    BY <1>0, <1>12 DEF ReaderType, DequeueStart, ReaderGoesOn, peeks, seen
  <2> QED
    BY <1>0, <2>1, <2>2, TypeFrame DEF TypeOK
<1>13. CASE PeekAgain
  <2>1. UNCHANGED <<shared, writer, stores>>
    BY <1>13 DEF PeekAgain
  <2>2. ReaderType'
    BY <1>0, <1>13 DEF ReaderType, PeekAgain, ReaderReturns, peeks, seen
  <2> QED
    BY <1>0, <2>1, <2>2, TypeFrame DEF TypeOK
<1>14. CASE PeekStart
  <2>1. UNCHANGED <<shared, writer, stores>>
    BY <1>14 DEF PeekStart
  <2>2. ReaderType'
    BY <1>0, <1>14 DEF ReaderType, PeekStart, ReaderGoesOn, peeks, seen
  <2> QED
    BY <1>0, <2>1, <2>2, TypeFrame DEF TypeOK
<1>15. CASE QueueEmptyCall
  <2>1. UNCHANGED <<shared, writer, stores>>
    BY <1>15 DEF QueueEmptyCall
  <2>2. ReaderType'
    BY <1>0, <1>15 DEF ReaderType, QueueEmptyCall, ReaderReturns, peeks, seen
  <2> QED
    BY <1>0, <2>1, <2>2, TypeFrame DEF TypeOK
<1>16. CASE ReadOverflow
  <2>1. UNCHANGED <<shared, writer, stores>>
    BY <1>16 DEF ReadOverflow
  <2>2. ReaderType'
    BY <1>0, <1>16 DEF ReaderType, ReadOverflow, ReaderGoesOn, peeks, seen, Word
  <2> QED
    BY <1>0, <2>1, <2>2, TypeFrame DEF TypeOK
<1>17. CASE HeadOccupied
  <2>1. UNCHANGED <<shared, writer, stores>>
    BY <1>17 DEF HeadOccupied
  <2>2. ReaderType'
    BY <1>0, <1>17 DEF ReaderType, HeadOccupied, ReaderGoesOn, peeks, seen
  <2> QED
    BY <1>0, <2>1, <2>2, TypeFrame DEF TypeOK
<1>18. CASE AcknowledgeDequeue
  <2>1. UNCHANGED <<shared, writer>>
    BY <1>18 DEF AcknowledgeDequeue, HeadEmpty
  <2>2. ReaderType'
    BY <1>0, <1>18 DEF ReaderType, AcknowledgeDequeue, HeadEmpty, ReportOverflow, ReaderReturns, peeks, seen
  <2>3. StoresType'
    BY <1>0, <1>18 DEF StoresType, AcknowledgeDequeue, HeadEmpty, ReportOverflow, ReaderReturns
  <2> QED
    BY <1>0, <2>1, <2>2, <2>3, TypeFrame DEF TypeOK
<1>19. CASE AcknowledgePeek
  <2>1. UNCHANGED <<shared, writer>>
    BY <1>19 DEF AcknowledgePeek, HeadEmpty
  <2>2. ReaderType'
    BY <1>0, <1>19 DEF ReaderType, AcknowledgePeek, HeadEmpty, ReaderReturns, peeks, seen
  <2>3. StoresType'
    BY <1>0, <1>19 DEF StoresType, AcknowledgePeek, HeadEmpty, ReaderReturns
  <2> QED
    BY <1>0, <2>1, <2>2, <2>3, TypeFrame DEF TypeOK
<1>20. CASE ScanMissing
  <2>1. UNCHANGED <<shared, writer, stores>>
    BY <1>20 DEF ScanMissing
  <2>2. ReaderType'
    BY <1>0, <1>20 DEF ReaderType, ScanMissing, ReaderReturns, peeks, seen
  <2> QED
    BY <1>0, <2>1, <2>2, TypeFrame DEF TypeOK
<1>21. CASE ScanPresent
  <2>1. UNCHANGED <<shared, writer, stores>>
    BY <1>21 DEF ScanPresent
  <2>2. ReaderType'
    BY <1>0, <1>21 DEF ReaderType, ScanPresent, peeks, seen, Word
  <2> QED
    BY <1>0, <2>1, <2>2, TypeFrame DEF TypeOK
<1>22. CASE ScanComplete
  <2>1. UNCHANGED <<shared, writer, stores>>
    BY <1>22 DEF ScanComplete
  <2>2. ReaderType'
    BY <1>0, <1>22 DEF ReaderType, ScanComplete, ReaderGoesOn, peeks, seen
  <2> QED
    BY <1>0, <2>1, <2>2, TypeFrame DEF TypeOK
<1>23. CASE TakeMessage
  <2>1. UNCHANGED <<shared, writer>>
    BY <1>23 DEF TakeMessage, RemoveMessage
  <2>2. ReaderType'
    <3>1. Words - 1 \in Word
      BY DEF Word
    <3> QED
      BY <1>0, <1>23, <3>1, NextSlotType, SeesType
         DEF ReaderType, TakeMessage, GiveMessage, RemoveMessage,
             ReaderReturns, peeks, seen
  <2>3. StoresType'
    BY <1>0, <1>23 DEF StoresType, TakeMessage, RemoveMessage, GiveMessage, ReaderReturns, NextSlot, ReaderType
  <2> QED
    BY <1>0, <2>1, <2>2, <2>3, TypeFrame DEF TypeOK
<1>24. CASE TakePeek
  <2>1. UNCHANGED <<shared, writer>>
    BY <1>24 DEF TakePeek, RemoveMessage
  <2>2. ReaderType'
    <3>1. Words - 1 \in Word
      BY DEF Word
    <3> QED
      BY <1>0, <1>24, <3>1, NextSlotType, SeesType
         DEF ReaderType, TakePeek, RemoveMessage,
             ReaderReturns, peeks, seen
  <2>3. StoresType'
    BY <1>0, <1>24 DEF StoresType, TakePeek, RemoveMessage, ReaderReturns, NextSlot, ReaderType
  <2> QED
    BY <1>0, <2>1, <2>2, <2>3, TypeFrame DEF TypeOK
<1>25. ASSUME NEW s \in Slot, NEW w \in Word, CommitWord(s, w) PROVE TypeOK'
  <2>1. UNCHANGED <<writer, reader>>
    BY <1>25 DEF CommitWord
  <2>2. SharedType'
    BY <1>0, <1>25 DEF SharedType, CommitWord, StoresType
  <2>3. StoresType'
    BY <1>0, <1>25 DEF StoresType, CommitWord
  <2> QED
    BY <1>0, <2>1, <2>2, <2>3, TypeFrame DEF TypeOK
<1>26. ASSUME NEW s \in Slot, NEW w \in Word, CommitClear(s, w) PROVE TypeOK'
  <2>1. UNCHANGED <<writer, reader>>
    BY <1>26 DEF CommitClear
  <2>2. SharedType'
    BY <1>0, <1>26 DEF SharedType, CommitClear, StoresType
  <2>3. StoresType'
    BY <1>0, <1>26 DEF StoresType, CommitClear
  <2> QED
    BY <1>0, <2>1, <2>2, <2>3, TypeFrame DEF TypeOK
<1>27. CASE CommitOverflow
  <2>1. UNCHANGED <<writer, reader>>
    BY <1>27 DEF CommitOverflow
  <2>2. SharedType'
    BY <1>0, <1>27 DEF SharedType, CommitOverflow, StoresType
  <2>3. StoresType'
    BY <1>0, <1>27 DEF StoresType, CommitOverflow
  <2> QED
    BY <1>0, <2>1, <2>2, <2>3, TypeFrame DEF TypeOK
<1>28. CASE CommitAcknowledge
  <2>1. UNCHANGED <<writer, reader>>
    BY <1>28 DEF CommitAcknowledge
  <2>2. SharedType'
    BY <1>0, <1>28 DEF SharedType, CommitAcknowledge, StoresType
  <2>3. StoresType'
    BY <1>0, <1>28 DEF StoresType, CommitAcknowledge
  <2> QED
    BY <1>0, <2>1, <2>2, <2>3, TypeFrame DEF TypeOK
<1>29. CASE UNCHANGED vars
  BY <1>0, <1>29, TypeFrame DEF vars, TypeOK
<1> QED
  BY <1>1, <1>2, <1>3, <1>4, <1>5, <1>6, <1>7, <1>8, <1>9, <1>10, <1>11,
     <1>12, <1>13, <1>14, <1>15, <1>16, <1>17, <1>18, <1>19, <1>20, <1>21,
     <1>22, <1>23, <1>24, <1>25, <1>26, <1>27, <1>28, <1>29
     DEF Next, WriterCall, EnqueueCall, WriterStep, ReaderCall, DequeueCall, PeekCall,
         ReaderStep, Commit

\* Every field of the queue and every local of its calls stays in its range.
THEOREM TypeCorrect == Spec => []TypeOK
  BY TypeInit, TypeStep, PTL DEF Spec

-----------------------------------------------------------------------------
(***************************************************************************)
(* The inductive invariant.                                                *)
(***************************************************************************)
LEMMA InvInit == Init => IInv
<1> SUFFICES ASSUME Init PROVE IInv
  OBVIOUS
<1> USE SlotsAssumption, WordsAssumption
<1>1. 0 \in Slot /\ 0 \in Word
  BY DEF Slot, Word
<1>2. \A s \in Slot, w \in Word :
        /\ buffer[s][w] = 0 /\ wpend[s][w] = 0 /\ <<s, w>> \notin rpend
        /\ WriterSees(s, w) = 0
        /\ ~Occupied(s)
  BY <1>1 DEF Init, WriterSees, Occupied
<1>3. TypeOK
  BY TypeInit
<1>4. Scanning("Enqueue") => offered > 0
  BY DEF Init, Scanning
<1>5. SlotInv
  BY <1>2 DEF SlotInv, WordInv
<1>6. RingInv
  BY <1>1, <1>2 DEF Init, RingInv
<1>7. OverflowInv
  BY DEF Init, OverflowInv, WriterOverflow, OverflowSet
<1>8. ProgressInv
  BY DEF Init, ProgressInv
<1>9. OrderInv
  BY <1>1, <1>2 DEF Init, OrderInv, Offered
<1> QED
  BY <1>3, <1>4, <1>5, <1>6, <1>7, <1>8, <1>9 DEF IInv

\* What a step does to the ring.
LEMMA RingMoves ==
    ASSUME [Next]_vars
    PROVE  \/ EnqueueStores
           \/ TakeMessage \/ TakePeek
           \/ \E s \in Slot, w \in Word : CommitWord(s, w) \/ CommitClear(s, w)
           \/ UNCHANGED <<buffer, wpend, rpend, head, tail>>
<1>1. CASE UNCHANGED vars
  BY <1>1 DEF vars, shared, stores, reader, writer
<1>2. CASE EnqueueCall \/ QueueFullStart
  BY <1>2 DEF EnqueueCall, EnqueueRefused, EnqueueStart, QueueFullStart, shared,
     reader, stores
<1>3. CASE SetOverflow
  BY <1>3 DEF SetOverflow, StoreOverflow, shared, reader, stores
<1>4. CASE WriterStep
  BY <1>4 DEF WriterStep, ScanFree, QueueFullTrue, QueueFullFalse,
     EnqueueOverflows, StoreOverflow, shared, reader, stores
<1>5. CASE ReaderCall
  BY <1>5 DEF ReaderCall, DequeueCall, PeekCall, DequeuePeekedOverflow,
     DequeuePeeked, DequeueStart, PeekAgain, PeekStart, QueueEmptyCall, shared,
     writer, stores
<1>6. CASE ReaderStep
  BY <1>6 DEF ReaderStep, ReadOverflow, HeadOccupied, AcknowledgeDequeue,
     AcknowledgePeek, HeadEmpty, ScanMissing, ScanPresent, ScanComplete,
     TakeMessage, TakePeek, shared, writer, stores
<1>7. CASE CommitOverflow \/ CommitAcknowledge
  BY <1>7 DEF CommitOverflow, CommitAcknowledge, reader, writer
<1> QED
  BY <1>1, <1>2, <1>3, <1>4, <1>5, <1>6, <1>7 DEF Next, WriterCall, Commit

\* The slot that Pm_Enqueue is about to fill is free in every word.
LEMMA TailIsFree ==
    ASSUME IInv, ScanDone
    PROVE  /\ \A w \in Word : /\ buffer[tail][w] = 0 /\ wpend[tail][w] = 0
                              /\ <<tail, w>> \notin rpend
           /\ ~Occupied(tail)
<1> USE WordsAssumption
<1>1. tail \in Slot /\ 0 \in Word
  BY DEF IInv, TypeOK, WriterType, Word
<1>2. \A w \in Word : WriterSees(tail, w) = 0
  BY DEF IInv, ProgressInv, ScanDone, Word
<1>3. \A w \in Word : buffer[tail][w] = 0 /\ wpend[tail][w] = 0
  BY <1>2 DEF WriterSees
<1>4. ~Occupied(tail)
  BY <1>1, <1>3 DEF Occupied
<1>5. \A w \in Word : <<tail, w>> \notin rpend
  BY <1>1, <1>3, <1>4 DEF IInv, SlotInv, WordInv
<1> QED
  BY <1>3, <1>4, <1>5

\* The slot that Pm_Dequeue is about to empty is in memory in every word.
LEMMA HeadIsWhole ==
    ASSUME IInv, rpc = "take"
    PROVE  /\ Occupied(head)
           /\ \A w \in Word : /\ buffer[head][w] = WriterSees(head, 0)
                              /\ ReaderSees(head, w) = WriterSees(head, 0)
                              /\ buffer[head][w] # 0 /\ wpend[head][w] = 0
<1> USE WordsAssumption
<1>1. head \in Slot /\ 0 \in Word
  BY DEF IInv, TypeOK, ReaderType, Word
<1>2. \A w \in Word : buffer[head][w] # 0 /\ <<head, w>> \notin rpend
  BY DEF IInv, ProgressInv, ReaderSees
<1>3. Occupied(head)
  BY <1>1, <1>2 DEF Occupied
<1>4. \A w \in Word : wpend[head][w] = 0 /\ buffer[head][w] = WriterSees(head, 0)
  BY <1>1, <1>2, <1>3 DEF IInv, SlotInv, WordInv
<1> QED
  BY <1>2, <1>3, <1>4 DEF ReaderSees

\* The arrival of a store in memory leaves what is in the ring as it was.
LEMMA CommitKeepsRing ==
    ASSUME IInv, NEW s \in Slot, NEW w \in Word, CommitWord(s, w) \/ CommitClear(s, w)
    PROVE  /\ UNCHANGED <<head, tail>>
           /\ \A t \in Slot : /\ Occupied(t)' <=> Occupied(t)
                              /\ Occupied(t) => WriterSees(t, 0)' = WriterSees(t, 0)
<1> USE WordsAssumption
<1>0. SlotInv /\ 0 \in Word
  BY DEF IInv, Word
<1>t. /\ wpend \in [Slot -> [Word -> 0 .. MaxMsgs]]
      /\ buffer \in [Slot -> [Word -> 0 .. MaxMsgs]]
  BY DEF IInv, TypeOK, SharedType, StoresType
<1>1. UNCHANGED <<head, tail>>
  BY DEF CommitWord, CommitClear, writer, reader
<1>2. CASE CommitWord(s, w)
  <2>1. \A t \in Slot, x \in Word :
          /\ buffer'[t][x] = IF t = s /\ x = w THEN wpend[s][w] ELSE buffer[t][x]
          /\ wpend'[t][x] = IF t = s /\ x = w THEN 0 ELSE wpend[t][x]
    BY <1>2, <1>t DEF CommitWord
  <2>2. UNCHANGED rpend /\ wpend[s][w] # 0
    BY <1>2 DEF CommitWord
  <2> QED
    BY <1>0, <1>1, <2>1, <2>2 DEF SlotInv, WordInv, Occupied, WriterSees
<1>3. CASE CommitClear(s, w)
  <2>1. \A t \in Slot, x \in Word :
          /\ buffer'[t][x] = IF t = s /\ x = w THEN 0 ELSE buffer[t][x]
          /\ <<t, x>> \in rpend' <=> <<t, x>> \in rpend /\ ~(t = s /\ x = w)
    BY <1>3, <1>t DEF CommitClear
  <2>2. UNCHANGED wpend /\ <<s, w>> \in rpend
    BY <1>3 DEF CommitClear
  <2> QED
    BY <1>0, <1>1, <2>1, <2>2 DEF SlotInv, WordInv, Occupied, WriterSees
<1> QED
  BY <1>2, <1>3

\* Pm_Enqueue puts its message in the tail slot and nowhere else.
LEMMA EnqueueRing ==
    ASSUME IInv, EnqueueStores
    PROVE  /\ offered \in Nat \ {0} /\ ~Occupied(tail)
           /\ UNCHANGED <<buffer, rpend, head>>
           /\ \A s \in Slot, w \in Word :
                wpend'[s][w] = IF s = tail THEN offered ELSE wpend[s][w]
           /\ \A s \in Slot :
                /\ Occupied(s)' <=> Occupied(s) \/ s = tail
                /\ WriterSees(s, 0)' = IF s = tail THEN offered ELSE WriterSees(s, 0)
<1> USE WordsAssumption
<1>0. 0 \in Word /\ tail \in Slot /\ wpend \in [Slot -> [Word -> 0 .. MaxMsgs]]
  BY DEF IInv, TypeOK, WriterType, StoresType, Word
<1>1. offered \in Nat \ {0}
  BY MaxMsgsAssumption DEF EnqueueStores, IInv, Scanning, ScanDone, TypeOK, WriterType
<1>2. UNCHANGED <<buffer, rpend, head>>
  BY DEF EnqueueStores, shared, reader
<1>3. \A s \in Slot, w \in Word :
        wpend'[s][w] = IF s = tail THEN offered ELSE wpend[s][w]
  BY <1>0 DEF EnqueueStores
<1>4. ~Occupied(tail)
  BY TailIsFree DEF EnqueueStores
<1> QED
  BY <1>0, <1>1, <1>2, <1>3, <1>4 DEF Occupied, WriterSees

\* Pm_Dequeue frees the head slot and no other.
LEMMA RemoveRing ==
    ASSUME IInv, RemoveMessage
    PROVE  /\ Occupied(head)
           /\ UNCHANGED <<buffer, wpend, tail>>
           /\ \A s \in Slot, w \in Word :
                <<s, w>> \in rpend' <=> <<s, w>> \in rpend \/ s = head
           /\ \A s \in Slot :
                /\ Occupied(s)' <=> Occupied(s) /\ s # head
                /\ WriterSees(s, 0)' = WriterSees(s, 0)
<1> USE WordsAssumption
<1>0. 0 \in Word
  BY DEF Word
<1>1. /\ Occupied(head)
      /\ \A w \in Word : buffer[head][w] # 0 /\ wpend[head][w] = 0
  BY HeadIsWhole DEF RemoveMessage
<1>2. UNCHANGED <<buffer, wpend, tail>>
  BY DEF RemoveMessage, shared, writer
<1>3. \A s \in Slot, w \in Word : <<s, w>> \in rpend' <=> <<s, w>> \in rpend \/ s = head
  BY DEF RemoveMessage
<1> QED
  BY <1>0, <1>1, <1>2, <1>3 DEF Occupied, WriterSees

LEMMA SlotStep == IInv /\ [Next]_vars => SlotInv'
<1> SUFFICES ASSUME IInv, [Next]_vars, NEW t \in Slot, NEW x \in Word
             PROVE  WordInv(t, x)'
  BY DEF SlotInv
<1> USE WordsAssumption
<1>0. WordInv(t, x) /\ tail \in Slot /\ head \in Slot /\ 0 \in Word
  BY DEF IInv, SlotInv, TypeOK, WriterType, ReaderType, Word
<1>t. /\ wpend \in [Slot -> [Word -> 0 .. MaxMsgs]]
      /\ buffer \in [Slot -> [Word -> 0 .. MaxMsgs]]
  BY DEF IInv, TypeOK, SharedType, StoresType
<1>1. CASE EnqueueStores
  <2>1. \A w \in Word : buffer[tail][w] = 0 /\ <<tail, w>> \notin rpend
    BY <1>1, TailIsFree DEF EnqueueStores
  <2> QED
    BY <1>0, <1>1, <2>1, EnqueueRing DEF WordInv
<1>2. CASE RemoveMessage
  <2>1. \A w \in Word : buffer[head][w] # 0 /\ wpend[head][w] = 0
    BY <1>2, HeadIsWhole DEF RemoveMessage
  <2> QED
    BY <1>0, <1>2, <2>1, RemoveRing DEF WordInv
<1>3. ASSUME NEW s \in Slot, NEW w \in Word, CommitWord(s, w) PROVE WordInv(t, x)'
  <2>1. /\ buffer'[t][x] = IF t = s /\ x = w THEN wpend[s][w] ELSE buffer[t][x]
        /\ wpend'[t][x] = IF t = s /\ x = w THEN 0 ELSE wpend[t][x]
    BY <1>3, <1>t DEF CommitWord
  <2>2. UNCHANGED rpend /\ wpend[s][w] # 0
    BY <1>3 DEF CommitWord
  <2>3. /\ Occupied(t)' <=> Occupied(t)
        /\ Occupied(t) => WriterSees(t, 0)' = WriterSees(t, 0)
    BY <1>3, CommitKeepsRing
  <2> QED
    BY <1>0, <2>1, <2>2, <2>3 DEF WordInv
<1>4. ASSUME NEW s \in Slot, NEW w \in Word, CommitClear(s, w) PROVE WordInv(t, x)'
  <2>1. /\ buffer'[t][x] = IF t = s /\ x = w THEN 0 ELSE buffer[t][x]
        /\ <<t, x>> \in rpend' <=> <<t, x>> \in rpend /\ ~(t = s /\ x = w)
    BY <1>4, <1>t DEF CommitClear
  <2>2. UNCHANGED wpend /\ <<s, w>> \in rpend
    BY <1>4 DEF CommitClear
  <2>3. /\ Occupied(t)' <=> Occupied(t)
        /\ Occupied(t) => WriterSees(t, 0)' = WriterSees(t, 0)
    BY <1>4, CommitKeepsRing
  <2> QED
    BY <1>0, <2>1, <2>2, <2>3 DEF WordInv
<1>5. CASE UNCHANGED <<buffer, wpend, rpend, head, tail>>
  BY <1>0, <1>5 DEF WordInv, Occupied, WriterSees
<1> QED
  BY <1>1, <1>2, <1>3, <1>4, <1>5, RingMoves DEF TakeMessage, TakePeek

LEMMA RingStep == IInv /\ [Next]_vars => RingInv'
<1> SUFFICES ASSUME IInv, [Next]_vars PROVE RingInv'
  OBVIOUS
<1> USE SlotsAssumption
<1>0. RingInv /\ tail \in Slot /\ head \in Slot
  BY DEF IInv, TypeOK, WriterType, ReaderType
<1>t. \A s \in Slot : WriterSees(s, 0) \in Nat
  BY SeesType, WordsAssumption, MaxMsgsAssumption DEF IInv, Word
<1>1. CASE EnqueueStores
  <2>1. tail' = NextSlot(tail) /\ head' = head
    BY <1>1, EnqueueRing DEF EnqueueStores
  <2>2. Occupied(head) => offered = WriterSees(head, 0) + Length
    <3>1. Occupied(head) => ~marked
      BY <1>1 DEF IInv, OverflowInv, EnqueueStores, ScanDone, Scanning, OverflowSet
    <3>2. Offered = offered - 1
      BY <1>1 DEF EnqueueStores, ScanDone, Offered
    <3>3. Length \in Nat
      BY <1>0 DEF Length, Dist, Slot
    <3>4. offered \in Nat
      BY <1>1, EnqueueRing
    <3> QED
      BY <1>0, <1>t, <3>1, <3>2, <3>3, <3>4 DEF IInv, OrderInv
  <2>3. \A s \in Slot : Dist(s)' = Dist(s)
    BY <2>1 DEF Dist
  <2> QED
    BY <1>0, <1>1, <1>t, <2>1, <2>2, <2>3, EnqueueRing
       DEF RingInv, NextSlot, Dist, Slot, Length
<1>2. CASE RemoveMessage
  <2>1. head' = NextSlot(head) /\ tail' = tail
    BY <1>2, RemoveRing DEF RemoveMessage
  <2>2. head' \in Slot
    BY <1>0, <2>1, NextSlotType
  <2>3. \A s \in Slot : Dist(s)' = IF s = head THEN Slots - 1 ELSE Dist(s) - 1
    BY <1>0, <2>1 DEF Dist, Slot, NextSlot
  <2> QED
    BY <1>0, <1>2, <1>t, <2>1, <2>2, <2>3, RemoveRing DEF RingInv, NextSlot, Dist, Slot
<1>3. ASSUME NEW s \in Slot, NEW w \in Word, CommitWord(s, w) \/ CommitClear(s, w)
      PROVE  RingInv'
  <2>1. UNCHANGED <<head, tail>>
    BY <1>3, CommitKeepsRing
  <2>2. \A t \in Slot : /\ Occupied(t)' <=> Occupied(t)
                        /\ Occupied(t) => WriterSees(t, 0)' = WriterSees(t, 0)
    BY <1>3, CommitKeepsRing
  <2>3. \A t \in Slot : Occupied(t) => Occupied(head)
    BY <1>0 DEF RingInv, Dist, Slot
  <2> QED
    BY <1>0, <2>1, <2>2, <2>3 DEF RingInv, Dist
<1>4. CASE UNCHANGED <<buffer, wpend, rpend, head, tail>>
  BY <1>0, <1>4 DEF RingInv, Occupied, WriterSees, Dist
<1> QED
  BY <1>1, <1>2, <1>3, <1>4, RingMoves DEF TakeMessage, TakePeek

\* Unless a message goes in or out, the head slot looks as it did.
LEMMA HeadStays ==
    ASSUME IInv, [Next]_vars
    PROVE  \/ EnqueueStores
           \/ TakeMessage \/ TakePeek
           \/ /\ UNCHANGED <<head, tail>>
              /\ Occupied(head)' <=> Occupied(head)
              /\ Occupied(head) => WriterSees(head, 0)' = WriterSees(head, 0)
              /\ Length' = Length
<1>0. head \in Slot
  BY DEF IInv, TypeOK, ReaderType
<1>1. ASSUME NEW s \in Slot, NEW w \in Word, CommitWord(s, w) \/ CommitClear(s, w)
      PROVE  /\ UNCHANGED <<head, tail>>
             /\ Occupied(head)' <=> Occupied(head)
             /\ Occupied(head) => WriterSees(head, 0)' = WriterSees(head, 0)
             /\ Length' = Length
  <2>1. UNCHANGED <<head, tail>>
    BY <1>1, CommitKeepsRing
  <2>2. Length' = Length
    BY <2>1 DEF Length, Dist
  <2> QED
    BY <1>0, <1>1, <2>1, <2>2, CommitKeepsRing
<1>2. CASE UNCHANGED <<buffer, wpend, rpend, head, tail>>
  BY <1>2 DEF Occupied, WriterSees, Length, Dist
<1> QED
  BY <1>1, <1>2, RingMoves

LEMMA OverflowStep ==
    IInv /\ OverflowInOrder /\ [Next]_vars => OverflowInv'
<1> SUFFICES ASSUME IInv, OverflowInOrder, [Next]_vars PROVE OverflowInv'
  OBVIOUS
<1> USE SlotsAssumption DEF OverflowInv, WriterOverflow, OverflowSet, Scanning
<1>0. OverflowInv /\ tail \in Slot /\ head \in Slot /\ wover \in 0 .. Slots
  BY DEF IInv, TypeOK, WriterType, ReaderType, StoresType
<1>1. CASE EnqueueRefused
  BY <1>0, <1>1 DEF EnqueueRefused, WriterReturns, shared, stores, reader, peeks, seen,
     Occupied
<1>2. CASE EnqueueStart
  BY <1>0, <1>2 DEF EnqueueStart, WriterScans, shared, stores, reader, peeks, seen,
     Occupied
<1>3. CASE QueueFullStart
  BY <1>0, <1>3 DEF QueueFullStart, WriterScans, shared, stores, reader, peeks, seen,
     Occupied
<1>4. CASE SetOverflow
  BY <1>0, <1>4 DEF SetOverflow, StoreOverflow, WriterReturns, shared, stores, reader,
     peeks, seen, Occupied, Slot
<1>5. CASE ScanFree \/ QueueFullTrue \/ QueueFullFalse
  BY <1>0, <1>5 DEF ScanFree, QueueFullTrue, QueueFullFalse, WriterReturns, shared,
     stores, reader, peeks, seen, Occupied
<1>6. CASE EnqueueOverflows
  BY <1>0, <1>6 DEF EnqueueOverflows, StoreOverflow, ScanFull, WriterReturns, shared,
     reader, peeks, seen, Occupied, Slot
<1>7. CASE EnqueueStores
  BY <1>0, <1>7 DEF EnqueueStores, ScanDone, WriterReturns, shared, reader, peeks, seen
<1>8. CASE DequeuePeekedOverflow \/ DequeuePeeked \/ DequeueStart
  BY <1>0, <1>8 DEF DequeuePeekedOverflow, DequeuePeeked, DequeueStart,
     ReportOverflow, GiveMessage, shared, stores, writer, peeks, seen, Occupied
<1>9. CASE PeekCall \/ QueueEmptyCall \/ ReadOverflow \/ HeadOccupied \/ ScanMissing
           \/ ScanPresent \/ ScanComplete
  BY <1>0, <1>9 DEF PeekCall, PeekAgain, PeekStart, QueueEmptyCall, ReadOverflow,
     HeadOccupied, ScanMissing, ScanPresent, ScanComplete, shared, stores, writer,
     peeks, seen, Occupied
<1>10. CASE AcknowledgeDequeue \/ AcknowledgePeek
  <2>1. overflow = head + 1 /\ ~rover /\ ~peek_flag
    <3>1. rpc = "head"
      BY <1>10 DEF AcknowledgeDequeue, AcknowledgePeek, HeadEmpty
    <3>2. ReaderOverflow = head + 1 /\ ~peek_flag
      BY <3>1 DEF IInv, ProgressInv
    <3> QED
      BY <1>0, <3>2, head + 1 # 0 DEF ReaderOverflow, Slot
  <2>2. ~Occupied(head)
    <3>1. 0 \in Word
      BY WordsAssumption DEF Word
    <3>2. wpend[head][0] = 0
      BY <1>0, <2>1, <3>1 DEF Slot
    <3> QED
      BY <1>10, <3>2 DEF Occupied, ReaderSees, AcknowledgeDequeue, AcknowledgePeek,
         HeadEmpty
  <2>3. UNCHANGED <<overflow, wover, wpend, tail, marked, wpc, wcall, peek_flag>>
    BY <1>10 DEF AcknowledgeDequeue, AcknowledgePeek, HeadEmpty, shared, writer
  <2>4. ~Occupied(head)'
    BY <1>10, <2>2 DEF Occupied, AcknowledgeDequeue, AcknowledgePeek, HeadEmpty, shared
  <2>5. lossSeen' \/ peek_overflow'
    BY <1>10 DEF AcknowledgeDequeue, AcknowledgePeek, ReportOverflow
  <2> QED
    BY <1>0, <2>1, <2>3, <2>4, <2>5 DEF Slot
<1>11. CASE TakeMessage \/ TakePeek
  <2>1. Occupied(head)
    BY <1>11, RemoveRing DEF TakeMessage, TakePeek
  <2> QED
    BY <1>0, <1>11, <2>1 DEF TakeMessage, TakePeek, RemoveMessage, shared, writer
<1>12. ASSUME NEW s \in Slot, NEW w \in Word, CommitWord(s, w) \/ CommitClear(s, w)
       PROVE  OverflowInv'
  <2>1. UNCHANGED <<overflow, wover, rover, tail, marked, wpc, wcall, peeks, seen>>
    BY <1>12 DEF CommitWord, CommitClear, writer, reader
  <2>2. (\A x \in Word : wpend[tail][x] = 0) => (\A x \in Word : wpend'[tail][x] = 0)
    BY <1>0, <1>12 DEF CommitWord, CommitClear, IInv, TypeOK, StoresType
  <2>3. Occupied(head)' <=> Occupied(head)
    <3>1. UNCHANGED head
      BY <1>12 DEF CommitWord, CommitClear, reader
    <3> QED
      BY <1>0, <1>12, <3>1, CommitKeepsRing
  <2> QED
    BY <1>0, <2>1, <2>2, <2>3 DEF peeks, seen
<1>13. CASE CommitOverflow
  BY <1>0, <1>13 DEF CommitOverflow, writer, reader, peeks, seen, Occupied, Slot
<1>14. CASE CommitAcknowledge
  BY <1>0, <1>14 DEF CommitAcknowledge, writer, reader, peeks, seen, Occupied, Slot
<1>15. CASE UNCHANGED vars
  BY <1>0, <1>15 DEF vars, shared, stores, writer, reader, peeks, seen, Occupied
<1> QED
  BY <1>1, <1>2, <1>3, <1>4, <1>5, <1>6, <1>7, <1>8, <1>9, <1>10, <1>11, <1>12, <1>13,
     <1>14, <1>15
     DEF Next, WriterCall, EnqueueCall, WriterStep, ReaderCall, DequeueCall, ReaderStep,
         Commit

LEMMA ProgressStep == IInv /\ [Next]_vars => ProgressInv'
<1> SUFFICES ASSUME IInv, [Next]_vars PROVE ProgressInv'
  OBVIOUS
<1> USE WordsAssumption DEF ProgressInv, WriterSees, ReaderSees, ReaderOverflow
<1>0. /\ ProgressInv /\ OverflowInv
      /\ tail \in Slot /\ head \in Slot /\ wi \in Word /\ ri \in Word
      /\ wover \in 0 .. Slots
  BY DEF IInv, TypeOK, WriterType, ReaderType, StoresType
<1>1. CASE EnqueueCall \/ QueueFullStart
  BY <1>0, <1>1 DEF EnqueueCall, EnqueueRefused, EnqueueStart, QueueFullStart,
     WriterReturns, WriterScans, shared, stores, reader, peeks, seen, Word
<1>2. CASE SetOverflow
  BY <1>0, <1>2 DEF SetOverflow, StoreOverflow, WriterReturns, shared, stores, reader,
     peeks, seen
<1>3. CASE ScanFree
  BY <1>0, <1>3 DEF ScanFree, shared, stores, reader, peeks, seen, Word
<1>4. CASE QueueFullTrue \/ QueueFullFalse \/ EnqueueOverflows
  BY <1>0, <1>4 DEF QueueFullTrue, QueueFullFalse, EnqueueOverflows, StoreOverflow,
     WriterReturns, shared, stores, reader, peeks, seen
<1>5. CASE EnqueueStores
  BY <1>0, <1>5 DEF EnqueueStores, WriterReturns, shared, reader, peeks, seen
<1>6. CASE DequeueCall \/ PeekCall \/ QueueEmptyCall
  BY <1>0, <1>6 DEF DequeueCall, DequeuePeekedOverflow, DequeuePeeked, DequeueStart,
     PeekCall, PeekAgain, PeekStart, QueueEmptyCall, ReaderReturns, ReaderGoesOn,
     ReportOverflow, GiveMessage, shared, stores, writer, peeks, seen
<1>7. CASE ReadOverflow \/ HeadOccupied \/ ScanPresent \/ ScanComplete
  <2>1. UNCHANGED <<shared, stores, writer, head, peeks, rcall>>
    BY <1>7 DEF ReadOverflow, HeadOccupied, ScanPresent, ScanComplete
  <2>2. CASE ReadOverflow
    BY <1>0, <2>1, <2>2 DEF ReadOverflow, ReaderGoesOn, shared, stores, writer, peeks,
       Word
  <2>3. CASE HeadOccupied
    <3>1. ri = Words - 1
      BY <1>0, <2>3 DEF HeadOccupied
    <3> QED
      BY <1>0, <2>1, <2>3, <3>1 DEF HeadOccupied, ReaderGoesOn, shared, stores, writer,
         peeks, Word
  <2>4. CASE ScanPresent \/ ScanComplete
    BY <1>0, <2>1, <2>4 DEF ScanPresent, ScanComplete, ReaderGoesOn, shared, stores,
       writer, peeks, Word
  <2> QED
    BY <1>7, <2>2, <2>3, <2>4
<1>8. CASE AcknowledgeDequeue \/ AcknowledgePeek \/ ScanMissing \/ TakeMessage \/ TakePeek
  BY <1>0, <1>8 DEF AcknowledgeDequeue, AcknowledgePeek, HeadEmpty, ScanMissing,
     TakeMessage, TakePeek, RemoveMessage, ReaderReturns, ReportOverflow, GiveMessage,
     shared, stores, writer, peeks, seen
<1>9. ASSUME NEW s \in Slot, NEW w \in Word, CommitWord(s, w)
      PROVE  ProgressInv'
  <2>1. \A t \in Slot, x \in Word :
          /\ buffer'[t][x] = IF t = s /\ x = w THEN wpend[s][w] ELSE buffer[t][x]
          /\ wpend'[t][x] = IF t = s /\ x = w THEN 0 ELSE wpend[t][x]
    BY <1>9 DEF CommitWord, IInv, TypeOK, SharedType, StoresType
  <2>2. UNCHANGED <<overflow, rpend, rover, writer, reader>> /\ wpend[s][w] # 0
    BY <1>9 DEF CommitWord
  <2> QED
    BY <1>0, <2>1, <2>2 DEF writer, reader, peeks
<1>10. ASSUME NEW s \in Slot, NEW w \in Word, CommitClear(s, w)
       PROVE  ProgressInv'
  <2>1. \A t \in Slot, x \in Word :
          /\ buffer'[t][x] = IF t = s /\ x = w THEN 0 ELSE buffer[t][x]
          /\ <<t, x>> \in rpend' <=> <<t, x>> \in rpend /\ ~(t = s /\ x = w)
    BY <1>10 DEF CommitClear, IInv, TypeOK, SharedType, StoresType
  <2>2. UNCHANGED <<overflow, wpend, rover, writer, reader>> /\ <<s, w>> \in rpend
    BY <1>10 DEF CommitClear
  <2> QED
    BY <1>0, <2>1, <2>2 DEF writer, reader, peeks
<1>11. CASE CommitOverflow \/ CommitAcknowledge
  <2>1. UNCHANGED <<buffer, wpend, rpend, writer, reader>>
    BY <1>11 DEF CommitOverflow, CommitAcknowledge
  <2>2. rpc # "head" \/ ReaderOverflow' = ReaderOverflow
    <3>1. rpc = "head" => overflow # 0 /\ ~rover
      BY <1>0 DEF Slot
    <3> QED
      BY <1>0, <1>11, <3>1 DEF CommitOverflow, CommitAcknowledge, OverflowInv
  <2> QED
    BY <1>0, <2>1, <2>2 DEF writer, reader, peeks
<1>12. CASE UNCHANGED vars
  BY <1>0, <1>12 DEF vars, shared, stores, writer, reader, peeks
<1> QED
  BY <1>1, <1>2, <1>3, <1>4, <1>5, <1>6, <1>7, <1>8, <1>9, <1>10, <1>11, <1>12
     DEF Next, WriterCall, WriterStep, ReaderCall, ReaderStep, Commit

LEMMA OrderStep == IInv /\ [Next]_vars => OrderInv'
<1> SUFFICES ASSUME IInv, [Next]_vars PROVE OrderInv'
  OBVIOUS
<1> USE SlotsAssumption, MaxMsgsAssumption DEF OrderInv, Offered, Follows
<1>0. /\ OrderInv /\ OverflowInv
      /\ tail \in Slot /\ head \in Slot
      /\ WriterSees(head, 0) \in Nat /\ Length \in Nat \ {0}
      /\ offered \in Nat /\ peek \in Nat /\ lastGot \in Nat
  <2>1. tail \in Slot /\ head \in Slot
    BY DEF IInv, TypeOK, WriterType, ReaderType
  <2>2. WriterSees(head, 0) \in Nat
    BY <2>1, SeesType, WordsAssumption DEF IInv, Word
  <2>3. Length \in Nat \ {0}
    BY <2>1 DEF Length, Dist, Slot
  <2>4. offered \in Nat /\ peek \in Nat /\ lastGot \in Nat
    BY DEF IInv, TypeOK, WriterType, ReaderType
  <2> QED
    BY <2>1, <2>2, <2>3, <2>4 DEF IInv
<1>1. CASE EnqueueStores
  <2>1. /\ Offered = offered - 1 /\ Offered' = offered
        /\ ~marked' /\ UNCHANGED <<peek_flag, peek, peek_overflow, lastGot, lossSeen>>
    BY <1>1 DEF EnqueueStores, ScanDone, WriterReturns, reader, peeks, seen
  <2>2. marked => ~Occupied(head) /\ ~peek_flag /\ (lossSeen \/ peek_overflow)
    BY <1>0, <1>1 DEF OverflowInv, OverflowSet, EnqueueStores, ScanDone, Scanning
  <2>3. CASE Occupied(head)
    <3>1. Occupied(head)' /\ WriterSees(head, 0)' = WriterSees(head, 0)
      BY <1>0, <1>1, <2>3, EnqueueRing
    <3>2. tail # head /\ tail' = NextSlot(tail) /\ head' = head
      BY <1>1, <2>3, EnqueueRing DEF EnqueueStores
    <3>3. Length' = Length + 1
      BY <1>0, <3>2 DEF Length, Dist, Slot, NextSlot
    <3> QED
      BY <1>0, <2>1, <2>2, <2>3, <3>1, <3>3
  <2>4. CASE ~Occupied(head)
    <3>1. tail = head
      BY <1>0, <2>4 DEF IInv, RingInv, Dist, Slot
    <3>2. Occupied(head)' /\ WriterSees(head, 0)' = offered
      BY <1>0, <1>1, <3>1, EnqueueRing
    <3>3. tail' = NextSlot(tail) /\ head' = head
      BY <1>1, EnqueueRing DEF EnqueueStores
    <3>4. Length' = 1
      BY <1>0, <3>1, <3>3 DEF Length, Dist, Slot, NextSlot
    <3> QED
      BY <1>0, <2>1, <2>2, <2>4, <3>2, <3>4
  <2> QED
    BY <2>3, <2>4
<1>2. CASE TakeMessage \/ TakePeek
  <2>1. /\ Occupied(head) /\ head' = NextSlot(head) /\ tail' = tail
        /\ ~peek_flag /\ (rcall = "Dequeue" => ~peek_overflow)
        /\ UNCHANGED <<offered, wpc, wcall, marked, peek_overflow>>
    BY <1>2, RemoveRing DEF TakeMessage, TakePeek, RemoveMessage, IInv, ProgressInv,
       writer
  <2>2. ReaderSees(head, Words - 1) = WriterSees(head, 0)
    BY <1>2, HeadIsWhole, WordsAssumption DEF TakeMessage, TakePeek, RemoveMessage, Word
  <2>3. IF Length = 1
          THEN ~Occupied(head)'
          ELSE /\ Occupied(head)' /\ Length' = Length - 1
               /\ WriterSees(head, 0)' = WriterSees(head, 0) + 1
    <3>1. head' \in Slot
      BY <1>0, <2>1, NextSlotType
    <3>2. CASE Length = 1
      <4>1. head' = tail
        BY <1>0, <2>1, <3>2 DEF Length, Dist, Slot, NextSlot
      <4>2. tail = head \/ ~Occupied(tail)
        BY <1>0 DEF IInv, RingInv, Dist, Slot
      <4>3. \A s \in Slot : Occupied(s)' <=> Occupied(s) /\ s # head
        BY <1>2, RemoveRing DEF TakeMessage, TakePeek
      <4> QED
        BY <1>0, <3>2, <4>1, <4>2, <4>3
    <3>3. CASE Length # 1
      <4>1. head' # head /\ Length' = Length - 1
        BY <1>0, <2>1, <3>3 DEF Length, Dist, Slot, NextSlot
      <4>2. Dist(head') = 1
        BY <1>0, <2>1, <3>3, <4>1 DEF Dist, Slot, NextSlot
      <4>3. Occupied(head') /\ WriterSees(head', 0) = WriterSees(head, 0) + 1
        BY <1>0, <2>1, <3>1, <3>3, <4>2 DEF IInv, RingInv, Length, Dist, Slot
      <4> QED
        BY <1>2, <2>1, <3>1, <3>3, <4>1, <4>3, RemoveRing DEF TakeMessage, TakePeek
    <3> QED
      BY <3>2, <3>3
  <2>4. CASE TakeMessage
    BY <1>0, <2>1, <2>2, <2>3, <2>4 DEF TakeMessage, GiveMessage
  <2>5. CASE TakePeek
    BY <1>0, <2>1, <2>2, <2>3, <2>5 DEF TakePeek, seen
  <2> QED
    BY <1>2, <2>4, <2>5
<1>3. CASE /\ UNCHANGED <<head, tail>>
           /\ Occupied(head)' <=> Occupied(head)
           /\ Occupied(head) => WriterSees(head, 0)' = WriterSees(head, 0)
           /\ Length' = Length
  <2>1. CASE EnqueueRefused
    <3>1. marked /\ wpc = "idle" /\ wpc' = "idle"
      BY <1>0, <2>1 DEF EnqueueRefused, WriterReturns, OverflowInv
    <3>2. offered' = offered + 1 /\ UNCHANGED <<marked, peeks, seen>>
      BY <2>1 DEF EnqueueRefused, reader
    <3> QED
      BY <1>0, <1>3, <3>1, <3>2 DEF peeks, seen
  <2>2. CASE EnqueueStart \/ QueueFullStart
    <3>1. Offered' = Offered /\ UNCHANGED <<marked, peeks, seen>>
      BY <1>0, <2>2 DEF EnqueueStart, QueueFullStart, WriterScans, reader
    <3> QED
      BY <1>0, <1>3, <3>1 DEF peeks, seen
  <2>3. CASE SetOverflow
    <3>1. Offered' = Offered /\ (marked => marked') /\ UNCHANGED <<peeks, seen>>
      BY <2>3 DEF SetOverflow, StoreOverflow, WriterReturns, reader
    <3> QED
      BY <1>0, <1>3, <3>1 DEF peeks, seen
  <2>4. CASE ScanFree \/ QueueFullTrue \/ QueueFullFalse
    <3>1. Offered' = Offered /\ UNCHANGED <<marked, peeks, seen>>
      BY <2>4 DEF ScanFree, QueueFullTrue, QueueFullFalse, ScanFull, ScanDone,
         WriterReturns, reader
    <3> QED
      BY <1>0, <1>3, <3>1 DEF peeks, seen
  <2>5. CASE EnqueueOverflows
    <3>1. Offered' = Offered + 1 /\ marked' /\ UNCHANGED <<peeks, seen>>
      BY <1>0, <2>5 DEF EnqueueOverflows, StoreOverflow, ScanFull, WriterReturns, reader
    <3> QED
      BY <1>0, <1>3, <3>1 DEF peeks, seen
  <2>6. CASE DequeuePeekedOverflow
    BY <1>0, <1>3, <2>6 DEF DequeuePeekedOverflow, ReportOverflow, writer
  <2>7. CASE DequeuePeeked
    BY <1>0, <1>3, <2>7 DEF DequeuePeeked, GiveMessage, writer
  <2>8. CASE AcknowledgeDequeue \/ AcknowledgePeek
    <3>1. /\ lossSeen' \/ peek_overflow'
          /\ UNCHANGED <<offered, wpc, wcall, marked, peek_flag, peek, lastGot>>
      BY <2>8 DEF AcknowledgeDequeue, AcknowledgePeek, HeadEmpty, ReportOverflow, writer,
         seen
    <3> QED
      BY <1>0, <1>3, <3>1
  <2>9. CASE UNCHANGED <<offered, wpc, wcall, marked, peeks, seen>>
    BY <1>0, <1>3, <2>9 DEF peeks, seen
  <2>10. CASE EnqueueStores \/ TakeMessage \/ TakePeek
    BY <1>1, <1>2, <2>10
  <2>11. CASE DequeueStart \/ PeekCall \/ QueueEmptyCall \/ ReadOverflow \/ HeadOccupied
             \/ ScanMissing \/ ScanPresent \/ ScanComplete
    BY <2>9, <2>11 DEF DequeueStart, PeekCall, PeekAgain, PeekStart, QueueEmptyCall,
       ReadOverflow, HeadOccupied, ScanMissing, ScanPresent, ScanComplete, writer
  <2>12. CASE Commit \/ UNCHANGED vars
    BY <2>9, <2>12 DEF Commit, CommitWord, CommitClear, CommitOverflow,
       CommitAcknowledge, vars, writer, reader
  <2> QED
    BY <2>1, <2>2, <2>3, <2>4, <2>5, <2>6, <2>7, <2>8, <2>10, <2>11, <2>12
       DEF Next, WriterCall, EnqueueCall, WriterStep, ReaderCall, DequeueCall, ReaderStep
<1> QED
  BY <1>1, <1>2, <1>3, HeadStays

LEMMA InvStep == IInv /\ OverflowInOrder /\ [Next]_vars => IInv'
<1> SUFFICES ASSUME IInv, OverflowInOrder, [Next]_vars PROVE IInv'
  OBVIOUS
<1>1. TypeOK'
  BY TypeStep DEF IInv
<1>2. (Scanning("Enqueue") => offered > 0)'
  <2>1. offered \in Nat
    BY MaxMsgsAssumption DEF IInv, TypeOK, WriterType
  <2>2. CASE WriterCall
    BY <2>1, <2>2 DEF IInv, Scanning, WriterCall, EnqueueCall, EnqueueRefused,
       EnqueueStart, QueueFullStart, SetOverflow, WriterReturns, WriterScans
  <2>3. CASE WriterStep
    BY <2>3 DEF IInv, Scanning, WriterStep, ScanFree, QueueFullTrue, QueueFullFalse,
       EnqueueOverflows, EnqueueStores, WriterReturns
  <2>4. CASE UNCHANGED writer
    BY <2>4 DEF IInv, Scanning, writer
  <2>5. WriterCall \/ WriterStep \/ UNCHANGED writer
    <3>1. CASE ReaderCall
      BY <3>1 DEF ReaderCall, DequeueCall, DequeuePeekedOverflow, DequeuePeeked,
         DequeueStart, PeekCall, PeekAgain, PeekStart, QueueEmptyCall
    <3>2. CASE ReaderStep
      BY <3>2 DEF ReaderStep, ReadOverflow, HeadOccupied, AcknowledgeDequeue,
         AcknowledgePeek, HeadEmpty, ScanMissing, ScanPresent, ScanComplete,
         TakeMessage, TakePeek, RemoveMessage
    <3>3. CASE Commit \/ UNCHANGED vars
      BY <3>3 DEF Commit, CommitWord, CommitClear, CommitOverflow, CommitAcknowledge, vars
    <3> QED
      BY <3>1, <3>2, <3>3 DEF Next
  <2> QED
    BY <2>2, <2>3, <2>4, <2>5
<1> QED
  BY <1>1, <1>2, SlotStep, RingStep, OverflowStep, ProgressStep, OrderStep DEF IInv

-----------------------------------------------------------------------------
(***************************************************************************)
(* The theorems.  What the comment in Pm_Dequeue assumes of the order of   *)
(* writes is assumed here too.                                             *)
(***************************************************************************)
THEOREM Invariance == ASSUME OverflowInOrder PROVE Spec => []IInv
<1>1. IInv /\ [Next]_vars => IInv'
  BY InvStep
<1> QED
  BY InvInit, <1>1, PTL DEF Spec

\* Pm_Dequeue and Pm_QueuePeek copy a whole message, never words of two.
THEOREM NoTear == ASSUME OverflowInOrder PROVE Spec => []NoTornMessage
<1>1. IInv => NoTornMessage
  <2> SUFFICES ASSUME IInv, rpc = "take" PROVE NoTornMessage
    BY DEF NoTornMessage
  <2>1. \A w \in Word : ReaderSees(head, w) = WriterSees(head, 0)
    BY HeadIsWhole
  <2>2. WriterSees(head, 0) \in Msg
    <3>1. head \in Slot /\ 0 \in Word
      BY WordsAssumption DEF IInv, TypeOK, ReaderType, Word
    <3>2. WriterSees(head, 0) \in 0 .. MaxMsgs
      BY <3>1, SeesType DEF IInv
    <3>3. WriterSees(head, 0) # 0
      BY <3>1, HeadIsWhole
    <3> QED
      BY <3>2, <3>3, MaxMsgsAssumption DEF Msg
  <2> QED
    BY <2>1, <2>2 DEF NoTornMessage
<1> QED
  BY <1>1, Invariance, PTL

\* No store of either thread lands on a word that is still in use.
THEOREM Exclusion == ASSUME OverflowInOrder PROVE Spec => []NoOverwrite
<1>1. IInv => NoOverwrite
  BY DEF IInv, SlotInv, WordInv, NoOverwrite
<1> QED
  BY <1>1, Invariance, PTL

\* Messages come out in order, none twice, and none is missing unless the
\* reader was told of an overflow at its place.
THEOREM OrderedOrReported == ASSUME OverflowInOrder PROVE Spec => LossReported
<1>1. ASSUME IInv, [Next]_vars
      PROVE  lastGot' # lastGot =>
               \/ lastGot' = lastGot + 1
               \/ lastGot' > lastGot /\ lossSeen
  <2>1. CASE DequeuePeeked
    BY <1>1, <2>1 DEF DequeuePeeked, GiveMessage, IInv, OrderInv, Follows
  <2>2. CASE TakeMessage
    <3>1. Occupied(head) /\ ~peek_flag /\ ~peek_overflow
      BY <1>1, <2>2, RemoveRing DEF TakeMessage, RemoveMessage, IInv, ProgressInv
    <3>2. lastGot' = WriterSees(head, 0)
      BY <1>1, <2>2, HeadIsWhole, WordsAssumption
         DEF TakeMessage, GiveMessage, RemoveMessage, Word
    <3> QED
      BY <1>1, <3>1, <3>2 DEF IInv, OrderInv, Follows
  <2>3. CASE UNCHANGED lastGot
    BY <2>3
  <2>4. DequeuePeeked \/ TakeMessage \/ UNCHANGED lastGot
    <3>1. CASE WriterCall \/ WriterStep
      BY <3>1 DEF WriterCall, EnqueueCall, EnqueueRefused, EnqueueStart, QueueFullStart,
         SetOverflow, WriterStep, ScanFree, QueueFullTrue, QueueFullFalse,
         EnqueueOverflows, EnqueueStores, reader, seen
    <3>2. CASE ReaderCall
      BY <3>2 DEF ReaderCall, DequeueCall, DequeuePeekedOverflow, DequeueStart,
         PeekCall, PeekAgain, PeekStart, QueueEmptyCall, ReportOverflow, seen
    <3>3. CASE ReaderStep
      BY <3>3 DEF ReaderStep, ReadOverflow, HeadOccupied, AcknowledgeDequeue,
         AcknowledgePeek, ReportOverflow, ScanMissing, ScanPresent, ScanComplete,
         TakePeek, seen
    <3>4. CASE Commit \/ UNCHANGED vars
      BY <3>4 DEF Commit, CommitWord, CommitClear, CommitOverflow, CommitAcknowledge,
         vars, reader, seen
    <3> QED
      BY <1>1, <3>1, <3>2, <3>3, <3>4 DEF Next
  <2> QED
    BY <2>1, <2>2, <2>3, <2>4
<1>2. IInv /\ [Next]_vars =>
        [lastGot' # lastGot =>
           \/ lastGot' = lastGot + 1
           \/ lastGot' > lastGot /\ lossSeen]_vars
  BY <1>1
<1> QED
  BY <1>2, Invariance, PTL DEF Spec, LossReported

-----------------------------------------------------------------------------
(***************************************************************************)
(* Sequences of messages and loss marks.                                   *)
(***************************************************************************)
Items == Seq(Nat)
Cat(s, t) == s \o t

\* What the reader has still to receive, bracketed so that the oldest part can
\* be taken off.
Chain(a, b, r, d) == Cat(a, Cat(b, Cat(r, d)))

LEMMA CatFacts ==
    /\ << >> \in Items
    /\ \A x \in Nat : <<x>> \in Items
    /\ \A s \in Items, t \in Items : Cat(s, t) \in Items
    /\ \A s \in Items : Cat(s, << >>) = s /\ Cat(<< >>, s) = s
    /\ \A s \in Items, t \in Items, u \in Items : Cat(Cat(s, t), u) = Cat(s, Cat(t, u))
    /\ \A s \in Items, x \in Nat : Append(s, x) = Cat(s, <<x>>)
<1>1. << >> \in Items /\ \A x \in Nat : <<x>> \in Items
  BY DEF Items
<1>2. \A s \in Items, t \in Items : Cat(s, t) \in Items
  BY ConcatProperties DEF Items, Cat
<1>3. \A s \in Items : Cat(s, << >>) = s /\ Cat(<< >>, s) = s
  BY ConcatEmptySeq DEF Items, Cat
<1>4. ASSUME NEW s \in Items, NEW t \in Items, NEW u \in Items
      PROVE  Cat(Cat(s, t), u) = Cat(s, Cat(t, u))
  BY ConcatAssociative DEF Items, Cat
<1>5. \A s \in Items, x \in Nat : Append(s, x) = Cat(s, <<x>>)
  BY AppendIsConcat DEF Items, Cat
<1> QED
  BY <1>1, <1>2, <1>3, <1>4, <1>5

LEMMA TailOfOne ==
    ASSUME NEW s \in Items, NEW x \in Nat
    PROVE  Cat(<<x>>, s) # << >> /\ Tail(Cat(<<x>>, s)) = s
<1> DEFINE c == Cat(<<x>>, s)
<1>1. <<x>> \in Seq(Nat) /\ Len(<<x>>) = 1 /\ s \in Seq(Nat)
  BY DEF Items
<1>2. /\ c \in Seq(Nat) /\ Len(c) = 1 + Len(s)
      /\ \A k \in 1 .. 1 + Len(s) : c[k] = IF k <= 1 THEN <<x>>[k] ELSE s[k - 1]
  BY <1>1, ConcatProperties DEF Cat
<1> HIDE DEF c
<1>0. Len(s) \in Nat
  BY <1>1, LenProperties
<1>3. c # << >>
  BY <1>0, <1>2
<1>4. /\ Tail(c) \in Seq(Nat) /\ Len(Tail(c)) = Len(s)
      /\ \A k \in 1 .. Len(s) : Tail(c)[k] = c[k + 1]
  BY <1>0, <1>2, <1>3, HeadTailProperties
<1>5. \A k \in 1 .. Len(s) : Tail(c)[k] = s[k]
  BY <1>0, <1>2, <1>4
<1>6. Tail(c) = s
  BY <1>1, <1>4, <1>5, SeqEqual
<1> QED
  BY <1>3, <1>6 DEF c

\* The last piece of a chain that had none.
LEMMA ChainEnds ==
    ASSUME NEW a \in Items, NEW b \in Items, NEW r \in Items, NEW x \in Nat
    PROVE  /\ Chain(a, b, r, <<x>>) = Append(Chain(a, b, r, << >>), x)
           /\ Chain(a, b, Append(r, x), << >>) = Append(Chain(a, b, r, << >>), x)
<1>1. PICK o \in Items : o = <<x>>
  BY CatFacts
<1>2. Append(r, x) = Cat(r, o) /\ Cat(r, o) \in Items
  BY <1>1, CatFacts
<1>3. Chain(a, b, r, << >>) = Cat(a, Cat(b, r)) /\ Chain(a, b, Cat(r, o), << >>) = Cat(a, Cat(b, Cat(r, o)))
  BY <1>2, CatFacts DEF Chain
<1>4. Cat(b, r) \in Items /\ Cat(a, Cat(b, r)) \in Items
  BY CatFacts
<1>5. Cat(a, Cat(b, Cat(r, o))) = Cat(Cat(a, Cat(b, r)), o)
  BY <1>4, CatFacts
<1>6. Append(Cat(a, Cat(b, r)), x) = Cat(Cat(a, Cat(b, r)), o)
  BY <1>1, <1>4, CatFacts
<1> QED
  BY <1>1, <1>2, <1>3, <1>5, <1>6 DEF Chain

\* The first pieces of a chain.
LEMMA ChainStarts ==
    ASSUME NEW b \in Items, NEW r \in Items, NEW d \in Items, NEW x \in Nat
    PROVE  Chain(<<x>>, b, r, d) # << >> /\ Tail(Chain(<<x>>, b, r, d)) = Chain(<< >>, b, r, d)
<1>1. Cat(r, d) \in Items /\ Cat(b, Cat(r, d)) \in Items
  BY CatFacts
<1>2. Chain(<< >>, b, r, d) = Cat(b, Cat(r, d))
  BY <1>1, CatFacts DEF Chain
<1> QED
  BY <1>1, <1>2, TailOfOne DEF Chain

LEMMA ChainStartsSecond ==
    ASSUME NEW r \in Items, NEW d \in Items, NEW x \in Nat
    PROVE  /\ Chain(<< >>, <<x>>, r, d) # << >>
           /\ Tail(Chain(<< >>, <<x>>, r, d)) = Chain(<< >>, << >>, r, d)
<1>1. Cat(r, d) \in Items /\ Cat(<<x>>, Cat(r, d)) \in Items
  BY CatFacts
<1>2. /\ Chain(<< >>, << >>, r, d) = Cat(r, d)
      /\ Chain(<< >>, <<x>>, r, d) = Cat(<<x>>, Cat(r, d))
  BY <1>1, CatFacts DEF Chain
<1> QED
  BY <1>1, <1>2, TailOfOne DEF Chain

\* The oldest message of the ring comes after a peeked message.
LEMMA ChainMoves ==
    ASSUME NEW a \in Items, NEW r \in Items, NEW d \in Items, NEW x \in Nat
    PROVE  Chain(a, << >>, Cat(<<x>>, r), d) = Chain(a, <<x>>, r, d)
<1>1. <<x>> \in Items /\ Cat(<<x>>, r) \in Items /\ Cat(Cat(<<x>>, r), d) \in Items
  BY CatFacts
<1>2. Cat(Cat(<<x>>, r), d) = Cat(<<x>>, Cat(r, d))
  BY <1>1, CatFacts
<1> QED
  BY <1>1, <1>2, CatFacts DEF Chain

-----------------------------------------------------------------------------
(***************************************************************************)
(* The ring holds consecutive messages.                                    *)
(***************************************************************************)
\* n messages from m on.
Run(m, n) == [k \in 1 .. n |-> m + k - 1]

LEMMA RunIs ==
    ASSUME NEW m \in Nat, NEW n \in Nat
    PROVE  Run(m, n) \in Seq(Nat) /\ Len(Run(m, n)) = n /\ \A k \in 1 .. n : Run(m, n)[k] = m + k - 1
BY DEF Run

\* A sequence with the elements of a run is that run.
LEMMA RunEqual ==
    ASSUME NEW m \in Nat, NEW n \in Nat, NEW s \in Seq(Nat), Len(s) = n,
           \A k \in 1 .. n : s[k] = m + k - 1
    PROVE  Run(m, n) = s
<1> DEFINE t == Run(m, n)
<1>1. t \in Seq(Nat) /\ Len(t) = n /\ \A k \in 1 .. n : t[k] = m + k - 1
  BY RunIs
<1> HIDE DEF t
<1>2. Len(t) = Len(s) /\ \A k \in 1 .. Len(t) : t[k] = s[k]
  BY <1>1
<1>3. t = s
  BY <1>1, <1>2, SeqEqual
<1> QED
  BY <1>3 DEF t

LEMMA RunFacts ==
    ASSUME NEW m \in Nat, NEW n \in Nat
    PROVE  /\ Run(m, n) \in Items
           /\ Run(m, n + 1) = Append(Run(m, n), m + n)
           /\ Run(m, n + 1) = Cat(<<m>>, Run(m + 1, n))
           /\ Run(m, 0) = << >>
<1>1. Run(m, n) \in Items
  BY RunIs DEF Items
<1>2. Run(m, 0) = << >>
  <2> DEFINE t == Run(m, 0)
  <2>1. t \in Seq(Nat) /\ Len(t) = 0
    BY RunIs
  <2> HIDE DEF t
  <2>2. t = << >>
    BY <2>1, EmptySeq
  <2> QED
    BY <2>2 DEF t
<1>3. Run(m, n + 1) = Append(Run(m, n), m + n)
  <2> DEFINE s == Run(m, n)
             u == Append(s, m + n)
  <2>1. s \in Seq(Nat) /\ Len(s) = n /\ \A k \in 1 .. n : s[k] = m + k - 1
    BY RunIs
  <2> HIDE DEF s
  <2>2. u \in Seq(Nat) /\ Len(u) = n + 1 /\ (\A k \in 1 .. n : u[k] = s[k]) /\ u[n + 1] = m + n
    <3>1. m + n \in Nat
      OBVIOUS
    <3> QED
      BY <2>1, <3>1, AppendProperties
  <2> HIDE DEF u
  <2>3. \A k \in 1 .. n + 1 : u[k] = m + k - 1
    <3> TAKE k \in 1 .. n + 1
    <3> QED
      BY <2>1, <2>2
  <2>4. Run(m, n + 1) = u
    BY <2>2, <2>3, RunEqual
  <2> QED
    BY <2>4 DEF s, u
<1>4. Run(m, n + 1) = Cat(<<m>>, Run(m + 1, n))
  <2> DEFINE s == Run(m + 1, n)
             u == Cat(<<m>>, s)
  <2>1. s \in Seq(Nat) /\ Len(s) = n /\ \A k \in 1 .. n : s[k] = m + 1 + k - 1
    BY RunIs
  <2> HIDE DEF s
  <2>2. <<m>> \in Seq(Nat) /\ Len(<<m>>) = 1 /\ <<m>>[1] = m
    OBVIOUS
  <2>3. u \in Seq(Nat) /\ Len(u) = 1 + n /\ \A k \in 1 .. 1 + n : u[k] = IF k <= 1 THEN <<m>>[k] ELSE s[k - 1]
    BY <2>1, <2>2, ConcatProperties DEF Cat
  <2> HIDE DEF u
  <2>4. \A k \in 1 .. n + 1 : u[k] = m + k - 1
    <3> TAKE k \in 1 .. n + 1
    <3>1. CASE k = 1
      BY <2>2, <2>3, <3>1
    <3>2. CASE k # 1
      BY <2>1, <2>3, <3>2
    <3> QED
      BY <3>1, <3>2
  <2>5. Run(m, n + 1) = u
    BY <2>3, <2>4, RunEqual
  <2> QED
    BY <2>5 DEF s, u
<1> QED
  BY <1>1, <1>2, <1>3, <1>4

\* Runs of no message and of one.
LEMMA RunShort ==
    ASSUME NEW m \in Nat
    PROVE  Run(m, 0) = << >> /\ Run(m, 1) = Append(<< >>, m) /\ Run(m, 1) = Cat(<<m>>, << >>)
<1>1. <<m>> \in Seq(Nat) /\ Len(<<m>>) = 1 /\ <<m>>[1] = m
  OBVIOUS
<1>2. Run(m, 1) = <<m>>
  <2> DEFINE o == <<m>>
  <2>1. o \in Seq(Nat) /\ Len(o) = 1 /\ o[1] = m
    BY <1>1
  <2> HIDE DEF o
  <2>2. \A k \in 1 .. 1 : o[k] = m + k - 1
    BY <2>1
  <2>3. Run(m, 1) = o
    BY <2>1, <2>2, RunEqual
  <2> QED
    BY <2>3 DEF o
<1>3. Append(<< >>, m) = Cat(<< >>, <<m>>)
  BY CatFacts
<1>4. Cat(<< >>, <<m>>) = <<m>> /\ Cat(<<m>>, << >>) = <<m>>
  BY CatFacts
<1> QED
  BY <1>2, <1>3, <1>4, RunFacts

\* The messages in the ring, and the oldest of them.
Ring == [k \in 1 .. Count |-> WriterSees(SlotAt(k - 1), 0)]
First == WriterSees(head, 0)

LEMMA RingTypes ==
    IInv => /\ head \in Slot /\ tail \in Slot /\ Slots \in Nat \ {0} /\ Slot = 0 .. Slots - 1
            /\ offered \in Nat /\ peek \in Nat /\ First \in Nat
<1> SUFFICES ASSUME IInv
             PROVE  /\ head \in Slot /\ tail \in Slot /\ Slots \in Nat \ {0} /\ Slot = 0 .. Slots - 1
                    /\ offered \in Nat /\ peek \in Nat /\ First \in Nat
  OBVIOUS
<1>1. 0 \in Word
  BY WordsAssumption DEF Word
<1>2. head \in Slot /\ tail \in Slot /\ offered \in Nat /\ peek \in Nat
  BY MaxMsgsAssumption DEF IInv, TypeOK, WriterType, ReaderType
<1>3. First \in Nat
  BY <1>1, <1>2, SeesType, MaxMsgsAssumption DEF IInv, First
<1> QED
  BY <1>2, <1>3, SlotsAssumption DEF Slot

LEMMA CountIs ==
    IInv => /\ Count = IF Occupied(head) THEN Length ELSE 0
            /\ Length \in 1 .. Slots /\ First \in Nat
<1> SUFFICES ASSUME IInv
             PROVE  /\ Count = IF Occupied(head) THEN Length ELSE 0
                    /\ Length \in 1 .. Slots /\ First \in Nat
  OBVIOUS
<1>1. RingInv
  BY DEF IInv
<1>2. head # tail => Occupied(head)
  BY <1>1, RingTypes DEF RingInv, Dist
<1> QED
  BY <1>2, RingTypes DEF Count, Length, Dist

LEMMA RingIsRun == IInv => Ring = Run(First, Count)
<1> SUFFICES ASSUME IInv PROVE Ring = Run(First, Count)
  OBVIOUS
<1>1. ASSUME NEW k \in 1 .. Count
      PROVE  WriterSees(SlotAt(k - 1), 0) = First + k - 1
  <2>1. Occupied(head) /\ Count = Length /\ Length \in 1 .. Slots
    BY <1>1, CountIs
  <2>2. PICK s \in Slot : s = SlotAt(k - 1) /\ Dist(s) = k - 1
    BY <1>1, <2>1, RingTypes DEF SlotAt, Dist
  <2>3. Occupied(s)
    BY <1>1, <2>1, <2>2, RingTypes DEF IInv, RingInv, Length
  <2>4. WriterSees(s, 0) = First + Dist(s)
    BY <2>3 DEF IInv, RingInv, First
  <2> QED
    BY <2>2, <2>4, RingTypes
<1> QED
  BY <1>1 DEF Ring, Run

\* The same facts of the state after a step.
LEMMA RingAfter ==
    ASSUME IInv'
    PROVE  /\ Ring' = Run(First', Count')
           /\ Count' = IF Occupied(head)' THEN Length' ELSE 0
           /\ First' \in Nat /\ Length' \in 1 .. Slots
<1>1. (IInv => Ring = Run(First, Count))'
  BY RingIsRun, PTL
<1>2. (IInv => /\ Count = IF Occupied(head) THEN Length ELSE 0
               /\ Length \in 1 .. Slots /\ First \in Nat)'
  BY CountIs, PTL
<1> QED
  BY <1>1, <1>2

LEMMA RingEnqueue ==
    ASSUME IInv, IInv', EnqueueStores
    PROVE  Ring' = Append(Ring, offered)
<1>0. PICK h \in Slot, t \in Slot : h = head /\ t = tail
  BY RingTypes
<1>1. Ring = Run(First, Count) /\ (Count = IF Occupied(h) THEN Length ELSE 0) /\ Length \in 1 .. Slots
  BY <1>0, RingIsRun, CountIs
<1>2. /\ head' = h /\ tail' = NextSlot(t) /\ ~Occupied(t)
      /\ \A s \in Slot : /\ Occupied(s)' <=> Occupied(s) \/ s = t
                         /\ WriterSees(s, 0)' = IF s = t THEN offered ELSE WriterSees(s, 0)
  BY <1>0, EnqueueRing DEF EnqueueStores
<1>3. h # t => Occupied(h)
  BY <1>0, RingTypes DEF IInv, RingInv, Dist
<1>4. First' = (IF h = t THEN offered ELSE First) /\ (Occupied(head)' <=> Occupied(h)')
  BY <1>0, <1>2 DEF First, Occupied, WriterSees
<1>5. Occupied(h)'
  BY <1>2, <1>3
<1>6. Ring' = Run(First', Length')
  BY <1>4, <1>5, RingAfter
<1>7. CASE h # t
  <2>1. Length' = Length + 1
    BY <1>0, <1>2, <1>7, RingTypes DEF Length, Dist, NextSlot
  <2>2. offered = First + Length
    <3>1. \A s \in Slot : Occupied(s)' => WriterSees(s, 0)' = First' + Dist(s)'
      BY DEF IInv, RingInv, First
    <3>2. Dist(t)' = Length
      BY <1>0, <1>2, <1>7, RingTypes DEF Length, Dist
    <3>3. Occupied(t)' /\ WriterSees(t, 0)' = offered
      BY <1>2
    <3> QED
      BY <1>4, <1>7, <3>1, <3>2, <3>3
  <2>3. Run(First, Length + 1) = Append(Run(First, Length), First + Length)
    <3>1. PICK k \in Nat : k = Length
      BY <1>1, RingTypes
    <3>2. Run(First, k + 1) = Append(Run(First, k), First + k)
      BY RunFacts, RingTypes
    <3> QED
      BY <3>1, <3>2
  <2> QED
    BY <1>1, <1>3, <1>4, <1>6, <1>7, <2>1, <2>2, <2>3
<1>8. CASE h = t
  <2>1. Length' = 1
    BY <1>0, <1>2, <1>8, RingTypes DEF Length, Dist, NextSlot
  <2>2. Ring' = Run(offered, 1)
    BY <1>4, <1>6, <1>8, <2>1
  <2>3. Ring = Run(First, 0)
    BY <1>1, <1>2, <1>8
  <2> QED
    BY <2>2, <2>3, RunShort, RingTypes
<1> QED
  BY <1>7, <1>8

LEMMA RingRemove ==
    ASSUME IInv, IInv', RemoveMessage
    PROVE  Ring = Cat(<<First>>, Ring')
<1>0. PICK h \in Slot, t \in Slot : h = head /\ t = tail
  BY RingTypes
<1>1. PICK n \in Slot : n = NextSlot(h) /\ n = head'
  BY <1>0, NextSlotType DEF RemoveMessage
<1>2. /\ Occupied(h) /\ tail' = t
      /\ \A s \in Slot : /\ Occupied(s)' <=> Occupied(s) /\ s # h
                         /\ WriterSees(s, 0)' = WriterSees(s, 0)
  BY <1>0, RemoveRing
<1>3. Ring = Run(First, Length) /\ Length \in 1 .. Slots
  BY <1>0, <1>2, RingIsRun, CountIs
<1>4. First' = WriterSees(n, 0) /\ (Occupied(head)' <=> Occupied(n) /\ n # h)
  BY <1>1, <1>2 DEF First, Occupied, WriterSees
<1>5. CASE n = t
  <2>1. Length = 1
    BY <1>0, <1>1, <1>5, RingTypes DEF Length, Dist, NextSlot
  <2>2. ~(Occupied(n) /\ n # h)
    BY <1>0, <1>5, RingTypes DEF IInv, RingInv, Dist
  <2>3. Ring' = << >>
    <3>1. Ring' = Run(First', 0) /\ First' \in Nat
      BY <1>4, <2>2, RingAfter
    <3> QED
      BY <3>1, RunShort
  <2>4. Run(First, 1) = Cat(<<First>>, << >>)
    BY RunShort, RingTypes
  <2> QED
    BY <1>3, <2>1, <2>3, <2>4
<1>6. CASE n # t
  <2>1. n # h /\ Length > 1
    BY <1>0, <1>1, <1>6, RingTypes DEF Length, Dist, NextSlot
  <2>2. Dist(n) = 1
    BY <1>0, <1>1, <2>1, RingTypes DEF Dist, NextSlot
  <2>3. Occupied(n)
    BY <1>0, <1>2, <2>1, <2>2 DEF IInv, RingInv, Length
  <2>4. First' = First + 1
    BY <1>4, <2>2, <2>3 DEF IInv, RingInv, First
  <2>5. Length' = Length - 1
    BY <1>0, <1>1, <1>2, <1>6, <2>1, RingTypes DEF Length, Dist, NextSlot
  <2>6. Ring' = Run(First + 1, Length - 1)
    BY <1>4, <2>1, <2>3, <2>4, <2>5, RingAfter
  <2>7. PICK k \in Nat : k = Length - 1
    BY <1>3
  <2>8. Run(First, k + 1) = Cat(<<First>>, Run(First + 1, k))
    BY RunFacts, RingTypes
  <2> QED
    BY <1>3, <2>6, <2>7, <2>8
<1> QED
  BY <1>5, <1>6

\* Nothing else changes what is in the ring.
LEMMA RingStays ==
    ASSUME IInv, IInv', [Next]_vars
    PROVE  EnqueueStores \/ TakeMessage \/ TakePeek \/ Ring' = Ring
<1> SUFFICES ASSUME UNCHANGED <<head, tail>>, Occupied(head)' <=> Occupied(head),
                    Occupied(head) => WriterSees(head, 0)' = WriterSees(head, 0), Length' = Length
             PROVE  Ring' = Ring
  BY HeadStays
<1>1. Count' = Count /\ Ring = Run(First, Count) /\ Ring' = Run(First', Count')
  BY RingIsRun, RingAfter, CountIs
<1>2. CASE Occupied(head)
  BY <1>1, <1>2 DEF First
<1>3. CASE ~Occupied(head)
  BY <1>1, <1>3, CountIs, RingAfter, RunShort
<1> QED
  BY <1>2, <1>3

\* A ring whose head slot is free is empty.
LEMMA RingEmpty == IInv => (~Occupied(head) => Ring = << >>)
<1> SUFFICES ASSUME IInv, ~Occupied(head) PROVE Ring = << >>
  OBVIOUS
<1>1. PICK m \in Nat : m = First
  BY RingTypes
<1>2. Ring = Run(m, 0)
  BY <1>1, RingIsRun, CountIs
<1> QED
  BY <1>2, RunShort

LEMMA RingEmptyAfter == ASSUME IInv' PROVE ~Occupied(head)' => Ring' = << >>
<1>1. (IInv => (~Occupied(head) => Ring = << >>))'
  BY RingEmpty, PTL
<1> QED
  BY <1>1

-----------------------------------------------------------------------------
(***************************************************************************)
(* The pieces of Pending.                                                  *)
(***************************************************************************)
Piece(present, item) == IF present THEN <<item>> ELSE << >>

LEMMA PieceIs ==
    \A x \in Nat : /\ Piece(TRUE, x) = <<x>> /\ Piece(FALSE, x) = << >>
                   /\ \A present \in BOOLEAN : Piece(present, x) \in Items
BY CatFacts DEF Piece

PendingInv ==
    /\ Pending = Chain(Piece(peek_overflow, Loss), Piece(peek_flag, peek), Ring, Piece(OverflowSet, Loss))
    /\ Ring \in Items /\ peek \in Nat /\ peek_overflow \in BOOLEAN /\ peek_flag \in BOOLEAN

LEMMA PendingIs == IInv => PendingInv
<1> SUFFICES ASSUME IInv PROVE PendingInv
  OBVIOUS
<1> DEFINE a == Piece(peek_overflow, Loss)
           b == Piece(peek_flag, peek)
           d == Piece(OverflowSet, Loss)
<1>1. Ring \in Items
  <2>1. PICK m \in Nat, k \in Nat : m = First /\ k = Count
    BY CountIs, RingTypes
  <2>2. Run(m, k) \in Items
    BY RunFacts
  <2> QED
    BY <2>1, <2>2, RingIsRun
<1>2. peek \in Nat /\ peek_overflow \in BOOLEAN /\ peek_flag \in BOOLEAN /\ OverflowSet \in BOOLEAN
  BY RingTypes DEF IInv, TypeOK, ReaderType, OverflowSet
<1>3. a \in Items /\ b \in Items /\ d \in Items
  BY <1>2, PieceIs DEF Loss
<1>4. Pending = Cat(Cat(Cat(a, b), Ring), d)
  BY DEF Pending, Piece, Ring, Cat
<1> HIDE DEF a, b, d
<1>5. Cat(Ring, d) \in Items /\ Cat(a, b) \in Items
  BY <1>1, <1>3, CatFacts
<1>6. Cat(Cat(Cat(a, b), Ring), d) = Cat(Cat(a, b), Cat(Ring, d))
  BY <1>1, <1>3, <1>5, CatFacts
<1>7. Cat(Cat(a, b), Cat(Ring, d)) = Chain(a, b, Ring, d)
  BY <1>1, <1>3, <1>5, CatFacts DEF Chain
<1> QED
  BY <1>1, <1>2, <1>4, <1>6, <1>7 DEF PendingInv, a, b, d

LEMMA PendingAfter ==
    ASSUME IInv'
    PROVE  PendingInv'
<1>1. (IInv => PendingInv)'
  BY PendingIs, PTL
<1> QED
  BY <1>1

\* A step that changes none of the pieces.
LEMMA PendingStays ==
    ASSUME IInv, IInv', UNCHANGED peeks, Ring' = Ring, OverflowSet' <=> OverflowSet
    PROVE  Pending' = Pending
<1>1. PendingInv /\ PendingInv'
  BY PendingIs, PendingAfter
<1>2. Piece(OverflowSet, Loss)' = Piece(OverflowSet, Loss)
  BY DEF Piece, Loss
<1> QED
  BY <1>1, <1>2 DEF PendingInv, peeks, Piece, Loss

\* An overflow is set.
LEMMA PendingMarked ==
    ASSUME IInv, IInv', UNCHANGED peeks, Ring' = Ring, ~OverflowSet, OverflowSet'
    PROVE  Pending' = Append(Pending, Loss)
<1>1. PendingInv /\ PendingInv'
  BY PendingIs, PendingAfter
<1>2. PICK a \in Items, b \in Items, r \in Items :
         a = Piece(peek_overflow, Loss) /\ b = Piece(peek_flag, peek) /\ r = Ring
  BY <1>1, PieceIs DEF PendingInv, Loss
<1>3. PICK x \in Nat : x = Loss
  BY DEF Loss
<1>4. Pending = Chain(a, b, r, << >>)
  BY <1>1, <1>2 DEF PendingInv, Piece
<1>5. Pending' = Chain(a, b, r, <<x>>)
  BY <1>1, <1>2, <1>3 DEF PendingInv, Piece, peeks, Loss
<1>6. Chain(a, b, r, <<x>>) = Append(Chain(a, b, r, << >>), x)
  BY ChainEnds
<1> QED
  BY <1>3, <1>4, <1>5, <1>6

\* A message is stored.
LEMMA PendingStored ==
    ASSUME IInv, IInv', UNCHANGED peeks, ~OverflowSet, ~OverflowSet',
           NEW m \in Nat, Ring' = Append(Ring, m)
    PROVE  Pending' = Append(Pending, m)
<1>1. PendingInv /\ PendingInv'
  BY PendingIs, PendingAfter
<1>2. PICK a \in Items, b \in Items, r \in Items :
         a = Piece(peek_overflow, Loss) /\ b = Piece(peek_flag, peek) /\ r = Ring
  BY <1>1, PieceIs DEF PendingInv, Loss
<1>3. Pending = Chain(a, b, r, << >>)
  BY <1>1, <1>2 DEF PendingInv, Piece
<1>4. Pending' = Chain(a, b, Append(r, m), << >>)
  BY <1>1, <1>2 DEF PendingInv, Piece, peeks, Loss
<1>5. Chain(a, b, Append(r, m), << >>) = Append(Chain(a, b, r, << >>), m)
  BY ChainEnds
<1> QED
  BY <1>3, <1>4, <1>5

\* The reader is told of the overflow that a peek met.
LEMMA PendingReported ==
    ASSUME IInv, IInv', peek_overflow, ~peek_overflow', UNCHANGED <<peek_flag, peek>>,
           Ring' = Ring, OverflowSet' <=> OverflowSet
    PROVE  Pending # << >> /\ Pending' = Tail(Pending)
<1>1. PendingInv /\ PendingInv'
  BY PendingIs, PendingAfter
<1>2. PICK b \in Items, r \in Items, d \in Items :
         b = Piece(peek_flag, peek) /\ r = Ring /\ d = Piece(OverflowSet, Loss)
  BY <1>1, PieceIs DEF PendingInv, Loss, OverflowSet
<1>3. PICK x \in Nat : x = Loss
  BY DEF Loss
<1>4. Pending = Chain(<<x>>, b, r, d)
  BY <1>1, <1>2, <1>3 DEF PendingInv, Piece
<1>5. Pending' = Chain(<< >>, b, r, d)
  BY <1>1, <1>2, <1>3 DEF PendingInv, Piece, Loss
<1> QED
  BY <1>4, <1>5, ChainStarts

\* The reader is given the message that a peek had taken from the ring.
LEMMA PendingPeekGiven ==
    ASSUME IInv, IInv', ~peek_overflow, ~peek_overflow', peek_flag, ~peek_flag',
           Ring' = Ring, OverflowSet' <=> OverflowSet
    PROVE  Pending # << >> /\ Pending' = Tail(Pending)
<1>1. PendingInv /\ PendingInv'
  BY PendingIs, PendingAfter
<1>2. PICK r \in Items, d \in Items : r = Ring /\ d = Piece(OverflowSet, Loss)
  BY <1>1, PieceIs DEF PendingInv, Loss, OverflowSet
<1>3. PICK x \in Nat : x = peek
  BY <1>1 DEF PendingInv
<1>4. Pending = Chain(<< >>, <<x>>, r, d)
  BY <1>1, <1>2, <1>3 DEF PendingInv, Piece
<1>5. Pending' = Chain(<< >>, << >>, r, d)
  BY <1>1, <1>2, <1>3 DEF PendingInv, Piece, Loss
<1> QED
  BY <1>4, <1>5, ChainStartsSecond

\* The reader is given the oldest message of the ring.
LEMMA PendingTaken ==
    ASSUME IInv, IInv', ~peek_overflow, ~peek_flag, UNCHANGED peeks,
           Ring = Cat(<<First>>, Ring'), OverflowSet' <=> OverflowSet
    PROVE  Pending # << >> /\ Pending' = Tail(Pending)
<1>1. PendingInv /\ PendingInv'
  BY PendingIs, PendingAfter
<1>2. PICK r \in Items, d \in Items : r = Ring' /\ d = Piece(OverflowSet, Loss)
  BY <1>1, PieceIs DEF PendingInv, Loss, OverflowSet
<1>3. PICK x \in Nat : x = First
  BY RingTypes
<1>4. Pending = Chain(<< >>, << >>, Cat(<<x>>, r), d)
  BY <1>1, <1>2, <1>3 DEF PendingInv, Piece
<1>5. Pending' = Chain(<< >>, << >>, r, d)
  BY <1>1, <1>2, <1>3 DEF PendingInv, Piece, Loss, peeks
<1>6. << >> \in Items
  BY CatFacts
<1>7. Chain(<< >>, << >>, Cat(<<x>>, r), d) = Chain(<< >>, <<x>>, r, d)
  BY <1>6, ChainMoves
<1> QED
  BY <1>4, <1>5, <1>7, ChainStartsSecond

\* A peek moves the oldest message of the ring to the peek buffer.
LEMMA PendingPeeked ==
    ASSUME IInv, IInv', UNCHANGED peek_overflow, ~peek_flag, peek_flag', peek' = First,
           Ring = Cat(<<First>>, Ring'), OverflowSet' <=> OverflowSet
    PROVE  Pending' = Pending
<1>1. PendingInv /\ PendingInv'
  BY PendingIs, PendingAfter
<1>2. PICK a \in Items, r \in Items, d \in Items :
         a = Piece(peek_overflow, Loss) /\ r = Ring' /\ d = Piece(OverflowSet, Loss)
  BY <1>1, PieceIs DEF PendingInv, Loss, OverflowSet
<1>3. PICK x \in Nat : x = First
  BY RingTypes
<1>4. Pending = Chain(a, << >>, Cat(<<x>>, r), d)
  BY <1>1, <1>2, <1>3 DEF PendingInv, Piece
<1>5. Pending' = Chain(a, <<x>>, r, d)
  BY <1>1, <1>2, <1>3 DEF PendingInv, Piece, Loss
<1>6. Chain(a, << >>, Cat(<<x>>, r), d) = Chain(a, <<x>>, r, d)
  BY ChainMoves
<1> QED
  BY <1>4, <1>5, <1>6

\* What is pending when the reader acknowledges an overflow: nothing comes
\* before it but an overflow that an earlier peek met.
LEMMA ChainOfLosses ==
    ASSUME NEW x \in Nat
    PROVE  /\ Chain(<< >>, << >>, << >>, << >>) = << >>
           /\ Chain(<< >>, << >>, << >>, <<x>>) = <<x>>
           /\ Chain(<<x>>, << >>, << >>, << >>) = <<x>>
           /\ Chain(<<x>>, << >>, << >>, <<x>>) = Cat(<<x>>, <<x>>)
<1>1. << >> \in Items /\ <<x>> \in Items /\ Cat(<<x>>, <<x>>) \in Items
  BY CatFacts
<1> QED
  BY <1>1, CatFacts DEF Chain

LEMMA PendingAcknowledged ==
    ASSUME IInv, IInv', ~peek_flag, ~peek_flag', Ring = << >>, Ring' = << >>,
           OverflowSet, ~OverflowSet'
    PROVE  /\ ~peek_overflow => Pending = <<Loss>>
           /\ peek_overflow => Pending = Cat(<<Loss>>, <<Loss>>)
           /\ ~peek_overflow' => Pending' = << >>
           /\ peek_overflow' => Pending' = <<Loss>>
<1>1. PendingInv /\ PendingInv'
  BY PendingIs, PendingAfter
<1>2. PICK x \in Nat : x = Loss
  BY DEF Loss
<1>3. ~peek_overflow => Pending = Chain(<< >>, << >>, << >>, <<x>>)
  BY <1>1, <1>2 DEF PendingInv, Piece
<1>4. peek_overflow => Pending = Chain(<<x>>, << >>, << >>, <<x>>)
  BY <1>1, <1>2 DEF PendingInv, Piece
<1>5. ~peek_overflow' => Pending' = Chain(<< >>, << >>, << >>, << >>)
  BY <1>1 DEF PendingInv, Piece
<1>6. peek_overflow' => Pending' = Chain(<<x>>, << >>, << >>, << >>)
  BY <1>1, <1>2 DEF PendingInv, Piece, Loss
<1> QED
  BY <1>2, <1>3, <1>4, <1>5, <1>6, ChainOfLosses

-----------------------------------------------------------------------------
(***************************************************************************)
(* Every step of the queue is one of the abstract queue, or none.          *)
(***************************************************************************)
AbstractStep == [Abstract!Next]_(Abstract!svars)

\* A step that moves no message and sets or acknowledges no overflow.
LEMMA Quiet ==
    ASSUME IInv, IInv', [Next]_vars, ~EnqueueStores, ~TakeMessage, ~TakePeek,
           UNCHANGED peeks, OverflowSet' <=> OverflowSet
    PROVE  Pending' = Pending
BY RingStays, PendingStays

\* The calls of the writer.
LEMMA WriterCallStep == ASSUME IInv, IInv', [Next]_vars, WriterCall PROVE AbstractStep
<1>1. wpc = "idle" /\ UNCHANGED <<peeks, rpc, overflow, rover>>
  BY DEF WriterCall, EnqueueCall, EnqueueRefused, EnqueueStart, QueueFullStart, SetOverflow,
     StoreOverflow, shared, reader, stores
<1>2. ~EnqueueStores /\ ~TakeMessage /\ ~TakePeek
  BY <1>1 DEF EnqueueStores, ScanDone, TakeMessage, TakePeek, RemoveMessage, GiveMessage, ReaderReturns
<1>3. offered \in Nat /\ tail \in Nat /\ OverflowInv
  BY RingTypes DEF IInv
<1>4. CASE EnqueueRefused
  <2>1. Pending' = Pending
    BY <1>1, <1>2, <1>4, Quiet DEF EnqueueRefused, stores, OverflowSet, WriterOverflow
  <2>2. marked /\ marked' /\ Offered' = Offered + 1
    BY <1>1, <1>3, <1>4 DEF EnqueueRefused, WriterReturns, OverflowInv, Offered
  <2> QED
    BY <2>1, <2>2 DEF AbstractStep, Abstract!Next, Abstract!Drop, Abstract!Mark
<1>5. CASE EnqueueStart \/ QueueFullStart
  <2>1. Pending' = Pending
    BY <1>1, <1>2, <1>5, Quiet DEF EnqueueStart, QueueFullStart, stores, OverflowSet, WriterOverflow
  <2>2. UNCHANGED marked /\ Offered' = Offered
    BY <1>1, <1>3, <1>5 DEF EnqueueStart, QueueFullStart, WriterScans, Offered
  <2> QED
    BY <2>1, <2>2 DEF AbstractStep, Abstract!svars
<1>6. CASE SetOverflow /\ WriterOverflow = 0
  <2>1. wover' = tail + 1 /\ marked' /\ wpc' = "idle" /\ UNCHANGED offered
    BY <1>6 DEF SetOverflow, StoreOverflow, WriterReturns
  <2>2. ~OverflowSet /\ OverflowSet'
    BY <1>1, <1>3, <1>6, <2>1 DEF OverflowInv, OverflowSet, WriterOverflow
  <2>3. Pending' = Append(Pending, Loss)
    BY <1>1, <1>2, <2>2, RingStays, PendingMarked
  <2>4. Offered' = Offered
    BY <1>1, <2>1 DEF Offered
  <2> QED
    BY <2>1, <2>3, <2>4 DEF AbstractStep, Abstract!Next, Abstract!Signal, Abstract!Mark
<1>7. CASE SetOverflow /\ WriterOverflow # 0
  <2>1. UNCHANGED <<wover, marked, offered>> /\ wpc' = "idle"
    BY <1>7 DEF SetOverflow, WriterReturns, stores
  <2>2. Pending' = Pending
    BY <1>1, <1>2, <2>1, Quiet DEF OverflowSet, WriterOverflow
  <2>3. Offered' = Offered
    BY <1>1, <2>1 DEF Offered
  <2> QED
    BY <2>1, <2>2, <2>3 DEF AbstractStep, Abstract!svars
<1> QED
  BY <1>4, <1>5, <1>6, <1>7 DEF WriterCall, EnqueueCall

\* The rest of Pm_Enqueue and Pm_QueueFull.
LEMMA WriterStepStep == ASSUME IInv, IInv', [Next]_vars, WriterStep PROVE AbstractStep
<1>1. wpc = "scan" /\ UNCHANGED <<peeks, rpc, overflow, rover, offered>>
  BY DEF WriterStep, ScanFree, QueueFullTrue, QueueFullFalse, EnqueueOverflows, EnqueueStores,
     ScanFull, ScanDone, StoreOverflow, shared, reader, stores
<1>2. ~TakeMessage /\ ~TakePeek
  BY <1>1 DEF TakeMessage, TakePeek, RemoveMessage, GiveMessage, ReaderReturns
<1>3. offered \in Nat /\ tail \in Nat /\ OverflowInv
  BY RingTypes DEF IInv
<1>4. CASE ScanFree \/ QueueFullTrue \/ QueueFullFalse
  <2>1. ~EnqueueStores
    BY <1>1, <1>4 DEF ScanFree, QueueFullTrue, QueueFullFalse, EnqueueStores, WriterReturns
  <2>2. UNCHANGED <<wover, marked>> /\ Offered' = Offered
    BY <1>1, <1>4 DEF ScanFree, QueueFullTrue, QueueFullFalse, WriterReturns, stores, Offered
  <2>3. Pending' = Pending
    BY <1>1, <1>2, <2>1, <2>2, Quiet DEF OverflowSet, WriterOverflow
  <2> QED
    BY <2>2, <2>3 DEF AbstractStep, Abstract!svars
<1>5. CASE EnqueueOverflows
  <2>1. wover' = tail + 1 /\ marked' /\ wpc' = "idle" /\ wcall = "Enqueue"
    BY <1>5 DEF EnqueueOverflows, StoreOverflow, WriterReturns
  <2>2. ~EnqueueStores
    BY <1>5 DEF EnqueueOverflows, ScanFull, EnqueueStores, ScanDone
  <2>3. ~OverflowSet /\ OverflowSet'
    BY <1>1, <1>3, <2>1 DEF OverflowInv, OverflowSet, WriterOverflow, Scanning
  <2>4. Pending' = Append(Pending, Loss)
    BY <1>1, <1>2, <2>2, <2>3, RingStays, PendingMarked
  <2>5. Offered' = Offered + 1
    BY <1>1, <1>3, <2>1 DEF Offered
  <2> QED
    BY <2>1, <2>4, <2>5 DEF AbstractStep, Abstract!Next, Abstract!Drop, Abstract!Mark
<1>6. CASE EnqueueStores
  <2>1. UNCHANGED wover /\ marked' = FALSE /\ wpc' = "idle" /\ wcall = "Enqueue"
    BY <1>6 DEF EnqueueStores, WriterReturns
  <2>2. ~OverflowSet /\ ~OverflowSet'
    BY <1>1, <1>3, <2>1 DEF OverflowInv, OverflowSet, WriterOverflow, Scanning
  <2>3. Pending' = Append(Pending, offered)
    BY <1>1, <1>3, <1>6, <2>2, RingEnqueue, PendingStored
  <2>4. Offered' = offered /\ Offered' = Offered + 1
    BY <1>1, <1>3, <2>1 DEF Offered
  <2> QED
    BY <2>1, <2>3, <2>4 DEF AbstractStep, Abstract!Next, Abstract!Accept
<1> QED
  BY <1>4, <1>5, <1>6 DEF WriterStep

\* The steps of the reader leave what the writer put into the queue.
LEMMA ReaderFrame ==
    ASSUME ReaderCall \/ ReaderStep
    PROVE  UNCHANGED writer /\ Offered' = Offered /\ marked' = marked /\ ~EnqueueStores
<1>1. UNCHANGED writer
  <2>1. CASE ReaderCall
    BY <2>1 DEF ReaderCall, DequeueCall, PeekCall, DequeuePeekedOverflow, DequeuePeeked, DequeueStart,
       PeekAgain, PeekStart, QueueEmptyCall
  <2>2. CASE ReaderStep
    BY <2>2 DEF ReaderStep, ReadOverflow, HeadOccupied, AcknowledgeDequeue, AcknowledgePeek,
       HeadEmpty, ScanMissing, ScanPresent, ScanComplete, TakeMessage, TakePeek, RemoveMessage
  <2> QED
    BY <2>1, <2>2
<1> QED
  BY <1>1 DEF writer, Offered, EnqueueStores, ScanDone, WriterReturns

LEMMA ReaderCallStep == ASSUME IInv, IInv', [Next]_vars, ReaderCall PROVE AbstractStep
<1>1. rpc = "idle" /\ UNCHANGED <<wover, overflow, rover>>
  BY DEF ReaderCall, DequeueCall, PeekCall, DequeuePeekedOverflow, DequeuePeeked, DequeueStart,
     PeekAgain, PeekStart, QueueEmptyCall, shared, stores
<1>2. ~EnqueueStores /\ ~TakeMessage /\ ~TakePeek
  BY <1>1, ReaderFrame DEF TakeMessage, TakePeek, RemoveMessage
<1>3. Ring' = Ring /\ (OverflowSet' <=> OverflowSet)
  BY <1>1, <1>2, RingStays DEF OverflowSet, WriterOverflow
<1>4. CASE DequeuePeekedOverflow \/ DequeuePeeked
  <2>1. Pending # << >> /\ Pending' = Tail(Pending)
    <3>1. CASE DequeuePeekedOverflow
      BY <1>3, <3>1, PendingReported DEF DequeuePeekedOverflow
    <3>2. CASE DequeuePeeked
      BY <1>3, <3>2, PendingPeekGiven DEF DequeuePeeked
    <3> QED
      BY <1>4, <3>1, <3>2
  <2> QED
    BY <2>1, ReaderFrame DEF AbstractStep, Abstract!Next, Abstract!Take
<1>5. CASE DequeueStart \/ PeekCall \/ QueueEmptyCall
  <2>1. UNCHANGED peeks
    BY <1>5 DEF DequeueStart, PeekCall, PeekAgain, PeekStart, QueueEmptyCall
  <2> QED
    BY <1>3, <2>1, PendingStays, ReaderFrame DEF AbstractStep, Abstract!svars
<1> QED
  BY <1>4, <1>5 DEF ReaderCall, DequeueCall

\* When Pm_Dequeue acknowledges an overflow the ring is empty.
LEMMA Acknowledged ==
    ASSUME IInv, IInv', HeadEmpty
    PROVE  /\ Ring = << >> /\ Ring' = << >>
           /\ ~peek_flag /\ ~peek_flag' /\ OverflowSet /\ ~OverflowSet'
           /\ rcall = "Dequeue" => ~peek_overflow
<1>1. rpc = "head" /\ rover' /\ UNCHANGED <<buffer, wpend, rpend, head, peek_flag>>
  BY DEF HeadEmpty, shared
<1>2. ReaderOverflow = head + 1 /\ ~peek_flag /\ (rcall = "Dequeue" => ~peek_overflow)
  BY <1>1 DEF IInv, ProgressInv
<1>3. head \in Nat /\ tail \in Nat /\ OverflowInv
  BY RingTypes DEF IInv
<1>4. overflow = tail + 1 /\ tail = head /\ ~rover
  <2>1. head + 1 # 0
    BY <1>3
  <2>2. ~rover /\ overflow = head + 1
    BY <1>2, <2>1 DEF ReaderOverflow
  <2> QED
    BY <1>3, <2>1, <2>2 DEF OverflowInv
<1>5. ~Occupied(head)
  <2>1. 0 \in Word
    BY WordsAssumption DEF Word
  <2>2. wpend[head][0] = 0
    BY <1>3, <1>4, <2>1 DEF OverflowInv
  <2> QED
    BY <2>2 DEF Occupied, ReaderSees, HeadEmpty
<1>6. ~Occupied(head)'
  BY <1>1, <1>5 DEF Occupied
<1>7. Ring = << >> /\ Ring' = << >>
  BY <1>5, <1>6, RingEmpty, RingEmptyAfter
<1>8. OverflowSet /\ ~OverflowSet'
  BY <1>1, <1>3, <1>4 DEF OverflowSet, WriterOverflow
<1> QED
  BY <1>1, <1>2, <1>7, <1>8

\* Two loss marks and nothing else.
LEMMA TwoLosses ==
    ASSUME NEW x \in Nat, NEW s, s = Cat(<<x>>, <<x>>)
    PROVE  /\ Len(s) = 2 /\ s[1] = x /\ s[2] = x
           /\ [j \in 1 .. Len(s) - 1 |-> IF j <= 1 THEN s[j] ELSE s[j + 1]] = <<x>>
<1>1. Len(s) = 2 /\ s[1] = x /\ s[2] = x
  <2>1. <<x>> \in Seq(Nat) /\ Len(<<x>>) = 1 /\ <<x>>[1] = x
    OBVIOUS
  <2>2. Len(s) = 1 + 1 /\ \A k \in 1 .. 1 + 1 : s[k] = IF k <= 1 THEN <<x>>[k] ELSE <<x>>[k - 1]
    BY <2>1, ConcatProperties DEF Cat
  <2> QED
    BY <2>1, <2>2
<1>2. [j \in 1 .. Len(s) - 1 |-> IF j <= 1 THEN s[j] ELSE s[j + 1]] = [j \in 1 .. 1 |-> x]
  <2>1. 1 .. Len(s) - 1 = 1 .. 1
    <3>1. Len(s) - 1 = 1
      BY <1>1
    <3> QED
      BY <3>1, Zenon
  <2>2. ASSUME NEW j \in 1 .. 1
        PROVE  (IF j <= 1 THEN s[j] ELSE s[j + 1]) = x
    <3>1. j = 1
      OBVIOUS
    <3> QED
      BY <1>1, <3>1
  <2> QED
    BY <2>1, <2>2
<1>3. [j \in 1 .. 1 |-> x] = <<x>>
  OBVIOUS
<1> QED
  BY <1>1, <1>2, <1>3

LEMMA AcknowledgeStep ==
    ASSUME IInv, IInv', AcknowledgeDequeue \/ AcknowledgePeek
    PROVE  AbstractStep
<1>1. HeadEmpty /\ Offered' = Offered /\ marked' = marked
  BY ReaderFrame DEF AcknowledgeDequeue, AcknowledgePeek, ReaderStep
<1>2. /\ Ring = << >> /\ Ring' = << >>
      /\ ~peek_flag /\ ~peek_flag' /\ OverflowSet /\ ~OverflowSet'
      /\ rcall = "Dequeue" => ~peek_overflow
  BY <1>1, Acknowledged
<1>3. /\ ~peek_overflow => Pending = <<Loss>>
      /\ peek_overflow => Pending = Cat(<<Loss>>, <<Loss>>)
      /\ ~peek_overflow' => Pending' = << >>
      /\ peek_overflow' => Pending' = <<Loss>>
  BY <1>2, PendingAcknowledged
<1>4. CASE AcknowledgeDequeue
  <2>1. Pending = <<Loss>> /\ Pending' = << >>
    BY <1>2, <1>3, <1>4 DEF AcknowledgeDequeue
  <2>2. Pending # << >> /\ Pending' = Tail(Pending)
    BY <2>1 DEF Loss
  <2> QED
    BY <1>1, <2>2 DEF AbstractStep, Abstract!Next, Abstract!Take
<1>5. CASE AcknowledgePeek /\ ~peek_overflow
  BY <1>1, <1>3, <1>5 DEF AcknowledgePeek, AbstractStep, Abstract!svars
<1>6. CASE AcknowledgePeek /\ peek_overflow
  <2>1. Pending = Cat(<<Loss>>, <<Loss>>) /\ Pending' = <<Loss>>
    BY <1>3, <1>6 DEF AcknowledgePeek
  <2>2. PICK s : s = Pending
    OBVIOUS
  <2>3. /\ Len(s) = 2 /\ s[1] = Loss /\ s[2] = Loss
        /\ [j \in 1 .. Len(s) - 1 |-> IF j <= 1 THEN s[j] ELSE s[j + 1]] = <<Loss>>
    BY <2>1, <2>2, TwoLosses, Loss \in Nat DEF Loss
  <2>4. 1 \in 1 .. Len(s) - 1 /\ s[1] = Loss /\ s[1 + 1] = Loss
    BY <2>3
  <2>5. \E k \in 1 .. Len(s) - 1 :
          /\ s[k] = Loss /\ s[k + 1] = Loss
          /\ Pending' = [j \in 1 .. Len(s) - 1 |-> IF j <= k THEN s[j] ELSE s[j + 1]]
    BY <2>1, <2>3, <2>4
  <2>6. Abstract!Coalesce
    BY <1>1, <2>2, <2>5 DEF Abstract!Coalesce
  <2> QED
    BY <2>6 DEF AbstractStep, Abstract!Next
<1> QED
  BY <1>4, <1>5, <1>6

LEMMA ReaderStepStep == ASSUME IInv, IInv', [Next]_vars, ReaderStep PROVE AbstractStep
<1>1. Offered' = Offered /\ marked' = marked /\ ~EnqueueStores
  BY ReaderFrame
<1>2. CASE AcknowledgeDequeue \/ AcknowledgePeek
  BY <1>2, AcknowledgeStep
<1>3. CASE TakeMessage \/ TakePeek
  <2>1. RemoveMessage /\ rpc = "take" /\ UNCHANGED <<wover, overflow, rover, peek_overflow>>
    BY <1>3 DEF TakeMessage, TakePeek, RemoveMessage, shared
  <2>2. Ring = Cat(<<First>>, Ring') /\ (OverflowSet' <=> OverflowSet)
    BY <2>1, RingRemove DEF OverflowSet, WriterOverflow
  <2>3. ~peek_flag /\ (rcall = "Dequeue" => ~peek_overflow)
    BY <2>1 DEF IInv, ProgressInv
  <2>4. CASE TakeMessage
    <3>1. Pending # << >> /\ Pending' = Tail(Pending)
      BY <2>1, <2>2, <2>3, <2>4, PendingTaken DEF TakeMessage, peeks
    <3> QED
      BY <1>1, <3>1 DEF AbstractStep, Abstract!Next, Abstract!Take
  <2>5. CASE TakePeek
    <3>1. Words - 1 \in Word
      BY WordsAssumption DEF Word
    <3>2. peek' = First /\ peek_flag'
      BY <2>1, <2>5, <3>1, HeadIsWhole DEF TakePeek, First
    <3>3. Pending' = Pending
      BY <2>1, <2>2, <2>3, <3>2, PendingPeeked
    <3> QED
      BY <1>1, <3>3 DEF AbstractStep, Abstract!svars
  <2> QED
    BY <1>3, <2>4, <2>5
<1>4. CASE ReadOverflow \/ HeadOccupied \/ ScanMissing \/ ScanPresent \/ ScanComplete
  <2>1. rpc # "take" /\ UNCHANGED <<peeks, wover, overflow, rover>>
    BY <1>4 DEF ReadOverflow, HeadOccupied, ScanMissing, ScanPresent, ScanComplete, shared, stores
  <2>2. ~TakeMessage /\ ~TakePeek
    BY <2>1 DEF TakeMessage, TakePeek, RemoveMessage
  <2>3. Pending' = Pending
    BY <1>1, <2>1, <2>2, Quiet DEF OverflowSet, WriterOverflow
  <2> QED
    BY <1>1, <2>3 DEF AbstractStep, Abstract!svars
<1> QED
  BY <1>2, <1>3, <1>4 DEF ReaderStep

\* A store that reaches the memory changes nothing that either thread is
\* promised.
LEMMA CommitStep == ASSUME IInv, IInv', [Next]_vars, Commit PROVE AbstractStep
<1>1. UNCHANGED <<writer, reader>>
  BY DEF Commit, CommitWord, CommitClear, CommitOverflow, CommitAcknowledge
<1>2. Offered' = Offered /\ marked' = marked /\ UNCHANGED peeks
  BY <1>1 DEF writer, reader, Offered
<1>3. ~EnqueueStores /\ ~TakeMessage /\ ~TakePeek
  BY <1>1 DEF writer, reader, EnqueueStores, ScanDone, WriterReturns, TakeMessage, TakePeek,
     RemoveMessage, GiveMessage, ReaderReturns
<1>4. OverflowSet' <=> OverflowSet
  <2>1. OverflowInv
    BY DEF IInv
  <2>2. CASE UNCHANGED <<overflow, wover, rover>>
    BY <2>2 DEF OverflowSet, WriterOverflow
  <2>3. CASE CommitOverflow
    BY <2>1, <2>3 DEF OverflowSet, WriterOverflow, CommitOverflow, OverflowInv
  <2>4. CASE CommitAcknowledge
    BY <2>1, <2>4 DEF OverflowSet, WriterOverflow, CommitAcknowledge, OverflowInv
  <2> QED
    BY <2>2, <2>3, <2>4 DEF Commit, CommitWord, CommitClear
<1>5. Pending' = Pending
  BY <1>2, <1>3, <1>4, Quiet
<1> QED
  BY <1>2, <1>5 DEF AbstractStep, Abstract!svars

LEMMA QueueStep == IInv /\ IInv' /\ [Next]_vars => AbstractStep
<1> SUFFICES ASSUME IInv, IInv', [Next]_vars PROVE AbstractStep
  OBVIOUS
<1>1. CASE UNCHANGED vars
  <2>1. /\ UNCHANGED <<buffer, overflow, head, tail, peek_flag, peek, peek_overflow>>
        /\ UNCHANGED <<wpend, wover, rpend, rover, wpc, wcall, offered, marked>>
    BY <1>1 DEF vars, shared, writer, reader, peeks, stores
  <2>2. Offered' = Offered /\ Pending' = Pending
    BY <2>1 DEF Offered, Pending, Count, Occupied, WriterSees, SlotAt, OverflowSet, WriterOverflow
  <2> QED
    BY <2>1, <2>2 DEF AbstractStep, Abstract!svars
<1> QED
  BY <1>1, WriterCallStep, WriterStepStep, ReaderCallStep, ReaderStepStep, CommitStep DEF Next

LEMMA QueueInit == Init => Abstract!Init
<1> SUFFICES ASSUME Init PROVE Abstract!Init
  OBVIOUS
<1>1. IInv
  BY InvInit
<1>2. ~Occupied(head) /\ ~OverflowSet /\ ~peek_overflow /\ ~peek_flag
  BY SlotsAssumption, WordsAssumption
     DEF Init, Occupied, OverflowSet, WriterOverflow, Slot, Word
<1>3. Ring = << >>
  BY <1>1, <1>2, RingEmpty
<1>4. Pending = Chain(<< >>, << >>, << >>, << >>)
  BY <1>1, <1>2, <1>3, PendingIs DEF PendingInv, Piece
<1>5. Pending = << >>
  BY <1>4, ChainOfLosses
<1> QED
  BY <1>5 DEF Init, Abstract!Init, Offered

\* PmQueue, with its stores arriving in any order but the one that Pm_Dequeue's
\* comment counts on, behaves as the lossy FIFO of PmQueueSpec, in a ring of
\* any size and for messages of any length.
THEOREM QueueImplements == ASSUME OverflowInOrder PROVE Spec => ImplementsQueue
<1>1. IInv /\ IInv' /\ [Next]_vars => [Abstract!Next]_(Abstract!svars)
  BY QueueStep DEF AbstractStep
<1> QED
  BY <1>1, QueueInit, Invariance, PTL DEF Spec, ImplementsQueue, Abstract!Spec

-----------------------------------------------------------------------------
(***************************************************************************)
(* The encoding of a message (module PmQueueCodec): it comes out of its    *)
(* zero-free form as it went in, for messages of every length over every   *)
(* set of words.                                                           *)
(***************************************************************************)
LEMMA CodecInvInit == CodecInit => CodecIInv
<1> SUFFICES ASSUME CodecInit PROVE CodecIInv
  OBVIOUS
<1> USE SizeAssumption, ValuesAssumption
<1>1. CodecTypeOK
  BY DEF CodecInit, CodecTypeOK, SlotWord, Place
<1>2. EncodingInv
  BY DEF CodecInit, EncodingInv, Holds, SlotWord, Place
<1> QED
  BY <1>1, <1>2 DEF CodecInit, CodecIInv, RoundTrip

LEMMA CodecTypeStep == CodecIInv /\ [CodecNext]_codecVars => CodecTypeOK'
<1> SUFFICES ASSUME CodecIInv, [CodecNext]_codecVars PROVE CodecTypeOK'
  OBVIOUS
<1> USE SizeAssumption, ValuesAssumption DEF CodecTypeOK, SlotWord, Place
<1>0. CodecTypeOK
  BY DEF CodecIInv
<1>1. CASE EncodeZero
  <2>1. i \in Place
    BY <1>1 DEF EncodeZero, CodecIInv, EncodingInv
  <2> QED
    BY <1>0, <1>1, <2>1 DEF EncodeZero
<1>2. CASE EncodeWord
  <2>1. i \in Place
    BY <1>0, <1>2 DEF EncodeWord, CodecIInv, EncodingInv
  <2>2. src[i] \in Int
    BY <1>0, <2>1
  <2> QED
    BY <1>0, <1>2, <2>1, <2>2 DEF EncodeWord
<1>3. CASE EncodeEnd
  BY <1>0, <1>3 DEF EncodeEnd
<1>4. CASE DecodeStart
  BY <1>0, <1>4 DEF DecodeStart
<1>5. CASE DecodeZero
  <2>1. i \in Place
    BY <1>5 DEF DecodeZero, CodecIInv, DecodingInv
  <2> QED
    BY <1>0, <1>5, <2>1 DEF DecodeZero
<1>6. CASE DecodeEnd \/ Done \/ UNCHANGED codecVars
  BY <1>0, <1>6 DEF DecodeEnd, Done, codecVars
<1> QED
  BY <1>1, <1>2, <1>3, <1>4, <1>5, <1>6 DEF CodecNext

\* The first loop: every word before ptr that holds a place is linked.
LEMMA EncodingStep ==
    ASSUME CodecIInv, EncodeZero \/ EncodeWord
    PROVE  EncodingInv'
<1> USE SizeAssumption DEF SlotWord, Place
<1>0. EncodingInv /\ CodecTypeOK /\ i \in Place
  BY DEF CodecIInv, EncodeZero, EncodeWord, EncodingInv
<1>1. CASE EncodeZero
  <2>1. /\ src[i] = 0 /\ ptr' = i /\ i' = i + 1 /\ src' = src
        /\ \A w \in SlotWord : slot'[w] = IF w = ptr THEN i ELSE slot[w]
    BY <1>0, <1>1 DEF EncodeZero, CodecTypeOK
  <2>2. ASSUME NEW w \in SlotWord, w < i, Holds(w)
        PROVE  (\E n \in 1 .. ptr : LinksTo(w, n))'
    <3>1. CASE w = ptr
      <4>1. PICK n \in Place : n = i
        BY <1>0
      <4>2. w < n
        BY <1>0, <3>1, <4>1 DEF EncodingInv, CodecTypeOK
      <4>3. slot'[w] = n /\ src'[n] = 0
        BY <2>1, <3>1, <4>1
      <4>4. \A x \in Place : w < x /\ x < n => src'[x] # 0
        BY <1>0, <2>1, <3>1, <4>1 DEF EncodingInv
      <4>5. LinksTo(w, n)'
        BY <4>2, <4>3, <4>4 DEF LinksTo
      <4>6. n \in 1 .. ptr'
        BY <2>1, <4>1
      <4> QED
        BY <4>5, <4>6
    <3>2. CASE w # ptr
      <4>1. w < ptr
        BY <1>0, <2>2, <3>2 DEF EncodingInv, Holds, CodecTypeOK
      <4>2. PICK n \in 1 .. ptr : LinksTo(w, n)
        BY <1>0, <2>2, <4>1 DEF EncodingInv
      <4>3. n \in 1 .. ptr' /\ LinksTo(w, n)'
        BY <1>0, <2>1, <3>2, <4>2 DEF LinksTo, EncodingInv, CodecTypeOK
      <4> QED
        BY <4>3 DEF LinksTo
    <3> QED
      BY <3>1, <3>2
  <2>3. \A w \in SlotWord : Holds(w)' <=> Holds(w)
    BY <2>1 DEF Holds
  <2> QED
    BY <1>0, <2>1, <2>2, <2>3 DEF EncodingInv, Holds, CodecTypeOK
<1>2. CASE EncodeWord
  <2>1. /\ src[i] # 0 /\ ptr' = ptr /\ i' = i + 1 /\ src' = src
        /\ \A w \in SlotWord : slot'[w] = IF w = i THEN src[i] ELSE slot[w]
    BY <1>0, <1>2 DEF EncodeWord, CodecTypeOK
  <2>2. ASSUME NEW w \in SlotWord, w < ptr, Holds(w)
        PROVE  (\E n \in 1 .. ptr : LinksTo(w, n))'
    <3>1. PICK n \in 1 .. ptr : LinksTo(w, n)
      BY <1>0, <2>2 DEF EncodingInv
    <3>2. LinksTo(w, n)'
      BY <1>0, <2>1, <2>2, <3>1 DEF LinksTo, EncodingInv, CodecTypeOK
    <3> QED
      BY <2>1, <3>2 DEF LinksTo
  <2>3. \A w \in SlotWord : Holds(w)' <=> Holds(w)
    BY <2>1 DEF Holds
  <2> QED
    BY <1>0, <2>1, <2>2, <2>3 DEF EncodingInv, Holds, CodecTypeOK
<1> QED
  BY <1>1, <1>2

\* The store after the loop links the last of them.
LEMMA EncodedStep ==
    ASSUME CodecIInv, EncodeEnd
    PROVE  EncodedInv'
<1> USE SizeAssumption DEF SlotWord, Place
<1>0. EncodingInv /\ CodecTypeOK /\ i = Size + 1 /\ src' = src
  BY DEF CodecIInv, EncodeEnd, EncodingInv, CodecTypeOK
<1>1. \A w \in SlotWord : slot'[w] = IF w = ptr THEN i ELSE slot[w]
  BY <1>0 DEF EncodeEnd, CodecTypeOK
<1>2. ASSUME NEW w \in SlotWord, Holds(w)
      PROVE  (\E n \in 1 .. Size + 1 : LinksTo(w, n))'
  <2>1. CASE w = ptr
    <3>1. LinksTo(w, Size + 1)'
      BY <1>0, <1>1, <2>1 DEF LinksTo, EncodingInv
    <3> QED
      BY <3>1 DEF LinksTo
  <2>2. CASE w # ptr
    <3>1. w < ptr
      BY <1>0, <1>2, <2>2 DEF EncodingInv, Holds, CodecTypeOK
    <3>2. PICK n \in 1 .. ptr : LinksTo(w, n)
      BY <1>0, <1>2, <3>1 DEF EncodingInv
    <3>3. n \in 1 .. Size + 1 /\ LinksTo(w, n)'
      BY <1>0, <1>1, <2>2, <3>2 DEF LinksTo, CodecTypeOK
    <3> QED
      BY <3>3 DEF LinksTo
  <2> QED
    BY <2>1, <2>2
<1>3. ASSUME NEW w \in SlotWord, ~Holds(w)
      PROVE  slot'[w] = src'[w]
  BY <1>0, <1>1, <1>3 DEF EncodingInv, CodecTypeOK
<1> QED
  BY <1>0, <1>2, <1>3 DEF EncodedInv, Holds

\* The second loop: the words before i are those of the message.
LEMMA DecodingStep ==
    ASSUME CodecIInv, DecodeStart \/ DecodeZero
    PROVE  DecodingInv'
<1> USE SizeAssumption DEF SlotWord, Place
<1>0. EncodedInv /\ CodecTypeOK
  BY DEF CodecIInv, DecodeStart, DecodeZero
<1>1. CASE DecodeStart
  <2>1. PICK n \in 1 .. Size + 1 : LinksTo(0, n)
    BY <1>0 DEF EncodedInv, Holds
  <2>2. i' = n /\ src' = src /\ slot' = slot /\ \A w \in Place : msg'[w] = slot[w]
    BY <1>1, <2>1 DEF DecodeStart, LinksTo
  <2>3. \A w \in Place : w < n => slot[w] = src[w]
    BY <1>0, <2>1 DEF LinksTo, EncodedInv, Holds
  <2> QED
    BY <2>1, <2>2, <2>3 DEF DecodingInv, LinksTo
<1>2. CASE DecodeZero
  <2>0. DecodingInv /\ i \in Place
    BY <1>2 DEF DecodeZero, CodecIInv, DecodingInv
  <2>1. PICK n \in 1 .. Size + 1 : LinksTo(i, n)
    BY <1>0, <2>0 DEF EncodedInv, Holds, DecodingInv
  <2>2. /\ i' = n /\ src' = src /\ slot' = slot
        /\ \A w \in Place : msg'[w] = IF w = i THEN 0 ELSE msg[w]
    BY <1>0, <1>2, <2>0, <2>1 DEF DecodeZero, LinksTo, DecodingInv, CodecTypeOK
  <2>3. \A w \in Place : i < w /\ w < n => slot[w] = src[w]
    BY <1>0, <2>1 DEF LinksTo, EncodedInv, Holds
  <2> QED
    BY <2>0, <2>1, <2>2, <2>3 DEF DecodingInv, LinksTo
<1> QED
  BY <1>1, <1>2

LEMMA CodecInvStep == CodecIInv /\ [CodecNext]_codecVars => CodecIInv'
<1> SUFFICES ASSUME CodecIInv, [CodecNext]_codecVars PROVE CodecIInv'
  OBVIOUS
<1>1. CodecTypeOK'
  BY CodecTypeStep
<1>2. CASE EncodeZero \/ EncodeWord
  BY <1>1, <1>2, EncodingStep DEF CodecIInv, EncodeZero, EncodeWord, RoundTrip
<1>3. CASE EncodeEnd
  BY <1>1, <1>3, EncodedStep DEF CodecIInv, EncodeEnd, RoundTrip
<1>4. CASE DecodeStart \/ DecodeZero
  <2>1. EncodedInv'
    BY <1>4 DEF CodecIInv, DecodeStart, DecodeZero, EncodedInv, Holds, LinksTo
  <2> QED
    BY <1>1, <1>4, <2>1, DecodingStep DEF CodecIInv, DecodeStart, DecodeZero, RoundTrip
<1>5. CASE DecodeEnd
  <2>1. EncodedInv'
    BY <1>5 DEF CodecIInv, DecodeEnd, EncodedInv, Holds, LinksTo
  <2>2. msg = src
    <3>1. \A w \in Place : msg[w] = src[w]
      BY <1>5, SizeAssumption DEF CodecIInv, DecodeEnd, DecodingInv, Place
    <3> QED
      BY <3>1 DEF CodecIInv, CodecTypeOK
  <2> QED
    BY <1>1, <1>5, <2>1, <2>2 DEF CodecIInv, DecodeEnd, RoundTrip
<1>6. CASE UNCHANGED codecVars
  BY <1>1, <1>6 DEF codecVars, CodecIInv, EncodingInv, EncodedInv, DecodingInv, Holds, LinksTo,
     RoundTrip
<1> QED
  BY <1>2, <1>3, <1>4, <1>5, <1>6 DEF CodecNext, Done

LEMMA CodecInvariance == CodecSpec => []CodecIInv
  BY CodecInvInit, CodecInvStep, PTL DEF CodecSpec

\* Pm_Dequeue gives back the very message that Pm_Enqueue was given.
THEOREM CodecRoundTrip == CodecSpec => []RoundTrip
<1>1. CodecIInv => RoundTrip
  BY DEF CodecIInv
<1> QED
  BY <1>1, CodecInvariance, PTL

\* A slot without a zero word holds a whole message, and the other way round.
THEOREM CodecVisibility == CodecSpec => []WholeWhenVisible
<1>1. ASSUME CodecIInv PROVE WholeWhenVisible
  <2>1. CASE phase = "encoding"
    BY <1>1, <2>1 DEF CodecIInv, EncodingInv, WholeWhenVisible, CodecTypeOK
  <2>2. CASE phase # "encoding"
    <3>1. ASSUME NEW w \in SlotWord PROVE slot[w] # 0
      <4>1. CASE Holds(w)
        BY <1>1, <2>2, <4>1, SizeAssumption DEF CodecIInv, EncodedInv, LinksTo
      <4>2. CASE ~Holds(w)
        BY <1>1, <2>2, <4>2 DEF CodecIInv, EncodedInv, Holds
      <4> QED
        BY <4>1, <4>2
    <3> QED
      BY <2>2, <3>1 DEF WholeWhenVisible
  <2> QED
    BY <2>1, <2>2
<1> QED
  BY <1>1, CodecInvariance, PTL

\* Each word of the slot is stored once.
THEOREM CodecWrittenOnce == CodecSpec => WrittenOnce
<1>1. ASSUME CodecIInv, CodecNext, NEW w \in SlotWord, slot[w] # 0
      PROVE  slot'[w] = slot[w]
  <2>1. CASE EncodeZero \/ EncodeEnd
    BY <1>1, <2>1 DEF EncodeZero, EncodeEnd, CodecIInv, EncodingInv, CodecTypeOK
  <2>2. CASE EncodeWord
    BY <1>1, <2>2, SizeAssumption DEF EncodeWord, CodecIInv, EncodingInv, CodecTypeOK, SlotWord
  <2>3. CASE DecodeStart \/ DecodeZero \/ DecodeEnd \/ Done
    BY <2>3 DEF DecodeStart, DecodeZero, DecodeEnd, Done, codecVars
  <2> QED
    BY <1>1, <2>1, <2>2, <2>3 DEF CodecNext
<1>2. CodecIInv /\ [CodecNext]_codecVars => [\A w \in SlotWord : slot[w] # 0 => slot'[w] = slot[w]]_codecVars
  BY <1>1
<1> QED
  BY <1>2, CodecInvariance, PTL DEF CodecSpec, WrittenOnce
=============================================================================
