------------------------------- MODULE PmQueue -------------------------------
(***************************************************************************)
(* The single-reader, single-writer "light pipe" of pm_common/pmutil.c.    *)
(*                                                                         *)
(* The buffer is a ring of Slots slots of Words words.  A word that is 0   *)
(* is free, any other word is valid data: there is no lock and no shared   *)
(* index, the words themselves are the only synchronisation.  Messages are *)
(* numbered in the order in which they are offered to Pm_Enqueue, and all  *)
(* the words of message m hold m (the encoding that makes every word       *)
(* non-zero is module PmQueueCodec).                                       *)
(*                                                                         *)
(* A store of either thread sits in that thread's store buffer, where only *)
(* the thread itself sees it, until it reaches the shared memory; the      *)
(* stores to different words reach it in any order.  One store is kept in  *)
(* its place when OverflowInOrder holds: see CommitOverflow.               *)
(*                                                                         *)
(* head, the peek fields and the index variables belong to the reader,     *)
(* tail to the writer.                                                     *)
(***************************************************************************)
EXTENDS Integers, Sequences

CONSTANTS
    Slots,            \* num_msgs of Pm_QueueCreate
    Words,            \* msg_size: the words of a message, the extra one included
    MaxMsgs,          \* bound on the messages offered
    OverflowInOrder   \* the write order Pm_Dequeue's comment counts on

ASSUME SlotsAssumption == Slots \in Nat \ {0}
ASSUME WordsAssumption == Words \in Nat \ {0, 1}
ASSUME MaxMsgsAssumption == MaxMsgs \in Nat
ASSUME OrderAssumption == OverflowInOrder \in BOOLEAN

VARIABLES
    buffer,           \* the shared words: slot -> word -> message or 0
    overflow,         \* shared: 0, or 1 + the tail slot at the overflow
    head, tail,       \* slot of the next message to read, to write
    peek_flag,        \* the peek buffer holds a message
    peek,             \* the message in it
    peek_overflow,    \* a peek met the overflow; Pm_Dequeue has yet to report it
    wpend,            \* the writer's stores to words still under way (0: none)
    wover,            \* the writer's store to overflow under way (0: none)
    rpend,            \* words whose clearing by the reader is under way
    rover,            \* the reader's clearing of overflow is under way
    wpc, wcall, wi,   \* the writer: where it is, in which call, at which word
    wret,             \* what the writer's last call returned
    rpc, rcall, ri,   \* the same of the reader
    rret,
    offered,          \* history: messages offered to Pm_Enqueue
    lastGot,          \* history: the last message the reader was given
    lossSeen,         \* history: an overflow was reported since lastGot
    marked            \* history: overflow was set since the last message accepted

shared == <<buffer, overflow>>
writer == <<tail, wpc, wcall, wi, wret, offered, marked>>
peeks == <<peek_flag, peek, peek_overflow>>
seen == <<lastGot, lossSeen>>
reader == <<head, peeks, rpc, rcall, ri, rret, seen>>
stores == <<wpend, wover, rpend, rover>>
vars == <<shared, writer, reader, stores>>

Slot == 0 .. Slots - 1
Word == 0 .. Words - 1
Msg == 1 .. MaxMsgs

NextSlot(s) == IF s + 1 = Slots THEN 0 ELSE s + 1

\* What each thread reads: its own store while that is under way, or the memory.
WriterSees(s, w) == IF wpend[s][w] # 0 THEN wpend[s][w] ELSE buffer[s][w]
ReaderSees(s, w) == IF <<s, w>> \in rpend THEN 0 ELSE buffer[s][w]
WriterOverflow == IF wover # 0 THEN wover ELSE overflow
ReaderOverflow == IF rover THEN 0 ELSE overflow

Init ==
    /\ buffer = [s \in Slot |-> [w \in Word |-> 0]]
    /\ overflow = 0
    /\ head = 0 /\ tail = 0
    /\ peek_flag = FALSE /\ peek = 0 /\ peek_overflow = FALSE
    /\ wpend = [s \in Slot |-> [w \in Word |-> 0]]
    /\ wover = 0 /\ rpend = {} /\ rover = FALSE
    /\ wpc = "idle" /\ wcall = "Enqueue" /\ wi = 0 /\ wret = <<"none", "none">>
    /\ rpc = "idle" /\ rcall = "Dequeue" /\ ri = 0 /\ rret = "none"
    /\ offered = 0 /\ lastGot = 0 /\ lossSeen = FALSE /\ marked = FALSE

-----------------------------------------------------------------------------
(***************************************************************************)
(* The writer: Pm_Enqueue, Pm_SetOverflow, Pm_QueueFull.                   *)
(***************************************************************************)
WriterReturns(call, result) ==
    /\ wpc' = "idle"
    /\ wret' = <<call, result>>
    /\ UNCHANGED <<wcall, wi>>

WriterScans(call) ==
    /\ wpc' = "scan"
    /\ wcall' = call
    /\ wi' = 0
    /\ UNCHANGED wret

StoreOverflow ==
    /\ wover' = tail + 1
    /\ marked' = TRUE
    /\ UNCHANGED <<wpend, rpend, rover, tail>>

\* Pm_Enqueue returns at once while an overflow is not acknowledged ...
EnqueueRefused ==
    /\ wpc = "idle"
    /\ offered < MaxMsgs
    /\ WriterOverflow # 0
    /\ offered' = offered + 1
    /\ WriterReturns("Enqueue", "BufferOverflow")
    /\ UNCHANGED <<shared, reader, stores, tail, marked>>

\* Mutant: Pm_Enqueue does not wait for the acknowledgement.
EnqueueStartUnchecked ==
    /\ wpc = "idle" /\ offered < MaxMsgs
    /\ offered' = offered + 1
    /\ WriterScans("Enqueue")
    /\ UNCHANGED <<shared, reader, stores, tail, marked>>

\* ... and asks Pm_QueueFull otherwise.
EnqueueStart ==
    /\ wpc = "idle"
    /\ offered < MaxMsgs
    /\ WriterOverflow = 0
    /\ offered' = offered + 1
    /\ WriterScans("Enqueue")
    /\ UNCHANGED <<shared, reader, stores, tail, marked>>

QueueFullStart ==
    /\ wpc = "idle"
    /\ WriterScans("QueueFull")
    /\ UNCHANGED <<shared, reader, stores, tail, offered, marked>>

\* Pm_QueueFull reads the words of the tail slot one by one.
ScanFree ==
    /\ wpc = "scan"
    /\ WriterSees(tail, wi) = 0
    /\ wi < Words - 1
    /\ wi' = wi + 1
    /\ UNCHANGED <<shared, reader, stores, tail, wpc, wcall, wret, offered, marked>>

ScanFull == wpc = "scan" /\ WriterSees(tail, wi) # 0

\* Mutant: Pm_QueueFull looks at one word only.
ScanDoneAtOnce == wpc = "scan" /\ WriterSees(tail, wi) = 0

ScanDone == wpc = "scan" /\ WriterSees(tail, wi) = 0 /\ wi = Words - 1

QueueFullTrue ==
    /\ ScanFull /\ wcall = "QueueFull"
    /\ WriterReturns("QueueFull", "TRUE")
    /\ UNCHANGED <<shared, reader, stores, tail, offered, marked>>

QueueFullFalse ==
    /\ ScanDone /\ wcall = "QueueFull"
    /\ WriterReturns("QueueFull", "FALSE")
    /\ UNCHANGED <<shared, reader, stores, tail, offered, marked>>

\* A word is in use: Pm_Enqueue sets overflow.
EnqueueOverflows ==
    /\ ScanFull /\ wcall = "Enqueue"
    /\ StoreOverflow
    /\ WriterReturns("Enqueue", "BufferOverflow")
    /\ UNCHANGED <<shared, reader, offered>>

\* Every word was free: Pm_Enqueue writes the message into the slot.
EnqueueStores ==
    /\ ScanDone /\ wcall = "Enqueue"
    /\ wpend' = [wpend EXCEPT ![tail] = [w \in Word |-> offered]]
    /\ tail' = NextSlot(tail)
    /\ marked' = FALSE
    /\ WriterReturns("Enqueue", "NoError")
    /\ UNCHANGED <<shared, reader, wover, rpend, rover, offered>>

SetOverflow ==
    /\ wpc = "idle"
    /\ IF WriterOverflow = 0
         THEN StoreOverflow
         ELSE UNCHANGED <<stores, tail, marked>>
    /\ WriterReturns("SetOverflow", "BufferOverflow")
    /\ UNCHANGED <<shared, reader, offered>>

EnqueueCall == EnqueueRefused \/ EnqueueStart
WriterCall == EnqueueCall \/ QueueFullStart \/ SetOverflow
WriterStep ==
    ScanFree \/ QueueFullTrue \/ QueueFullFalse \/ EnqueueOverflows \/ EnqueueStores

-----------------------------------------------------------------------------
(***************************************************************************)
(* The reader: Pm_Dequeue, Pm_QueuePeek, Pm_QueueEmpty.                    *)
(***************************************************************************)
ReaderReturns(result) ==
    /\ rpc' = "idle"
    /\ rret' = result

ReaderGoesOn(pc) ==
    /\ rpc' = pc
    /\ UNCHANGED rret

\* Pm_Dequeue reports an overflow to its caller.
ReportOverflow ==
    /\ lossSeen' = TRUE
    /\ UNCHANGED lastGot
    /\ ReaderReturns("BufferOverflow")

\* Pm_Dequeue gives its caller message m.
GiveMessage(m) ==
    /\ lastGot' = m
    /\ lossSeen' = FALSE
    /\ ReaderReturns("GotData")

\* Pm_Dequeue: an earlier Pm_QueuePeek met an overflow ...
DequeuePeekedOverflow ==
    /\ rpc = "idle"
    /\ peek_overflow
    /\ peek_overflow' = FALSE
    /\ ReportOverflow
    /\ UNCHANGED <<shared, writer, stores, head, peek, peek_flag, rcall, ri>>

\* Mutant: the peek buffer is tried before the overflow.
DequeuePeekedFirst ==
    /\ rpc = "idle" /\ peek_flag
    /\ peek_flag' = FALSE
    /\ GiveMessage(peek)
    /\ UNCHANGED <<shared, writer, stores, head, peek, peek_overflow, rcall, ri>>

\* ... or left a message in the peek buffer ...
DequeuePeeked ==
    /\ rpc = "idle"
    /\ ~peek_overflow /\ peek_flag
    /\ peek_flag' = FALSE
    /\ GiveMessage(peek)
    /\ UNCHANGED <<shared, writer, stores, head, peek, peek_overflow, rcall, ri>>

\* ... or neither.
DequeueStart ==
    /\ rpc = "idle"
    /\ ~peek_overflow /\ ~peek_flag
    /\ ReaderGoesOn("overflow")
    /\ rcall' = "Dequeue"
    /\ UNCHANGED <<shared, writer, stores, head, peeks, ri, seen>>

PeekAgain ==
    /\ rpc = "idle"
    /\ peek_flag
    /\ ReaderReturns("Peeked")
    /\ UNCHANGED <<shared, writer, stores, head, peeks, rcall, ri, seen>>

\* The Pm_Dequeue that Pm_QueuePeek calls skips the first two tests.
PeekStart ==
    /\ rpc = "idle"
    /\ ~peek_flag
    /\ ReaderGoesOn("overflow")
    /\ rcall' = "Peek"
    /\ UNCHANGED <<shared, writer, stores, head, peeks, ri, seen>>

\* Pm_QueueEmpty looks at one word of the head slot.
QueueEmptyCall ==
    /\ rpc = "idle"
    /\ ReaderReturns(IF ReaderSees(head, 0) = 0 /\ ~peek_flag
                       THEN "Empty" ELSE "NotEmpty")
    /\ UNCHANGED <<shared, writer, stores, head, peeks, rcall, ri, seen>>

\* Mutant: overflow is compared with head, not head + 1.
ReadOverflowOffByOne ==
    /\ rpc = "overflow"
    /\ ReaderGoesOn(IF ReaderOverflow = head THEN "head" ELSE "scan")
    /\ ri' = Words - 1
    /\ UNCHANGED <<shared, writer, stores, head, peeks, rcall, seen>>

\* overflow = head + 1, the first half of Pm_Dequeue's condition ...
ReadOverflow ==
    /\ rpc = "overflow"
    /\ ReaderGoesOn(IF ReaderOverflow = head + 1 THEN "head" ELSE "scan")
    /\ ri' = Words - 1
    /\ UNCHANGED <<shared, writer, stores, head, peeks, rcall, seen>>

\* ... and the second half.  The head slot may be in use ...
HeadOccupied ==
    /\ rpc = "head"
    /\ ReaderSees(head, 0) # 0
    /\ ReaderGoesOn("scan")
    /\ UNCHANGED <<shared, writer, stores, head, peeks, rcall, ri, seen>>

\* ... or empty: the overflow happened here, and is acknowledged.
HeadEmpty ==
    /\ rpc = "head"
    /\ ReaderSees(head, 0) = 0
    /\ rover' = TRUE
    /\ UNCHANGED <<shared, writer, wpend, wover, rpend, head, peek, peek_flag, rcall, ri>>

AcknowledgeDequeue ==
    /\ HeadEmpty /\ rcall = "Dequeue"
    /\ ReportOverflow
    /\ UNCHANGED peek_overflow

AcknowledgePeek ==
    /\ HeadEmpty /\ rcall = "Peek"
    /\ peek_overflow' = TRUE
    /\ ReaderReturns("Null")
    /\ UNCHANGED <<seen>>

\* The words of the head slot are tested from back to front.
ScanMissing ==
    /\ rpc = "scan"
    /\ ReaderSees(head, ri) = 0
    /\ ReaderReturns(IF rcall = "Peek" THEN "Null" ELSE "NoData")
    /\ UNCHANGED <<shared, writer, stores, head, peeks, rcall, ri, seen>>

ScanPresent ==
    /\ rpc = "scan"
    /\ ReaderSees(head, ri) # 0
    /\ ri > 0
    /\ ri' = ri - 1
    /\ UNCHANGED <<shared, writer, stores, head, peeks, rpc, rcall, rret, seen>>

\* Mutant: the words are not all tested.
ScanCompleteEarly ==
    /\ rpc = "scan"
    /\ ReaderSees(head, ri) # 0
    /\ ReaderGoesOn("take")
    /\ UNCHANGED <<shared, writer, stores, head, peeks, rcall, ri, seen>>

ScanComplete ==
    /\ rpc = "scan"
    /\ ReaderSees(head, ri) # 0
    /\ ri = 0
    /\ ReaderGoesOn("take")
    /\ UNCHANGED <<shared, writer, stores, head, peeks, rcall, ri, seen>>

\* The words are cleared and head moves on ...
RemoveMessage ==
    /\ rpc = "take"
    /\ rpend' = rpend \cup {<<head, w>> : w \in Word}
    /\ head' = NextSlot(head)
    /\ UNCHANGED <<shared, writer, wpend, wover, rover, peek_overflow, rcall, ri>>

\* ... once the message is copied to Pm_Dequeue's caller or the peek buffer.
TakeMessage ==
    /\ RemoveMessage /\ rcall = "Dequeue"
    /\ GiveMessage(ReaderSees(head, Words - 1))
    /\ UNCHANGED <<peek, peek_flag>>

\* Mutant: the peeked message is forgotten.
TakePeekUnflagged ==
    /\ RemoveMessage /\ rcall = "Peek"
    /\ peek' = ReaderSees(head, Words - 1)
    /\ ReaderReturns("Peeked")
    /\ UNCHANGED <<peek_flag, seen>>

TakePeek ==
    /\ RemoveMessage /\ rcall = "Peek"
    /\ peek' = ReaderSees(head, Words - 1)
    /\ peek_flag' = TRUE
    /\ ReaderReturns("Peeked")
    /\ UNCHANGED <<seen>>

DequeueCall == DequeuePeekedOverflow \/ DequeuePeeked \/ DequeueStart
PeekCall == PeekAgain \/ PeekStart
ReaderCall == DequeueCall \/ PeekCall \/ QueueEmptyCall
ReaderStep ==
    \/ ReadOverflow \/ HeadOccupied \/ AcknowledgeDequeue \/ AcknowledgePeek
    \/ ScanMissing \/ ScanPresent \/ ScanComplete \/ TakeMessage \/ TakePeek

-----------------------------------------------------------------------------
(***************************************************************************)
(* The memory: stores under way reach it, in any order but one.            *)
(***************************************************************************)
CommitWord(s, w) ==
    /\ wpend[s][w] # 0
    /\ buffer' = [buffer EXCEPT ![s][w] = wpend[s][w]]
    /\ wpend' = [wpend EXCEPT ![s][w] = 0]
    /\ UNCHANGED <<overflow, writer, reader, wover, rpend, rover>>

CommitClear(s, w) ==
    /\ <<s, w>> \in rpend
    /\ buffer' = [buffer EXCEPT ![s][w] = 0]
    /\ rpend' = rpend \ {<<s, w>>}
    /\ UNCHANGED <<overflow, writer, reader, wpend, wover, rover>>

\* Pm_Dequeue's comment assumes that this store does not overtake a full
\* buffer of earlier ones: the words of the slot at tail are in place.
CommitOverflow ==
    /\ wover # 0
    /\ OverflowInOrder => \A w \in Word : wpend[wover - 1][w] = 0
    /\ overflow' = wover
    /\ wover' = 0
    /\ UNCHANGED <<buffer, writer, reader, wpend, rpend, rover>>

CommitAcknowledge ==
    /\ rover
    /\ overflow' = 0
    /\ rover' = FALSE
    /\ UNCHANGED <<buffer, writer, reader, wpend, wover, rpend>>

Commit ==
    \/ \E s \in Slot, w \in Word : CommitWord(s, w) \/ CommitClear(s, w)
    \/ CommitOverflow
    \/ CommitAcknowledge

Next == WriterCall \/ WriterStep \/ ReaderCall \/ ReaderStep \/ Commit

Spec == Init /\ [][Next]_vars
=============================================================================
