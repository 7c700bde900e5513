---------------------------- MODULE PmQueueCodec -----------------------------
(***************************************************************************)
(* How pm_common/pmutil.c writes a message into a slot of the queue without *)
(* a zero word, and reads it back.  A slot has one word more than the       *)
(* message: word 0 holds the place of the message's first zero, and the     *)
(* place of each zero holds that of the next, the last one Size + 1.        *)
(* Module PmQueue counts on two things: a message comes out as it went in,  *)
(* and a slot whose words are all non-zero holds a whole message.           *)
(***************************************************************************)
EXTENDS Integers

CONSTANTS
    Size,       \* words in a message
    Values      \* what a word may hold

ASSUME SizeAssumption == Size \in Nat \ {0}
ASSUME ValuesAssumption == Values \subseteq Int /\ 0 \in Values

VARIABLES
    src,        \* the message given to Pm_Enqueue
    slot,       \* the words of the slot, cleared by an earlier Pm_Dequeue
    ptr,        \* Pm_Enqueue: the word that is to hold the place of the next zero
    msg,        \* the message Pm_Dequeue gives back
    i,          \* the index of either loop
    phase

codecVars == <<src, slot, ptr, msg, i, phase>>

Place == 1 .. Size
SlotWord == 0 .. Size

CodecInit ==
    /\ src \in [Place -> Values]
    /\ slot = [w \in SlotWord |-> 0]
    /\ ptr = 0
    /\ msg = [w \in Place |-> 0]
    /\ i = 1
    /\ phase = "encoding"

\* The body of Pm_Enqueue's loop.
EncodeZero ==
    /\ phase = "encoding" /\ i <= Size
    /\ src[i] = 0
    /\ slot' = [slot EXCEPT ![ptr] = i]
    /\ ptr' = i
    /\ i' = i + 1
    /\ UNCHANGED <<src, msg, phase>>

EncodeWord ==
    /\ phase = "encoding" /\ i <= Size
    /\ src[i] # 0
    /\ slot' = [slot EXCEPT ![i] = src[i]]
    /\ i' = i + 1
    /\ UNCHANGED <<src, ptr, msg, phase>>

\* Mutant: the place of the last zero is written before the loop's last word.
EncodeEndEarly ==
    /\ phase = "encoding" /\ i >= Size
    /\ slot' = [slot EXCEPT ![ptr] = i]
    /\ phase' = "encoded"
    /\ UNCHANGED <<src, ptr, msg, i>>

\* The store after the loop.
EncodeEnd ==
    /\ phase = "encoding" /\ i > Size
    /\ slot' = [slot EXCEPT ![ptr] = i]
    /\ phase' = "encoded"
    /\ UNCHANGED <<src, ptr, msg, i>>

\* Pm_Dequeue copies the words after word 0 and starts at the first zero.
DecodeStart ==
    /\ phase = "encoded"
    /\ msg' = [w \in Place |-> slot[w]]
    /\ i' = slot[0]
    /\ phase' = "decoding"
    /\ UNCHANGED <<src, slot, ptr>>

\* Mutant: i is not shifted back to the slot's numbering.
DecodeZeroShifted ==
    /\ phase = "decoding" /\ i <= Size
    /\ msg' = [msg EXCEPT ![i] = 0]
    /\ i' = msg[i] + 1
    /\ UNCHANGED <<src, slot, ptr, phase>>

DecodeZero ==
    /\ phase = "decoding" /\ i <= Size
    /\ msg' = [msg EXCEPT ![i] = 0]
    /\ i' = msg[i]
    /\ UNCHANGED <<src, slot, ptr, phase>>

DecodeEnd ==
    /\ phase = "decoding" /\ i > Size
    /\ phase' = "done"
    /\ UNCHANGED <<src, slot, ptr, msg, i>>

Done == phase = "done" /\ UNCHANGED codecVars

CodecNext == EncodeZero \/ EncodeWord \/ EncodeEnd \/ DecodeStart \/ DecodeZero \/ DecodeEnd \/ Done

CodecSpec == CodecInit /\ [][CodecNext]_codecVars

-----------------------------------------------------------------------------
(***************************************************************************)
(* Properties.                                                             *)
(***************************************************************************)
\* Pm_Dequeue returns the message that was given to Pm_Enqueue.
RoundTrip == phase = "done" => msg = src

\* Pm_Dequeue takes a slot for a message when no word of it is zero: that is
\* not so before Pm_Enqueue's last store, whatever the message.
WholeWhenVisible == phase = "encoding" <=> \E w \in SlotWord : slot[w] = 0

\* No word is written twice, so that the stores may reach memory in any order.
WrittenOnce == [][\A w \in SlotWord : slot[w] # 0 => slot'[w] = slot[w]]_codecVars

-----------------------------------------------------------------------------
(***************************************************************************)
(* The loop invariants.                                                    *)
(***************************************************************************)
CodecTypeOK ==
    /\ src \in [Place -> Values]
    /\ slot \in [SlotWord -> Int]
    /\ ptr \in SlotWord
    /\ msg \in [Place -> Int]
    /\ i \in Int
    /\ phase \in {"encoding", "encoded", "decoding", "done"}

\* Word w holds a place: it is word 0 or stands for a zero.
Holds(w) == w = 0 \/ src[w] = 0

\* Word w holds n, and n is the place of the first zero after w, or past the end.
LinksTo(w, n) ==
    /\ slot[w] = n
    /\ w < n
    /\ n <= Size => src[n] = 0
    /\ \A x \in Place : w < x /\ x < n => src[x] # 0

EncodingInv ==
    /\ i \in 1 .. Size + 1 /\ ptr < i /\ Holds(ptr)
    /\ slot[ptr] = 0
    /\ \A w \in Place : ptr < w /\ w < i => src[w] # 0
    /\ \A w \in SlotWord :
         /\ w >= i => slot[w] = 0
         /\ w < i /\ ~Holds(w) => slot[w] = src[w]
         /\ w < ptr /\ Holds(w) => \E n \in 1 .. ptr : LinksTo(w, n)

EncodedInv ==
    \A w \in SlotWord : IF Holds(w) THEN \E n \in 1 .. Size + 1 : LinksTo(w, n)
                               ELSE slot[w] = src[w]

DecodingInv ==
    /\ i \in 1 .. Size + 1
    /\ i <= Size => src[i] = 0
    /\ \A w \in Place : msg[w] = IF w < i THEN src[w] ELSE slot[w]

CodecIInv ==
    /\ CodecTypeOK
    /\ phase = "encoding" => EncodingInv
    /\ phase # "encoding" => EncodedInv
    /\ phase = "decoding" => DecodingInv
    /\ RoundTrip
=============================================================================
