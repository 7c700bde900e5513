---------------------------- MODULE RtMidiQueue ----------------------------
(***************************************************************************)
(* MidiInApi::MidiQueue of RtMidi: the ring in which the input thread      *)
(* leaves messages and from which the application's getMessage takes them. *)
(* There is no lock.  push changes only back, pop changes only front, each *)
(* reads both indices once, and a message is copied in a step of its own.  *)
(* Stores are seen by the other thread in the order of the program.        *)
(*                                                                         *)
(* The actions leave the variables of modules that extend this one alone;  *)
(* Spec runs the queue by itself.                                          *)
(***************************************************************************)
EXTENDS Integers, Sequences

CONSTANTS
    RingSize,   \* queueSizeLimit; at 0 there would be no ring at all
    Message     \* MIDI messages, the empty one among them

NoMessage == <<>>

ASSUME RingAssumption == RingSize \in Nat \ {0} /\ NoMessage \in Message

VARIABLES
    ring, front, back,      \* of MidiQueue
    ppc, pmsg, pback,       \* push: where it is, its argument, its copy of back
    qpc, qfront, qmsg,      \* pop: where it is, its copy of front, what it has copied
    pushed, popped          \* history: the messages that went in and that came out

pushVars == <<ppc, pmsg, pback>>
popVars == <<qpc, qfront, qmsg>>
queueVars == <<ring, front, back, pushVars, popVars, pushed, popped>>

Slot == 0 .. RingSize - 1

QueueInit ==
    /\ ring = [i \in Slot |-> NoMessage] /\ front = 0 /\ back = 0
    /\ ppc = "idle" /\ pmsg = NoMessage /\ pback = 0
    /\ qpc = "idle" /\ qfront = 0 /\ qmsg = NoMessage
    /\ pushed = <<>> /\ popped = <<>>

SizeOf(b, f) == IF b >= f THEN b - f ELSE RingSize - f + b

After(i) == (i + 1) % RingSize

-----------------------------------------------------------------------------
(***************************************************************************)
(* push, by the input thread.  A message that finds no room is dropped.    *)
(***************************************************************************)
\* Mutant: the ring is filled to its last slot.
RoomFull == SizeOf(back, front) < RingSize

Room == SizeOf(back, front) < RingSize - 1

PushSize(m) ==
    /\ ppc = "idle"
    /\ \/ Room /\ ppc' = "store" /\ pmsg' = m /\ pback' = back
       \/ ~Room /\ UNCHANGED pushVars
    /\ UNCHANGED <<ring, front, back, popVars, pushed, popped>>

PushStore ==
    /\ ppc = "store" /\ ppc' = "advance"
    /\ ring' = [ring EXCEPT ![pback] = pmsg]
    /\ UNCHANGED <<front, back, pmsg, pback, popVars, pushed, popped>>

PushAdvance ==
    /\ ppc = "advance" /\ ppc' = "idle"
    /\ back' = After(back)
    /\ pushed' = Append(pushed, pmsg)
    /\ pmsg' = NoMessage /\ pback' = 0
    /\ UNCHANGED <<ring, front, popVars, popped>>

(***************************************************************************)
(* pop, by the application.                                                *)
(***************************************************************************)
Empty == SizeOf(back, front) = 0

PopSize ==
    /\ qpc = "idle" /\ ~Empty
    /\ qpc' = "copy" /\ qfront' = front
    /\ UNCHANGED <<ring, front, back, pushVars, qmsg, pushed, popped>>

PopCopy ==
    /\ qpc = "copy" /\ qpc' = "advance"
    /\ qmsg' = ring[qfront]
    /\ UNCHANGED <<ring, front, back, pushVars, qfront, pushed, popped>>

PopAdvance ==
    /\ qpc = "advance" /\ qpc' = "idle"
    /\ front' = After(front)
    /\ popped' = Append(popped, qmsg)
    /\ qfront' = 0 /\ qmsg' = NoMessage
    /\ UNCHANGED <<ring, back, pushVars, pushed>>

PushStep == PushStore \/ PushAdvance
PopStep == PopCopy \/ PopAdvance

QueueNext ==
    \/ \E m \in Message : PushSize(m)
    \/ PushStep
    \/ PopSize
    \/ PopStep

QueueSpec == QueueInit /\ [][QueueNext]_queueVars

-----------------------------------------------------------------------------
(***************************************************************************)
(* Properties.                                                             *)
(***************************************************************************)
\* Type invariant.
QueueTypeOK ==
    /\ ring \in [Slot -> Message] /\ front \in Slot /\ back \in Slot
    /\ ppc \in {"idle", "store", "advance"} /\ pmsg \in Message /\ pback \in Slot
    /\ qpc \in {"idle", "copy", "advance"} /\ qfront \in Slot /\ qmsg \in Message
    /\ pushed \in Seq(Message) /\ popped \in Seq(Message)

\* The application gets the messages that were pushed, all of them up to the
\* last it got, in their order and as they were, and finds the ring empty only
\* when it has got them all: no message is skipped, told twice, overwritten or
\* forgotten, however getMessage and the input thread interleave.
PopsInOrder ==
    /\ Len(popped) <= Len(pushed)
    /\ popped = SubSeq(pushed, 1, Len(popped))
    /\ Empty => popped = pushed

\* The input thread does not write the slot that getMessage copies.
SlotExclusive == ppc = "store" /\ qpc = "copy" => pback # qfront
=============================================================================
