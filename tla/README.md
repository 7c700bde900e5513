# Verification of the program code in the ports collection

The repository is a collection of FreeBSD ports in progress: about 1150 files,
most of which are Makefiles, packing lists and patches that make other
people's programs compile. A few ports carry program code of their own, and
what there is of it with state, threads and ordering to get right is what this
project models, checks and, in part, proves:

* **PortMidi with its sndio driver**, a complete copy in
  `audio/pd-devel-portmidi/files/portmidi/`. File names without a path are in its `pm_common/`
  (`portmidi.c`, `portmidi.h`, `pmutil.c`, `pmutil.h`, `pminternal.h`) and `pm_sndio/`
  (`pmsndio.c`). The other copies of `pmsndio.c` in the tree belong to ports that take
  `pm_common` from upstream; what is said here holds for them as far as their files agree.
* **PortTime for FreeBSD**, the timer of `audio/portmidi` (`files/patch-porttime_ptfreebsd.c`).
* **The device table of PortMidi with virtual devices**, as `audio/rtcmix` patches it
  (`files/patch-src_control_midi_portmidi_pm__common_portmidi.c` and `.h`, `files/pm_sndio/pmsndio.c`).
* **The kqueue file system watcher of wxWidgets**, which `emulators/libretro-pcsx2` adds
  (`files/3rdparty_wxwidgets3.0_src_unix_fswatcher__kqueue.cpp`).
* **RtMidi's input over ALSA**, as `audio/chuck` patches it
  (`files/extra-patch-src_core_rtmidi-oss_alsa.cpp`, `files/patch-src_core_rtmidi.h`).
* **RtMidi's output over JACK**, in the port's default variant (`files/extra-patch-src_core_rtmidi-oss_jack.cpp`).

## 1. The system

```
   MIDI device ==bytes==> input_thread ==pm_read_short/pm_read_bytes==> PmQueue ==Pm_Read==> application
                          (pmsndio.c)        (portmidi.c)              (pmutil.c)
   MIDI device <==mio_write== sndio_write_* <==Pm_Write/Pm_WriteSysEx== application
                          (pmsndio.c)        (portmidi.c)
   struct mio_dev: one handle for both directions, opened and closed by set_mode
   Pt_Start/Pt_Stop ==> timer thread ==callback==> application          (its clock: Pt_Time)
   device number ==> pm_descriptors[] ==> PmInternal (stream)           (Pm_Open*, virtual devices)

   ALSA sequencer ==events==> alsaMidiHandler ==callback, or MidiQueue + getMessage==> application
   JACK port <== jackProcessOut <==two rings== sendMessage <== application
   file system ==notes==> kqueue ==> event loop: ReadEvents, FindChanges ==events==> owner's handler
```

| part | state | operations | who else touches the state |
|---|---|---|---|
| message queue (`pmutil.c`) | ring of words, `head`, `tail`, `overflow`, peek buffer and its flags | `Pm_Enqueue`, `Pm_Dequeue`, `Pm_QueuePeek`, `Pm_QueueEmpty`, `Pm_QueueFull`, `Pm_SetOverflow` | one writer (the driver's thread) and one reader (the application), without a lock |
| input path (`portmidi.c`) | `filters`, `channel_mask`, `sysex_in_progress`, `sysex_message`, the queue | `pm_read_short`, `pm_read_bytes`, `pm_flush_sysex`, `Pm_Read`, `Pm_SetFilter`, `Pm_SetChannelMask` | driver's thread and application |
| input parser (`pmsndio.c`, `input_thread`) | `st`, `c`, `idx`, `len`, `pm_ev`, `sysex_data` | one step for each byte that `mio_read` returns | its own thread only; calls the input path |
| device lifecycle (`portmidi.c` over `pmsndio.c`) | `devs[]` (`hdl`, `mode`, `thread`), descriptors' `opened`, streams | `Pm_Initialize`, `Pm_OpenInput`, `Pm_OpenOutput`, `Pm_Close`, `Pm_Terminate`, `set_mode` | application, and the input thread, which reads `mode` and `hdl` |
| output path (`portmidi.c` over `pmsndio.c`) | `sysex_in_progress`, the loop state of `Pm_Write` and `Pm_WriteSysEx` | `Pm_Write`, `Pm_WriteShort`, `Pm_WriteSysEx` | application |
| PortTime | `pt_callback_proc_id`, `time_started_flag`, `time_offset`, `pt_thread_created`, `pt_thread_pid`; of the thread `my_id`, `mytime` | `Pt_Start`, `Pt_Stop`, the timer thread | application, timer threads, and callbacks that call `Pt_Stop`, without a lock |
| device table (rtcmix) | `pm_descriptors`, `pm_descriptor_len`, `pm_descriptor_max`, default devices, streams | `pm_add_device`, `pm_undo_add_device`, `Pm_CreateVirtual*`, `Pm_DeleteVirtualDevice`, `Pm_Open*`, `Pm_Close`, `Pm_Initialize`, `Pm_Terminate` | one application thread; the order of calls is free |
| kqueue watcher | watch entries (descriptor, last listing), the kqueue's notes | `Init`, `Close`, `DoAdd`, `DoRemove`, `DoRemoveAll`, `ReadEvents`, `FindChanges`, `ProcessNativeEvent` | event loop and the handlers it calls; other processes change the directories |
| RtMidi queue | `ring`, `front`, `back` | `push`, `pop` | input thread and application, without a lock |
| RtMidi ALSA input | `doInput`, `usingCallback`, `ignoreFlags`, `connected_`, `vport`, `subscription`, `thread`, the pipe; the handler's `message`, `continueSysex` | `alsaMidiHandler`, `openPort`, `openVirtualPort`, `closePort`, the destructor, `ignoreTypes`, `setCallback`, `cancelCallback`, `getMessage` | application and input thread, without a lock |
| RtMidi JACK output | `client`, `port`, `buffSize`, `buffMessage`, `sem_needpost`, `sem_cleanup` | `jackProcessOut`, `sendMessage`, `openPort`, `openVirtualPort`, `closePort`, the destructor | application and JACK's thread, over two rings and two semaphores |

What is hard in it: two threads that share a queue without a lock, where the
data words are the only synchronisation (any order of stores); an overflow
that has to be reported at its place in the stream; sysex messages of any
length that are cut into pieces by the driver, into events by PortMidi, and by
overflows, real-time bytes and errors in between; a handle that is closed under
the thread that uses it; opens that fail half way; a device that disappears; a
timer that is stopped from within its own callback while the application stops it too, and
started again while its last thread is on its way out; table entries that are used again under
the numbers that the application holds; a kernel that merges notes, and directories
that change between the note and the look at them; an input thread that sleeps in `poll` when it is told to stop, and erases the identifier
with which it is joined; a message whose bytes and size travel in two rings, and a wait that gives up while its
answer is on the way.

What makes each part correct:

* **queue**: no message is read in part or mixed from two; order is kept and
  a gap is announced; accepted messages and losses eventually reach a reader
  that keeps reading;
* **input path**: a sysex message reaches the application whole, or cut with a
  report, and leaves nothing behind for the next one;
* **parser**: exactly the message on the wire is handed over at its last byte;
* **device lifecycle**: one open handle exactly while the device is in use, the mode
  follows the open streams, a stream is not freed under its thread, calls return;
* **output path**: the device gets the bytes it was meant to get; after an
  error the stream can be used again;
* **PortTime**: one thread at most calls back, none after `Pt_Stop`, none more than a millisecond early unless a signal cut its wait short, on a time base
  that does not move under it, and `Pt_Stop` returns;
* **device table**: names are unique, numbers are stable, a stream and its device know each other;
* **kqueue watcher**: events add up to what happened, none is lost, the work on each comes to an end, and freed entries are not used;
* **RtMidi**: messages are whole, in order, each handed over once; after `closePort` nothing is running, and
  `closePort` returns; what is sent over JACK arrives whole and in order.

## 2. Modules

| module | models | kind |
|---|---|---|
| `PmQueueSpec` | what `pmutil.h` promises: a FIFO that may lose messages, never silently | abstract specification |
| `PmQueue` | `pmutil.c`, one load or store at a time, with a store buffer for each thread | detailed specification |
| `PmQueueProps` | type invariant, safety, refinement mapping to `PmQueueSpec`, liveness, inductive invariant `IInv` | properties |
| `PmQueueCodec`, `MCPmQueueCodec` | the encoding without zero words of `Pm_Enqueue` and its decoding in `Pm_Dequeue`, its properties and loop invariants | algorithm |
| `PmQueueProofs` | safety of the queue, that it implements `PmQueueSpec`, and the encoding | proofs |
| `PmInput`, `PmInputProps` | `pm_read_short`, `pm_read_bytes`, filters, `Pm_Read` over an abstract queue | detailed specification |
| `PmInputDriver`, `MCPmInput` | any driver that keeps `pm_read_short`'s rules | environment |
| `SndioInput`, `MCSndioInput` | the byte loop of `input_thread`, composed with `PmInput`; a MIDI device | composition |
| `SndioDevice` | opening, closing, terminating; `set_mode`; the life of `input_thread` | detailed specification with its properties and inductive invariant |
| `SndioProofs` | safety of opening and closing; the parser, the packing of sysex messages and the stream that the application gets | proofs |
| `PmOutput`, `MCPmOutput` | `Pm_Write`, `Pm_WriteShort`, `Pm_WriteSysEx`, sndio's write functions, host errors | detailed specification with its properties |
| `PmOutputProofs` | what is written is what was given, and errors do not outlive their call | proofs |
| `PortTime` | `Pt_Start`, `Pt_Stop`, the timer thread and the clock | detailed specification with its properties |
| `PortTimeProofs` | the inductive invariant of the timer and its safety | proofs |
| `PmDevices`, `MCPmDevices` | the device table with virtual devices, opening and closing by number | detailed specification with its properties |
| `PmDevicesProofs` | names, numbers and streams stay consistent | proofs |
| `KqueueWatcher` | the watcher, its owner and the directories | detailed specification with its properties |
| `KqueueWatcherProofs` | removed entries are not worked on, `FindChanges` merges, and the owner is told the truth | proofs |
| `RtMidiQueue` | `MidiQueue`: `push` and `pop` | detailed specification with its properties |
| `RtMidiAlsaIn`, `MCRtMidi` | `alsaMidiHandler` and the application's calls over `RtMidiQueue` and a sequencer | composition |
| `RtMidiInProofs` | the ring is a FIFO, `RtMidiAlsaIn` uses it so (refinement), messages are whole and in order, closing leaves no thread | proofs |
| `RtMidiJackOut` | `sendMessage`, `jackProcessOut`, opening and closing over JACK | detailed specification with its properties |
| `RtMidiJackOutProofs` | messages stay whole and in order over the two rings; tokens; flushing | proofs |

`PmInput` uses the queue at the level of `PmQueueSpec`: it is the run
`queue_safety` (property `ImplementsQueue`) and theorem `QueueImplements` that justify this. `SndioInput`
EXTENDS `PmInput`: each byte that `input_thread` takes may call `pm_read_short`
or start `pm_read_bytes`, whose loops then run step by step against the
application's `Pm_Read`. `RtMidiAlsaIn` EXTENDS `RtMidiQueue`: its actions take
`PushSize`, `PushStep`, `PopSize` and `PopStep` as conjuncts, and theorem `AlsaUsesQueue` says that the composition
implements `QueueSpec`.

Definitions named "Mutant: ..." are deliberately wrong variants of the
definition that follows them. No specification uses them; they exist to see
that each property notices a bug of that kind.

Some constants switch a behaviour on that no passing run has, because the code goes wrong there in a way
that is known (section 4). They are there so that a reader can see it, and so that
each property says what it excepts: `Truncates` (`PmInputDriver`: a driver that abandons
sysex messages), `OverflowInOrder = FALSE` (`PmQueue`), `Overlap` (`PortTime`: starting while a callback is in `Pt_Stop`),
`Careful = FALSE` (`PmDevices`: opening deleted devices, deleting real ones), `HandlerRemoves`
(`KqueueWatcher`: a handler removes the watch its event is about).

### PmQueue

Each action is one load or store of a shared variable together with the local
computation up to the next one. `EnqueueStart` is the test of `overflow`,
`ScanFree`, `ScanFull` and the ends of the scan are `Pm_QueueFull`'s loop over
the words of the tail slot, `EnqueueStores` hands all the words of the message to the
writer's store buffer and moves `tail`. `ReadOverflow`, `HeadOccupied`,
`HeadEmpty`, `ScanMissing`, `ScanPresent`, `TakeMessage` are `Pm_Dequeue` from its
test of `overflow` to its `bzero`; the same steps with `rcall = "Peek"` are
`Pm_QueuePeek`. A store stays in its thread's buffer (`wpend`, `wover`,
`rpend`, `rover`), where the thread itself already sees it, until a `Commit`
action moves it to memory, words in any order.

One order is assumed, by the constant `OverflowInOrder`: the store to
`overflow` does not become visible before the stores to the message words
that precede it. It is the "write-order dependency" that `Pm_Dequeue` names in its
comment (pmutil.c:122-127) and takes for granted. Without it (`OverflowInOrder =
FALSE`) TLC finds `LossReported` violated: the reader meets the overflow in a
buffer that still looks empty and reports it before messages that preceded it.

The *data* of a message is its number. That no word of a message is zero, on
which all of this rests, is the matter of `PmQueueCodec`.

### PmInput and SndioInput

An event is the sequence of its bytes. `ReadShort` is the whole of
`pm_read_short`. `pm_read_bytes` has three loops (`ScanStart` ... `ScanEnd`; `SendFour`
... ; `OmitByte`, `SendByte`, `SendEox`), and each iteration is an action, because each may
put an event into the queue while the application reads from it. Filters are sets of bit
numbers and change at any moment. `SndioInput` adds one action
for each branch of the byte loop (`RealTime`, `SysexEnd`, `SysexStart`, `Status`,
`SysexData`, `SysexTooLong`, `ShortData`, `StrayData`). Its specification
is `SndioSpec`, with `SndioInit` and `SndioNext`, since it has the definitions of `PmInput` beside its own.
What the device sends is assumed well-formed (`ShortMessagesAssumption`, `SysexAssumption`): messages of two or three bytes with
their status byte, and no sysex message that is one byte longer than `sysex_data`, which the code would write past its end (section 4).

The sysex data bytes of message *n* count down to 1 above 16 *n*, so that a byte
that is lost, repeated or in the wrong message shows.

### SndioDevice

`mode`, `hdl` and `thread` are the fields of `struct mio_dev`. `set_mode` is
four actions (close, mode = 0, open, mode = new mode), since the input thread
reads `mode` and `hdl` without a lock in between. The thread is a program
counter with one action for each use of `mode` or `hdl`. Undefined behaviour is
a choice: a call with a closed or NULL handle and work on a freed stream may
crash the program (`crashed`) or go on with any result the call can have; a read of
`midi->descriptor` before it was assigned (`Pm_Close` after `OpenEarly`) may
crash, or find any value.

`trouble` is a history variable: what has happened to a device that a property has
to except. *disturbed*: the output was opened or closed under an open
input, pthread_create failed or poll returned an error; *failed*: the device could not be opened again for a stream that was
open; *abandoned*: `pm_term` did not see the device.

### PmOutput

One action for each branch of the loop of `Pm_Write`, one write to the device per
action, since every write may fail. `wire` is what reached the device in a call, `given` what
the caller asked for, `receiver` whether the device is within a sysex message.

The lists of events that an application may give are in three named assumptions. After its first byte an event holds data bytes or the EOX;
a whole list (`WholeMessages`) has its events where `Pm_Write` takes them (`Proper`, over `Takes` and `OnAfter`: data only
within a sysex message, a status byte only outside of one), `Pieces` is any other; a sysex message is SYSEX, data, EOX.
`BytesOf` is what a list asks for: a short message's bytes, or sysex bytes up to the EOX of their event.

### PortTime

Each load and store of the four statics is a step: `Pt_Stop` is `StopCall` (load of
`pt_callback_proc_id`), `StopStore`, `StopTest` (of `pt_thread_created`, and the load of
`pt_thread_pid`), `StopJoin`, `StopReturn`; `Pt_Start` is `StartAgain`, `StartClock` (no callback), `StartFails`
or `StartThread`, `SetCreated`, `SetStarted`. The callers are the application and every timer thread, whose callback
may call `Pt_Stop` once. `pthread_join` of oneself or of no thread returns at once with an error
that nobody looks at, and a join of a thread that somebody else joins may return at any time
(`Joinable`).

Time is kept as distances, so that the state is finite without a bound on the
clock: `lead[t]` is `mytime * resolution` less the whole milliseconds since `time_offset`, `wait[t]` what is left of the
thread's `select`. A `Tick`, at each whole millisecond, lowers both. `Pt_Time` divides a difference of nanoseconds that is negative when the
second has wrapped, and C's division then rounds up: the delay that the loop computes is `lead[t]` or one less (`Delay`, `up`); the model leaves it open which.

Nobody looks at the result of `select` (ptfreebsd.c:61). It rejects a timeout whose `tv_usec` has a million or more, and then
does not wait (`Refused`, `SelectLimit`), and a signal ends it at any time (`Interrupted`): in both cases the callback comes at once. Two history variables remember it: `cut` has the
threads whose last `select` did not take its time, `struck` those that a signal has hit since they were started.

### PmDevices

One action per call of the application, since it has one thread; what is hard is
the order of calls. `Slot`, `NameConflict`, `Added` and `Undone` are `pm_add_device` and
`pm_undo_add_device`, which search for a deleted entry of the same name and direction, extend the
table in blocks, and mark or remove an entry when the driver refuses. `pm_init` adds the devices of the hardware one after the other (`FindDevice`,
`found`); their names are assumed distinct, as sndio's are by their numbers (`NamesAssumption`). The functions that a
driver registers for virtual devices are not in the tree: their answer is a choice. `driver` chooses between
rtcmix's sndio driver and one with virtual devices.

### KqueueWatcher

The event loop is one program counter (`pc`): `OnReadWaiting` begins a round of
`ReadEvents`; `ReadEvent(p)` retrieves one event, which clears the notes; the loop of `ProcessNativeEvent` over
`nflags` takes one flag or group of flags at a time (`Scan` for NOTE_WRITE on a directory that exists, with
`SendChange` for each difference that `FindChanges` finds; `SendFlag` for the branches of the rest;
`OnlyLink` for a flag without a branch). A round ends when nothing waits or kevent fails (`ReadDone`, `ReadFails`). While a handler runs (`pc = "handler"`) the owner may add and remove watches.
Directories change at any moment, between any two of these steps, with NOTE_LINK or NOTE_EXTEND beside NOTE_WRITE or without, and come back as another
incarnation (`vnode`) under the same path.

`Sorted` is a listing in its order, `FindChanges` the merge of two, as a recursive function of the two places at which the loops stand.

History variables: `told` is what the owner knows by its first listing and by the events; `gap` holds
the watches whose directory changed between the snapshot of the constructor and `EV_ADD`, which
nobody notes (section 4); `gone` the deletions the owner has to be told of.

### RtMidiQueue and RtMidiAlsaIn

`push` is `PushSize` (both indices are read once, and a full ring drops the message), `PushStore`, `PushAdvance`; `pop` is
`PopSize`, `PopCopy`, `PopAdvance`. `front` and `back` are plain ints in the code, a data race by the letter; the model takes
them, and the copying of a message before its index, to be seen in program order.

`alsaMidiHandler` is a program counter with one action for each turn its loop can take. The identifier
`data->thread`, the flag `doInput` and the count of bytes in the pipe are what it shares with `closePort`
(`ClosePort`, `WakeHandler`, `JoinTest`, `Join`, `Closed`), each read or written in a step of its own. The
sequencer is a FIFO that answers -ENOSPC after an overrun and has then lost what it held. An event carries
its number, the number of the message's first chunk and its place in it, so that a message that is cut, joined, told twice or out of order shows.
`broken` is a history variable: messages that have lost a chunk to an overrun, a filter or a full
memory, or that were joined with another event (section 4); `starved` is set when a malloc in the thread failed.

### RtMidiJackOut

JACK is not in the tree. The model takes of it what the code relies on: a ring has one reader and one writer, a write takes what
there is room for and a read gives what there is; the process callback runs in one thread, a cycle at a time, while the client is open;
`jack_client_close` waits for the running cycle, `jack_port_unregister` does not. JACK may stop for good at any step.

Both rings are rings of bytes of one length (`RingBytes`, 4137), and a size takes four of them (`SizeBytes`). What does not fit is dropped, also in the middle of a size (`Fitting`), and
`jackProcessOut` reads what there is and puts it over the first bytes of `space` (`Spaced`). `jack_midi_event_reserve` fails for an event that is longer than JACK's buffer (`EventLimit`), for
one of no bytes, and for any when the buffer is full; the bytes then go to address NULL (`ReserveFails`).

There is a program counter for the application (`apc`) and one for `jackProcessOut` (`cpc`); each access of a
ring, a semaphore or `data->port` that the other side can see is an action. `sendMessage` is `WriteMessage` and `WriteSize`; `closePort` is `ClosePort` (the
token in `sem_needpost`), `WaitAnswered` or `WaitTimesOut`, `Unregister`, `ClearPort`. A message is its number, as often as it has bytes.
The model ends in `cpc = "crashed"` where the code uses a NULL port, a NULL event or freed rings (section 4). `lost`, `overrun` (which of the rings did not take
all of what was written), `timeouts` and `cycle` are history variables.

## 3. Runs

| run | question | bounds | states |
|---|---|---|---|
| `queue_safety` | Is the queue safe, and does it implement `PmQueueSpec`, for every interleaving and order of stores? | 2 slots, 2 words, 4 messages | 3.39 M |
| `queue_live` | Does a reader that keeps calling `Pm_Dequeue` get every accepted message and every loss report? | 1 slot, 2 words, 3 messages | 236 k |
| `codec` | Does the encoding round-trip, and is it written so that order does not matter? | 4 words with values -1 .. 5 | 20.6 k |
| `pm_input` | Does any driver that never abandons a sysex message get it through whole or reported as cut? | queue of 2 events, reads of up to 2, 3 messages, 1 real-time byte, filters that change | 1.18 M |
| `sndio_input` | Does the parser, with everything behind it, hand over exactly what was sent? | 2 messages of 5 kinds, real-time bytes without bound, queue of 2 | 947 k |
| `sndio_device` | Do handle, mode, thread and streams stay consistent, and does every call return? | 2 devices of which glob finds 1 or 2, 2 streams, one device used | 122 k |
| `pm_output` | Is what is written what was given, and does the stream recover? | buffer of 2 events, 4 whole lists, 4 pieces, sysex of 9 lengths | 5.7 k |
| `porttime` | Is there one timer at most, none after `Pt_Stop`, none early but for signals and rounding, and does `Pt_Stop` return? | 2 threads, resolution 2, 3 stops, 1 ms late, signals without bound | 211 k |
| `devices` | Do names, numbers and streams stay consistent over any order of calls? | 2 names, block of 2, table of 5, 2 streams | 57 k |
| `kqueue` | Is what the owner is told true and complete, and does the watcher work on entries that exist? | 2 directories, 2 files, 3 changes | 183 k |
| `rtmidi` | Are messages whole, in order and handed over once, and does closing end the thread? | ring of 3, messages of 2 chunks, sequencer of 2, 3 events, 2 openings | 1.52 M |
| `jack_output` | Is JACK given what was sent, whole and in order, and what does an answer to `closePort` mean? | rings of 11 bytes, messages of 2 and 6, 4 messages, 3 openings | 6.00 M |

Why the bounds are enough for the cases that matter:

* *Queue.* Two slots are the least for which "full" and "empty" differ from
  "one message", `head` and `tail` wrap, and a message can be in memory while another
  is under way. Two words are the least for which a message can be seen in part. Four
  messages fill the ring, overflow it, and leave one for after the
  acknowledgement and one for the next round. The liveness run is on one slot, where
  `head = tail` always, which is the hardest case for telling full from empty,
  because its state space with fairness is checked as a whole. The safety
  properties are proved without bounds.
* *Codec.* -1 is a value that is no place, 1 .. 4 are places, 5 is past the end, 0 the
  value to be coded: every way a word can be mistaken for a link.
* *Input.* A queue of two events overflows at the start, in the middle and at the end of a
  message of ten bytes (three events); pieces of 1, 5 and all bytes make all the
  loops of `pm_read_bytes` start and stop at each phase of the four-byte packing;
  three messages are a victim, its successor and one more. Active sensing is filtered or not, and the filter changes at any moment. In `sndio_input` the buffer
  of the driver is ten bytes, and messages fit exactly, fit loosely and do not fit.
  Real-time bytes go on for ever.
* *Lifecycle.* Two devices, the second of which can disappear and come back, are what
  `pm_term` can confuse; the devices share nothing else, so one is used. Two
  streams are needed to have both directions open; the streams' memory is used
  again, which is when a stale pointer would bite. The invariants were also
  explored with three streams (4.5 M states) and with both devices used
  (4.7 M states), with the same result.
* *Output.* The buffer of `Pm_WriteSysEx` is two events instead of 256; the lengths are
  those at which its counters take their boundary values: within the first event, at the
  ends of events and of buffers, and one byte to either side.
* *PortTime.* Two threads: one that is on its way out and one that was started after it. Three stops are the application's, one of a
  callback at the same time, and one of the second thread. A thread may be late by `Lag`, and early by `MaxLead`, three resolutions, after its waits were cut
  short by signals: a delay then reaches `SelectLimit`, which is two more than the resolution, the least for which `NotEarly` claims anything. Safety is proved without bounds.
* *Device table.* A block of two and a table of five make the table grow three times; two names make conflicts, reuse
  of a deleted entry in the middle, and entries at the end. Two streams have the two directions of a name open.
* *kqueue.* Three changes are one before the snapshot or in the gap, one that is noted and one while
  the events of the note are being sent, in any mixture; two files are the least for which the merge of
  the sorted lists can go wrong on either side; an event of one directory waits while a handler for the other removes watches.
* *RtMidi.* A ring of three holds two messages (section 4): a push and a pop can be under way at the same time, in a ring with one message, the third message
  finds the ring full or wraps its indices; it is proved for any size. Three events are a message of two chunks and an
  event before, between or after them, more than the sequencer holds. Two openings show what the first leaves for the second.
* *JACK.* A ring of eleven bytes holds two sizes and three bytes of a third, as the rings of the code, which hold 16383, end three bytes into a size. Two messages of six bytes overflow the ring of bytes
  before that of sizes, three messages of two bytes the ring of sizes before that of bytes, and mixtures both; a size that was cut is read back as a size of its own, or with the next one's bytes. Three openings let the tokens of two closings that were not answered meet the third,
  and a message of one opening reach the next.

Every bound is a CONSTANT that a `.cfg` file sets. Deadlock is checked in the runs
`queue_safety`, `queue_live`, `codec`, `pm_input`, `sndio_input`, `pm_output` and `porttime`. It is not
in `sndio_device` and `devices`, where the program stops when it crashes, and not in
`kqueue`, `rtmidi` and `jack_output`, where the number of changes, events and messages is bounded and a system in which
nothing happens any more is as it should be; there the liveness properties say that nothing is left undone.

### What the properties say

* `NoTornMessage`, `NoOverwrite`: the words are enough of a lock.
* `LossReported`: order, and a gap only after pmBufferOverflow. (No duplicate: `ImplementsQueue`.)
* `ImplementsQueue`: all of the queue's calls together implement `PmQueueSpec`. The mapping:
  what the reader has still to receive is the overflow kept back by a peek, the peeked message, the ring, and
  the overflow that is set and not acknowledged.
* `AcceptedDelivered`, `LossEventuallyReported`: liveness of the queue.
* `RoundTrip`, `WholeWhenVisible`: the encoding.
* `StreamWhole`: over the queue, what `Pm_Read` holds and what it last returned, each byte
  can follow the one before: a sysex message is whole or cut at a reported overflow
  or a short message.
* `NothingLeftOver`: after a message the packing state is clean.
* `Parses`: the message handed over at a byte is the one that the byte completes.
* `HandleOwned`: no handle leaks, none is closed twice. `ModeMatches`: `mode` is the set of open directions.
  `JoinedBeforeFree`: no use after free. `InputServed`: an open input has exactly one thread, its own.
  `CallsReturn`: no call waits for ever in `pthread_join`.
* `WrittenAsGiven`, `InStep`, `Resynchronised`: the output path.
* `StoppedMeansStopped`: no thread calls back after `Pt_Stop` but the one whose callback called it. `OneTimer`: never two that go on.
  `NotEarly`: the k-th callback of a timer does not come more than the millisecond of `Pt_Time`'s rounding before its time, unless a signal has cut its own `select` short. The early ones do not
  make those that follow early, and `select` refuses no delay of a timer that no signal has hit. `TimeBaseSteady`: `time_offset` is not changed under a
  thread that computes with it. `StopReturns`: `Pt_Stop` comes back, also from within a callback while the application joins.
* `NamesDistinct`, `StreamsOwned`, `NotRenumbered`: the table, over creating, deleting, refusing, growing and using entries again.
* `NoStaleEntry`: an entry that was removed is not worked on, though its note was waiting. `ToldTheTruth`: listing and events together are
  the directory, whenever nothing is pending. `EventsArrive`: what is changed or deleted is told in the end.
  `ProcessingEnds`: the loop over the flags of an event ends, whatever the flags and whatever becomes of the directory meanwhile.
* `PopsInOrder`: the ring: order, nothing skipped, and it looks empty only when all is taken. `WholeMessages`, `ArrivalOrder`: what the handler hands over.
  `ClosedMeansQuiet`, `CloseReturns`: closing.
* `WholeInOrder`: up to the first write that did not fit, of bytes or of a size, each message that JACK was given is whole and given once, in the order of sending; of each
  message sent after those the ring holds all the bytes, next to each other; and what is neither given nor in the ring is `lost`, with a port or with the rings. `TokensMatch`: the two semaphores
  hold one token for each wait that timed out, and one for the wait that is on. `CycleFlushes`: a cycle that lies
  within the wait leaves nothing in the rings, also when the bytes of messages did not fit; when a size did not, it leaves nothing in the ring of sizes, and may leave bytes.

### Fairness

* `queue_live`: stores reach memory (`StoresComplete`: hardware drains its
  store buffers), a call that has started goes on (`CallsEnd`: the code has no lock and
  no wait), and the application calls `Pm_Dequeue` again and again (strong
  fairness, because the application may also peek or test for emptiness
  between its calls). The last is an assumption about the application: one that calls `Pm_Dequeue` only when `Pm_Poll`
  says so may wait for ever (section 4).
* `sndio_device`: a call that has started goes on, and so does each thread
  (`poll` has a timeout of 100 ms, and `mio_read` is called when poll has found bytes). The handle is in blocking mode (pmsndio.c:216), and an output that is opened or closed may put another
  in its place between `poll` (144) and `mio_read` (154): that `mio_read` returns is then an assumption, which the code does not see to. Nothing makes the application call, nothing makes an open
  succeed or bytes arrive.
* `porttime`: calls and threads that run go on, callbacks return, the clock ticks. Nothing makes the application call, and no signal need come.
* `kqueue`: the thread of the event loop goes on. Strong fairness for `OnReadWaiting`, because the owner's calls may come between,
  for `HandlerReturns`, because a handler may make calls, and for each `ReadEvent(p)`, because kevent hands out what waits in turn and does not fail for ever (`ReadFails`).
  Nothing makes the owner call or a directory change. `ReadEvents` is a `do ... while (true)` (195-213) that ends when kevent finds nothing or fails. Here it ends because `MaxChanges` bounds the
  changes; nothing in the code does, and no property claims it.
* `rtmidi`: the input thread and a `closePort` that has begun go on; callbacks return. Nothing is assumed of the source,
  and nothing makes the application call.

All other runs check safety and assume no fairness.

## 4. Where code and text disagree

What follows was met while modelling. None of it has a run of its own: the passing runs keep it out
by the environment, by a constant (section 2) or by the wording of a property, as said here.

PortMidi's queue, input, output and sndio driver:

* `Pm_QueueEmpty` (pmutil.c:224) looks at the head word and the peek flag only. When the
  messages before an overflow are read it says "empty" although `overflow` is set; an
  application that reads only when polled never reads again, and the writer refuses
  everything. portmidi.h:605 says "ordinary processing resumes as soon as a new message arrives."
* `pm_read_short` (portmidi.c:1043) ends a sysex message without emptying `sysex_message`; the next sysex
  message is packed behind the left-over bytes, while portmidi.h:514 says that only the first PmEvent
  carries the status byte. With `Truncates = TRUE` in `MCPmInput.cfg` TLC finds `StreamWhole` violated.
  `input_thread` never does this, which is what `sndio_input` (`NothingLeftOver`) shows.
* The short message that cuts a sysex message is dropped (portmidi.c:1043 against portmidi.h:533).
* The code meant for running status (pmsndio.c:196) or-s the new data byte into the old message; <<193, 3>> repeated
  without its status byte arrives as <<195, 3>>. The device of `MCSndioInput` sends status bytes.
* A real-time event within sysex data is written and then copied again as four data bytes
  (portmidi.c:517), while portmidi.h:627 allows such events. The lists of `MCPmOutput` have none.
* `sndio_out_open` and `sndio_in_open` put the text of a failed open into `dev->errmsg` only (pmsndio.c:231);
  portmidi.c:744 gives them the duty to set `pm_hosterror`. `Pm_HasHostError` then reports the text of an earlier
  failed open on a stream that has had no error.
* `Pm_QueueFull` can say FALSE while `Pm_Enqueue` refuses, because an overflow is not yet
  acknowledged (pmutil.c:191 against pmutil.h:79).
* Without the write order of section 2 (`OverflowInOrder = FALSE`) a loss is reported too early (pmutil.c:122, pmutil.h:17).
* A real-time byte in the input of `pm_read_bytes` that is not filtered is packed between the sysex bytes
  (portmidi.c:1036 against portmidi.h:541). `Shape` leaves real-time bytes out.
* A tune request (0xf6), of length 1, is never handed over: input_thread waits for data bytes (pmsndio.c:181).
  `ShortMessages` does not contain it.
* A sysex message one byte longer than fits overruns `sysex_data` when its EOX is stored
  (pmsndio.c:168). `SysexLengths` leaves that length out.
* With PM_FILT_SYSEX the first byte of a sysex message still goes into an event (portmidi.c:1079 against pminternal.h:119).
* The filters for MIDI time code, song position, song select and tune request have no effect: `pm_read_short` looks at
  `pm_realtime_filtered` for real-time bytes only (portmidi.c:1023 against portmidi.h:422).
* `input_thread` calls `mio_revents` on a closed handle whenever its stream is closed while it is in `poll`
  (pmsndio.c:150). The model has this step; no property excludes it.
* `pm_ev.timestamp` is never assigned (pmsndio.c:199).

PortTime:

* `Pt_Start` while a callback is still in `Pt_Stop` (`Overlap = TRUE`): that `Pt_Stop` joins the
  new thread or clears `time_started_flag` for it. TLC then finds `TimeBaseSteady`, `OneTimer` and `StopReturns` violated.
* The result of `select` is ignored (ptfreebsd.c:61): a signal that the timer thread gets makes the callback come at once (62). The thread does not hurry on after it, since the next delay is computed from the
  clock, but each signal puts `mytime` further ahead of the clock. Once it is a second ahead, every `select` has a `tv_usec` out of range and fails at once, and callbacks run away (`Refused`).
  `NotEarly` excepts the callbacks whose own `select` was cut short (`cut`), and says that only a thread that signals have hit gets there (`struck`).
* For resolutions of 999 ms and more `tv_usec` can be out of range without any signal. `NotEarly` excepts these.
* "round down", says the comment of the division in `Pt_Time` (119); the difference of nanoseconds is negative when the second has wrapped, and then it rounds up. A callback may come up to 1 ms early.
* rtcmix's `Pm_Initialize` calls `Pt_Start(1, 0, 0)` (patch of portmidi.c:961); a later `Pt_Start` with a callback finds the
  flag set and returns ptNoError without starting anything, where the header (patch of portmidi.h:628) speaks of ptAlreadyStarted.

The device table of rtcmix:

* rtcmix's sndio driver passes TRUE for `is_virtual` with every output (pm_sndio/pmsndio.c:52, 65; `AddHardware`). `pm_add_device`
  then searches for the name, finds the input that was just added, and refuses with pmNameConflict, which nobody looks at.
  There are no outputs, and the default output is device 1 all the same (pmsndio.c:75), which is the next input or nothing,
  against what the header says of default devices (patch of portmidi.h:397-399).
* `Pm_DeleteVirtualDevice` does not look at `is_virtual`, while the search in `pm_add_device` relies on it ("only virtual devices can
  be deleted", patch of portmidi.c:197); `Pm_OpenInput` and `Pm_OpenOutput` do not look at `deleted`. An
  application that uses either loses `StreamsOwned` and `NamesDistinct` (`Careful = FALSE`).
* A device info pointer is said to stay valid (patch of portmidi.h:563), but the table moves when it grows (portmidi.c:226-234).
* An addition that the driver refuses leaves an entry whose `is_virtual` is FALSE; a device of the other
  direction and the same name is then refused without need.
* Without memory for the name the entry keeps a NULL name, and the next search gives it to strcmp
  (`CreateWithoutName`, `CreateCrashes`; the properties except `Nameless`). `pm_create_virtual` goes on with a negative identifier.
* `pm_find_default_device` follows the name of a deleted device.

The kqueue watcher:

* A handler that removes the watch its event is about frees the entry with which `ProcessNativeEvent`
  goes on (`HandlerRemoves`, :345).
* A change between the snapshot of an entry and `EV_ADD` is not noted (`gap`). It is told with the next change.
* A directory that is deleted and made again under its path is not followed: the descriptor is of the old one (`SameVnode`).
* The kqueue's descriptor stays open when `AddSourceForFD` fails.
* `ReadEvents` has no bound of its own (195-213): as long as directories are changed, also by the handlers it calls, it does not return to the event loop.

RtMidi over ALSA:

* "Each message represents one and only one MIDI message." (patch-src_core_rtmidi.h:700-701) An event that is not ignored
  between two chunks of a system exclusive message is appended to it (`Decode`, `broken`). And when `closePort` ends the thread in the middle of one, what the thread has of it is lost, and the thread
  of the next opening hands over the chunks that still come as a message (`broken` has these too).
* The ring holds `ringSize` - 1 messages, one fewer than the limit of the header (patch-src_core_rtmidi.h:327-331), and with
  a limit of 0 `push` would write to a ring that does not exist (`RingAssumption`).
* A thread that is out of memory clears `doInput` itself; `closePort` then does not join it and the destructor frees what it
  still uses (`starved`).
* `openVirtualPort` does not set `connected_`; `ignoreTypes` passes through "nothing is ignored" (:685), which
  the running thread may see (`IgnoreFlag`).
* `cancelCallback` has no regard for a handler between its test of `usingCallback` and its use of the callback (:2140-2141).

RtMidi over JACK (lines of `extra-patch-src_core_rtmidi-oss_jack.cpp`):

* "An exception is thrown if an error occurs during output or an output connection was not previously established"
  (patch-src_core_rtmidi.h:622-623): `sendMessage` looks at no port; a message sent without one stays in the rings and goes
  out of the port that is opened next (4663-4671).
* A message whose bytes do not fit is cut and its size is not: `jackProcessOut` gives JACK the beginning of the
  next message as the rest of this one, and all that follow are shifted (`overrun`, 4669-4670). Both rings are made with the same number of bytes (4137) and a size takes four: messages of at most four bytes fill the ring of sizes first.
  A size is then cut or dropped while its bytes stay. Later messages get the sizes of others, a size may be read from three bytes and one of an older size, and bytes stay in their ring for the next opening, also when a cycle has come
  within the wait of `closePort`.
* Nor does it look at what `jack_midi_event_reserve` returns, which is NULL when JACK's buffer is full or cannot take the event: `jack_ringbuffer_read` copies the bytes to NULL (4445-4447, `ReserveFails`).
* The cycle that answers `closePort` may have found the rings empty before the last message came: the answer does not mean that
  the message went out, and it is kept for the next opening (4443-4452). Only a cycle that begins within the wait flushes (`CycleFlushes`).
* A wait that times out leaves a token, so that a later wait ends too soon (4635; `timeouts`).
* `data->port` is tested and then read again (4437-4440, and 4165-4168 of the input), the destructor frees the rings before it closes the
  client (4514-4518): a cycle at that moment ends the program (`GetBuffer`, `Freed`).
* `connect` makes new rings each time it fails to get a client, and the old ones leak, with what was sent (`Connect`).
* In the input, which has no model, `jackProcessIn` adds an event to the message before it looks at its type (4194): a clock between
  two pieces of a system exclusive message stays in it though clocks are ignored, against patch-src_core_rtmidi.h:453-454. And it reads the ignored types
  twice for an event (4191, 4198-4217).

## 5. Proofs

`tlapm` proves about 16 900 obligations (as `tlapm --summary` counts them) in eight modules. Every safety invariant and action property that a run checks is proved for every value of the constants that meets the named assumptions and the hypotheses given below.
Each inductive invariant was checked with TLC before it was proved.

**`PmQueueProofs`**, for every `Slots >= 1`, `Words >= 2` and `MaxMsgs`, which are the
named assumptions of `PmQueue`:

* `TypeCorrect`: `Spec => []TypeOK`.
* `Invariance`: `Spec => []IInv`, and from it `NoTear` (`NoTornMessage`), `Exclusion` (`NoOverwrite`) and
  `OrderedOrReported` (`LossReported`, an action property). These four have `OverflowInOrder` as their
  hypothesis; without it `LossReported` is false.
* `QueueImplements`: `Spec => ImplementsQueue`, under the same hypothesis.
* For the encoding, for every length and set of word values: `CodecRoundTrip` (`RoundTrip`), `CodecVisibility` (`WholeWhenVisible`), and
  `CodecWrittenOnce` (`WrittenOnce`: no word of the slot is written twice).

None of the safety properties is inductive. `NoTornMessage` speaks about the moment of the
`memcpy` and needs to know what the scan has seen (`ProgressInv`), that what a word holds, in memory or under way,
belongs to one message (`SlotInv`), and that the writer is not about to use the head slot again (`RingInv`: the
occupied slots are those from `head` round to `tail`, numbered without a gap). `LossReported` needs that `overflow` is set
exactly at the tail, that the writer stands still until the reader has been told, and that the reader is told only when the
ring is empty (`OverflowInv`); and what may follow what in the peek buffer and the ring (`OrderInv`).
`IInv` is the conjunction. `InvStep` is proved part by part: `SlotStep`, `RingStep`, `OverflowStep`, `ProgressStep` and `OrderStep`,
each with one step for each action that can disturb it, on lemmas about the ring: `TailIsFree` (a complete scan means that the tail slot is free),
`HeadIsWhole` (a complete scan means that the head slot is one message), `EnqueueRing`, `RemoveRing`, `CommitKeepsRing`.

The refinement: by `RingInv` the messages in
the ring are a run of consecutive numbers from that of the head slot on (`RingIsRun`), so that what `Pm_Enqueue` and
`Pm_Dequeue` do to the ring is a matter of where the run begins and how long it is (`RingEnqueue`, `RingRemove`, `RingStays`). `Pending` is put together
from four pieces (`PendingIs`), and each change of a piece is a step of the abstract queue or none (`PendingMarked`, `PendingStored`,
`PendingReported`, `PendingPeekGiven`, `PendingTaken`, `PendingPeeked`, `PendingAcknowledged`). A step of the queue maps to a step of `PmQueueSpec` or a stutter
(`QueueStep`): a refused message needs `OverflowInv` (a mark stands at the end), an acknowledgement that the ring is empty.

The encoding leaves a chain through the places of the zeros; the invariant says that each link leads to the next zero
(`LinksTo`), with the last link open while the encoder runs (`EncodingInv`, `EncodedInv`), and that the decoder has restored everything before its place
and nothing after it (`DecodingInv`).

**`SndioProofs`**, opening and closing, for every `MaxDevices >= 1`, every `Counts` within
1 .. `MaxDevices` (what glob may find), every set of devices that the
application uses and every set of streams: `DeviceTypeCorrect` (`TypeOK`),
`HandlesOwned` (`HandleOwned`), `ModesMatch` (`ModeMatches`), `ThreadsJoined`
(`JoinedBeforeFree`) and `InputsServed` (`InputServed`).

`HandleOwned` and `ModeMatches` speak about the moments between calls; the
invariant `IInv` says what holds in the middle of one:

* `CallInv`: the locals of the call and the stream it works on; that stream
  cannot be taken away, because there is one application thread.
* `HandleInv`: within `set_mode` (close, mode = 0, open, mode = new mode), when
  the handle is open although the mode is 0, and the reverse. Type correctness
  already needs it: without it the number of handles could leave 0 .. 1.
* `StreamInv`: a direction of a device has one open stream, and
  `midi->descriptor` of a stream is unassigned only after trouble.
* `ModeInv`: the mode that `set_mode` is on its way to (`Target`).
* `ThreadInv`: the thread of an open stream is the one in `dev->thread`, and
  either the mode holds `MIO_IN` for it, or will again when the call is
  through, or the call is about to join it (`Served`). This is what excludes that
  `Pm_Close` finds the mode without its direction while the thread still runs.

`InvStep` is proved part by part (`TypeStep`, `CallStep`, `HandleStep`,
`StreamStep`, `ThreadInvStep`, `ModeInvStep`), on lemmas that say what the larger
steps do (`OpenEffect`, `FreeEffect`, `SucceedsEffect`, `JoinEffect`,
`ThreadStepEffect`) and that what has failed stays failed (`TroubleStep`).

`InputsServed` needs a second invariant, `ServiceInv`, inductive on top of `IInv` (`ServiceStep`): a thread that is
alive on a device without trouble belongs to a stream that is still open (`LiveInv`), and the thread of an open
input goes on until the call that closes it (`Attended`). What could end it is its test of the mode (`TestHolds`):
between calls `ModeInv` has `MIO_IN` in the mode, and in the middle of a call for the output the device counts as
disturbed (`OutDisturbs`), which is the hazard the code really has.

**`SndioProofs`**, the input, for every size of `sysex_data`, every set of well-formed short messages, queues and reads of any size: `InputParses` (`Parses`) and
`NothingLeft` (`NothingLeftOver`). `WireInv` says how far the parser is in the message on the wire: `st`, `idx`, `len` and the packed `message` are
those of the bytes of a short message so far, `sysex_data` is what came of a sysex message, or the message did not fit and `st` is 0. The
message before may have been anything, also one that was given up. `PackInv` follows the loops of `pm_read_bytes`: they are at a
place in a whole sysex message, `sysex_message` holds bytes in the byte loop only, and `sysex_in_progress` is set exactly between the first byte and the EOX,
or the overflow that ends it. It needs `SysexDataInv`, that what the parser hands over begins with SYSEX and goes on with data.

`StreamWhole` is proved under two environments: `DriverStreamWhole` for any driver that keeps `pm_read_short`'s rules (`PmInputDriver`), and `SndioStreamWhole` for `input_thread`. Their hypotheses are what section 4
says of the code: a sysex message is not given up in the middle (`~Truncates`; nothing is assumed of `input_thread`, which hands over whole messages only), and no filter has bit 0: the SYSEX byte of a message that
`PM_FILT_SYSEX` filters still comes to the application, alone. (The bounds on `SysexLengths` and `MaxSent` are those of the numbering of data bytes in seven bits, by which the property knows a byte's place.)

* `WholeInv`: the stream of the events that were returned, are being read and wait in the queue, with the bytes in `sysex_message` as one more event (`Packed`), is in sequence; and when no sysex message is in progress nothing is packed and any message may follow
  (`CanTake`). It says nothing of how full the queue is: an event that is refused leaves `Loss`, after which anything may follow, and ends the message in progress (`Refused`, `FlushEffect`).
* `CallOk`: what is left of the bytes that `pm_read_bytes` was given is a part of the message, from byte *q* + 1 to byte *p*, perhaps with a real-time byte before or after the first one (`Feeds`), and byte *q* + 1 may come next unless the message was ended by
  an overflow (`MayGoOn`). Each loop moves *q* on by what it takes (`OneByte`, `FourBytes`, `AllGiven`).
* `Pm_Read` moves events from the queue to what it returns, and drops from the front what it returned before, or, at an overflow, what it had read (`ApplicationSteps`). Since a suffix of a stream in sequence is in sequence (`SuffixInSequence`), only the front needs a look.
* Between calls, the driver's own state: how far its message is handed over (`CableInv`), or, for `input_thread`, that what is handed over is all of a message (`HandedInv`), which rests on `Parses` and `WireInv`.

**`PmOutputProofs`**, for every size of the buffer of `Pm_WriteSysEx`, all lists of events and sysex messages of every length: `OutputAsGiven` (`WrittenAsGiven`),
`OutputInStep` (`InStep`), `OutputResynchronised` (`Resynchronised`). The inductive invariant is `OutInv`. Its core, `CallInv`, says what the call still owes: what it was given
is what is on the wire, followed by the bytes of the events that are left (`ListAt`; `ListLoop` within an event), or, for `Pm_WriteSysEx`, by an end of the sysex message of which the first
*n* bytes are packed in the buffer and the others in `rest` (`SysexAt`, `SysexLoop`). *n* is a multiple of four unless the buffer holds the end of the message: so the filling bytes of the
last event come after the EOX, and the loop stops there. Of a list of whole messages it keeps that what is left of it comes where it may (`Proper`), from which
`Resynchronised` follows. `LoopInv` has what the byte loop needs of its event, `IdleInv` what is left of it all after the call. There is one lemma per action, on lemmas about `BytesOf`, `Pack`, `Chunk`
and `Proper`.

**`PortTimeProofs`**, for every set of threads, resolution and bound: `TimerTypeCorrect` (`TypeOK`), `TimerOne` (`OneTimer`),
`TimerStops` (`StoppedMeansStopped`) and `TimerBaseSteady` (`TimeBaseSteady`), from the inductive invariant `TimerInv` (`TimerCorrect`).
That at most one thread goes on rests on the numbers: no live thread has a number above
`pt_callback_proc_id`, also not above the one that a half-done increment of *another* caller has loaded (`Numbers`), so that a store,
though it may repeat one already made, retires every thread (`Retired`). A new thread gets the current
number only when `time_started_flag` is clear, and then no thread is current. The other parts say which
thread the statics speak of (`Known`, `Joins`, `Created`), and that a callback in `Pt_Stop` is the
thread in `pt_thread_pid` (`Stopping`).

`TimerNotEarly` (`NotEarly`) needs a further invariant, `PunctualInv`, for resolutions of which `select` takes one more than one: while a thread that goes on waits, what is left of its `select` makes up, but for the millisecond of the rounding, for
what its next callback would be early, unless the thread is in `cut`; and a thread that is not in `struck` is not so far ahead of the clock that `select` would refuse its delay, so that `cut` is within `struck`.
A `Tick` lowers lead and wait together, and the clock's base is not set under such a thread (`TimerInv`). The theorem holds for signals at any moment and in any number.

**`PmDevicesProofs`**, for any hardware with distinct names, any names, streams and bounds of the table: `DeviceNamesDistinct` (`NamesDistinct`), `DeviceStreamsOwned` (`StreamsOwned`) and
`DeviceNotRenumbered` (`NotRenumbered`), from `DevicesInv` (`DevicesCorrect`). That names are distinct is not inductive: what matters is which direction an entry keeps for its name, also
while it is deleted (`Direction`), because the search takes a deleted entry again; entries with one name have different directions (`DistinctIn`). While `pm_init`
runs, the table has names of the devices found so far only (`Finding`). `Owned` goes both ways: an open stream has its device, and an opened device its stream.

**`KqueueWatcherProofs`**, for every set of directories and every finite set of names:

* `WatcherNoStaleEntry` (`NoStaleEntry`). A note exists for
  added entries only (`NotesKnown`), since closing the descriptor takes it away; between events no entry is at work (`Quiet`), when the watcher
  can be closed.
* `FindChangesDiffers`: the merge of two sorted listings finds what came and what went, all of it and nothing else. The claim, for every pair of places of the two lists, is proved
  by the least number of names that are left at a pair at which it would fail.
* `WatcherToldTheTruth` (`ToldTheTruth`), from `TellInv`: what is not in the snapshot of an entry is noted, or the note is being worked on (`SeenOrNoted`), and what is in the
  snapshot was told, or is among the changes about to be sent (`SendsLead`, `ToldOrSends`; here `FindChangesDiffers` is needed). The theorem has `~HandlerRemoves` as its hypothesis, and is false without it: a
  handler that removes the watch of its own event and adds it again gets the new listing, and then the old changes.

**`RtMidiInProofs`**, for every ring size of at least 1, every number of chunks, events and openings:

* `QueuePopsInOrder` (`PopsInOrder`) and
  `QueueSlotExclusive` (`SlotExclusive`), from `QueueInv` (`QueueCorrect`): the slots from `front` on hold, in order, exactly what was
  pushed and not yet popped (`Contents`), so that it looks empty only when there is nothing, and each side's copies of its index and of a message are still right, because the other side
  can only make more room, or more to read (`PushInv`, `PopInv`).
* `AlsaUsesQueue`, that `AlsaSpec` implements `QueueSpec` (each step of the composition is a step of the queue or leaves it
  alone), for message sets that hold all sequences of events; from it `AlsaPopsInOrder` and `AlsaSlotExclusive`.
* `AlsaClosedMeansQuiet` (`ClosedMeansQuiet`): the
  thread sets its identifier to the dummy's only as its last step, so that `closePort`, which does not join
  when it sees the dummy, has not left a thread behind (`CloseInv`).
* `AlsaArrivalOrder` (`ArrivalOrder`), from `ArrivalInv`: the numbers increase through what was handed over, the message that the thread carries, and the events that wait in the sequencer.
* `AlsaWholeMessages` (`WholeMessages`), from `WholeInv`: before each chunk that waits, and before the one that the source sends next, the chunk that precedes it in its message is there, waiting or at the
  end of the message that is begun, unless the message is in `broken` (`NoneMissing`); so what is begun is a message from its first chunk on (`BegunInv`).

**`RtMidiJackOutProofs`**, for rings of any length, messages of any sizes, any number of messages and openings: `JackWholeInOrder` (`WholeInOrder`), `JackTokensMatch` (`TokensMatch`) and
`JackCycleFlushes` (`CycleFlushes`), from `JackInv` (`JackInvariant`). Messages leave the rings, to JACK or to be lost, in the order in which they came, so that those that are gone are the first *k*
(`Rings`). The ring of sizes holds the sizes of the others, four bytes each (`SizesAfter`, `Waiting`), one fewer while `jackProcessOut` has read a size and not the bytes, and the ring of bytes holds, where the sizes say that it begins, each message
(`BytesAfter`). That a size is read as it was written is lemma `SizeOfBytes`. When bytes did not fit, there are fewer bytes than the sizes say, and only that remains, which is what `CycleFlushes` needs for the ring of bytes; when a size did not fit, nothing
is known of the rings (`RingsGarbled`), and what remains is that a cycle does not end before the ring of sizes is empty (`Flushed`).

Proved and not part of a run: the inductive invariants and type invariants (`TypeCorrect`, `Invariance`, `DeviceTypeCorrect`, `TimerTypeCorrect`, `TimerCorrect`, `DevicesCorrect`, `QueueCorrect`, `JackInvariant`), `FindChangesDiffers`,
`CodecWrittenOnce`, which no step can break alone that does not break `RoundTrip`, and `SlotExclusive`, which goes wrong together with `PopsInOrder` when the ring is filled to its last slot.

Only checked by TLC:

* liveness (`AcceptedDelivered`, `LossEventuallyReported`, `CallsReturn`, `StopReturns`,
  `EventsArrive`, `ProcessingEnds`, `CloseReturns`), which needs ENABLED.

What a recursive function computes is proved where it is needed (`BytesOf`, `FindChanges`) from its equation and the least input that would be an exception, since the library's induction theorems cannot be applied.
No module uses RECURSIVE.

## 6. Not modelled

* In the modelled parts: timestamps, latency and `Pm_Synchronize` (sndio ignores them); allocation failures but where named; `Pm_Abort` (a stub in this
  driver); `Pm_QueueCreate`'s and `Pm_QueueDestroy`'s memory handling; error texts; the
  `fill_base` shortcut of `Pm_Write`, which the sndio driver never enables; more than one application thread, which neither PortMidi nor RtMidi supports;
  watches of single files; port names and numbers of ALSA and JACK; a clock that fails in `closePort` over JACK; a second RtMidi thread beside one that is out of memory.
* Default devices (`pm_find_default_device`, `finddefault.c`), and the older device table of pd-devel-portmidi, which only grows: sequential, done once.
* RtMidi's input over JACK: the same messages, ring, types to ignore and pieces of messages as over ALSA, without a thread to
  start, wake and join (section 4 says what was seen while reading it).
* The rest of the `extra-patch-src_core_rtmidi-*` files: complete copies of upstream's RtMidi for CoreMIDI, WinMM and the web, which
  do not compile on FreeBSD, and the ALSA output, which hands one message to the system without state.
* Pure Data's OSS poll: one loop over an array of descriptors, everything it calls is elsewhere.
* The wineoss patch: fragments of functions that are not in the tree.
* Ports metadata, and porting patches (compilation fixes and generated code): no behaviour of their own.

This is why the modelled lines are a small share of the files in the repository although nearly all of
the code that has state and concurrency, and is whole, is in a model: most lines belong to patches that
carry other programs, in whole or in fragments, over to FreeBSD.

## 7. Further work

* RtMidi's input over JACK, beside its input over ALSA: the ring is modelled and proved, the process callback is not.
* The default device of PortMidi (`pm_find_default_device`), as an algorithm.
* Liveness has no proof: it stays with TLC.

## 8. Running

```
tlc -config MCPmQueue.cfg PmQueueProps        # queue_safety
tlc -config MCPmQueue_live.cfg PmQueueProps   # queue_live
tlc -config MCPmQueueCodec.cfg MCPmQueueCodec
tlc -config MCPmInput.cfg MCPmInput
tlc -config MCSndioInput.cfg MCSndioInput
tlc -config MCSndioDevice.cfg SndioDevice
tlc -config MCPmOutput.cfg MCPmOutput
tlc -config MCPortTime.cfg PortTime
tlc -config MCPmDevices.cfg MCPmDevices
tlc -config MCKqueueWatcher.cfg KqueueWatcher
tlc -config MCRtMidi.cfg MCRtMidi
tlc -config MCRtMidiJackOut.cfg RtMidiJackOut
for m in PmQueue Sndio PmOutput PortTime PmDevices KqueueWatcher RtMidiIn RtMidiJackOut; do tlapm ${m}Proofs.tla; done
```

PROJECT.json lists components, runs, the lines of the source each definition models, the hazards and which properties cover them, and, for
each property, a mutant of the model that violates it.
