----------------------------- MODULE PmDevices -----------------------------
(***************************************************************************)
(* The device table of PortMidi as rtcmix patches it (pm_common/portmidi.c *)
(* of the release with virtual devices), and what the drivers' pm_init     *)
(* puts into it.                                                           *)
(*                                                                         *)
(* The table is an array of descriptors that is extended at its end and    *)
(* copied when it is full.  A device is known by its index, here from 1;   *)
(* a virtual device that is deleted leaves its entry behind, which a new   *)
(* device of the same name and direction takes over.  A name stands for an *)
(* interface and a name.  One application thread makes all calls.          *)
(***************************************************************************)
EXTENDS Integers, Sequences, FiniteSetsExt

CONSTANTS
    Names,          \* names of devices
    NoName,         \* the name of an entry that got no memory for its name
    Hardware,       \* names of the devices that a driver finds, in order
    Drivers,        \* drivers to choose from: "sndio", and "virtual", which stands for
                    \* a driver that registers an interface with pm_add_interf
    Block,          \* entries by which the table grows: 32
    MaxDevices,     \* bound on the length of the table
    Streams,        \* streams that the application can have open
    Careful         \* whether the application deletes virtual devices only, and
                    \* opens no device that is deleted

ASSUME NamesAssumption ==
    /\ NoName \notin Names /\ Hardware \in Seq(Names)
    /\ \A i, j \in DOMAIN Hardware : Hardware[i] = Hardware[j] => i = j
ASSUME DriversAssumption == Drivers \subseteq {"sndio", "virtual"}
ASSUME BoundsAssumption == Block \in Nat \ {0} /\ MaxDevices \in Nat /\ 0 \notin Streams
ASSUME CarefulAssumption == Careful \in BOOLEAN

VARIABLES
    driver,         \* the driver the library is built with
    initialized,    \* pm_initialized
    found,          \* devices of the hardware that pm_init has added so far
    table,          \* pm_descriptors, up to pm_descriptor_len
    max,            \* pm_descriptor_max
    defaults,       \* pm_default_input_device_id and pm_default_output_device_id
    stream,         \* the device of each PmInternal that the application holds, or 0
    crashed         \* a null pointer was followed

vars == <<driver, initialized, found, table, max, defaults, stream, crashed>>

Init ==
    /\ driver \in Drivers
    /\ initialized = FALSE /\ crashed = FALSE /\ found = 0
    /\ table = <<>> /\ max = 0
    /\ defaults = [input |-> 0, output |-> 0]
    /\ stream = [s \in Streams |-> 0]

-----------------------------------------------------------------------------
(***************************************************************************)
(* pm_add_device and pm_undo_add_device.                                   *)
(***************************************************************************)
\* Whether other applications see the device as an output.
Appears(d) == d.virtual = d.input

Reusable(d, is_input) == d.deleted /\ d.input = is_input

\* Mutant: the direction of a virtual device is not turned round.
ClashesUnturned(d, is_input) == is_input # d.input

Clashes(d, is_input) == is_input = Appears(d)

\* The entries at which the search of a virtual device's name ends.
Stops(t, name, is_input) ==
    {i \in DOMAIN t : /\ t[i].name = name
                      /\ Reusable(t[i], is_input) \/ Clashes(t[i], is_input)}

\* The index that the search arrives at.
Slot(t, name, is_input, is_virtual) ==
    IF is_virtual THEN Min(Stops(t, name, is_input) \cup {Len(t) + 1}) ELSE Len(t) + 1

NameConflict(t, name, is_input, is_virtual) ==
    LET i == Slot(t, name, is_input, is_virtual)
    IN  i <= Len(t) /\ ~Reusable(t[i], is_input)

\* pm_descriptor_max when i entries are to fit.
Grown(m, i) == IF i > m THEN m + Block * ((i - m + Block - 1) \div Block) ELSE m

NewDevice(name, is_input) ==
    [name |-> name, input |-> is_input, virtual |-> FALSE,
     opened |-> FALSE, deleted |-> FALSE, internal |-> 0]

Placed(t, i, d) == IF i = Len(t) + 1 THEN Append(t, d) ELSE [t EXCEPT ![i] = d]

\* The table after pm_add_device, when there is memory for the name.
Added(t, name, is_input, is_virtual) ==
    IF NameConflict(t, name, is_input, is_virtual) THEN t
    ELSE Placed(t, Slot(t, name, is_input, is_virtual), NewDevice(name, is_input))

\* The search compares names on its way, and there may be none.
MeetsNoName(t, name, is_input) ==
    \E i \in DOMAIN t : t[i].name = NoName /\ i < Slot(t, name, is_input, TRUE)

\* Mutant: the table is shortened wherever the device is.
UndoneShort(t, i) == SubSeq(t, 1, Len(t) - 1)

Undone(t, i) ==
    IF i = Len(t) THEN SubSeq(t, 1, i - 1)
    ELSE [t EXCEPT ![i] = [@ EXCEPT !.deleted = TRUE, !.internal = 0]]

-----------------------------------------------------------------------------
(***************************************************************************)
(* Pm_Initialize and Pm_Terminate.                                         *)
(***************************************************************************)
\* pm_init of the sndio driver gives is_virtual for each output.
AddHardware(t, k) ==
    LET in == Added(t, Hardware[k], TRUE, FALSE)
    IN  Added(in, Hardware[k], FALSE, driver = "sndio")

FindDevice ==
    /\ ~initialized /\ ~crashed
    /\ found < Len(Hardware)
    /\ table' = AddHardware(table, found + 1)
    /\ max' = Grown(max, Len(table'))
    /\ found' = found + 1
    /\ UNCHANGED <<driver, initialized, defaults, stream, crashed>>

\* pm_init is over.  sndio has its default device always.
Initialize ==
    /\ ~initialized /\ ~crashed
    /\ driver = "sndio" => found > 0
    /\ initialized' = TRUE /\ found' = 0
    /\ defaults' = IF driver = "sndio" THEN [input |-> 1, output |-> 2] ELSE defaults
    /\ UNCHANGED <<driver, table, max, stream, crashed>>

Call == initialized /\ ~crashed

\* pm_term closes the drivers' handles.  The streams are not freed, and the
\* application forgets them.
Terminate ==
    /\ Call
    /\ initialized' = FALSE
    /\ table' = <<>> /\ max' = 0
    /\ stream' = [s \in Streams |-> 0]
    /\ UNCHANGED <<driver, found, defaults, crashed>>

-----------------------------------------------------------------------------
(***************************************************************************)
(* Pm_CreateVirtualInput, Pm_CreateVirtualOutput, Pm_DeleteVirtualDevice.  *)
(* The functions that the driver registers are external: create_fn adds    *)
(* the device, asks the system for it, and undoes the addition if the      *)
(* system refuses.  Without an interface nothing happens.                  *)
(***************************************************************************)
CreateCall(name, is_input) ==
    /\ Call /\ driver = "virtual"
    /\ ~MeetsNoName(table, name, is_input)
    /\ ~NameConflict(table, name, is_input, TRUE)
    /\ Slot(table, name, is_input, TRUE) <= MaxDevices
    /\ max' = Grown(max, Slot(table, name, is_input, TRUE))
    /\ UNCHANGED <<driver, initialized, found, defaults, stream>>

CreateVirtual(name, is_input) ==
    /\ CreateCall(name, is_input)
    /\ table' = [Added(table, name, is_input, TRUE) EXCEPT
                    ![Slot(table, name, is_input, TRUE)].virtual = TRUE]
    /\ UNCHANGED crashed

CreateRefused(name, is_input) ==
    /\ CreateCall(name, is_input)
    /\ table' = Undone(Added(table, name, is_input, TRUE), Slot(table, name, is_input, TRUE))
    /\ UNCHANGED crashed

Nameless == \E i \in DOMAIN table : table[i].name = NoName

\* What a new entry may hold that gets no name.
Garbage == {[NewDevice(NoName, FALSE) EXCEPT !.deleted = b, !.opened = b] : b \in BOOLEAN}

\* No memory for the name: an old entry loses its name, a new one holds whatever
\* was in the memory.  Bound: it happens once.
CreateWithoutName(name, is_input) ==
    /\ CreateCall(name, is_input)
    /\ ~Nameless
    /\ LET i == Slot(table, name, is_input, TRUE)
       IN  \E d \in (IF i <= Len(table) THEN {[table[i] EXCEPT !.name = NoName]} ELSE Garbage) :
               table' = Placed(table, i, d)
    /\ UNCHANGED crashed

\* strcmp is given the null pointer that such an entry has for a name.
CreateCrashes(name, is_input) ==
    /\ Call /\ driver = "virtual"
    /\ MeetsNoName(table, name, is_input)
    /\ crashed' = TRUE
    /\ UNCHANGED <<driver, initialized, found, table, max, defaults, stream>>

\* Mutant: the device may be open.
DeleteOpened(id) ==
    /\ Call /\ driver = "virtual"
    /\ ~table[id].deleted
    /\ Careful => table[id].virtual
    /\ table' = [table EXCEPT ![id] = [@ EXCEPT !.deleted = TRUE, !.internal = 0]]
    /\ UNCHANGED <<driver, initialized, found, max, defaults, stream, crashed>>

\* Whatever delete_fn returns.
DeleteVirtualDevice(id) ==
    /\ Call /\ driver = "virtual"
    /\ ~table[id].opened /\ ~table[id].deleted
    /\ Careful => table[id].virtual
    /\ table' = [table EXCEPT ![id] = [@ EXCEPT !.deleted = TRUE, !.internal = 0]]
    /\ UNCHANGED <<driver, initialized, found, max, defaults, stream, crashed>>

-----------------------------------------------------------------------------
(***************************************************************************)
(* Pm_OpenInput, Pm_OpenOutput and Pm_Close.  An opening that the driver   *)
(* refuses leaves no trace.                                                *)
(***************************************************************************)
Open(s, id, is_input) ==
    /\ Call
    /\ stream[s] = 0
    /\ table[id].input = is_input /\ ~table[id].opened
    /\ Careful => ~table[id].deleted
    /\ table' = [table EXCEPT ![id] = [@ EXCEPT !.opened = TRUE, !.internal = s]]
    /\ stream' = [stream EXCEPT ![s] = id]
    /\ UNCHANGED <<driver, initialized, found, max, defaults, crashed>>

OpenInput(s, id) == Open(s, id, TRUE)
OpenOutput(s, id) == Open(s, id, FALSE)

\* A stream whose device is not open is refused with pmBadPtr and stays.
Close(s) ==
    /\ Call
    /\ stream[s] \in DOMAIN table /\ table[stream[s]].opened
    /\ table' = [table EXCEPT ![stream[s]] = [@ EXCEPT !.opened = FALSE, !.internal = 0]]
    /\ stream' = [stream EXCEPT ![s] = 0]
    /\ UNCHANGED <<driver, initialized, found, max, defaults, crashed>>

-----------------------------------------------------------------------------
Next ==
    \/ FindDevice \/ Initialize \/ Terminate
    \/ \E name \in Names, is_input \in BOOLEAN :
        \/ CreateVirtual(name, is_input)
        \/ CreateRefused(name, is_input)
        \/ CreateWithoutName(name, is_input)
        \/ CreateCrashes(name, is_input)
    \/ \E id \in DOMAIN table : DeleteVirtualDevice(id)
    \/ \E s \in Streams, id \in DOMAIN table : OpenInput(s, id) \/ OpenOutput(s, id)
    \/ \E s \in Streams : Close(s)

Spec == Init /\ [][Next]_vars

-----------------------------------------------------------------------------
(***************************************************************************)
(* Properties.                                                             *)
(***************************************************************************)
Live(i) == ~table[i].deleted

\* No two devices that exist have the same name and appear to other applications as
\* the same direction, whatever was created, deleted and refused before.
NamesDistinct ==
    Careful /\ ~Nameless =>
        \A i, j \in DOMAIN table :
            /\ Live(i) /\ Live(j) /\ table[i].name = table[j].name
            /\ Appears(table[i]) = Appears(table[j])
            => i = j

\* An open stream's device exists, is marked open, knows the stream and has no
\* other: so Pm_Close finds it and closes nobody else's.
StreamsOwned ==
    Careful /\ ~Nameless =>
        /\ \A s \in Streams : stream[s] # 0 =>
            /\ stream[s] \in DOMAIN table /\ Live(stream[s])
            /\ table[stream[s]].opened /\ table[stream[s]].internal = s
        /\ \A i \in DOMAIN table : table[i].opened =>
            table[i].internal # 0 /\ stream[table[i].internal] = i

\* Existing devices are not renumbered: a device that is not deleted keeps its
\* index, its name and its direction until it is deleted or the library ends.
NotRenumbered ==
    [][\A i \in DOMAIN table : Live(i) /\ initialized' =>
        /\ i \in DOMAIN table'
        /\ table'[i].deleted \/ (/\ table'[i].name = table[i].name
                                 /\ table'[i].input = table[i].input
                                 /\ table'[i].virtual = table[i].virtual)]_vars
=============================================================================
