-------------------------- MODULE PmDevicesProofs --------------------------
(***************************************************************************)
(* The device table of the rtcmix port, for any hardware, any names, any   *)
(* number of streams and tables of any length.                             *)
(*                                                                         *)
(* The argument.  An entry keeps one direction for its name as long as it  *)
(* is in the table, deleted or not: the side on which it appears, or, when *)
(* it is deleted, the side on which the device that takes it over will.    *)
(* Two entries with one name have different directions: a deleted entry of *)
(* the wanted direction is where the search stops, and an existing one     *)
(* stops it with a conflict.                                               *)
(***************************************************************************)
EXTENDS PmDevices, WellFoundedInduction, TLAPS

Device ==
    [name : Names \cup {NoName}, input : BOOLEAN, virtual : BOOLEAN,
     opened : BOOLEAN, deleted : BOOLEAN, internal : Streams \cup {0}]

Typed ==
    /\ initialized \in BOOLEAN
    /\ found \in 0 .. Len(Hardware)
    /\ table \in Seq(Device)
    /\ stream \in [Streams -> Nat]

\* The side on which the entry's device appears or will appear.
Direction(d) == IF d.virtual \/ d.deleted THEN d.input ELSE ~d.input

DistinctIn(t) ==
    \A i, j \in DOMAIN t :
        /\ t[i].name # NoName /\ t[i].name = t[j].name
        /\ Direction(t[i]) <=> Direction(t[j])
        => i = j

\* While pm_init runs, the table has names of the hardware found so far only.
Finding ==
    /\ initialized => found = 0
    /\ ~initialized => \A i \in DOMAIN table : \E k \in 1 .. found : table[i].name = Hardware[k]

Owned ==
    /\ \A s \in Streams : stream[s] # 0 =>
        /\ stream[s] \in DOMAIN table /\ Live(stream[s])
        /\ table[stream[s]].opened /\ table[stream[s]].internal = s
    /\ \A i \in DOMAIN table : table[i].opened /\ table[i].name # NoName =>
        table[i].internal # 0 /\ stream[table[i].internal] = i

DevicesInv == Typed /\ Finding /\ (Careful => DistinctIn(table) /\ Owned)
-----------------------------------------------------------------------------
(***************************************************************************)
(* The operators of the table.                                             *)
(***************************************************************************)
\* Every set of natural numbers that is not empty has a least number.
LEMMA LeastNat ==
    ASSUME NEW T \in SUBSET Nat, T # {}
    PROVE  \E x \in T : \A y \in T : x <= y
  <1> DEFINE R == OpToRel(<, Nat)
  <1>1. IsWellFoundedOn(R, Nat)
    BY NatLessThanWellFounded, Zenon
  <1>2. \A x, y \in Nat : <<y, x>> \in R <=> y < x
    <2>1. R = {ss \in Nat \X Nat : ss[1] < ss[2]}
      BY Zenon DEF OpToRel
    <2> HIDE DEF R
    <2> QED
      BY <2>1
  <1> HIDE DEF R
  <1>3. PICK x \in T : \A y \in T : ~(<<y, x>> \in R)
    BY <1>1, WFMin
  <1>4. ASSUME NEW y \in T PROVE x <= y
    <2>1. x \in Nat /\ y \in Nat /\ ~(y < x)
      BY <1>2, <1>3
    <2> QED
      BY <2>1
  <1> QED
    BY <1>4

\* The search stops at the first entry that stops it, or at the end.
LEMMA SlotFound ==
    ASSUME NEW t \in Seq(Device), NEW name, NEW is_input
    PROVE  /\ Slot(t, name, is_input, TRUE) \in 1 .. Len(t) + 1
           /\ Slot(t, name, is_input, TRUE) <= Len(t) =>
                Slot(t, name, is_input, TRUE) \in Stops(t, name, is_input)
           /\ Slot(t, name, is_input, TRUE) = Len(t) + 1 => Stops(t, name, is_input) = {}
  <1> DEFINE T == Stops(t, name, is_input) \cup {Len(t) + 1}
  <1>1. Stops(t, name, is_input) \subseteq 1 .. Len(t) /\ Len(t) \in Nat
    BY DEF Stops
  <1>2. T \in SUBSET Nat /\ T # {}
    BY <1>1
  <1>3. \E x \in T : \A y \in T : x <= y
    BY <1>2, LeastNat
  <1>4. Min(T) \in T /\ \A y \in T : Min(T) <= y
    BY <1>3 DEF Min
  <1>5. Slot(t, name, is_input, TRUE) = Min(T)
    BY DEF Slot
  <1>6. ASSUME Min(T) = Len(t) + 1, NEW y \in Stops(t, name, is_input) PROVE FALSE
    <2>1. y \in 1 .. Len(t) /\ Len(t) + 1 <= y
      BY <1>1, <1>4, <1>6
    <2> QED
      BY <1>1, <2>1
  <1> HIDE DEF T
  <1>7. Min(T) \in Stops(t, name, is_input) \/ Min(T) = Len(t) + 1
    BY <1>4 DEF T
  <1>8. Stops(t, name, is_input) # {} => Min(T) # Len(t) + 1
    BY <1>6
  <1> DEFINE S == Stops(t, name, is_input)
             m == Min(T)
  <1> HIDE DEF S, m
  <1>9. Len(t) \in Nat /\ S \subseteq 1 .. Len(t) /\ (m \in S \/ m = Len(t) + 1)
        /\ (S # {} => m # Len(t) + 1)
    BY <1>1, <1>7, <1>8 DEF S, m
  <1>10. m \in 1 .. Len(t) + 1 /\ (m <= Len(t) => m \in S) /\ (m = Len(t) + 1 => S = {})
    <2>1. CASE m \in S
      <3>1. m \in 1 .. Len(t)
        BY <1>9, <2>1
      <3> QED
        BY <1>9, <2>1, <3>1
    <2>2. CASE m = Len(t) + 1
      BY <1>9, <2>2
    <2> QED
      BY <1>9, <2>1, <2>2
  <1> QED
    BY <1>5, <1>10 DEF S, m

\* p is t but for d, its i-th entry.
IsPlaced(p, t, i, d) ==
    /\ p \in Seq(Device) /\ DOMAIN p = DOMAIN t \cup {i}
    /\ Len(p) = IF i = Len(t) + 1 THEN i ELSE Len(t)
    /\ p[i] = d /\ \A j \in DOMAIN t \ {i} : p[j] = t[j]

LEMMA PlacedIs ==
    ASSUME NEW t \in Seq(Device), NEW i \in 1 .. Len(t) + 1, NEW d \in Device
    PROVE  IsPlaced(Placed(t, i, d), t, i, d)
  <1>1. CASE i = Len(t) + 1
    BY <1>1 DEF Placed, IsPlaced
  <1>2. CASE i # Len(t) + 1
    <2>1. Placed(t, i, d) = [t EXCEPT ![i] = d] /\ i \in 1 .. Len(t)
      BY <1>2 DEF Placed
    <2>2. [t EXCEPT ![i] = d] \in Seq(Device) /\ Len([t EXCEPT ![i] = d]) = Len(t)
      BY <2>1
    <2> QED
      BY <1>2, <2>1, <2>2 DEF IsPlaced
  <1> QED
    BY <1>1, <1>2

\* What was placed can be replaced.
LEMMA PlacedTwice ==
    ASSUME NEW t \in Seq(Device), NEW i \in 1 .. Len(t) + 1, NEW d \in Device, NEW e \in Device
    PROVE  [Placed(t, i, e) EXCEPT ![i] = d] = Placed(t, i, d)
  <1> DEFINE p == Placed(t, i, e)
             q == Placed(t, i, d)
  <1>1. IsPlaced(p, t, i, e) /\ IsPlaced(q, t, i, d)
    BY PlacedIs
  <1> HIDE DEF p, q
  <1>2. p = [j \in DOMAIN p |-> p[j]] /\ q = [j \in DOMAIN q |-> q[j]]
    BY <1>1 DEF IsPlaced
  <1>3. [p EXCEPT ![i] = d] = q
    BY <1>1, <1>2 DEF IsPlaced
  <1> QED
    BY <1>3 DEF p, q

LEMMA NewDeviceType ==
    ASSUME NEW name \in Names \cup {NoName}, NEW is_input \in BOOLEAN
    PROVE  NewDevice(name, is_input) \in Device
  BY DEF NewDevice, Device

\* An entry may be placed where no other of its name has its direction.
LEMMA DistinctPlaced ==
    ASSUME NEW t \in Seq(Device), DistinctIn(t), NEW i \in 1 .. Len(t) + 1, NEW d \in Device,
           d.name # NoName =>
               \A j \in DOMAIN t \ {i} : t[j].name = d.name => ~(Direction(t[j]) <=> Direction(d)),
           NEW p, IsPlaced(p, t, i, d)
    PROVE  DistinctIn(p)
  <1>1. DOMAIN p = DOMAIN t \cup {i} /\ p[i] = d /\ \A j \in DOMAIN t \ {i} : p[j] = t[j]
    BY DEF IsPlaced
  <1>2. SUFFICES ASSUME NEW j \in DOMAIN p, NEW k \in DOMAIN p, p[j].name # NoName,
                        p[j].name = p[k].name, Direction(p[j]) <=> Direction(p[k]), j # k
                 PROVE  FALSE
    BY DEF DistinctIn
  <1>3. CASE j # i /\ k # i
    BY <1>1, <1>2, <1>3 DEF DistinctIn
  <1>4. CASE j = i /\ k # i
    BY <1>1, <1>2, <1>4
  <1>5. CASE j # i /\ k = i
    BY <1>1, <1>2, <1>5
  <1> QED
    BY <1>2, <1>3, <1>4, <1>5

\* Entries whose names and directions do not change.
LEMMA DistinctKept ==
    ASSUME NEW t, NEW u, DistinctIn(t), DOMAIN u \subseteq DOMAIN t,
           \A j \in DOMAIN u : u[j].name = t[j].name /\ (Direction(u[j]) <=> Direction(t[j]))
    PROVE  DistinctIn(u)
  BY DEF DistinctIn

\* The slot of a virtual device that meets no conflict is the only place of its name
\* and direction.
LEMMA SlotFree ==
    ASSUME NEW t \in Seq(Device), DistinctIn(t), NEW name \in Names, NEW is_input \in BOOLEAN,
           ~NameConflict(t, name, is_input, TRUE),
           NEW j \in DOMAIN t, j # Slot(t, name, is_input, TRUE), t[j].name = name
    PROVE  ~(Direction(t[j]) <=> is_input)
  <1> DEFINE i == Slot(t, name, is_input, TRUE)
  <1>1. /\ i \in 1 .. Len(t) + 1
        /\ i <= Len(t) => i \in Stops(t, name, is_input)
        /\ i = Len(t) + 1 => Stops(t, name, is_input) = {}
    BY SlotFound
  <1>2. i <= Len(t) => Reusable(t[i], is_input)
    BY DEF NameConflict
  <1> HIDE DEF i
  <1>3. CASE i <= Len(t)
    <2>1. i \in DOMAIN t /\ t[i].name = name /\ (Direction(t[i]) <=> is_input)
      <3>1. i \in DOMAIN t /\ t[i] \in Device
        BY <1>1, <1>3
      <3>2. t[i].name = name
        BY <1>1, <1>3 DEF Stops
      <3>3. t[i].deleted /\ t[i].input = is_input
        BY <1>2, <1>3 DEF Reusable
      <3> QED
        BY <3>1, <3>2, <3>3 DEF Direction
    <2>2. name # NoName
      BY NamesAssumption
    <2> QED
      BY <2>1, <2>2 DEF DistinctIn, i
  <1>4. CASE i = Len(t) + 1
    <2>1. ~Reusable(t[j], is_input) /\ ~Clashes(t[j], is_input)
      BY <1>1, <1>4 DEF Stops
    <2>2. t[j] \in Device
      OBVIOUS
    <2>3. CASE t[j].deleted
      BY <2>1, <2>2, <2>3 DEF Reusable, Direction, Device
    <2>4. CASE ~t[j].deleted
      <3>1. Appears(t[j]) <=> Direction(t[j])
        BY <2>2, <2>4, Zenon DEF Appears, Direction, Device
      <3>2. is_input # Appears(t[j])
        BY <2>1 DEF Clashes
      <3>3. Appears(t[j]) \in BOOLEAN
        BY <2>2 DEF Appears
      <3> HIDE DEF Appears
      <3> QED
        BY <3>1, <3>2, <3>3
    <2> QED
      BY <2>3, <2>4
  <1>5. Len(t) \in Nat
    OBVIOUS
  <1> QED
    BY <1>1, <1>3, <1>4, <1>5

LEMMA AddedType ==
    ASSUME NEW t \in Seq(Device), NEW name \in Names, NEW is_input \in BOOLEAN,
           NEW is_virtual \in BOOLEAN
    PROVE  Added(t, name, is_input, is_virtual) \in Seq(Device)
  <1>1. Slot(t, name, is_input, is_virtual) \in 1 .. Len(t) + 1
    <2>1. CASE is_virtual
      BY <2>1, SlotFound
    <2>2. CASE ~is_virtual
      BY <2>2 DEF Slot
    <2> QED
      BY <2>1, <2>2
  <1>2. IsPlaced(Placed(t, Slot(t, name, is_input, is_virtual), NewDevice(name, is_input)), t,
                 Slot(t, name, is_input, is_virtual), NewDevice(name, is_input))
    BY <1>1, PlacedIs, NewDeviceType
  <1> QED
    BY <1>2 DEF Added, IsPlaced

\* The first entries of the table.
LEMMA FirstEntries ==
    ASSUME NEW t \in Seq(Device), NEW n \in 0 .. Len(t)
    PROVE  /\ SubSeq(t, 1, n) \in Seq(Device) /\ DOMAIN SubSeq(t, 1, n) = 1 .. n
           /\ \A j \in 1 .. n : SubSeq(t, 1, n)[j] = t[j]
  <1>1. \A j \in 1 .. n : t[j] \in Device
    OBVIOUS
  <1> QED
    BY <1>1

-----------------------------------------------------------------------------
(***************************************************************************)
(* Steps that give an entry to a device, and what they leave alone.        *)
(***************************************************************************)
\* Existing devices are where they were.
Kept ==
    \A i \in DOMAIN table : Live(i) =>
        /\ i \in DOMAIN table'
        /\ table'[i].deleted \/ (/\ table'[i].name = table[i].name
                                 /\ table'[i].input = table[i].input
                                 /\ table'[i].virtual = table[i].virtual)

\* Devices that are open stay so and no other is opened.
LEMMA OwnedKept ==
    ASSUME Typed, Owned, UNCHANGED stream,
           \A i \in DOMAIN table : Live(i) /\ table[i].opened =>
               /\ i \in DOMAIN table' /\ ~table'[i].deleted
               /\ table'[i].opened /\ table'[i].internal = table[i].internal,
           \A i \in DOMAIN table' : table'[i].opened /\ table'[i].name # NoName =>
               /\ i \in DOMAIN table /\ table[i].opened /\ table[i].name # NoName
               /\ table'[i].internal = table[i].internal
    PROVE  Owned'
  BY DEF Owned, Live, Typed

\* A new device, or one that takes over an entry that was deleted.
LEMMA SlotTaken ==
    ASSUME Typed, NEW i \in 1 .. Len(table) + 1, i <= Len(table) => table[i].deleted,
           NEW d \in Device, d.name = NoName \/ ~d.opened,
           IsPlaced(table', table, i, d), UNCHANGED stream
    PROVE  table' \in Seq(Device) /\ Kept /\ (Owned => Owned')
  <1>1. table \in Seq(Device)
    BY DEF Typed
  <1>2. /\ table' \in Seq(Device) /\ DOMAIN table' = DOMAIN table \cup {i} /\ table'[i] = d
        /\ \A j \in DOMAIN table \ {i} : table'[j] = table[j]
    BY DEF IsPlaced
  <1>3. ~(i \in DOMAIN table /\ Live(i))
    BY <1>1 DEF Live
  <1>4. Kept
    BY <1>2, <1>3 DEF Kept
  <1>5. ASSUME Owned PROVE Owned'
    <2>1. \A j \in DOMAIN table : Live(j) => j \in DOMAIN table' /\ table'[j] = table[j]
      BY <1>2, <1>3
    <2>2. \A j \in DOMAIN table : Live(j) /\ table[j].opened =>
            /\ j \in DOMAIN table' /\ ~table'[j].deleted
            /\ table'[j].opened /\ table'[j].internal = table[j].internal
      BY <2>1 DEF Live
    <2>3. ASSUME NEW j \in DOMAIN table', table'[j].opened, table'[j].name # NoName
          PROVE  /\ j \in DOMAIN table /\ table[j].opened /\ table[j].name # NoName
                 /\ table'[j].internal = table[j].internal
      BY <1>2, <2>3
    <2> QED
      BY <1>5, <2>2, <2>3, OwnedKept
  <1> QED
    BY <1>2, <1>4, <1>5

\* The table loses entries at its end that no existing device has.
LEMMA EndCut ==
    ASSUME Typed, NEW n \in 0 .. Len(table), table' = SubSeq(table, 1, n), UNCHANGED stream,
           \A i \in n + 1 .. Len(table) : table[i].deleted
    PROVE  /\ table' \in Seq(Device) /\ Kept /\ (Owned => Owned')
           /\ DistinctIn(table) => DistinctIn(table')
  <1>1. table \in Seq(Device)
    BY DEF Typed
  <1>2. table' \in Seq(Device) /\ DOMAIN table' = 1 .. n /\ \A j \in 1 .. n : table'[j] = table[j]
    BY <1>1, FirstEntries
  <1>3. \A j \in DOMAIN table : Live(j) => j \in 1 .. n
    BY <1>1 DEF Live
  <1>4. 1 .. n \subseteq DOMAIN table
    BY <1>1
  <1>5. Kept
    BY <1>2, <1>3 DEF Kept
  <1>6. Owned => Owned'
    BY <1>2, <1>3, <1>4, OwnedKept DEF Live
  <1>7. DistinctIn(table) => DistinctIn(table')
    BY <1>2, <1>4, DistinctKept
  <1> QED
    BY <1>2, <1>5, <1>6, <1>7

-----------------------------------------------------------------------------
(***************************************************************************)
(* Pm_CreateVirtualInput and Pm_CreateVirtualOutput.                       *)
(***************************************************************************)
\* The i-th entry is free for a virtual device.
Takes(i, name, is_input) ==
    /\ i \in 1 .. Len(table) + 1
    /\ i <= Len(table) => table[i].deleted /\ table[i].input = is_input /\ table[i].name = name
    /\ Added(table, name, is_input, TRUE) = Placed(table, i, NewDevice(name, is_input))
    /\ DistinctIn(table) =>
         \A j \in DOMAIN table \ {i} : table[j].name = name => ~(Direction(table[j]) <=> is_input)

LEMMA CreateAt ==
    ASSUME Typed, NEW name \in Names, NEW is_input \in BOOLEAN, CreateCall(name, is_input)
    PROVE  Takes(Slot(table, name, is_input, TRUE), name, is_input)
  <1> DEFINE i == Slot(table, name, is_input, TRUE)
  <1>1. table \in Seq(Device) /\ ~NameConflict(table, name, is_input, TRUE)
    BY DEF Typed, CreateCall
  <1>2. i \in 1 .. Len(table) + 1 /\ (i <= Len(table) => i \in Stops(table, name, is_input))
    BY <1>1, SlotFound
  <1>3. i <= Len(table) => Reusable(table[i], is_input)
    BY <1>1 DEF NameConflict
  <1>4. Added(table, name, is_input, TRUE) = Placed(table, i, NewDevice(name, is_input))
    BY <1>1 DEF Added
  <1>5. DistinctIn(table) =>
          \A j \in DOMAIN table \ {i} : table[j].name = name => ~(Direction(table[j]) <=> is_input)
    BY <1>1, SlotFree
  <1> HIDE DEF i
  <1>6. i <= Len(table) => table[i].deleted /\ table[i].input = is_input /\ table[i].name = name
    BY <1>2, <1>3 DEF Stops, Reusable
  <1>7. Takes(i, name, is_input)
    BY <1>2, <1>4, <1>5, <1>6 DEF Takes
  <1> QED
    BY <1>7 DEF i

LEMMA CreateVirtualKeeps ==
    ASSUME DevicesInv, NEW name \in Names, NEW is_input \in BOOLEAN, CreateVirtual(name, is_input)
    PROVE  DevicesInv' /\ Kept
  <1> DEFINE i == Slot(table, name, is_input, TRUE)
             d == [NewDevice(name, is_input) EXCEPT !.virtual = TRUE]
  <1>1. Typed /\ table \in Seq(Device) /\ CreateCall(name, is_input)
    BY DEF DevicesInv, Typed, CreateVirtual
  <1>2. /\ d \in Device /\ d.name = name /\ d.opened = FALSE
        /\ Direction(d) <=> is_input
    BY NewDeviceType DEF NewDevice, Device, Direction
  <1>3. table' = [Added(table, name, is_input, TRUE) EXCEPT ![i].virtual = TRUE]
    BY DEF CreateVirtual
  <1>4. Takes(i, name, is_input)
    BY <1>1, CreateAt
  <1> HIDE DEF i, d
  <1>5. /\ i \in 1 .. Len(table) + 1
        /\ i <= Len(table) => table[i].deleted
        /\ Added(table, name, is_input, TRUE) = Placed(table, i, NewDevice(name, is_input))
        /\ initialized /\ UNCHANGED <<initialized, found, stream>>
        /\ DistinctIn(table) =>
             \A j \in DOMAIN table \ {i} : table[j].name = name => ~(Direction(table[j]) <=> is_input)
    BY <1>1, <1>4 DEF Takes, CreateVirtual, CreateRefused, CreateCall, Call
  <1>6. table' = Placed(table, i, d)
    <2>1. NewDevice(name, is_input) \in Device
      BY NewDeviceType
    <2>2. Placed(table, i, NewDevice(name, is_input))[i] = NewDevice(name, is_input)
      BY <1>1, <1>5, <2>1, PlacedIs DEF IsPlaced
    <2>3. table' = [Placed(table, i, NewDevice(name, is_input)) EXCEPT ![i] = d]
      BY <1>3, <1>5, <2>2 DEF d
    <2> QED
      BY <1>1, <1>2, <1>5, <2>1, <2>3, PlacedTwice
  <1>7. IsPlaced(table', table, i, d)
    BY <1>1, <1>2, <1>5, <1>6, PlacedIs
  <1>8. table' \in Seq(Device) /\ Kept /\ (Owned => Owned')
    BY <1>1, <1>2, <1>5, <1>7, SlotTaken
  <1>9. DistinctIn(table) => DistinctIn(table')
    BY <1>1, <1>2, <1>5, <1>7, DistinctPlaced
  <1> QED
    BY <1>1, <1>5, <1>8, <1>9 DEF DevicesInv, Typed, Finding

LEMMA CreateRefusedKeeps ==
    ASSUME DevicesInv, NEW name \in Names, NEW is_input \in BOOLEAN, CreateRefused(name, is_input)
    PROVE  DevicesInv' /\ Kept
  <1> DEFINE i == Slot(table, name, is_input, TRUE)
             d == [NewDevice(name, is_input) EXCEPT !.deleted = TRUE, !.internal = 0]
             p == Placed(table, i, NewDevice(name, is_input))
  <1>1. Typed /\ table \in Seq(Device) /\ CreateCall(name, is_input)
    BY DEF DevicesInv, Typed, CreateRefused
  <1>2. /\ d \in Device /\ d.name = name /\ d.opened = FALSE
        /\ Direction(d) <=> is_input
    BY NewDeviceType DEF NewDevice, Device, Direction
  <1>3. table' = Undone(Added(table, name, is_input, TRUE), i)
    BY DEF CreateRefused
  <1>4. Takes(i, name, is_input)
    BY <1>1, CreateAt
  <1> HIDE DEF i, d
  <1>5. /\ i \in 1 .. Len(table) + 1
        /\ i <= Len(table) => table[i].deleted
        /\ Added(table, name, is_input, TRUE) = p
        /\ initialized /\ UNCHANGED <<initialized, found, stream>>
        /\ DistinctIn(table) =>
             \A j \in DOMAIN table \ {i} : table[j].name = name => ~(Direction(table[j]) <=> is_input)
    BY <1>1, <1>4 DEF Takes, CreateVirtual, CreateRefused, CreateCall, Call
  <1>6. NewDevice(name, is_input) \in Device
    BY NewDeviceType
  <1>7. IsPlaced(p, table, i, NewDevice(name, is_input))
    BY <1>1, <1>5, <1>6, PlacedIs
  <1>8. CASE i = Len(p)
    <2>1. table' = SubSeq(p, 1, i - 1) /\ i - 1 \in 0 .. Len(table) /\ i - 1 \in 0 .. Len(p)
      <3>1. table' = SubSeq(p, 1, i - 1)
        BY <1>3, <1>5, <1>8 DEF Undone
      <3>2. Len(table) \in Nat /\ i \in Int /\ 1 <= i /\ i <= Len(table) + 1
        BY <1>1, <1>5
      <3> HIDE DEF p
      <3> QED
        BY <1>8, <3>1, <3>2
    <2> HIDE DEF p
    <2>2. /\ table' \in Seq(Device) /\ DOMAIN table' = 1 .. i - 1
          /\ \A j \in 1 .. i - 1 : table'[j] = p[j]
      BY <1>7, <2>1, FirstEntries DEF IsPlaced
    <2>3. /\ SubSeq(table, 1, i - 1) \in Seq(Device) /\ DOMAIN SubSeq(table, 1, i - 1) = 1 .. i - 1
          /\ \A j \in 1 .. i - 1 : SubSeq(table, 1, i - 1)[j] = table[j]
      BY <1>1, <2>1, FirstEntries
    <2>4. \A j \in 1 .. i - 1 : p[j] = table[j]
      BY <1>1, <1>5, <1>7 DEF IsPlaced
    <2>5. table' = SubSeq(table, 1, i - 1)
      BY <2>2, <2>3, <2>4
    <2>6. \A j \in (i - 1) + 1 .. Len(table) : table[j].deleted
      BY <1>1, <1>5, <1>7, <1>8 DEF IsPlaced
    <2>7. /\ table' \in Seq(Device) /\ Kept /\ (Owned => Owned')
          /\ DistinctIn(table) => DistinctIn(table')
      BY <1>1, <1>5, <2>1, <2>5, <2>6, EndCut
    <2> QED
      BY <1>1, <1>5, <2>7 DEF DevicesInv, Typed, Finding
  <1>9. CASE i # Len(p)
    <2>1. table' = [p EXCEPT ![i] = d]
      BY <1>3, <1>5, <1>7, <1>9 DEF Undone, IsPlaced, d
    <2>2. table' = Placed(table, i, d)
      BY <1>1, <1>2, <1>5, <1>6, <2>1, PlacedTwice
    <2>3. IsPlaced(table', table, i, d)
      BY <1>1, <1>2, <1>5, <2>2, PlacedIs
    <2>4. table' \in Seq(Device) /\ Kept /\ (Owned => Owned')
      BY <1>1, <1>2, <1>5, <2>3, SlotTaken
    <2>5. DistinctIn(table) => DistinctIn(table')
      BY <1>1, <1>2, <1>5, <2>3, DistinctPlaced
    <2> QED
      BY <1>1, <1>5, <2>4, <2>5 DEF DevicesInv, Typed, Finding
  <1> QED
    BY <1>8, <1>9

LEMMA CreateWithoutNameKeeps ==
    ASSUME DevicesInv, NEW name \in Names, NEW is_input \in BOOLEAN,
           CreateWithoutName(name, is_input)
    PROVE  DevicesInv' /\ Kept
  <1> DEFINE i == Slot(table, name, is_input, TRUE)
  <1>1. Typed /\ table \in Seq(Device) /\ CreateCall(name, is_input)
    BY DEF DevicesInv, Typed, CreateWithoutName
  <1>2. Takes(i, name, is_input)
    BY <1>1, CreateAt
  <1>3. PICK d \in (IF i <= Len(table) THEN {[table[i] EXCEPT !.name = NoName]} ELSE Garbage) :
               table' = Placed(table, i, d)
    BY DEF CreateWithoutName
  <1> HIDE DEF i
  <1>4. i \in 1 .. Len(table) + 1 /\ (i <= Len(table) => table[i].deleted)
    BY <1>2 DEF Takes
  <1>5. d \in Device /\ d.name = NoName
    <2>1. CASE i <= Len(table)
      <3>1. table[i] \in Device /\ d = [table[i] EXCEPT !.name = NoName]
        BY <1>1, <1>3, <1>4, <2>1
      <3> QED
        BY <3>1 DEF Device
    <2>2. CASE ~(i <= Len(table))
      BY <1>3, <2>2 DEF Garbage, NewDevice, Device
    <2> QED
      BY <2>1, <2>2
  <1>6. IsPlaced(table', table, i, d)
    BY <1>1, <1>3, <1>4, <1>5, PlacedIs
  <1>7. initialized /\ UNCHANGED <<initialized, found, stream>>
    BY <1>1 DEF CreateCall, Call
  <1>8. table' \in Seq(Device) /\ Kept /\ (Owned => Owned')
    BY <1>1, <1>4, <1>5, <1>6, <1>7, SlotTaken
  <1>9. DistinctIn(table) => DistinctIn(table')
    BY <1>1, <1>4, <1>5, <1>6, DistinctPlaced
  <1> QED
    BY <1>1, <1>7, <1>8, <1>9 DEF DevicesInv, Typed, Finding

-----------------------------------------------------------------------------
(***************************************************************************)
(* Steps that change one entry in place.                                   *)
(***************************************************************************)
LEMMA DeleteKeeps ==
    ASSUME DevicesInv, NEW id \in DOMAIN table, DeleteVirtualDevice(id)
    PROVE  DevicesInv' /\ Kept
  <1> DEFINE d == [table[id] EXCEPT !.deleted = TRUE, !.internal = 0]
  <1>1. /\ Typed /\ table \in Seq(Device) /\ table[id] \in Device
        /\ initialized /\ UNCHANGED <<initialized, found, stream>>
        /\ ~table[id].opened /\ (Careful => table[id].virtual)
        /\ table' = [table EXCEPT ![id] = d]
    BY DEF DevicesInv, Typed, DeleteVirtualDevice, Call
  <1>2. /\ d \in Device /\ d.deleted /\ d.name = table[id].name /\ ~d.opened
        /\ table[id].virtual => (Direction(d) <=> Direction(table[id]))
    BY <1>1 DEF Device, Direction
  <1> HIDE DEF d
  <1>3. /\ table' \in Seq(Device) /\ DOMAIN table' = DOMAIN table /\ table'[id] = d
        /\ \A j \in DOMAIN table \ {id} : table'[j] = table[j]
    BY <1>1, <1>2
  <1>4. Kept
    BY <1>2, <1>3 DEF Kept
  <1>5. Owned => Owned'
    <2>1. \A i \in DOMAIN table : Live(i) /\ table[i].opened => i # id
      BY <1>1
    <2> QED
      BY <1>1, <1>2, <1>3, <2>1, OwnedKept DEF Live
  <1>6. Careful /\ DistinctIn(table) => DistinctIn(table')
    BY <1>1, <1>2, <1>3, DistinctKept
  <1> QED
    BY <1>1, <1>3, <1>4, <1>5, <1>6 DEF DevicesInv, Typed, Finding

LEMMA OpenKeeps ==
    ASSUME DevicesInv, NEW s \in Streams, NEW id \in DOMAIN table, NEW is_input \in BOOLEAN,
           Open(s, id, is_input)
    PROVE  DevicesInv' /\ Kept
  <1> DEFINE d == [table[id] EXCEPT !.opened = TRUE, !.internal = s]
  <1>1. /\ Typed /\ table \in Seq(Device) /\ table[id] \in Device /\ id \in Nat \ {0}
        /\ initialized /\ UNCHANGED <<initialized, found>>
        /\ stream \in [Streams -> Nat] /\ stream[s] = 0 /\ stream' = [stream EXCEPT ![s] = id]
        /\ ~table[id].opened /\ (Careful => ~table[id].deleted)
        /\ table' = [table EXCEPT ![id] = d]
    BY DEF DevicesInv, Typed, Open, Call
  <1>2. /\ d \in Device /\ d.deleted = table[id].deleted /\ d.name = table[id].name /\ d.opened
        /\ d.internal = s /\ d.input = table[id].input /\ d.virtual = table[id].virtual
        /\ Direction(d) <=> Direction(table[id])
    BY <1>1 DEF Device, Direction
  <1> HIDE DEF d
  <1>3. /\ table' \in Seq(Device) /\ DOMAIN table' = DOMAIN table /\ table'[id] = d
        /\ \A j \in DOMAIN table \ {id} : table'[j] = table[j]
    BY <1>1, <1>2
  <1>4. Kept
    BY <1>2, <1>3 DEF Kept
  <1>5. ASSUME Careful, Owned PROVE Owned'
    <2>1. ASSUME NEW r \in Streams, stream'[r] # 0
          PROVE  /\ stream'[r] \in DOMAIN table' /\ ~table'[stream'[r]].deleted
                 /\ table'[stream'[r]].opened /\ table'[stream'[r]].internal = r
      <3>1. CASE r = s
        BY <1>1, <1>2, <1>3, <1>5, <3>1
      <3>2. CASE r # s
        <4>1. /\ stream'[r] = stream[r] /\ stream[r] \in DOMAIN table /\ ~table[stream[r]].deleted
              /\ table[stream[r]].opened /\ table[stream[r]].internal = r
          BY <1>1, <1>5, <2>1, <3>2 DEF Owned, Live
        <4>2. stream[r] # id
          BY <1>1, <4>1
        <4> QED
          BY <1>3, <4>1, <4>2
      <3> QED
        BY <3>1, <3>2
    <2>2. ASSUME NEW i \in DOMAIN table', table'[i].opened, table'[i].name # NoName
          PROVE  table'[i].internal # 0 /\ stream'[table'[i].internal] = i
      <3>1. CASE i = id
        BY <1>1, <1>2, <1>3, <3>1, BoundsAssumption
      <3>2. CASE i # id
        <4>1. i \in DOMAIN table /\ table'[i] = table[i] /\ table[i] \in Device
          BY <1>1, <1>3, <3>2
        <4>2. table[i].internal # 0 /\ stream[table[i].internal] = i /\ i # 0
          BY <1>1, <1>5, <2>2, <4>1 DEF Owned
        <4>3. table[i].internal \in Streams
          BY <4>1, <4>2 DEF Device
        <4> QED
          BY <1>1, <4>1, <4>2, <4>3
      <3> QED
        BY <3>1, <3>2
    <2> QED
      BY <2>1, <2>2 DEF Owned, Live
  <1>6. DistinctIn(table) => DistinctIn(table')
    BY <1>2, <1>3, DistinctKept
  <1>7. stream' \in [Streams -> Nat]
    BY <1>1
  <1> QED
    BY <1>1, <1>3, <1>4, <1>5, <1>6, <1>7 DEF DevicesInv, Typed, Finding

LEMMA CloseKeeps ==
    ASSUME DevicesInv, NEW s \in Streams, Close(s)
    PROVE  DevicesInv' /\ Kept
  <1> DEFINE id == stream[s]
             d == [table[id] EXCEPT !.opened = FALSE, !.internal = 0]
  <1>1. /\ Typed /\ table \in Seq(Device) /\ id \in DOMAIN table /\ table[id] \in Device
        /\ initialized /\ UNCHANGED <<initialized, found>> /\ id # 0
        /\ stream \in [Streams -> Nat] /\ stream' = [stream EXCEPT ![s] = 0]
        /\ table' = [table EXCEPT ![id] = d]
    BY DEF DevicesInv, Typed, Close, Call
  <1>2. /\ d \in Device /\ d.deleted = table[id].deleted /\ d.name = table[id].name /\ ~d.opened
        /\ d.input = table[id].input /\ d.virtual = table[id].virtual
        /\ Direction(d) <=> Direction(table[id])
    BY <1>1 DEF Device, Direction
  <1> HIDE DEF d
  <1>3. /\ table' \in Seq(Device) /\ DOMAIN table' = DOMAIN table /\ table'[id] = d
        /\ \A j \in DOMAIN table \ {id} : table'[j] = table[j]
    BY <1>1, <1>2
  <1>4. Kept
    BY <1>2, <1>3 DEF Kept
  <1>5. ASSUME Owned PROVE Owned'
    <2>1. table[id].internal = s
      BY <1>1, <1>5 DEF Owned
    <2>2. ASSUME NEW r \in Streams, stream'[r] # 0
          PROVE  /\ stream'[r] \in DOMAIN table' /\ ~table'[stream'[r]].deleted
                 /\ table'[stream'[r]].opened /\ table'[stream'[r]].internal = r
      <3>1. r # s /\ stream'[r] = stream[r]
        BY <1>1, <2>2
      <3>2. /\ stream[r] \in DOMAIN table /\ ~table[stream[r]].deleted
            /\ table[stream[r]].opened /\ table[stream[r]].internal = r
        BY <1>5, <2>2, <3>1 DEF Owned, Live
      <3>3. stream[r] # id
        BY <2>1, <3>1, <3>2
      <3> QED
        BY <1>3, <3>1, <3>2, <3>3
    <2>3. ASSUME NEW i \in DOMAIN table', table'[i].opened, table'[i].name # NoName
          PROVE  table'[i].internal # 0 /\ stream'[table'[i].internal] = i
      <3>1. i # id /\ i \in DOMAIN table /\ table'[i] = table[i] /\ table[i] \in Device
        BY <1>1, <1>2, <1>3, <2>3
      <3>2. table[i].internal # 0 /\ stream[table[i].internal] = i
        BY <1>5, <2>3, <3>1 DEF Owned
      <3>3. table[i].internal \in Streams /\ table[i].internal # s
        BY <3>1, <3>2 DEF Device
      <3> QED
        BY <1>1, <3>1, <3>2, <3>3
    <2> QED
      BY <2>2, <2>3 DEF Owned, Live
  <1>6. DistinctIn(table) => DistinctIn(table')
    BY <1>2, <1>3, DistinctKept
  <1>7. stream' \in [Streams -> Nat]
    BY <1>1
  <1> QED
    BY <1>1, <1>3, <1>4, <1>5, <1>6, <1>7 DEF DevicesInv, Typed, Finding

-----------------------------------------------------------------------------
(***************************************************************************)
(* Pm_Initialize and Pm_Terminate.                                         *)
(***************************************************************************)
\* A device of the hardware is added at the end.
LEMMA AddedAtEnd ==
    ASSUME NEW t \in Seq(Device), NEW name \in Names, NEW is_input \in BOOLEAN
    PROVE  IsPlaced(Added(t, name, is_input, FALSE), t, Len(t) + 1, NewDevice(name, is_input))
  <1>1. Slot(t, name, is_input, FALSE) = Len(t) + 1 /\ Len(t) \in Nat
    BY DEF Slot
  <1>2. ~NameConflict(t, name, is_input, FALSE)
    <2>1. ~(Slot(t, name, is_input, FALSE) <= Len(t))
      <3>1. ~(Len(t) + 1 <= Len(t))
        BY <1>1
      <3> QED
        BY <1>1, <3>1, Zenon
    <2> QED
      BY <2>1, Zenon DEF NameConflict
  <1>3. Added(t, name, is_input, FALSE) = Placed(t, Len(t) + 1, NewDevice(name, is_input))
    BY <1>1, <1>2 DEF Added
  <1>4. Len(t) + 1 \in 1 .. Len(t) + 1 /\ NewDevice(name, is_input) \in Device
    BY <1>1, NewDeviceType
  <1> QED
    BY <1>3, <1>4, PlacedIs

\* The output of a port of sndio, which is_virtual is given for, meets the port's
\* input and is not added.
LEMMA OutputConflicts ==
    ASSUME NEW t \in Seq(Device), NEW name \in Names, Len(t) # 0,
           t[Len(t)] = NewDevice(name, TRUE),
           \A j \in DOMAIN t \ {Len(t)} : t[j].name # name
    PROVE  Added(t, name, FALSE, TRUE) = t
  <1> DEFINE i == Slot(t, name, FALSE, TRUE)
             n == Len(t)
  <1>1. /\ i \in 1 .. n + 1
        /\ i <= n => i \in Stops(t, name, FALSE)
        /\ i = n + 1 => Stops(t, name, FALSE) = {}
    BY SlotFound
  <1>2. n \in Nat /\ n \in DOMAIN t
    OBVIOUS
  <1>3. Clashes(t[n], FALSE) /\ ~Reusable(t[n], FALSE) /\ t[n].name = name
    BY DEF NewDevice, Clashes, Appears, Reusable
  <1>4. n \in Stops(t, name, FALSE)
    BY <1>2, <1>3, Zenon DEF Stops
  <1> HIDE DEF i
  <1>5. i <= n
    <2>1. i # n + 1
      BY <1>1, <1>4
    <2> QED
      BY <1>1, <1>2, <2>1
  <1>6. i = n
    BY <1>1, <1>5 DEF Stops
  <1>7. NameConflict(t, name, FALSE, TRUE)
    BY <1>3, <1>5, <1>6 DEF NameConflict, i
  <1> QED
    BY <1>7 DEF Added

LEMMA FindDeviceKeeps ==
    ASSUME DevicesInv, FindDevice
    PROVE  DevicesInv' /\ ~initialized'
  <1> DEFINE h == Hardware[found + 1]
             in == Added(table, h, TRUE, FALSE)
             n == Len(table)
  <1>1. /\ Typed /\ table \in Seq(Device) /\ n \in Nat /\ found \in Nat
        /\ ~initialized /\ ~initialized' /\ initialized' \in BOOLEAN
        /\ found + 1 \in DOMAIN Hardware /\ found' = found + 1 /\ UNCHANGED stream
        /\ table' = Added(in, h, FALSE, driver = "sndio")
    BY NamesAssumption DEF DevicesInv, Typed, FindDevice, AddHardware
  <1>2. h \in Names /\ h # NoName
    BY <1>1, NamesAssumption
  <1>3. \A j \in DOMAIN table : table[j].name # h
    <2> SUFFICES ASSUME NEW j \in DOMAIN table, table[j].name = h PROVE FALSE
      OBVIOUS
    <2>1. PICK k \in 1 .. found : Hardware[k] = h
      BY <1>1 DEF DevicesInv, Finding
    <2>2. k \in DOMAIN Hardware /\ k # found + 1
      BY <1>1, <2>1, NamesAssumption
    <2> QED
      BY <1>1, <2>1, <2>2, NamesAssumption
  <1> HIDE DEF h
  <1>4. IsPlaced(in, table, n + 1, NewDevice(h, TRUE))
    BY <1>1, <1>2, AddedAtEnd
  <1>5. NewDevice(h, TRUE) \in Device /\ NewDevice(h, FALSE) \in Device
    BY <1>2, NewDeviceType
  <1> HIDE DEF in
  <1>6. /\ in \in Seq(Device) /\ Len(in) = n + 1 /\ DOMAIN in = DOMAIN table \cup {n + 1}
        /\ in[n + 1] = NewDevice(h, TRUE) /\ \A j \in DOMAIN table : in[j] = table[j]
    <2>1. n + 1 \notin DOMAIN table
      BY <1>1
    <2> QED
      BY <1>1, <1>4, <2>1 DEF IsPlaced
  <1>7. DistinctIn(table) => DistinctIn(in)
    BY <1>1, <1>3, <1>4, <1>5, DistinctPlaced DEF NewDevice
  <1>8. ASSUME NEW j \in DOMAIN table',
                \/ j \in DOMAIN table /\ table'[j] = table[j]
                \/ table'[j].name = h /\ ~table'[j].opened
         PROVE  \E k \in 1 .. found' : table'[j].name = Hardware[k]
    <2>1. CASE j \in DOMAIN table /\ table'[j] = table[j]
      <3>1. PICK k \in 1 .. found : table[j].name = Hardware[k]
        BY <1>1, <2>1 DEF DevicesInv, Finding
      <3>2. k \in 1 .. found'
        BY <1>1
      <3> QED
        BY <2>1, <3>1, <3>2
    <2>2. CASE table'[j].name = h
      <3>1. found + 1 \in 1 .. found'
        BY <1>1
      <3>2. table'[j].name = Hardware[found + 1]
        BY <2>2 DEF h
      <3> QED
        BY <3>1, <3>2
    <2> QED
      BY <1>8, <2>1, <2>2
  <1>9. found' \in 0 .. Len(Hardware)
    BY <1>1, NamesAssumption
  <1>10. CASE driver = "sndio"
    <2>1. table' = in
      <3>1. table' = Added(in, h, FALSE, TRUE)
        BY <1>1, <1>10
      <3>2. \A j \in DOMAIN in \ {Len(in)} : in[j].name # h
        BY <1>3, <1>6
      <3>3. Len(in) # 0 /\ in[Len(in)] = NewDevice(h, TRUE)
        BY <1>1, <1>6
      <3> QED
        BY <1>2, <1>6, <3>1, <3>2, <3>3, OutputConflicts
    <2>2. \A j \in DOMAIN table' : \/ j \in DOMAIN table /\ table'[j] = table[j]
                                   \/ table'[j].name = h /\ ~table'[j].opened
      <3>1. ~NewDevice(h, TRUE).opened /\ NewDevice(h, TRUE).name = h
        BY DEF NewDevice
      <3> QED
        BY <1>6, <2>1, <3>1
    <2>3. Finding'
      BY <1>1, <1>8, <2>2, Zenon DEF Finding
    <2>4. Owned => Owned'
      BY <1>1, <1>6, <2>1, <2>2, OwnedKept DEF Live
    <2> QED
      BY <1>1, <1>6, <1>7, <1>9, <2>1, <2>3, <2>4 DEF DevicesInv, Typed
  <1>11. CASE driver # "sndio"
    <2>1. table' = Added(in, h, FALSE, FALSE)
      BY <1>1, <1>11
    <2>2. IsPlaced(table', in, n + 2, NewDevice(h, FALSE))
      <3>1. IsPlaced(Added(in, h, FALSE, FALSE), in, Len(in) + 1, NewDevice(h, FALSE))
        BY <1>2, <1>6, AddedAtEnd
      <3>2. Len(in) + 1 = n + 2
        BY <1>1, <1>6
      <3> QED
        BY <2>1, <3>1, <3>2
    <2>3. /\ table' \in Seq(Device) /\ DOMAIN table' = DOMAIN in \cup {n + 2}
          /\ table'[n + 2] = NewDevice(h, FALSE) /\ \A j \in DOMAIN in : table'[j] = in[j]
      <3>1. n + 2 \notin DOMAIN in
        BY <1>1, <1>6
      <3> QED
        BY <2>2, <3>1 DEF IsPlaced
    <2>4. DistinctIn(in) => DistinctIn(table')
      <3>1. NewDevice(h, FALSE).name = h /\ (Direction(NewDevice(h, FALSE)) <=> TRUE)
            /\ (Direction(NewDevice(h, TRUE)) <=> FALSE)
        BY DEF NewDevice, Direction
      <3>2. \A j \in DOMAIN in \ {n + 2} : in[j].name = h =>
              ~(Direction(in[j]) <=> Direction(NewDevice(h, FALSE)))
        BY <1>3, <1>6, <3>1
      <3>3. n + 2 \in 1 .. Len(in) + 1
        BY <1>1, <1>6
      <3> QED
        BY <1>5, <1>6, <2>2, <3>1, <3>2, <3>3, DistinctPlaced
    <2>5. \A j \in DOMAIN table' : \/ j \in DOMAIN table /\ table'[j] = table[j]
                                   \/ table'[j].name = h /\ ~table'[j].opened
      BY <1>6, <2>3 DEF NewDevice
    <2>6. Finding'
      BY <1>1, <1>8, <2>5, Zenon DEF Finding
    <2>7. Owned => Owned'
      BY <1>1, <1>6, <2>3, <2>5, OwnedKept DEF Live
    <2> QED
      BY <1>1, <1>7, <1>9, <2>3, <2>4, <2>6, <2>7 DEF DevicesInv, Typed
  <1> QED
    BY <1>1, <1>10, <1>11

LEMMA EmptyTable ==
    ASSUME table' = <<>>, stream' = [s \in Streams |-> 0], found' = 0, initialized' \in BOOLEAN
    PROVE  DevicesInv'
  <1>1. Typed'
    BY NamesAssumption DEF Typed
  <1>2. Finding' /\ DistinctIn(table') /\ Owned'
    BY DEF Finding, DistinctIn, Owned, Live
  <1> QED
    BY <1>1, <1>2 DEF DevicesInv

-----------------------------------------------------------------------------
(***************************************************************************)
(* The results.                                                            *)
(***************************************************************************)
LEMMA DevicesInvInit == Init => DevicesInv
  <1> SUFFICES ASSUME Init PROVE DevicesInv
    OBVIOUS
  <1>1. Typed
    <2>1. initialized \in BOOLEAN /\ found = 0 /\ table = <<>> /\ stream = [s \in Streams |-> 0]
      BY DEF Init
    <2>2. Len(Hardware) \in Nat
      BY NamesAssumption
    <2> QED
      BY <2>1, <2>2 DEF Typed
  <1>2. Finding /\ DistinctIn(table) /\ Owned
    BY DEF Init, Finding, DistinctIn, Owned, Live
  <1> QED
    BY <1>1, <1>2 DEF DevicesInv

LEMMA DevicesInvNext ==
    ASSUME DevicesInv, [Next]_vars
    PROVE  DevicesInv' /\ (initialized' => Kept)
  <1>1. CASE UNCHANGED vars
    BY <1>1 DEF vars, DevicesInv, Typed, Finding, DistinctIn, Owned, Live, Kept
  <1>2. CASE FindDevice
    BY <1>2, FindDeviceKeeps
  <1>3. CASE Initialize
    <2>1. initialized' /\ found' = 0 /\ UNCHANGED <<table, stream>>
      BY <1>3 DEF Initialize
    <2>2. Kept
      BY <2>1 DEF Kept
    <2>3. Typed' /\ Finding' /\ (Careful => DistinctIn(table') /\ Owned')
      BY <1>3, <2>1, NamesAssumption DEF Initialize, DevicesInv, Typed, Finding, Owned, Live
    <2> QED
      BY <2>2, <2>3 DEF DevicesInv
  <1>4. CASE Terminate
    BY <1>4, EmptyTable DEF Terminate, DevicesInv, Finding, Call
  <1>5. ASSUME NEW name \in Names, NEW is_input \in BOOLEAN, CreateCrashes(name, is_input)
        PROVE  DevicesInv' /\ Kept
    <2>1. UNCHANGED <<initialized, found, table, stream>>
      BY <1>5 DEF CreateCrashes
    <2> QED
      BY <2>1 DEF DevicesInv, Typed, Finding, Owned, Live, Kept
  <1> QED
    BY <1>1, <1>2, <1>3, <1>4, <1>5, CreateVirtualKeeps, CreateRefusedKeeps,
       CreateWithoutNameKeeps, DeleteKeeps, OpenKeeps, CloseKeeps DEF Next, OpenInput, OpenOutput

\* The inductive invariant of the device table.
THEOREM DevicesCorrect == Spec => []DevicesInv
  <1>1. DevicesInv /\ [Next]_vars => DevicesInv'
    BY DevicesInvNext
  <1> QED
    BY <1>1, DevicesInvInit, PTL DEF Spec

\* Two devices that exist never have the same name and the same side, whatever was
\* created, deleted and refused before.
THEOREM DeviceNamesDistinct == Spec => []NamesDistinct
  <1>1. DevicesInv => NamesDistinct
    <2> SUFFICES ASSUME DevicesInv, Careful, ~Nameless, NEW i \in DOMAIN table, NEW j \in DOMAIN table,
                        Live(i), Live(j), table[i].name = table[j].name,
                        Appears(table[i]) = Appears(table[j])
                 PROVE  i = j
      BY DEF NamesDistinct
    <2>1. table[i] \in Device /\ table[j] \in Device
      BY DEF DevicesInv, Typed
    <2>2. Direction(table[i]) <=> Direction(table[j])
      <3>1. \A d \in Device : ~d.deleted => (Appears(d) <=> Direction(d))
        BY Zenon DEF Appears, Direction, Device
      <3> QED
        BY <2>1, <3>1 DEF Live
    <2> QED
      BY <2>2 DEF DevicesInv, DistinctIn, Nameless
  <1> QED
    BY <1>1, DevicesCorrect, PTL

\* Every open stream owns the device it was opened with, and every open device has
\* a stream.
THEOREM DeviceStreamsOwned == Spec => []StreamsOwned
  <1>1. DevicesInv => StreamsOwned
    BY DEF DevicesInv, Owned, StreamsOwned, Nameless
  <1> QED
    BY <1>1, DevicesCorrect, PTL

\* No call gives another number, name or direction to a device that exists.
THEOREM DeviceNotRenumbered == Spec => NotRenumbered
  <1>1. DevicesInv /\ [Next]_vars =>
          [\A i \in DOMAIN table : Live(i) /\ initialized' =>
             /\ i \in DOMAIN table'
             /\ table'[i].deleted \/ (/\ table'[i].name = table[i].name
                                      /\ table'[i].input = table[i].input
                                      /\ table'[i].virtual = table[i].virtual)]_vars
    BY DevicesInvNext DEF Kept
  <1> QED
    BY <1>1, DevicesCorrect, PTL DEF Spec, NotRenumbered
=============================================================================
