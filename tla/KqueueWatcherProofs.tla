------------------------ MODULE KqueueWatcherProofs -------------------------
(***************************************************************************)
(* Proofs about the kqueue watcher, for every set of directories, every    *)
(* finite set of names and any number of changes:                          *)
(*                                                                         *)
(*   - it works on no entry that was removed (EntryInv);                   *)
(*   - FindChanges merges two sorted lists into their difference, by the   *)
(*     least number of names left at which it would not;                   *)
(*   - the owner was told what is in a directory (TellInv): what is not in *)
(*     the snapshot is noted, and what is in the snapshot was told or is   *)
(*     about to be.                                                        *)
(***************************************************************************)
EXTENDS KqueueWatcher, FiniteSetTheorems, SequenceTheorems, TLAPS

EntryType ==
    /\ watch \in [Paths -> {"none", "created", "added"}]
    /\ notes \in [Paths -> SUBSET Notes]
    /\ current \in Paths \cup {None}

\* kqueue has notes for those entries only that are added, so that what ReadEvents
\* retrieves is about an entry that exists.
NotesKnown == \A p \in Paths : notes[p] # {} => watch[p] = "added"

\* Between events there is no entry at work, and the owner who closes the watcher
\* then, or removes all watches, takes none away.
Quiet == pc \in {"idle", "read"} => current = None

AtWork == current # None => watch[current] = "added"

EntryInv == EntryType /\ NotesKnown /\ Quiet /\ AtWork

-----------------------------------------------------------------------------
LEMMA EntryInit == Init => EntryInv
  BY DEF Init, EntryInv, EntryType, NotesKnown, Quiet, AtWork

\* Steps that leave the entries alone.
LEMMA EntryKept ==
    ASSUME EntryInv, UNCHANGED <<watch, notes, current>>, Quiet'
    PROVE  EntryInv'
  BY DEF EntryInv, EntryType, NotesKnown, Quiet, AtWork

\* What other processes do reaches an entry as notes, if it is added.
LEMMA EntryNoted ==
    ASSUME EntryInv, NEW p \in Paths, NEW what \in SUBSET Notes, Noted(p, what)
    PROVE  EntryInv'
  <1>1. UNCHANGED <<watch, current, pc>>
    BY DEF Noted, process
  <1>2. CASE watch[p] = "added" /\ SameVnode(p)
    <2>1. notes' = [notes EXCEPT ![p] = @ \cup what]
      BY <1>2 DEF Noted
    <2> QED
      BY <1>1, <1>2, <2>1 DEF EntryInv, EntryType, NotesKnown, Quiet, AtWork
  <1>3. CASE ~(watch[p] = "added" /\ SameVnode(p))
    BY <1>1, <1>3, EntryKept DEF Noted, EntryInv, Quiet
  <1> QED
    BY <1>2, <1>3

LEMMA EntryWorld ==
    ASSUME EntryInv, NEW p \in Paths, World(p)
    PROVE  EntryInv'
  <1>1. \E what \in SUBSET Notes : Noted(p, what)
    BY DEF World, FileChanges, AttributesChange, DirectoryDeleted, DirectoryRenamed,
           DirectoryRevoked, DirectoryMade, Notes
  <1> QED
    BY <1>1, EntryNoted

\* Watches that are removed, none of them of the entry at work.
LEMMA EntryRemoved ==
    ASSUME EntryInv, NEW ps \in SUBSET Paths, Removed(ps), current \notin ps
    PROVE  EntryInv'
  <1>1. UNCHANGED <<current, pc>>
    BY DEF Removed, process
  <1>2. /\ watch' = [p \in Paths |-> IF p \in ps THEN "none" ELSE watch[p]]
        /\ notes' = [p \in Paths |-> IF p \in ps THEN {} ELSE notes[p]]
    BY DEF Removed
  <1> QED
    BY <1>1, <1>2 DEF EntryInv, EntryType, NotesKnown, Quiet, AtWork

LEMMA EntryOwner ==
    ASSUME EntryInv, ~HandlerRemoves, Owner
    PROVE  EntryInv'
  <1>1. CASE ServiceInit
    BY <1>1, EntryKept DEF ServiceInit, entries, process, EntryInv, Quiet
  <1>2. CASE RemoveAll
    <2>1. Removed(Paths) /\ \A p \in Paths : watch[p] = "added" => p # current
      BY <1>2 DEF RemoveAll, Removable
    <2>2. current \notin Paths
      BY <2>1, NoneAssumption DEF EntryInv, AtWork
    <2> QED
      BY <2>1, <2>2, EntryRemoved
  <1>3. CASE Close
    BY <1>3, EntryRemoved, NoneAssumption DEF Close, EntryInv, Quiet
  <1>4. ASSUME NEW p \in Paths, AddCreates(p) PROVE EntryInv'
    <2>1. /\ watch[p] = "none" /\ watch' = [watch EXCEPT ![p] = "created"]
          /\ UNCHANGED <<notes, current, pc>>
      BY <1>4 DEF AddCreates, process
    <2> QED
      BY <2>1 DEF EntryInv, EntryType, NotesKnown, Quiet, AtWork
  <1>5. ASSUME NEW p \in Paths, DoRemove(p) PROVE EntryInv'
    BY <1>5, EntryRemoved DEF DoRemove, Removable
  <1> QED
    BY <1>1, <1>2, <1>3, <1>4, <1>5 DEF Owner

LEMMA EntryLoop ==
    ASSUME EntryInv, Loop \/ ReadFails
    PROVE  EntryInv'
  <1>1. CASE OnReadWaiting \/ ReadDone \/ ReadFails
    BY <1>1, EntryKept DEF OnReadWaiting, ReadDone, ReadFails, entries, EntryInv, Quiet
  <1>2. CASE Processed
    BY <1>2 DEF Processed, entries, EntryInv, EntryType, NotesKnown, Quiet, AtWork
  <1>3. CASE Scan
    BY <1>3, EntryKept DEF Scan, Quiet
  <1>4. CASE SendChange \/ HandlerReturns \/ AllSent \/ OnlyLink
    BY <1>4, EntryKept DEF SendChange, HandlerReturns, AllSent, OnlyLink, entries, EntryInv, Quiet
  <1>5. CASE SendFlag
    <2>1. \E event, flags : Send(event, flags)
      BY <1>5 DEF SendFlag
    <2> QED
      BY <2>1, EntryKept DEF Send, entries, Quiet
  <1>6. ASSUME NEW p \in Paths, ReadEvent(p) PROVE EntryInv'
    <2>1. /\ notes[p] # {} /\ notes' = [notes EXCEPT ![p] = {}]
          /\ UNCHANGED watch /\ current' = p /\ pc' = "flags"
      BY <1>6 DEF ReadEvent
    <2> QED
      BY <2>1 DEF EntryInv, EntryType, NotesKnown, Quiet, AtWork
  <1>7. ASSUME NEW p \in Paths, DoAdd(p) PROVE EntryInv'
    <2>1. /\ watch[p] = "created" /\ UNCHANGED <<notes, current, pc>>
          /\ watch' = [watch EXCEPT ![p] = "added"] \/ watch' = [watch EXCEPT ![p] = "none"]
      BY <1>7 DEF DoAdd, process
    <2> QED
      BY <2>1 DEF EntryInv, EntryType, NotesKnown, Quiet, AtWork
  <1> QED
    BY <1>1, <1>2, <1>3, <1>4, <1>5, <1>6, <1>7 DEF Loop

\* ProcessNativeEvent works on entries that exist, as long as handlers do not remove
\* the watch that their event is about, for all values of the constants.
THEOREM WatcherNoStaleEntry == Spec => []NoStaleEntry
  <1>1. ~HandlerRemoves /\ EntryInv /\ [Next]_vars => EntryInv'
    <2> SUFFICES ASSUME ~HandlerRemoves, EntryInv, [Next]_vars PROVE EntryInv'
      OBVIOUS
    <2>1. CASE UNCHANGED vars
      BY <2>1, EntryKept DEF vars, entries, process, EntryInv, Quiet
    <2>2. CASE Next
      BY <2>2, EntryLoop, EntryOwner, EntryWorld DEF Next
    <2> QED
      BY <2>1, <2>2
  <1> DEFINE Held == HandlerRemoves \/ EntryInv
  <1>2. Init => Held
    BY EntryInit
  <1>3. Held /\ [Next]_vars => Held'
    BY <1>1
  <1>4. Held => NoStaleEntry
    BY DEF EntryInv, AtWork, NoStaleEntry
  <1> HIDE DEF Held
  <1> QED
    BY <1>2, <1>3, <1>4, PTL DEF Spec
-----------------------------------------------------------------------------
(***************************************************************************)
(* The list of a directory.                                                *)
(***************************************************************************)
\* Every set of natural numbers that is not empty has a least number.
LEMMA LeastNat ==
    ASSUME NEW T \in SUBSET Nat, T # {}
    PROVE  \E x \in T : \A y \in T : x <= y
  <1> DEFINE R == OpToRel(<, Nat)
  <1>1. IsWellFoundedOn(R, Nat)
    BY NatLessThanWellFounded, Zenon
  <1>2. \A x, y \in Nat : <<y, x>> \in R <=> y < x
    <2>1. R = {ss \in Nat \X Nat : ss[1] < ss[2]}
      BY Zenon DEF OpToRel
    <2> HIDE DEF R
    <2> QED
      BY <2>1
  <1> HIDE DEF R
  <1>3. PICK x \in T : \A y \in T : ~(<<y, x>> \in R)
    BY <1>1, WFMin
  <1>4. ASSUME NEW y \in T PROVE x <= y
    <2>1. x \in Nat /\ y \in Nat /\ ~(y < x)
      BY <1>2, <1>3
    <2> QED
      BY <2>1
  <1> QED
    BY <1>4

Increasing(s) == \A j, k \in 1 .. Len(s) : j < k => s[j] < s[k]

LEMMA SortedExists ==
    ASSUME NEW S \in SUBSET Nat, IsFiniteSet(S)
    PROVE  \E s \in [1 .. Cardinality(S) -> S] : \A j, k \in DOMAIN s : j < k => s[j] < s[k]
  <1> DEFINE n == Cardinality(S)
             Upto(x) == {y \in S : y <= x}
             rank == [x \in S |-> Cardinality(Upto(x))]
  <1>1. n \in Nat
    BY FS_CardinalityType
  <1>2. ASSUME NEW x \in S
        PROVE  IsFiniteSet(Upto(x)) /\ Cardinality(Upto(x)) \in 1 .. n
    <2>1. IsFiniteSet(Upto(x)) /\ Cardinality(Upto(x)) <= n
      <3>1. Upto(x) \in SUBSET S
        OBVIOUS
      <3> QED
        BY <3>1, FS_Subset
    <2>2. Cardinality(Upto(x)) \in Nat
      BY <2>1, FS_CardinalityType
    <2>3. x \in Upto(x)
      OBVIOUS
    <2>4. Cardinality(Upto(x)) # 0
      BY <2>1, <2>3, FS_EmptySet
    <2> HIDE DEF Upto
    <2> QED
      BY <2>1, <2>2, <2>4, <1>1
  <1>3. ASSUME NEW x \in S, NEW y \in S, x < y
        PROVE  Cardinality(Upto(x)) < Cardinality(Upto(y))
    <2>1. Upto(x) \in SUBSET Upto(y) /\ y \in Upto(y) /\ y \notin Upto(x)
      <3>1. x \in Nat /\ y \in Nat /\ \A z \in S : z \in Nat
        OBVIOUS
      <3>2. \A z \in S : z <= x => z <= y
        BY <3>1, <1>3
      <3>3. y <= y /\ ~(y <= x)
        BY <3>1, <1>3
      <3> QED
        BY <3>2, <3>3
    <2>2. /\ IsFiniteSet(Upto(y))
          /\ Cardinality(Upto(x)) \in 1 .. n /\ Cardinality(Upto(y)) \in 1 .. n
      BY <1>2
    <2> HIDE DEF Upto, n
    <2>3. Cardinality(Upto(x)) <= Cardinality(Upto(y)) /\ Cardinality(Upto(x)) # Cardinality(Upto(y))
      BY <2>1, <2>2, FS_Subset
    <2> QED
      BY <2>2, <2>3, <1>1
  <1> HIDE DEF Upto
  <1>4. rank \in [S -> 1 .. n] /\ \A x, y \in S : x < y => rank[x] < rank[y]
    BY <1>2, <1>3
  <1> HIDE DEF rank
  <1>5. rank \in Injection(S, 1 .. n)
    <2>1. ASSUME NEW x \in S, NEW y \in S, rank[x] = rank[y] PROVE x = y
      <3>1. x \in Nat /\ y \in Nat /\ rank[x] \in 1 .. n /\ rank[y] \in 1 .. n
        BY <1>4
      <3>2. ~(x < y) /\ ~(y < x)
        BY <3>1, <2>1, <1>4
      <3> QED
        BY <3>1, <3>2
    <2> QED
      BY <2>1, <1>4 DEF Injection, IsInjective
  <1>6. IsFiniteSet(1 .. n) /\ Cardinality(1 .. n) = n
    BY <1>1, FS_Interval
  <1>7. rank \in Surjection(S, 1 .. n)
    BY <1>5, <1>6, FS_Injection
  <1>8. \A k \in 1 .. n : \E x \in S : rank[x] = k
    BY <1>7 DEF Surjection
  <1> DEFINE s == [k \in 1 .. n |-> CHOOSE x \in S : rank[x] = k]
  <1>9. s \in [1 .. n -> S] /\ \A k \in 1 .. n : rank[s[k]] = k
    BY <1>8
  <1> HIDE DEF s
  <1>10. ASSUME NEW j \in 1 .. n, NEW k \in 1 .. n, j < k PROVE s[j] < s[k]
    <2>1. s[j] \in S /\ s[k] \in S /\ s[j] \in Nat /\ s[k] \in Nat /\ rank[s[j]] = j /\ rank[s[k]] = k
      BY <1>9
    <2>2. s[k] < s[j] => k < j
      BY <2>1, <1>4
    <2>3. s[k] # s[j]
      BY <2>1, <1>10
    <2> QED
      BY <2>1, <2>2, <2>3, <1>10
  <1>11. DOMAIN s = 1 .. n
    BY <1>9
  <1> QED
    BY <1>9, <1>10, <1>11

\* Sorted lists the names once, in order, all of them.
LEMMA SortedList ==
    ASSUME NEW S \in SUBSET Files
    PROVE  /\ Sorted(S) \in Seq(S) /\ Increasing(Sorted(S))
           /\ \A f \in S : \E k \in 1 .. Len(Sorted(S)) : Sorted(S)[k] = f
  <1> DEFINE s == Sorted(S)
             n == Cardinality(S)
  <1>1. S \in SUBSET Nat /\ IsFiniteSet(S) /\ n \in Nat
    BY FilesAssumption, FS_Subset, FS_CardinalityType
  <1>2. s \in [1 .. n -> S] /\ \A j, k \in DOMAIN s : j < k => s[j] < s[k]
    BY <1>1, SortedExists DEF Sorted
  <1> HIDE DEF s, n
  <1>3. s \in Seq(S) /\ Len(s) = n /\ DOMAIN s = 1 .. n
    BY <1>1, <1>2
  <1>4. s \in Injection(1 .. n, S)
    <2>1. ASSUME NEW j \in 1 .. n, NEW k \in 1 .. n, s[j] = s[k] PROVE j = k
      <3>1. s[j] \in Nat /\ s[k] \in Nat
        BY <1>1, <1>2
      <3>2. ~(j < k) /\ ~(k < j)
        BY <3>1, <2>1, <1>2, <1>3
      <3> QED
        BY <3>2
    <2> QED
      BY <2>1, <1>2 DEF Injection, IsInjective
  <1>5. Cardinality(1 .. n) = Cardinality(S)
    BY <1>1, FS_Interval DEF n
  <1>6. s \in Surjection(1 .. n, S)
    BY <1>1, <1>4, <1>5, FS_Injection
  <1>7. \A f \in S : \E k \in 1 .. n : s[k] = f
    BY <1>6 DEF Surjection
  <1>8. Increasing(s)
    BY <1>2, <1>3 DEF Increasing
  <1> QED
    BY <1>3, <1>7, <1>8 DEF s

-----------------------------------------------------------------------------
(***************************************************************************)
(* FindChanges.                                                            *)
(***************************************************************************)
Change == [file : Nat, change : {"CREATE", "DELETE"}]

Grid(old, curr) == (1 .. Len(old) + 1) \X (1 .. Len(curr) + 1)

\* One comparison of the merge, with f for what comes after it.
Compare(f, old, curr, at) ==
    LET o == at[1]
        c == at[2]
    IN  IF o > Len(old) THEN AllCreated(SubSeq(curr, c, Len(curr)))
        ELSE IF c > Len(curr) THEN AllDeleted(SubSeq(old, o, Len(old)))
        ELSE IF curr[c] = old[o] THEN f[<<o + 1, c + 1>>]
        ELSE IF curr[c] < old[o] THEN <<Created(curr[c])>> \o f[<<o, c + 1>>]
        ELSE <<Deleted(old[o])>> \o f[<<o + 1, c>>]

\* The names that are left to compare.
Left(old, curr, at) == Len(old) + 1 - at[1] + (Len(curr) + 1 - at[2])

LEMMA GridPoint ==
    ASSUME NEW old \in Seq(Nat), NEW curr \in Seq(Nat), NEW at \in Grid(old, curr)
    PROVE  /\ at[1] \in 1 .. Len(old) + 1 /\ at[2] \in 1 .. Len(curr) + 1
           /\ at = <<at[1], at[2]>> /\ Left(old, curr, at) \in Nat
           /\ Left(old, curr, at) <= Len(old) + Len(curr)
  <1>1. at[1] \in 1 .. Len(old) + 1 /\ at[2] \in 1 .. Len(curr) + 1 /\ at = <<at[1], at[2]>>
    BY DEF Grid
  <1>2. Len(old) \in Nat /\ Len(curr) \in Nat
    OBVIOUS
  <1> QED
    BY <1>1, <1>2 DEF Left

\* A comparison looks at points nearer to the end only.
LEMMA NearerBy ==
    ASSUME NEW m \in Nat, NEW n \in Nat, NEW x \in 1 .. m, NEW y \in 1 .. n,
           NEW a \in {x, x + 1}, NEW b \in {y, y + 1}, a + b > x + y
    PROVE  /\ a \in 1 .. m + 1 /\ b \in 1 .. n + 1
           /\ m + 1 - a + (n + 1 - b) < m + 1 - x + (n + 1 - y)
  OBVIOUS

LEMMA Nearer ==
    ASSUME NEW old \in Seq(Nat), NEW curr \in Seq(Nat), NEW at \in Grid(old, curr),
           at[1] <= Len(old), at[2] <= Len(curr),
           NEW to \in {<<at[1] + 1, at[2] + 1>>, <<at[1], at[2] + 1>>, <<at[1] + 1, at[2]>>}
    PROVE  /\ to \in Grid(old, curr) /\ Left(old, curr, to) < Left(old, curr, at)
           /\ Left(old, curr, to) \in Nat
  <1>1. at[1] \in 1 .. Len(old) + 1 /\ at[2] \in 1 .. Len(curr) + 1
    BY GridPoint
  <1>2. Len(old) \in Nat /\ Len(curr) \in Nat
    OBVIOUS
  <1>3. ASSUME NEW a \in {at[1], at[1] + 1}, NEW b \in {at[2], at[2] + 1},
               a + b > at[1] + at[2], to = <<a, b>>
        PROVE  /\ to \in Grid(old, curr) /\ Left(old, curr, to) < Left(old, curr, at)
               /\ Left(old, curr, to) \in Nat
    <2>1. /\ a \in 1 .. Len(old) + 1 /\ b \in 1 .. Len(curr) + 1
          /\ Len(old) + 1 - a + (Len(curr) + 1 - b) < Len(old) + 1 - at[1] + (Len(curr) + 1 - at[2])
      <3>1. at[1] \in 1 .. Len(old) /\ at[2] \in 1 .. Len(curr)
        BY <1>1, <1>2
      <3> DEFINE x == at[1]
                 y == at[2]
                 m == Len(old)
                 n == Len(curr)
      <3>2. m \in Nat /\ n \in Nat /\ x \in 1 .. m /\ y \in 1 .. n /\ a \in {x, x + 1}
            /\ b \in {y, y + 1} /\ a + b > x + y
        BY <3>1, <1>2, <1>3
      <3> HIDE DEF x, y, m, n
      <3>3. /\ a \in 1 .. m + 1 /\ b \in 1 .. n + 1
            /\ m + 1 - a + (n + 1 - b) < m + 1 - x + (n + 1 - y)
        BY <3>2, NearerBy
      <3> QED
        BY <3>3 DEF x, y, m, n
    <2>2. to \in Grid(old, curr)
      BY <2>1, <1>3 DEF Grid
    <2>4. to[1] = a /\ to[2] = b
      BY <1>3
    <2> QED
      BY <2>1, <2>2, <2>4, GridPoint DEF Left
  <1>4. CASE to = <<at[1] + 1, at[2] + 1>>
    <2>1. at[1] + 1 + (at[2] + 1) > at[1] + at[2]
      BY <1>1
    <2> QED
      BY <1>3, <1>4, <2>1
  <1>5. CASE to = <<at[1], at[2] + 1>>
    <2>1. at[1] + (at[2] + 1) > at[1] + at[2]
      BY <1>1
    <2> QED
      BY <1>3, <1>5, <2>1
  <1>6. CASE to = <<at[1] + 1, at[2]>>
    <2>1. at[1] + 1 + at[2] > at[1] + at[2]
      BY <1>1
    <2> QED
      BY <1>3, <1>6, <2>1
  <1> QED
    BY <1>4, <1>5, <1>6

LEMMA CompareAgrees ==
    ASSUME NEW old \in Seq(Nat), NEW curr \in Seq(Nat), NEW at \in Grid(old, curr), NEW f, NEW g,
           \A to \in Grid(old, curr) : Left(old, curr, to) < Left(old, curr, at) => f[to] = g[to]
    PROVE  Compare(f, old, curr, at) = Compare(g, old, curr, at)
  <1>1. CASE at[1] <= Len(old) /\ at[2] <= Len(curr)
    <2>1. /\ f[<<at[1] + 1, at[2] + 1>>] = g[<<at[1] + 1, at[2] + 1>>]
          /\ f[<<at[1], at[2] + 1>>] = g[<<at[1], at[2] + 1>>]
          /\ f[<<at[1] + 1, at[2]>>] = g[<<at[1] + 1, at[2]>>]
      BY <1>1, Nearer
    <2> QED
      BY <2>1, Zenon DEF Compare
  <1>2. CASE ~(at[1] <= Len(old) /\ at[2] <= Len(curr))
    <2>1. at[1] > Len(old) \/ at[2] > Len(curr)
      BY <1>2, GridPoint
    <2> QED
      BY <2>1, Zenon DEF Compare
  <1> QED
    BY <1>1, <1>2

LEMMA AllOfType ==
    ASSUME NEW s \in Seq(Nat)
    PROVE  /\ AllCreated(s) \in Seq(Change) /\ Len(AllCreated(s)) = Len(s)
           /\ \A k \in 1 .. Len(s) : AllCreated(s)[k] = Created(s[k])
           /\ AllDeleted(s) \in Seq(Change) /\ Len(AllDeleted(s)) = Len(s)
           /\ \A k \in 1 .. Len(s) : AllDeleted(s)[k] = Deleted(s[k])
  <1>1. DOMAIN s = 1 .. Len(s) /\ Len(s) \in Nat /\ \A k \in 1 .. Len(s) : s[k] \in Nat
    OBVIOUS
  <1>2. \A x \in Nat : Created(x) \in Change /\ Deleted(x) \in Change
    BY DEF Created, Deleted, Change
  <1>3. /\ AllCreated(s) \in [1 .. Len(s) -> Change] /\ AllDeleted(s) \in [1 .. Len(s) -> Change]
        /\ \A k \in 1 .. Len(s) : AllCreated(s)[k] = Created(s[k]) /\ AllDeleted(s)[k] = Deleted(s[k])
    BY <1>1, <1>2, Zenon DEF AllCreated, AllDeleted
  <1>4. \A t \in [1 .. Len(s) -> Change] : t \in Seq(Change) /\ Len(t) = Len(s)
    BY <1>1
  <1> QED
    BY <1>3, <1>4

LEMMA CompareType ==
    ASSUME NEW old \in Seq(Nat), NEW curr \in Seq(Nat), NEW at \in Grid(old, curr),
           NEW f, \A to \in Grid(old, curr) :
                      Left(old, curr, to) < Left(old, curr, at) => f[to] \in Seq(Change)
    PROVE  Compare(f, old, curr, at) \in Seq(Change)
  <1> DEFINE o == at[1]
             c == at[2]
  <1>1. o \in 1 .. Len(old) + 1 /\ c \in 1 .. Len(curr) + 1 /\ Len(old) \in Nat /\ Len(curr) \in Nat
    BY GridPoint
  <1>2. AllCreated(SubSeq(curr, c, Len(curr))) \in Seq(Change)
    <2>1. \A i \in c .. Len(curr) : curr[i] \in Nat
      BY <1>1
    <2>2. c \in Int /\ Len(curr) \in Int
      BY <1>1
    <2>3. SubSeq(curr, c, Len(curr)) \in Seq(Nat)
      BY <2>1, <2>2, SubSeqProperties
    <2> QED
      BY <2>3, AllOfType
  <1>3. AllDeleted(SubSeq(old, o, Len(old))) \in Seq(Change)
    <2>1. \A i \in o .. Len(old) : old[i] \in Nat
      BY <1>1
    <2>2. o \in Int /\ Len(old) \in Int
      BY <1>1
    <2>3. SubSeq(old, o, Len(old)) \in Seq(Nat)
      BY <2>1, <2>2, SubSeqProperties
    <2> QED
      BY <2>3, AllOfType
  <1>4. ASSUME o <= Len(old), c <= Len(curr)
        PROVE  /\ f[<<o + 1, c + 1>>] \in Seq(Change)
               /\ <<Created(curr[c])>> \o f[<<o, c + 1>>] \in Seq(Change)
               /\ <<Deleted(old[o])>> \o f[<<o + 1, c>>] \in Seq(Change)
    <2>2. f[<<o + 1, c + 1>>] \in Seq(Change) /\ f[<<o, c + 1>>] \in Seq(Change)
          /\ f[<<o + 1, c>>] \in Seq(Change)
      BY <1>4, Nearer
    <2>3. curr[c] \in Nat /\ old[o] \in Nat
      <3>1. c \in 1 .. Len(curr) /\ o \in 1 .. Len(old)
        BY <1>1, <1>4
      <3> HIDE DEF c, o
      <3> QED
        BY <3>1
    <2>4. Created(curr[c]) \in Change /\ Deleted(old[o]) \in Change
      BY <2>3 DEF Created, Deleted, Change
    <2>5. <<Created(curr[c])>> \in Seq(Change) /\ <<Deleted(old[o])>> \in Seq(Change)
      BY <2>4
    <2> QED
      BY <2>2, <2>5, ConcatProperties
  <1>5. o > Len(old) \/ c > Len(curr) \/ (o <= Len(old) /\ c <= Len(curr))
    BY <1>1
  <1> QED
    BY <1>2, <1>3, <1>4, <1>5, Zenon DEF Compare

\* The merge is defined everywhere: f compares at every point, whatever the lists.
IsMerge(f, old, curr) == f = [at \in Grid(old, curr) |-> Compare(f, old, curr, at)]

LEMMA MergeExists ==
    ASSUME NEW old \in Seq(Nat), NEW curr \in Seq(Nat)
    PROVE  \E f : IsMerge(f, old, curr)
  <1> DEFINE Upto(f, n) ==
                 /\ f \in [Grid(old, curr) -> Seq(Change)]
                 /\ \A at \in Grid(old, curr) :
                        Left(old, curr, at) < n => f[at] = Compare(f, old, curr, at)
             Bad == {n \in Nat : ~\E f : Upto(f, n)}
  <1>1. ASSUME NEW n \in Nat, n \in Bad, \A m \in Bad : n <= m PROVE FALSE
    <2>1. n # 0
      <3> DEFINE f == [at \in Grid(old, curr) |-> <<>>]
      <3>1. f \in [Grid(old, curr) -> Seq(Change)]
        OBVIOUS
      <3>2. \A at \in Grid(old, curr) : ~(Left(old, curr, at) < 0)
        BY GridPoint
      <3> HIDE DEF f
      <3>3. Upto(f, 0)
        BY <3>1, <3>2
      <3> QED
        BY <3>3, <1>1
    <2>2. n - 1 \in Nat /\ n - 1 \notin Bad
      <3>1. n - 1 \in Nat /\ ~(n <= n - 1)
        BY <2>1
      <3> HIDE DEF Bad
      <3> QED
        BY <3>1, <1>1
    <2>3. PICK f : Upto(f, n - 1)
      BY <2>2
    <2> DEFINE g == [at \in Grid(old, curr) |->
                        IF Left(old, curr, at) = n - 1 THEN Compare(f, old, curr, at) ELSE f[at]]
    <2>4. g \in [Grid(old, curr) -> Seq(Change)]
      <3>1. \A at \in Grid(old, curr) : Compare(f, old, curr, at) \in Seq(Change)
        BY <2>3, CompareType
      <3> QED
        BY <2>3, <3>1
    <2>5. \A at \in Grid(old, curr) : Left(old, curr, at) < n - 1 => g[at] = f[at]
      BY GridPoint
    <2>6. ASSUME NEW at \in Grid(old, curr), Left(old, curr, at) < n
          PROVE  g[at] = Compare(g, old, curr, at)
      <3>1. Left(old, curr, at) \in Nat /\ \A to \in Grid(old, curr) : Left(old, curr, to) \in Nat
        BY GridPoint
      <3>2. \A to \in Grid(old, curr) : Left(old, curr, to) < Left(old, curr, at) => f[to] = g[to]
        BY <3>1, <2>5, <2>6
      <3>3. Compare(f, old, curr, at) = Compare(g, old, curr, at)
        BY <3>2, CompareAgrees
      <3>4. CASE Left(old, curr, at) = n - 1
        BY <3>3, <3>4
      <3>5. CASE Left(old, curr, at) # n - 1
        <4>1. Left(old, curr, at) < n - 1
          BY <3>1, <3>5, <2>6
        <4> QED
          BY <4>1, <3>3, <2>3, <2>5
      <3> QED
        BY <3>4, <3>5
    <2> HIDE DEF g
    <2>7. Upto(g, n)
      BY <2>4, <2>6
    <2> HIDE DEF Upto
    <2> QED
      BY <2>7, <1>1
  <1> HIDE DEF Bad
  <1>2. Bad = {}
    <2>1. Bad \in SUBSET Nat
      BY DEF Bad
    <2> QED
      BY <2>1, <1>1, LeastNat
  <1> DEFINE n == Len(old) + Len(curr) + 1
  <1>3. n \in Nat /\ \A at \in Grid(old, curr) : Left(old, curr, at) < n
    BY GridPoint
  <1> HIDE DEF n
  <1>4. \E f : Upto(f, n)
    BY <1>2, <1>3 DEF Bad
  <1> QED
    BY <1>3, <1>4 DEF IsMerge

LEMMA FindChangesMerges ==
    ASSUME NEW old \in Seq(Nat), NEW curr \in Seq(Nat)
    PROVE  \E f : IsMerge(f, old, curr) /\ FindChanges(old, curr) = f[<<1, 1>>]
  <1> DEFINE From == CHOOSE f : IsMerge(f, old, curr)
  <1>1. IsMerge(From, old, curr)
    BY MergeExists
  <1>2. FindChanges(old, curr) = From[<<1, 1>>]
    BY DEF FindChanges, IsMerge, Grid, Compare
  <1> HIDE DEF From
  <1> QED
    BY <1>1, <1>2

\* s says, in some order, what a directory with the names old has to lose and
\* what it has to get to be one with the names curr.
IsDifference(s, old, curr) ==
    /\ s \in Seq(Change)
    /\ \A k \in 1 .. Len(s) :
        \/ \E f \in curr \ old : s[k] = Created(f)
        \/ \E f \in old \ curr : s[k] = Deleted(f)
    /\ \A f \in curr \ old : \E k \in 1 .. Len(s) : s[k] = Created(f)
    /\ \A f \in old \ curr : \E k \in 1 .. Len(s) : s[k] = Deleted(f)

LEMMA Prepended ==
    ASSUME NEW s \in Seq(Change), NEW e \in Change
    PROVE  LET t == <<e>> \o s
           IN  /\ t \in Seq(Change) /\ Len(t) = Len(s) + 1 /\ t[1] = e
               /\ \A k \in 1 .. Len(s) : k + 1 \in 1 .. Len(t) /\ t[k + 1] = s[k]
               /\ \A k \in 1 .. Len(t) : k = 1 \/ (k - 1 \in 1 .. Len(s) /\ t[k] = s[k - 1])
  <1> DEFINE t == <<e>> \o s
  <1>1. <<e>> \in Seq(Change) /\ Len(<<e>>) = 1 /\ <<e>>[1] = e /\ Len(s) \in Nat
    OBVIOUS
  <1>2. /\ t \in Seq(Change) /\ Len(t) = 1 + Len(s)
        /\ \A k \in 1 .. 1 + Len(s) : t[k] = IF k <= 1 THEN <<e>>[k] ELSE s[k - 1]
    BY <1>1, ConcatProperties
  <1> HIDE DEF t
  <1>3. t[1] = e
    BY <1>1, <1>2
  <1>4. \A k \in 1 .. Len(s) : k + 1 \in 1 .. Len(t) /\ t[k + 1] = s[k]
    BY <1>1, <1>2
  <1>5. \A k \in 1 .. Len(t) : k = 1 \/ (k - 1 \in 1 .. Len(s) /\ t[k] = s[k - 1])
    BY <1>1, <1>2
  <1> QED
    BY <1>1, <1>2, <1>3, <1>4, <1>5 DEF t

LEMMA DifferenceCreated ==
    ASSUME NEW old \in SUBSET Nat, NEW curr \in SUBSET Nat, NEW x \in Nat, x \notin old,
           NEW s, IsDifference(s, old, curr)
    PROVE  IsDifference(<<Created(x)>> \o s, old, curr \cup {x})
  <1> DEFINE t == <<Created(x)>> \o s
  <1>1. Created(x) \in Change /\ s \in Seq(Change)
    BY DEF Created, Change, IsDifference
  <1>2. /\ t \in Seq(Change) /\ Len(t) = Len(s) + 1 /\ t[1] = Created(x)
        /\ \A k \in 1 .. Len(s) : k + 1 \in 1 .. Len(t) /\ t[k + 1] = s[k]
        /\ \A k \in 1 .. Len(t) : k = 1 \/ (k - 1 \in 1 .. Len(s) /\ t[k] = s[k - 1])
    BY <1>1, Prepended
  <1>3. 1 \in 1 .. Len(t)
    BY <1>1, <1>2
  <1> HIDE DEF t
  <1>4. (curr \cup {x}) \ old = (curr \ old) \cup {x} /\ old \ (curr \cup {x}) = old \ curr
    OBVIOUS
  <1>5. \A k \in 1 .. Len(t) : \/ \E f \in (curr \ old) \cup {x} : t[k] = Created(f)
                              \/ \E f \in old \ curr : t[k] = Deleted(f)
    <2> SUFFICES ASSUME NEW k \in 1 .. Len(t)
                 PROVE  \/ \E f \in (curr \ old) \cup {x} : t[k] = Created(f)
                        \/ \E f \in old \ curr : t[k] = Deleted(f)
      OBVIOUS
    <2>1. CASE k = 1
      BY <2>1, <1>2
    <2>2. CASE k - 1 \in 1 .. Len(s) /\ t[k] = s[k - 1]
      BY <2>2 DEF IsDifference
    <2> QED
      BY <2>1, <2>2, <1>2
  <1>6. \A f \in (curr \ old) \cup {x} : \E k \in 1 .. Len(t) : t[k] = Created(f)
    BY <1>2, <1>3 DEF IsDifference
  <1>7. \A f \in old \ curr : \E k \in 1 .. Len(t) : t[k] = Deleted(f)
    BY <1>2 DEF IsDifference
  <1>8. IsDifference(t, old, curr \cup {x})
    BY <1>2, <1>4, <1>5, <1>6, <1>7 DEF IsDifference
  <1> QED
    BY <1>8 DEF t

LEMMA DifferenceDeleted ==
    ASSUME NEW old \in SUBSET Nat, NEW curr \in SUBSET Nat, NEW x \in Nat, x \notin curr,
           NEW s, IsDifference(s, old, curr)
    PROVE  IsDifference(<<Deleted(x)>> \o s, old \cup {x}, curr)
  <1> DEFINE t == <<Deleted(x)>> \o s
  <1>1. Deleted(x) \in Change /\ s \in Seq(Change)
    BY DEF Deleted, Change, IsDifference
  <1>2. /\ t \in Seq(Change) /\ Len(t) = Len(s) + 1 /\ t[1] = Deleted(x)
        /\ \A k \in 1 .. Len(s) : k + 1 \in 1 .. Len(t) /\ t[k + 1] = s[k]
        /\ \A k \in 1 .. Len(t) : k = 1 \/ (k - 1 \in 1 .. Len(s) /\ t[k] = s[k - 1])
    BY <1>1, Prepended
  <1>3. 1 \in 1 .. Len(t)
    BY <1>1, <1>2
  <1> HIDE DEF t
  <1>4. (old \cup {x}) \ curr = (old \ curr) \cup {x} /\ curr \ (old \cup {x}) = curr \ old
    OBVIOUS
  <1>5. \A k \in 1 .. Len(t) : \/ \E f \in curr \ old : t[k] = Created(f)
                              \/ \E f \in (old \ curr) \cup {x} : t[k] = Deleted(f)
    <2> SUFFICES ASSUME NEW k \in 1 .. Len(t)
                 PROVE  \/ \E f \in curr \ old : t[k] = Created(f)
                        \/ \E f \in (old \ curr) \cup {x} : t[k] = Deleted(f)
      OBVIOUS
    <2>1. CASE k = 1
      BY <2>1, <1>2
    <2>2. CASE k - 1 \in 1 .. Len(s) /\ t[k] = s[k - 1]
      BY <2>2 DEF IsDifference
    <2> QED
      BY <2>1, <2>2, <1>2
  <1>6. \A f \in (old \ curr) \cup {x} : \E k \in 1 .. Len(t) : t[k] = Deleted(f)
    BY <1>2, <1>3 DEF IsDifference
  <1>7. \A f \in curr \ old : \E k \in 1 .. Len(t) : t[k] = Created(f)
    BY <1>2 DEF IsDifference
  <1>8. IsDifference(t, old \cup {x}, curr)
    BY <1>2, <1>4, <1>5, <1>6, <1>7 DEF IsDifference
  <1> QED
    BY <1>8 DEF t

\* The names of a list from the i-th on.
Rest(s, i) == {s[k] : k \in i .. Len(s)}

LEMMA RestOf ==
    ASSUME NEW s \in Seq(Nat), Increasing(s), NEW i \in 1 .. Len(s) + 1
    PROVE  /\ Rest(s, i) \in SUBSET Nat
           /\ i > Len(s) => Rest(s, i) = {}
           /\ i <= Len(s) =>
                /\ s[i] \in Nat /\ i + 1 \in 1 .. Len(s) + 1
                /\ Rest(s, i) = Rest(s, i + 1) \cup {s[i]}
                /\ \A x \in Rest(s, i + 1) : s[i] < x
  <1>1. Len(s) \in Nat /\ \A k \in 1 .. Len(s) : s[k] \in Nat
    OBVIOUS
  <1>2. Rest(s, i) \in SUBSET Nat
    BY <1>1 DEF Rest
  <1>3. i > Len(s) => Rest(s, i) = {}
    BY <1>1 DEF Rest
  <1>4. ASSUME i <= Len(s)
        PROVE  /\ s[i] \in Nat /\ i + 1 \in 1 .. Len(s) + 1
               /\ Rest(s, i) = Rest(s, i + 1) \cup {s[i]}
               /\ \A x \in Rest(s, i + 1) : s[i] < x
    <2>1. i \in 1 .. Len(s) /\ i + 1 \in 1 .. Len(s) + 1
      BY <1>1, <1>4
    <2>2. i .. Len(s) = (i + 1 .. Len(s)) \cup {i}
      BY <1>1, <1>4
    <2>3. Rest(s, i) = Rest(s, i + 1) \cup {s[i]}
      BY <2>2 DEF Rest
    <2>4. \A k \in i + 1 .. Len(s) : k \in 1 .. Len(s) /\ i < k
      BY <1>1
    <2>5. \A x \in Rest(s, i + 1) : s[i] < x
      BY <2>1, <2>4 DEF Rest, Increasing
    <2> QED
      BY <1>1, <2>1, <2>3, <2>5
  <1> QED
    BY <1>2, <1>3, <1>4

\* What is left of a list when the other is done.
LEMMA RestListed ==
    ASSUME NEW s \in Seq(Nat), NEW i \in 1 .. Len(s) + 1
    PROVE  /\ IsDifference(AllCreated(SubSeq(s, i, Len(s))), {}, Rest(s, i))
           /\ IsDifference(AllDeleted(SubSeq(s, i, Len(s))), Rest(s, i), {})
  <1> DEFINE t == SubSeq(s, i, Len(s))
             n == Len(s)
  <1>1. n \in Nat /\ i \in Nat /\ i >= 1 /\ i <= n + 1 /\ \A k \in i .. n : s[k] \in Nat
    OBVIOUS
  <1>2. /\ t \in Seq(Nat) /\ Len(t) = IF i <= n THEN n - i + 1 ELSE 0
        /\ \A k \in 1 .. n - i + 1 : t[k] = s[i + k - 1]
    BY <1>1, SubSeqProperties
  <1> HIDE DEF t, n
  <1>3. Len(t) = n - i + 1
    BY <1>1, <1>2
  <1>4. \A k \in 1 .. Len(t) : i + k - 1 \in i .. n /\ t[k] = s[i + k - 1]
    BY <1>1, <1>2, <1>3
  <1>5. \A k \in i .. n : k - i + 1 \in 1 .. Len(t) /\ t[k - i + 1] = s[k]
    BY <1>1, <1>2, <1>3
  <1>6. Rest(s, i) = {s[k] : k \in i .. n}
    BY DEF Rest, n
  <1>7. \A k \in 1 .. Len(t) : t[k] \in Rest(s, i)
    BY <1>4, <1>6
  <1>8. \A f \in Rest(s, i) : \E k \in 1 .. Len(t) : t[k] = f
    BY <1>5, <1>6
  <1>9. /\ AllCreated(t) \in Seq(Change) /\ Len(AllCreated(t)) = Len(t)
        /\ \A k \in 1 .. Len(t) : AllCreated(t)[k] = Created(t[k])
        /\ AllDeleted(t) \in Seq(Change) /\ Len(AllDeleted(t)) = Len(t)
        /\ \A k \in 1 .. Len(t) : AllDeleted(t)[k] = Deleted(t[k])
    BY <1>2, AllOfType
  <1>10. IsDifference(AllCreated(t), {}, Rest(s, i))
    BY <1>7, <1>8, <1>9 DEF IsDifference
  <1>11. IsDifference(AllDeleted(t), Rest(s, i), {})
    BY <1>7, <1>8, <1>9 DEF IsDifference
  <1> QED
    BY <1>10, <1>11 DEF t, n

\* One comparison, when the ones after it are right.
LEMMA CompareDiffers ==
    ASSUME NEW old \in Seq(Nat), NEW curr \in Seq(Nat), Increasing(old), Increasing(curr),
           NEW at \in Grid(old, curr), NEW f,
           \A to \in Grid(old, curr) : Left(old, curr, to) < Left(old, curr, at) =>
                IsDifference(f[to], Rest(old, to[1]), Rest(curr, to[2]))
    PROVE  IsDifference(Compare(f, old, curr, at), Rest(old, at[1]), Rest(curr, at[2]))
  <1> DEFINE o == at[1]
             c == at[2]
             O == Rest(old, o)
             C == Rest(curr, c)
  <1>1. o \in 1 .. Len(old) + 1 /\ c \in 1 .. Len(curr) + 1 /\ Len(old) \in Nat /\ Len(curr) \in Nat
    BY GridPoint
  <1>2. /\ O \in SUBSET Nat /\ C \in SUBSET Nat
        /\ o > Len(old) => O = {}
        /\ c > Len(curr) => C = {}
    BY <1>1, RestOf
  <1>3. CASE o > Len(old)
    <2>1. Compare(f, old, curr, at) = AllCreated(SubSeq(curr, c, Len(curr)))
      BY <1>3 DEF Compare
    <2> QED
      BY <2>1, <1>1, <1>2, <1>3, RestListed
  <1>4. CASE o <= Len(old) /\ c > Len(curr)
    <2>1. Compare(f, old, curr, at) = AllDeleted(SubSeq(old, o, Len(old)))
      BY <1>1, <1>4 DEF Compare
    <2> QED
      BY <2>1, <1>1, <1>2, <1>4, RestListed
  <1>5. CASE o <= Len(old) /\ c <= Len(curr)
    <2> DEFINE x == old[o]
               y == curr[c]
               O1 == Rest(old, o + 1)
               C1 == Rest(curr, c + 1)
    <2>1. /\ x \in Nat /\ y \in Nat /\ O = O1 \cup {x} /\ C = C1 \cup {y}
          /\ o + 1 \in 1 .. Len(old) + 1 /\ c + 1 \in 1 .. Len(curr) + 1
          /\ (\A z \in O1 : x < z) /\ (\A z \in C1 : y < z)
      BY <1>1, <1>5, RestOf
    <2>2. O1 \in SUBSET Nat /\ C1 \in SUBSET Nat
      BY <2>1, RestOf
    <2>3. /\ IsDifference(f[<<o + 1, c + 1>>], O1, C1)
          /\ IsDifference(f[<<o, c + 1>>], O, C1)
          /\ IsDifference(f[<<o + 1, c>>], O1, C)
      BY <1>5, Nearer
    <2>4. Compare(f, old, curr, at) =
            IF y = x THEN f[<<o + 1, c + 1>>]
            ELSE IF y < x THEN <<Created(y)>> \o f[<<o, c + 1>>]
            ELSE <<Deleted(x)>> \o f[<<o + 1, c>>]
      BY <1>1, <1>5 DEF Compare
    <2> HIDE DEF x, y, O, C, O1, C1
    <2>5. CASE y = x
      <3>1. x \notin O1 /\ x \notin C1
        BY <2>1, <2>2, <2>5
      <3>2. C \ O = C1 \ O1 /\ O \ C = O1 \ C1
        BY <2>1, <2>5, <3>1
      <3> QED
        <4>1. IsDifference(f[<<o + 1, c + 1>>], O, C)
          BY <2>3, <3>2, Zenon DEF IsDifference
        <4>2. IsDifference(Compare(f, old, curr, at), O, C)
          BY <4>1, <2>4, <2>5
        <4> QED
          BY <4>2 DEF O, C
    <2>6. CASE y < x
      <3>1. y \notin O
        BY <2>1, <2>2, <2>6
      <3>2. IsDifference(<<Created(y)>> \o f[<<o, c + 1>>], O, C1 \cup {y})
        BY <2>1, <2>2, <2>3, <3>1, <1>2, DifferenceCreated
      <3>3. y # x
        BY <2>1, <2>6
      <3>4. IsDifference(Compare(f, old, curr, at), O, C)
        BY <2>1, <2>4, <2>6, <3>2, <3>3
      <3> QED
        BY <3>4 DEF O, C
    <2>7. CASE x < y
      <3>1. x \notin C
        BY <2>1, <2>2, <2>7
      <3>2. IsDifference(<<Deleted(x)>> \o f[<<o + 1, c>>], O1 \cup {x}, C)
        BY <2>1, <2>2, <2>3, <3>1, <1>2, DifferenceDeleted
      <3>3. ~(y = x) /\ ~(y < x)
        BY <2>1, <2>7
      <3>4. IsDifference(Compare(f, old, curr, at), O, C)
        BY <2>1, <2>4, <3>2, <3>3
      <3> QED
        BY <3>4 DEF O, C
    <2>8. y = x \/ y < x \/ x < y
      BY <2>1
    <2> QED
      BY <2>5, <2>6, <2>7, <2>8
  <1>6. o > Len(old) \/ (o <= Len(old) /\ c > Len(curr)) \/ (o <= Len(old) /\ c <= Len(curr))
    BY <1>1
  <1> QED
    BY <1>3, <1>4, <1>5, <1>6

\* FindChanges finds the difference of the snapshot and the directory, all of it and
\* no more, when both lists are sorted.
THEOREM FindChangesDiffers ==
    ASSUME NEW old \in SUBSET Files, NEW curr \in SUBSET Files
    PROVE  IsDifference(FindChanges(Sorted(old), Sorted(curr)), old, curr)
  <1> DEFINE a == Sorted(old)
             b == Sorted(curr)
  <1>1. /\ a \in Seq(Nat) /\ Increasing(a) /\ b \in Seq(Nat) /\ Increasing(b)
        /\ Rest(a, 1) = old /\ Rest(b, 1) = curr
    <2>1. ASSUME NEW S \in SUBSET Files
          PROVE  Sorted(S) \in Seq(Nat) /\ Increasing(Sorted(S)) /\ Rest(Sorted(S), 1) = S
      <3> DEFINE s == Sorted(S)
      <3>1. s \in Seq(S) /\ Increasing(s) /\ \A g \in S : \E k \in 1 .. Len(s) : s[k] = g
        BY SortedList
      <3> HIDE DEF s
      <3>2. S \subseteq Nat
        BY FilesAssumption
      <3>3. s \in Seq(Nat) /\ \A k \in 1 .. Len(s) : s[k] \in S
        <4>1. \A k \in 1 .. Len(s) : s[k] \in S
          BY <3>1
        <4>2. s \in [1 .. Len(s) -> Nat] /\ Len(s) \in Nat
          <5>1. s \in [1 .. Len(s) -> S] /\ Len(s) \in Nat
            BY <3>1
          <5> QED
            BY <5>1, <3>2
        <4> QED
          BY <4>1, <4>2
      <3>4. Rest(s, 1) = S
        BY <3>1, <3>3 DEF Rest
      <3> QED
        BY <3>1, <3>3, <3>4 DEF s
    <2> QED
      BY <2>1
  <1> HIDE DEF a, b
  <1>2. PICK f : IsMerge(f, a, b) /\ FindChanges(a, b) = f[<<1, 1>>]
    BY <1>1, FindChangesMerges
  <1>3. \A at \in Grid(a, b) : f[at] = Compare(f, a, b, at)
    BY <1>2 DEF IsMerge
  <1> DEFINE Right(at) == IsDifference(f[at], Rest(a, at[1]), Rest(b, at[2]))
             Bad == {Left(a, b, at) : at \in {p \in Grid(a, b) : ~Right(p)}}
  <1>4. Bad \in SUBSET Nat
    BY <1>1, GridPoint
  <1>5. ASSUME NEW n \in Bad, \A m \in Bad : n <= m PROVE FALSE
    <2>1. PICK at \in Grid(a, b) : ~Right(at) /\ n = Left(a, b, at)
      OBVIOUS
    <2>2. \A to \in Grid(a, b) : Left(a, b, to) \in Nat
      BY <1>1, GridPoint
    <2>3. \A to \in Grid(a, b) : Left(a, b, to) < Left(a, b, at) => Right(to)
      <3> SUFFICES ASSUME NEW to \in Grid(a, b), Left(a, b, to) < Left(a, b, at), ~Right(to)
                   PROVE  FALSE
        OBVIOUS
      <3>1. Left(a, b, to) \in Bad
        OBVIOUS
      <3>2. n <= Left(a, b, to) /\ Left(a, b, to) \in Nat /\ n \in Nat
        BY <3>1, <1>4, <1>5
      <3> QED
        BY <3>2, <2>1
    <2>4. IsDifference(Compare(f, a, b, at), Rest(a, at[1]), Rest(b, at[2]))
      BY <2>3, <1>1, CompareDiffers
    <2> QED
      BY <2>1, <2>4, <1>3
  <1>6. \A at \in Grid(a, b) : Right(at)
    <2>1. Bad = {}
      <3> HIDE DEF Bad
      <3> QED
        BY <1>4, <1>5, LeastNat
    <2> QED
      BY <2>1
  <1>7. <<1, 1>> \in Grid(a, b)
    <2>1. Len(a) \in Nat /\ Len(b) \in Nat
      BY <1>1
    <2>2. 1 \in 1 .. Len(a) + 1 /\ 1 \in 1 .. Len(b) + 1
      BY <2>1
    <2> QED
      BY <2>2 DEF Grid
  <1>8. IsDifference(FindChanges(a, b), old, curr)
    BY <1>1, <1>2, <1>6, <1>7
  <1> QED
    BY <1>8 DEF a, b

-----------------------------------------------------------------------------
(***************************************************************************)
(* What the owner is told.                                                 *)
(***************************************************************************)
DiskType ==
    /\ exists \in [Paths -> BOOLEAN] /\ vnode \in [Paths -> Nat] /\ fd \in [Paths -> Nat]
    /\ dir \in [Paths -> SUBSET Files] /\ view \in [Paths -> SUBSET Files]
    /\ told \in [Paths -> SUBSET Files] /\ sends \in Seq(Change)

\* A directory that is made again is another one than any entry has open.
FdKnown == \A p \in Paths : fd[p] <= vnode[p]

\* What is not in an entry's snapshot is noted, and kqueue or the event at work has the note.
Watched(p) == watch[p] # "none" /\ SameVnode(p) /\ p \notin gap

SeenOrNoted ==
    \A p \in Paths : Watched(p) =>
        \/ view[p] = dir[p]
        \/ "WRITE" \in notes[p]
        \/ current = p /\ "WRITE" \in nflags

\* The changes to be sent are between what the owner was told and the snapshot.
SendsLead ==
    /\ sends # <<>> => current \in Paths /\ pc \in {"send", "handler"}
    /\ \A k \in 1 .. Len(sends) :
        \/ \E f \in view[current] : sends[k] = Created(f)
        \/ \E f \in Files \ view[current] : sends[k] = Deleted(f)

ToldOrSends ==
    \A p \in Paths : watch[p] # "none" =>
        \A f \in Files :
            \/ f \in told[p] <=> f \in view[p]
            \/ current = p /\ \E k \in 1 .. Len(sends) : sends[k].file = f

\* Where ProcessNativeEvent is, it works on an entry.
Busy == pc \in {"flags", "send", "handler"} => current \in Paths

TellInv ==
    EntryInv /\ Busy /\ DiskType /\ FdKnown /\ SeenOrNoted /\ SendsLead /\ ToldOrSends

LEMMA TellInit == Init => TellInv
  <1> SUFFICES ASSUME Init PROVE TellInv
    OBVIOUS
  <1>1. EntryInv /\ Busy
    BY EntryInit DEF Init, Busy
  <1>2. DiskType
    <2>1. dir \in [Paths -> SUBSET Files]
      BY DEF Init
    <2>2. sends \in Seq(Change)
      BY DEF Init
    <2> QED
      BY <2>1, <2>2 DEF Init, DiskType
  <1>3. FdKnown /\ SeenOrNoted /\ SendsLead /\ ToldOrSends
    BY DEF Init, FdKnown, SeenOrNoted, Watched, SendsLead, ToldOrSends
  <1> QED
    BY <1>1, <1>2, <1>3 DEF TellInv

\* Steps that leave the directories and the entries alone, and keep what is to be sent.
LEMMA TellKept ==
    ASSUME TellInv, EntryInv', Busy', UNCHANGED <<disk, entries, sends, told, gap>>,
           sends # <<>> => current' = current /\ pc' \in {"send", "handler"},
           sends = <<>> \/ UNCHANGED current,
           \A p \in Paths : Watched(p) /\ current = p /\ "WRITE" \in nflags =>
               current' = p /\ "WRITE" \in nflags'
    PROVE  TellInv'
  <1>1. UNCHANGED <<exists, vnode, dir, watch, fd, view, notes, sends, told, gap>>
    BY DEF disk, entries
  <1>2. DiskType' /\ FdKnown'
    BY <1>1 DEF TellInv, DiskType, FdKnown
  <1>3. SeenOrNoted'
    BY <1>1 DEF TellInv, SeenOrNoted, Watched, SameVnode
  <1>4. CASE sends = <<>>
    <2>1. SendsLead'
      BY <1>1, <1>4 DEF SendsLead
    <2>2. ToldOrSends'
      BY <1>1, <1>4 DEF TellInv, ToldOrSends
    <2> QED
      BY <1>2, <1>3, <2>1, <2>2 DEF TellInv
  <1>5. CASE sends # <<>>
    <2>1. UNCHANGED current /\ pc' \in {"send", "handler"}
      BY <1>5
    <2>2. SendsLead'
      BY <1>1, <2>1 DEF TellInv, SendsLead
    <2>3. ToldOrSends'
      BY <1>1, <2>1 DEF TellInv, ToldOrSends
    <2> QED
      BY <1>2, <1>3, <2>2, <2>3 DEF TellInv
  <1> QED
    BY <1>4, <1>5

\* A change by another process: whoever has the vnode added gets WRITE, or the gap opens.
LEMMA TellNoted ==
    ASSUME TellInv, NEW p \in Paths, NEW what \in SUBSET Notes, Noted(p, what),
           exists' \in [Paths -> BOOLEAN], vnode' \in [Paths -> Nat],
           dir' \in [Paths -> SUBSET Files],
           \A q \in Paths : vnode[q] <= vnode'[q],
           \A q \in Paths \ {p} :
               exists'[q] = exists[q] /\ vnode'[q] = vnode[q] /\ dir'[q] = dir[q],
           \/ ~exists'[p]
           \/ vnode[p] < vnode'[p]
           \/ exists'[p] = exists[p] /\ vnode'[p] = vnode[p] /\ (dir'[p] = dir[p] \/ "WRITE" \in what)
    PROVE  TellInv'
  <1>1. UNCHANGED <<watch, fd, view, current, pc, nflags, sends, told>>
    BY DEF Noted, process
  <1>2. EntryInv'
    BY EntryNoted DEF TellInv
  <1>3. Busy' /\ DiskType' /\ SendsLead' /\ ToldOrSends'
    BY <1>1 DEF TellInv, Busy, DiskType, SendsLead, ToldOrSends
  <1>4. FdKnown'
    <2>1. \A q \in Paths : fd[q] \in Nat /\ vnode[q] \in Nat /\ vnode'[q] \in Nat /\ fd[q] <= vnode[q]
      BY DEF TellInv, DiskType, FdKnown
    <2> QED
      BY <1>1, <2>1 DEF FdKnown
  <1>5. \A q \in Paths : notes[q] \subseteq notes'[q]
    BY DEF Noted, TellInv, EntryInv, EntryType
  <1>6. gap \subseteq gap'
    BY DEF Noted
  <1>7. ASSUME NEW q \in Paths, Watched(q)'
        PROVE  view[q] = dir'[q] \/ "WRITE" \in notes'[q] \/ (current = q /\ "WRITE" \in nflags)
    <2>1. watch[q] # "none" /\ exists'[q] /\ fd[q] = vnode'[q] /\ q \notin gap'
      BY <1>1, <1>7 DEF Watched, SameVnode
    <2>2. fd[q] <= vnode[q] /\ fd[q] \in Nat /\ vnode[q] \in Nat /\ vnode'[q] \in Nat
      BY DEF TellInv, DiskType, FdKnown
    <2>3. exists[q] /\ vnode'[q] = vnode[q] /\ (dir'[q] = dir[q] \/ (q = p /\ "WRITE" \in what))
      <3>1. CASE q = p
        <4>1. ~(vnode[p] < vnode'[p])
          BY <2>1, <2>2, <3>1
        <4> QED
          BY <2>1, <3>1, <4>1
      <3> QED
        BY <2>1, <3>1
    <2>4. SameVnode(q) /\ Watched(q)
      BY <2>1, <2>3, <1>6 DEF Watched, SameVnode
    <2>5. view[q] = dir[q] \/ "WRITE" \in notes[q] \/ (current = q /\ "WRITE" \in nflags)
      BY <2>4 DEF TellInv, SeenOrNoted
    <2>6. CASE dir'[q] = dir[q]
      BY <2>5, <2>6, <1>5
    <2>7. CASE q = p /\ "WRITE" \in what
      <3>1. watch[p] = "added"
        BY <2>1, <2>4, <2>7 DEF Noted, TellInv, EntryInv, EntryType
      <3>2. notes' = [notes EXCEPT ![p] = @ \cup what]
        BY <3>1, <2>4, <2>7 DEF Noted
      <3> QED
        BY <3>2, <2>7 DEF TellInv, EntryInv, EntryType
    <2> QED
      BY <2>3, <2>6, <2>7
  <1>8. SeenOrNoted'
    BY <1>1, <1>7 DEF SeenOrNoted
  <1> QED
    BY <1>2, <1>3, <1>4, <1>8 DEF TellInv

LEMMA TellWorld ==
    ASSUME TellInv, NEW p \in Paths, World(p)
    PROVE  TellInv'
  <1> USE DEF Notes
  <1>1. /\ exists \in [Paths -> BOOLEAN] /\ vnode \in [Paths -> Nat]
        /\ dir \in [Paths -> SUBSET Files]
    BY DEF TellInv, DiskType
  <1>2. \A q \in Paths : vnode[q] <= vnode[q]
    BY <1>1
  <1>3. ASSUME NEW f \in Files, FileChanges(p, f) PROVE TellInv'
    <2>1. PICK what \in {{"WRITE"}, {"WRITE", "LINK"}, {"WRITE", "EXTEND"}} : Noted(p, what)
      BY <1>3 DEF FileChanges
    <2>2. UNCHANGED <<exists, vnode>> /\ dir' = [dir EXCEPT ![p] = IF f \in @ THEN @ \ {f} ELSE @ \cup {f}]
      BY <1>3 DEF FileChanges
    <2>3. dir' \in [Paths -> SUBSET Files] /\ \A q \in Paths \ {p} : dir'[q] = dir[q]
      BY <1>1, <2>2
    <2>4. what \in SUBSET Notes /\ "WRITE" \in what
      OBVIOUS
    <2> QED
      BY <1>1, <1>2, <2>1, <2>2, <2>3, <2>4, TellNoted
  <1>4. CASE AttributesChange(p)
    <2>1. PICK what \in {{"ATTRIB"}, {"LINK"}} : Noted(p, what)
      BY <1>4 DEF AttributesChange
    <2>2. UNCHANGED <<exists, vnode, dir>> /\ what \in SUBSET Notes
      BY <1>4 DEF AttributesChange
    <2> QED
      BY <1>1, <1>2, <2>1, <2>2, TellNoted
  <1>5. CASE DirectoryDeleted(p)
    <2>1. /\ UNCHANGED <<vnode, dir>> /\ exists' = [exists EXCEPT ![p] = FALSE]
          /\ Noted(p, {"DELETE", "LINK"}) /\ {"DELETE", "LINK"} \in SUBSET Notes
      BY <1>5 DEF DirectoryDeleted
    <2>2. exists' \in [Paths -> BOOLEAN] /\ ~exists'[p] /\ \A q \in Paths \ {p} : exists'[q] = exists[q]
      BY <1>1, <2>1
    <2> QED
      BY <1>1, <1>2, <2>1, <2>2, TellNoted
  <1>6. ASSUME DirectoryRenamed(p) \/ DirectoryRevoked(p) PROVE TellInv'
    <2>1. /\ UNCHANGED vnode /\ exists' = [exists EXCEPT ![p] = FALSE]
          /\ dir' = [dir EXCEPT ![p] = {}]
          /\ \E what \in SUBSET Notes : Noted(p, what)
      BY <1>6 DEF DirectoryRenamed, DirectoryRevoked
    <2>2. exists' \in [Paths -> BOOLEAN] /\ ~exists'[p] /\ \A q \in Paths \ {p} : exists'[q] = exists[q]
      BY <1>1, <2>1
    <2>3. dir' \in [Paths -> SUBSET Files] /\ \A q \in Paths \ {p} : dir'[q] = dir[q]
      BY <1>1, <2>1
    <2> QED
      BY <1>1, <1>2, <2>1, <2>2, <2>3, TellNoted
  <1>7. CASE DirectoryMade(p)
    <2>1. /\ UNCHANGED dir /\ exists' = [exists EXCEPT ![p] = TRUE]
          /\ vnode' = [vnode EXCEPT ![p] = @ + 1] /\ Noted(p, {}) /\ {} \in SUBSET Notes
      BY <1>7 DEF DirectoryMade
    <2>2. exists' \in [Paths -> BOOLEAN] /\ \A q \in Paths \ {p} : exists'[q] = exists[q]
      BY <1>1, <2>1
    <2>3. /\ vnode' \in [Paths -> Nat] /\ vnode[p] < vnode'[p]
          /\ \A q \in Paths \ {p} : vnode'[q] = vnode[q]
          /\ \A q \in Paths : vnode[q] <= vnode'[q]
      BY <1>1, <2>1
    <2> QED
      BY <1>1, <2>1, <2>2, <2>3, TellNoted
  <1> QED
    BY <1>3, <1>4, <1>5, <1>6, <1>7 DEF World

\* Watches that are removed, none of them of the entry at work.
LEMMA TellRemoved ==
    ASSUME TellInv, NEW ps \in SUBSET Paths, Removed(ps), current \notin ps
    PROVE  TellInv'
  <1>1. /\ UNCHANGED <<exists, vnode, dir, fd, view, current, pc, nflags, sends, told>>
        /\ watch' = [p \in Paths |-> IF p \in ps THEN "none" ELSE watch[p]]
        /\ notes' = [p \in Paths |-> IF p \in ps THEN {} ELSE notes[p]]
        /\ gap' = gap \ ps
    BY DEF Removed, process, disk
  <1>2. EntryInv'
    BY EntryRemoved DEF TellInv
  <1>3. Busy' /\ DiskType' /\ FdKnown' /\ SendsLead'
    BY <1>1 DEF TellInv, Busy, DiskType, FdKnown, SendsLead
  <1>4. ToldOrSends'
    BY <1>1 DEF TellInv, ToldOrSends
  <1>5. SeenOrNoted'
    BY <1>1 DEF TellInv, SeenOrNoted, Watched, SameVnode
  <1> QED
    BY <1>2, <1>3, <1>4, <1>5 DEF TellInv

LEMMA TellAddCreates ==
    ASSUME TellInv, NEW p \in Paths, AddCreates(p), EntryInv'
    PROVE  TellInv'
  <1>1. /\ watch[p] = "none" /\ watch' = [watch EXCEPT ![p] = "created"]
        /\ fd' = [fd EXCEPT ![p] = vnode[p]] /\ view' = [view EXCEPT ![p] = dir[p]]
        /\ told' = [told EXCEPT ![p] = dir[p]]
        /\ UNCHANGED <<exists, vnode, dir, notes, current, pc, nflags, sends, gap>>
    BY DEF AddCreates, process, disk
  <1>2. current # p
    BY <1>1, NoneAssumption DEF TellInv, EntryInv, AtWork
  <1>3. Busy' /\ DiskType'
    BY <1>1 DEF TellInv, Busy, DiskType
  <1>4. FdKnown'
    BY <1>1 DEF TellInv, DiskType, FdKnown
  <1>5. SeenOrNoted'
    BY <1>1 DEF TellInv, DiskType, SeenOrNoted, Watched, SameVnode
  <1>6. SendsLead'
    <2>1. CASE sends = <<>>
      BY <1>1, <2>1 DEF SendsLead
    <2>2. CASE sends # <<>>
      <3>1. view'[current] = view[current]
        BY <1>1, <1>2, <2>2 DEF TellInv, DiskType, SendsLead
      <3> QED
        BY <1>1, <2>2, <3>1 DEF TellInv, SendsLead
    <2> QED
      BY <2>1, <2>2
  <1>7. ToldOrSends'
    BY <1>1 DEF TellInv, DiskType, ToldOrSends
  <1> QED
    BY <1>3, <1>4, <1>5, <1>6, <1>7 DEF TellInv

\* As long as no handler removes the watch that its event is about.
LEMMA TellOwner ==
    ASSUME TellInv, ~HandlerRemoves, Owner
    PROVE  TellInv'
  <1>1. EntryInv'
    BY EntryOwner DEF TellInv
  <1>2. CASE ServiceInit
    BY <1>1, <1>2, TellKept DEF ServiceInit, process, history, TellInv, SendsLead, Busy
  <1>3. CASE RemoveAll
    <2>1. Removed(Paths) /\ \A p \in Paths : watch[p] = "added" => p # current
      BY <1>3 DEF RemoveAll, Removable
    <2>2. current \notin Paths
      BY <2>1, NoneAssumption DEF TellInv, EntryInv, AtWork
    <2> QED
      BY <2>1, <2>2, TellRemoved
  <1>4. CASE Close
    BY <1>4, TellRemoved, NoneAssumption DEF Close, TellInv, EntryInv, Quiet
  <1>5. ASSUME NEW p \in Paths, AddCreates(p) PROVE TellInv'
    BY <1>1, <1>5, TellAddCreates
  <1>6. ASSUME NEW p \in Paths, DoRemove(p) PROVE TellInv'
    BY <1>6, TellRemoved DEF DoRemove, Removable
  <1> QED
    BY <1>2, <1>3, <1>4, <1>5, <1>6 DEF Owner

\* The comparison with the snapshot: what it finds is what the owner lacks.
LEMMA TellScan ==
    ASSUME TellInv, Scan, EntryInv'
    PROVE  TellInv'
  <1> DEFINE found == FindChanges(Sorted(view[current]), Sorted(dir[current]))
  <1>1. /\ pc = "flags" /\ pc' = "send" /\ sends' = found
        /\ view' = [view EXCEPT ![current] = dir[current]]
        /\ UNCHANGED <<exists, vnode, dir, fd, watch, notes, current, told>>
        /\ nflags' = nflags \ {"WRITE", "ATTRIB", "LINK"} /\ gap' = gap \ {current}
    BY DEF Scan, disk
  <1>2. current \in Paths /\ sends = <<>>
    BY <1>1 DEF TellInv, Busy, SendsLead
  <1>3. view[current] \in SUBSET Files /\ dir[current] \in SUBSET Files
    BY <1>2 DEF TellInv, DiskType
  <1>4. IsDifference(found, view[current], dir[current])
    BY <1>3, FindChangesDiffers
  <1> HIDE DEF found
  <1>5. view'[current] = dir[current] /\ \A q \in Paths \ {current} : view'[q] = view[q]
    BY <1>1, <1>2 DEF TellInv, DiskType
  <1>6. Busy' /\ FdKnown'
    BY <1>1, <1>2 DEF TellInv, Busy, FdKnown
  <1>7. DiskType'
    <2>1. found \in Seq(Change)
      BY <1>4 DEF IsDifference
    <2> QED
      BY <1>1, <1>2, <1>3, <2>1 DEF TellInv, DiskType
  <1>8. SeenOrNoted'
    <2> SUFFICES ASSUME NEW q \in Paths, Watched(q)'
                 PROVE  view'[q] = dir[q] \/ "WRITE" \in notes[q]
      BY <1>1 DEF SeenOrNoted
    <2>1. CASE q = current
      BY <1>5, <2>1
    <2>2. CASE q # current
      <3>1. Watched(q)
        BY <1>1, <2>2 DEF Watched, SameVnode
      <3> QED
        BY <1>5, <2>2, <3>1 DEF TellInv, SeenOrNoted
    <2> QED
      BY <2>1, <2>2
  <1>9. SendsLead'
    BY <1>1, <1>2, <1>3, <1>4, <1>5 DEF SendsLead, IsDifference
  <1>10. ToldOrSends'
    <2> SUFFICES ASSUME NEW q \in Paths, watch[q] # "none", NEW f \in Files,
                        ~(f \in told[q] <=> f \in view'[q])
                 PROVE  current = q /\ \E k \in 1 .. Len(found) : found[k].file = f
      BY <1>1 DEF ToldOrSends
    <2>1. f \in told[q] <=> f \in view[q]
      BY <1>2 DEF TellInv, ToldOrSends
    <2>2. q = current
      BY <1>5, <2>1
    <2>3. ~(f \in view[q] <=> f \in dir[q])
      BY <1>5, <2>1, <2>2
    <2>4. CASE f \in dir[q]
      <3>1. PICK k \in 1 .. Len(found) : found[k] = Created(f)
        BY <1>4, <2>2, <2>3, <2>4 DEF IsDifference
      <3> QED
        BY <2>2, <3>1 DEF Created
    <2>5. CASE f \notin dir[q]
      <3>1. PICK k \in 1 .. Len(found) : found[k] = Deleted(f)
        BY <1>4, <2>2, <2>3, <2>5 DEF IsDifference
      <3> QED
        BY <2>2, <3>1 DEF Deleted
    <2> QED
      BY <2>4, <2>5
  <1> QED
    BY <1>6, <1>7, <1>8, <1>9, <1>10 DEF TellInv

\* The owner is told of one change.
LEMMA TellSend ==
    ASSUME TellInv, SendChange, EntryInv'
    PROVE  TellInv'
  <1> DEFINE e == Head(sends)
  <1>1. /\ sends # <<>> /\ sends' = Tail(sends) /\ pc' = "handler"
        /\ told' = [told EXCEPT ![current] =
                        IF e.change = "CREATE" THEN @ \cup {e.file} ELSE @ \ {e.file}]
        /\ UNCHANGED <<exists, vnode, dir, watch, fd, view, notes, current, nflags, gap>>
    BY DEF SendChange, disk, entries
  <1>2. current \in Paths /\ sends \in Seq(Change)
    BY <1>1 DEF TellInv, SendsLead, DiskType
  <1>3. /\ sends' \in Seq(Change) /\ Len(sends) \in Nat /\ Len(sends) >= 1
        /\ Len(sends') = Len(sends) - 1
        /\ \A k \in 1 .. Len(sends') : k + 1 \in 1 .. Len(sends) /\ sends'[k] = sends[k + 1]
        /\ e = sends[1] /\ 1 \in 1 .. Len(sends)
    BY <1>1, <1>2
  <1>4. PICK f \in Files : \/ f \in view[current] /\ e = Created(f)
                           \/ f \notin view[current] /\ e = Deleted(f)
    <2>1. view[current] \subseteq Files
      BY <1>2 DEF TellInv, DiskType
    <2> QED
      BY <1>3, <2>1 DEF TellInv, SendsLead
  <1>5. /\ e.file = f
        /\ f \in view[current] => e.change = "CREATE"
        /\ f \notin view[current] => e.change = "DELETE"
    BY <1>4 DEF Created, Deleted
  <1>6. told' = [told EXCEPT ![current] = IF f \in view[current] THEN @ \cup {f} ELSE @ \ {f}]
    BY <1>1, <1>5
  <1>7. Busy' /\ FdKnown' /\ SeenOrNoted'
    BY <1>1, <1>2 DEF TellInv, Busy, FdKnown, SeenOrNoted, Watched, SameVnode
  <1>8. DiskType'
    BY <1>1, <1>2, <1>3, <1>6 DEF TellInv, DiskType
  <1>9. SendsLead'
    BY <1>1, <1>2, <1>3 DEF TellInv, SendsLead
  <1>10. ToldOrSends'
    <2> SUFFICES ASSUME NEW q \in Paths, watch[q] # "none", NEW g \in Files,
                        ~(g \in told'[q] <=> g \in view[q])
                 PROVE  current = q /\ \E k \in 1 .. Len(sends') : sends'[k].file = g
      BY <1>1 DEF ToldOrSends
    <2>1. told \in [Paths -> SUBSET Files]
      BY DEF TellInv, DiskType
    <2>2. ~(q = current /\ g = f)
      BY <1>2, <1>6, <2>1
    <2>3. ~(g \in told[q] <=> g \in view[q])
      BY <1>2, <1>6, <2>1, <2>2
    <2>4. PICK k \in 1 .. Len(sends) : current = q /\ sends[k].file = g
      BY <2>3 DEF TellInv, ToldOrSends
    <2>5. k # 1
      BY <1>3, <1>5, <2>2, <2>4
    <2>6. k - 1 \in 1 .. Len(sends') /\ sends'[k - 1] = sends[k]
      <3>1. k - 1 \in 1 .. Len(sends') /\ (k - 1) + 1 = k
        BY <1>3, <2>5
      <3> QED
        BY <1>3, <3>1
    <2> QED
      BY <2>4, <2>6
  <1> QED
    BY <1>7, <1>8, <1>9, <1>10 DEF TellInv

LEMMA TellLoop ==
    ASSUME TellInv, Loop \/ ReadFails
    PROVE  TellInv'
  <1>1. EntryInv'
    BY EntryLoop DEF TellInv
  <1> USE DEF entries, history
  <1>2. CASE OnReadWaiting \/ ReadDone \/ ReadFails
    BY <1>1, <1>2, TellKept DEF OnReadWaiting, ReadDone, ReadFails, TellInv, Busy, SendsLead
  <1>3. CASE Processed
    BY <1>1, <1>3, TellKept DEF Processed, TellInv, Busy, SendsLead
  <1>4. CASE Scan
    BY <1>1, <1>4, TellScan
  <1>5. CASE SendChange
    BY <1>1, <1>5, TellSend
  <1>6. CASE HandlerReturns
    BY <1>1, <1>6, TellKept DEF HandlerReturns, TellInv, Busy, SendsLead
  <1>7. CASE AllSent
    BY <1>1, <1>7, TellKept DEF AllSent, TellInv, Busy, SendsLead
  <1>8. CASE SendFlag
    <2>1. PICK event, flags : Send(event, flags)
      BY <1>8 DEF SendFlag
    <2>2. pc = "flags" /\ ~IsScan
      BY <1>8 DEF SendFlag
    <2>3. \A p \in Paths : Watched(p) /\ current = p /\ "WRITE" \in nflags =>
              current' = p /\ "WRITE" \in nflags'
      BY <2>1, <2>2 DEF IsScan, Watched, SameVnode, Send
    <2> QED
      BY <1>1, <2>1, <2>2, <2>3, TellKept DEF Send, TellInv, Busy, SendsLead
  <1>9. CASE OnlyLink
    BY <1>1, <1>9, TellKept DEF OnlyLink, TellInv, Busy, SendsLead
  <1>10. ASSUME NEW p \in Paths, ReadEvent(p) PROVE TellInv'
    <2>1. /\ pc = "read" /\ pc' = "flags" /\ current' = p
          /\ notes' = [notes EXCEPT ![p] = {}] /\ nflags' = notes[p] \ {"REVOKE"}
          /\ UNCHANGED <<exists, vnode, dir, watch, fd, view, sends, told, gap>>
      BY <1>10 DEF ReadEvent, disk
    <2>2. current = None /\ sends = <<>>
      BY <2>1 DEF TellInv, EntryInv, Quiet, SendsLead
    <2>3. Busy' /\ DiskType' /\ FdKnown' /\ SendsLead'
      BY <2>1, <2>2 DEF TellInv, Busy, DiskType, FdKnown, SendsLead
    <2>4. SeenOrNoted'
      BY <2>1, <2>2, NoneAssumption DEF TellInv, EntryInv, EntryType, SeenOrNoted, Watched, SameVnode
    <2>5. ToldOrSends'
      BY <2>1, <2>2 DEF TellInv, ToldOrSends
    <2> QED
      BY <1>1, <2>3, <2>4, <2>5 DEF TellInv
  <1>11. ASSUME NEW p \in Paths, DoAdd(p) PROVE TellInv'
    <2>1. /\ watch[p] = "created"
          /\ UNCHANGED <<exists, vnode, dir, fd, view, notes, current, pc, nflags, sends, told>>
          /\ \/ watch' = [watch EXCEPT ![p] = "added"] /\ gap' = gap
             \/ watch' = [watch EXCEPT ![p] = "none"] /\ gap' = gap \ {p}
      BY <1>11 DEF DoAdd, process, disk
    <2>2. \A q \in Paths : watch'[q] # "none" => watch[q] # "none" /\ (q \notin gap' => q \notin gap)
      BY <2>1 DEF TellInv, EntryInv, EntryType
    <2>3. Busy' /\ DiskType' /\ FdKnown' /\ SendsLead'
      BY <2>1 DEF TellInv, Busy, DiskType, FdKnown, SendsLead
    <2>4. SeenOrNoted'
      BY <2>1, <2>2 DEF TellInv, SeenOrNoted, Watched, SameVnode
    <2>5. ToldOrSends'
      BY <2>1, <2>2 DEF TellInv, ToldOrSends
    <2> QED
      BY <1>1, <2>3, <2>4, <2>5 DEF TellInv
  <1> QED
    BY <1>2, <1>3, <1>4, <1>5, <1>6, <1>7, <1>8, <1>9, <1>10, <1>11 DEF Loop

\* What the owner was told of a directory adds up to what is in it whenever no event
\* of it waits or is processed, for every set of directories and of names and any
\* number of changes, as long as no handler removes the watch that its event is
\* about: with such a handler the watch may be made again, and the changes that are
\* still to be sent are told after the new listing.
THEOREM WatcherToldTheTruth ==
    ASSUME ~HandlerRemoves
    PROVE  Spec => []ToldTheTruth
  <1>1. TellInv /\ [Next]_vars => TellInv'
    <2> SUFFICES ASSUME TellInv, [Next]_vars PROVE TellInv'
      OBVIOUS
    <2>1. CASE UNCHANGED vars
      <3>1. UNCHANGED <<disk, entries, process, told, gap>>
        BY <2>1 DEF vars, history
      <3>2. EntryInv' /\ Busy'
        BY <3>1, EntryKept DEF entries, process, TellInv, EntryInv, Quiet, Busy
      <3> QED
        BY <3>1, <3>2, TellKept DEF process, TellInv, SendsLead
    <2>2. CASE Next
      BY <2>2, TellLoop, TellOwner, TellWorld DEF Next
    <2> QED
      BY <2>1, <2>2
  <1>2. TellInv => ToldTheTruth
    <2> SUFFICES ASSUME TellInv, NEW p \in Paths, Followed(p), notes[p] = {}, current # p
                 PROVE  told[p] = dir[p]
      BY DEF ToldTheTruth
    <2>1. Watched(p) /\ watch[p] # "none"
      BY DEF Followed, Watched
    <2>2. view[p] = dir[p]
      BY <2>1 DEF TellInv, SeenOrNoted
    <2>3. \A f \in Files : f \in told[p] <=> f \in view[p]
      BY <2>1 DEF TellInv, ToldOrSends
    <2>4. told[p] \subseteq Files /\ view[p] \subseteq Files
      BY DEF TellInv, DiskType
    <2> QED
      BY <2>2, <2>3, <2>4
  <1> QED
    BY TellInit, <1>1, <1>2, PTL DEF Spec
=============================================================================
