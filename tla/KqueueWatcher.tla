--------------------------- MODULE KqueueWatcher ---------------------------
(***************************************************************************)
(* The kqueue file system watcher that the pcsx2 port adds to its copy of  *)
(* wxWidgets (wxFSWatcherImplKqueue): watches on directories, one kevent   *)
(* at a time, and events for the owner that are found by comparing a       *)
(* directory with its last snapshot.                                       *)
(*                                                                         *)
(* The event loop is one thread, which runs the owner's handlers and its   *)
(* calls; other processes change the directories at any moment.  kqueue,   *)
(* the directories and wxFSWatchEntryKq (a descriptor, a snapshot) are     *)
(* external: a vnode's notes are merged into one event, retrieving it      *)
(* clears it, and closing the descriptor takes it away.                    *)
(***************************************************************************)
EXTENDS Integers, Sequences, FiniteSets

CONSTANTS
    Paths,          \* directories that can be watched
    Files,          \* names of files, numbers in the order of the names
    MaxChanges,     \* bound on the changes that other processes make
    HandlerRemoves  \* whether a handler removes the watch that its event is about

ASSUME FilesAssumption == Files \subseteq Nat /\ IsFiniteSet(Files)
ASSUME BoundsAssumption == MaxChanges \in Nat /\ HandlerRemoves \in BOOLEAN

None == "none"
ASSUME NoneAssumption == None \notin Paths

Notes == {"WRITE", "EXTEND", "RENAME", "DELETE", "ATTRIB", "LINK", "REVOKE"}

VARIABLES
    service,    \* IsOk(): "none", "ok", or "failed" when there is no event source
    exists,     \* whether there is a directory at each path
    vnode,      \* its incarnation
    dir,        \* the files in it
    changes,    \* the number of changes so far
    watch,      \* of each path: "none", "created" or "added" to kqueue
    fd,         \* the incarnation that the entry's descriptor is of
    view,       \* the entry's snapshot, GetLastState
    notes,      \* what kqueue has for the entry
    current,    \* the path of the entry that ProcessNativeEvent works on
    pc,         \* where the event loop's thread is
    nflags, sends,  \* the event's flags, and the changes to be sent
    told,       \* history: the files the owner knows of by listing and by events
    gap,        \* history: changed between the snapshot and kevent's EV_ADD
    gone        \* history: deleted directories whose deletion the owner was not told

disk == <<exists, vnode, dir, changes>>
entries == <<watch, fd, view, notes>>
process == <<current, pc, nflags, sends>>
history == <<told, gap, gone>>
vars == <<service, disk, entries, process, history>>

Init ==
    /\ service = "none"
    /\ exists = [p \in Paths |-> TRUE]
    /\ vnode = [p \in Paths |-> 0]
    /\ dir \in [Paths -> {{}, Files}]
    /\ changes = 0
    /\ watch = [p \in Paths |-> "none"]
    /\ fd = [p \in Paths |-> 0]
    /\ view = [p \in Paths |-> {}]
    /\ notes = [p \in Paths |-> {}]
    /\ current = None /\ pc = "idle" /\ nflags = {} /\ sends = <<>>
    /\ told = [p \in Paths |-> {}]
    /\ gap = {} /\ gone = {}

-----------------------------------------------------------------------------
(***************************************************************************)
(* Other processes.                                                        *)
(***************************************************************************)
\* The entry's descriptor is of the directory that the path leads to now.
SameVnode(p) == exists[p] /\ fd[p] = vnode[p]

\* The kernel notes what happens to a vnode for those who have added it.
Noted(p, what) ==
    /\ changes < MaxChanges /\ changes' = changes + 1
    /\ notes' = IF watch[p] = "added" /\ SameVnode(p)
                THEN [notes EXCEPT ![p] = @ \cup what] ELSE notes
    /\ gap' = IF watch[p] = "created" /\ SameVnode(p) THEN gap \cup {p} ELSE gap
    /\ UNCHANGED <<service, watch, fd, view, process, told>>

\* A subdirectory changes the links, a renamed entry may extend.
FileChanges(p, f) ==
    /\ exists[p]
    /\ dir' = [dir EXCEPT ![p] = IF f \in @ THEN @ \ {f} ELSE @ \cup {f}]
    /\ \E what \in {{"WRITE"}, {"WRITE", "LINK"}, {"WRITE", "EXTEND"}} : Noted(p, what)
    /\ UNCHANGED <<exists, vnode, gone>>

AttributesChange(p) ==
    /\ exists[p]
    /\ \E what \in {{"ATTRIB"}, {"LINK"}} : Noted(p, what)
    /\ UNCHANGED <<exists, vnode, dir, gone>>

DirectoryDeleted(p) ==
    /\ exists[p] /\ dir[p] = {}
    /\ exists' = [exists EXCEPT ![p] = FALSE]
    /\ Noted(p, {"DELETE", "LINK"})
    /\ gone' = IF watch[p] = "added" /\ SameVnode(p) THEN gone \cup {p} ELSE gone
    /\ UNCHANGED <<vnode, dir>>

DirectoryRenamed(p) ==
    /\ exists[p]
    /\ exists' = [exists EXCEPT ![p] = FALSE]
    /\ dir' = [dir EXCEPT ![p] = {}]
    /\ Noted(p, {"RENAME"})
    /\ UNCHANGED <<vnode, gone>>

\* Unmounting by force.
DirectoryRevoked(p) ==
    /\ exists[p]
    /\ exists' = [exists EXCEPT ![p] = FALSE]
    /\ dir' = [dir EXCEPT ![p] = {}]
    /\ Noted(p, {"REVOKE"})
    /\ UNCHANGED <<vnode, gone>>

DirectoryMade(p) ==
    /\ ~exists[p]
    /\ exists' = [exists EXCEPT ![p] = TRUE]
    /\ vnode' = [vnode EXCEPT ![p] = @ + 1]
    /\ Noted(p, {})
    /\ UNCHANGED <<dir, gone>>

-----------------------------------------------------------------------------
(***************************************************************************)
(* The owner: Init, Add, Remove and RemoveAll, from the event loop or from *)
(* a handler, and Close by deleting the watcher.                           *)
(***************************************************************************)
ServiceInit ==
    /\ service = "none"
    /\ service' \in {"ok", "failed"}
    /\ UNCHANGED <<disk, entries, process, history>>

\* The owner's code runs between events or in a handler that SendEvent calls.
OwnerRuns ==
    /\ service = "ok" /\ pc \in {"idle", "handler"}
    /\ \A p \in Paths : watch[p] # "created"

\* The entry's constructor opens the directory and takes the snapshot.
AddCreates(p) ==
    /\ OwnerRuns
    /\ watch[p] = "none" /\ exists[p]
    /\ watch' = [watch EXCEPT ![p] = "created"]
    /\ fd' = [fd EXCEPT ![p] = vnode[p]]
    /\ view' = [view EXCEPT ![p] = dir[p]]
    /\ told' = [told EXCEPT ![p] = dir[p]]
    /\ UNCHANGED <<service, disk, notes, process, gap, gone>>

\* DoAdd; kevent may fail, and the entry goes.
DoAdd(p) ==
    /\ watch[p] = "created"
    /\ \/ watch' = [watch EXCEPT ![p] = "added"] /\ UNCHANGED gap
       \/ watch' = [watch EXCEPT ![p] = "none"] /\ gap' = gap \ {p}
    /\ UNCHANGED <<service, disk, fd, view, notes, process, told, gone>>

Removable(p) == watch[p] = "added" /\ (p # current \/ HandlerRemoves)

\* Mutant: the descriptor stays open, and its notes stay with it.
RemovedOpen(ps) ==
    /\ watch' = [p \in Paths |-> IF p \in ps THEN "none" ELSE watch[p]]
    /\ gap' = gap \ ps /\ gone' = gone \ ps
    /\ UNCHANGED <<disk, fd, view, notes, process, told>>

Removed(ps) ==
    /\ watch' = [p \in Paths |-> IF p \in ps THEN "none" ELSE watch[p]]
    /\ notes' = [p \in Paths |-> IF p \in ps THEN {} ELSE notes[p]]
    /\ gap' = gap \ ps /\ gone' = gone \ ps
    /\ UNCHANGED <<disk, fd, view, process, told>>

DoRemove(p) ==
    /\ OwnerRuns /\ Removable(p)
    /\ Removed({p})
    /\ UNCHANGED service

RemoveAll ==
    /\ OwnerRuns /\ \A p \in Paths : watch[p] = "added" => Removable(p)
    /\ Removed(Paths)
    /\ UNCHANGED service

\* The watcher is deleted, outside of handlers.
Close ==
    /\ service # "none" /\ pc = "idle" /\ \A p \in Paths : watch[p] # "created"
    /\ service' = "none"
    /\ Removed(Paths)

-----------------------------------------------------------------------------
(***************************************************************************)
(* FindChanges: two sorted lists of files are merged.                      *)
(***************************************************************************)
Created(f) == [file |-> f, change |-> "CREATE"]
Deleted(f) == [file |-> f, change |-> "DELETE"]

Sorted(files) ==
    CHOOSE s \in [1 .. Cardinality(files) -> files] : \A j, k \in DOMAIN s : j < k => s[j] < s[k]

AllCreated(files) == [k \in DOMAIN files |-> Created(files[k])]
AllDeleted(files) == [k \in DOMAIN files |-> Deleted(files[k])]

\* Mutant: the merge ends where the first of the lists does.
FindChangesToEnd(old, curr) ==
    LET From[at \in (1 .. Len(old) + 1) \X (1 .. Len(curr) + 1)] ==
            LET o == at[1]
                c == at[2]
            IN  IF o > Len(old) \/ c > Len(curr) THEN <<>>
                ELSE IF curr[c] = old[o] THEN From[<<o + 1, c + 1>>]
                ELSE IF curr[c] < old[o] THEN <<Created(curr[c])>> \o From[<<o, c + 1>>]
                ELSE <<Deleted(old[o])>> \o From[<<o + 1, c>>]
    IN  From[<<1, 1>>]

\* From[<<o, c>>] compares the lists from their o-th and c-th names on.
FindChanges(old, curr) ==
    LET From[at \in (1 .. Len(old) + 1) \X (1 .. Len(curr) + 1)] ==
            LET o == at[1]
                c == at[2]
            IN  IF o > Len(old) THEN AllCreated(SubSeq(curr, c, Len(curr)))
                ELSE IF c > Len(curr) THEN AllDeleted(SubSeq(old, o, Len(old)))
                ELSE IF curr[c] = old[o] THEN From[<<o + 1, c + 1>>]
                ELSE IF curr[c] < old[o] THEN <<Created(curr[c])>> \o From[<<o, c + 1>>]
                ELSE <<Deleted(old[o])>> \o From[<<o + 1, c>>]
    IN  From[<<1, 1>>]

-----------------------------------------------------------------------------
(***************************************************************************)
(* ReadEvents and ProcessNativeEvent.                                      *)
(***************************************************************************)
Pending == {p \in Paths : notes[p] # {}}

OnReadWaiting ==
    /\ service = "ok" /\ pc = "idle" /\ Pending # {}
    /\ \A p \in Paths : watch[p] # "created"
    /\ pc' = "read"
    /\ UNCHANGED <<service, disk, entries, current, nflags, sends, history>>

\* One event, which kevent clears.
ReadEvent(p) ==
    /\ pc = "read" /\ notes[p] # {}
    /\ notes' = [notes EXCEPT ![p] = {}]
    /\ current' = p /\ nflags' = notes[p] \ {"REVOKE"} /\ pc' = "flags"
    /\ UNCHANGED <<service, disk, watch, fd, view, sends, history>>

ReadDone ==
    /\ pc = "read" /\ Pending = {}
    /\ pc' = "idle"
    /\ UNCHANGED <<service, disk, entries, current, nflags, sends, history>>

\* kevent returns -1; what it has stays.
ReadFails ==
    /\ pc = "read"
    /\ pc' = "idle"
    /\ UNCHANGED <<service, disk, entries, current, nflags, sends, history>>

Processed ==
    /\ pc = "flags" /\ nflags = {}
    /\ pc' = "read" /\ current' = None
    /\ UNCHANGED <<service, disk, entries, nflags, sends, history>>

\* Whether the flags are about the contents of a directory.
IsScan == "WRITE" \in nflags /\ exists[current]

Scan ==
    /\ pc = "flags" /\ IsScan
    /\ nflags' = nflags \ {"WRITE", "ATTRIB", "LINK"}
    /\ sends' = FindChanges(Sorted(view[current]), Sorted(dir[current]))
    /\ view' = [view EXCEPT ![current] = dir[current]]
    /\ pc' = "send"
    /\ gap' = gap \ {current}
    /\ UNCHANGED <<service, disk, watch, fd, notes, current, told, gone>>

SendChange ==
    /\ pc = "send" /\ sends # <<>>
    /\ LET e == Head(sends)
       IN  told' = [told EXCEPT ![current] =
                        IF e.change = "CREATE" THEN @ \cup {e.file} ELSE @ \ {e.file}]
    /\ sends' = Tail(sends) /\ pc' = "handler"
    /\ UNCHANGED <<service, disk, entries, current, nflags, gap, gone>>

HandlerReturns ==
    /\ pc = "handler" /\ \A p \in Paths : watch[p] # "created"
    /\ pc' = "send"
    /\ UNCHANGED <<service, disk, entries, current, nflags, sends, history>>

AllSent ==
    /\ pc = "send" /\ sends = <<>>
    /\ nflags' = nflags \ {"LINK"} /\ pc' = "flags"
    /\ UNCHANGED <<service, disk, entries, current, sends, history>>

\* The event of a branch is sent, and its flags are cleared.
Send(event, flags) ==
    /\ nflags' = nflags \ flags
    /\ gone' = IF event = "DELETE" THEN gone \ {current} ELSE gone
    /\ pc' = "handler"
    /\ UNCHANGED <<service, disk, entries, current, sends, told, gap>>

\* Mutant: a deletion is taken for a modification.
SendFlagModified ==
    /\ pc = "flags" /\ ~IsScan
    /\ IF "RENAME" \in nflags THEN Send("RENAME", {"RENAME"})
       ELSE IF nflags \cap {"WRITE", "EXTEND"} # {}
            THEN Send("MODIFY", {"WRITE", "EXTEND", "DELETE"})
       ELSE IF "DELETE" \in nflags THEN Send("DELETE", {"DELETE"})
       ELSE "ATTRIB" \in nflags /\ Send("ACCESS", {"ATTRIB"})

SendFlag ==
    /\ pc = "flags" /\ ~IsScan
    /\ IF "RENAME" \in nflags THEN Send("RENAME", {"RENAME"})
       ELSE IF nflags \cap {"WRITE", "EXTEND"} # {} THEN Send("MODIFY", {"WRITE", "EXTEND"})
       ELSE IF "DELETE" \in nflags THEN Send("DELETE", {"DELETE"})
       ELSE "ATTRIB" \in nflags /\ Send("ACCESS", {"ATTRIB"})

\* Mutant: a flag that no branch is for stays.
OnlyLinkStays ==
    /\ pc = "flags" /\ nflags = {"LINK"}
    /\ UNCHANGED vars

\* A flag that no branch is for.
OnlyLink ==
    /\ pc = "flags" /\ nflags = {"LINK"}
    /\ nflags' = {}
    /\ UNCHANGED <<service, disk, entries, current, pc, sends, history>>

-----------------------------------------------------------------------------
World(p) ==
    \/ \E f \in Files : FileChanges(p, f)
    \/ AttributesChange(p)
    \/ DirectoryDeleted(p) \/ DirectoryRenamed(p) \/ DirectoryRevoked(p) \/ DirectoryMade(p)

Owner ==
    \/ ServiceInit \/ RemoveAll \/ Close
    \/ \E p \in Paths : AddCreates(p) \/ DoRemove(p)

Loop ==
    \/ OnReadWaiting \/ ReadDone \/ Processed
    \/ Scan \/ SendChange \/ HandlerReturns \/ AllSent \/ SendFlag \/ OnlyLink
    \/ \E p \in Paths : ReadEvent(p) \/ DoAdd(p)

Next == Loop \/ ReadFails \/ Owner \/ \E p \in Paths : World(p)

Spec == Init /\ [][Next]_vars

(***************************************************************************)
(* The thread of the event loop goes on: a handler returns however many    *)
(* calls it makes, the loop comes back to the kqueue, and an event that    *)
(* waits there is retrieved at some time, for kevent hands them out in     *)
(* turn and does not fail for ever.                                        *)
(***************************************************************************)
FairSpec ==
    /\ Spec
    /\ WF_vars(Loop) /\ SF_vars(OnReadWaiting) /\ SF_vars(HandlerReturns)
    /\ \A p \in Paths : SF_vars(ReadEvent(p))

-----------------------------------------------------------------------------
(***************************************************************************)
(* Properties.                                                             *)
(***************************************************************************)
\* ProcessNativeEvent works on an entry that exists, whatever was removed while its
\* event waited, unless a handler removes the watch that its event is about.
NoStaleEntry ==
    current # None /\ ~HandlerRemoves => watch[current] = "added"

Followed(p) == watch[p] = "added" /\ SameVnode(p) /\ p \notin gap

\* What the owner was told of a directory adds up to what is in it whenever no event
\* waits or is processed, however changes were merged into one event and came while
\* the directory was read.
ToldTheTruth ==
    \A p \in Paths : Followed(p) /\ notes[p] = {} /\ current # p => told[p] = dir[p]

\* A change of a watched directory, and its deletion, reach the owner.
EventsArrive ==
    \A p \in Paths : (p \in gone \/ (Followed(p) /\ told[p] # dir[p]))
        ~> (p \notin gone /\ (Followed(p) => told[p] = dir[p]))

\* ProcessNativeEvent comes to an end with every event, whatever flags it holds and
\* whatever becomes of its directory meanwhile: each turn of its loop takes a flag
\* away.  ReadEvents itself has no such bound: it goes on as long as kevent finds
\* events, which MaxChanges limits here and nothing does in the code.
ProcessingEnds == current # None ~> current = None
=============================================================================
