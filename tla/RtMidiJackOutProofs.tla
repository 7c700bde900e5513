------------------------ MODULE RtMidiJackOutProofs ------------------------
(***************************************************************************)
(* MIDI output over JACK, for rings of any length, messages of any sizes,  *)
(* and any number of messages and openings, with and without semaphores.   *)
(*                                                                         *)
(* The argument.  The messages leave the rings in the order in which they  *)
(* came, to JACK or to be lost, so that the ones that are gone are the     *)
(* first k.  With at[m] for the number of bytes sent before message m, the *)
(* bytes of a later message m are in the ring at[m] - at[k + 1] bytes from *)
(* its head, and the four bytes of its size are m - k sizes from the head  *)
(* of the other ring, one fewer while jackProcessOut has a size and not    *)
(* yet its bytes.  When bytes did not fit, the first ring holds fewer than *)
(* the sizes say, and only that is claimed; when a size did not, nothing   *)
(* is claimed of what the rings hold.                                      *)
(***************************************************************************)
EXTENDS RtMidiJackOut, SequenceTheorems, TLAPS

Sent == Len(sizes)

Typed ==
    /\ client \in BOOLEAN /\ port \in BOOLEAN /\ registered \in BOOLEAN
    /\ freed \in BOOLEAN /\ overrun \in SUBSET {"bytes", "size"}
    /\ buffMessage \in Seq(Nat) /\ buffSize \in Seq(Nat) /\ space \in Nat
    /\ needpost \in Nat /\ cleanup \in Nat /\ timeouts \in Nat
    /\ apc \in {"idle", "size", "wait", "unregister", "clear", "free", "client", "deleted"}
    /\ cpc \in {"none", "buffer", "drain", "read", "post", "answer", "crashed"}
    /\ cycle \in {"none", "began", "done"}
    /\ apc = "size" => sizes # <<>>
    /\ sizes \in Seq(Sizes) /\ out \in Seq(Seq(Nat)) /\ lost \in SUBSET Nat

\* A cycle needs a client; a cycle counts for closePort while it closes.
Control ==
    /\ ~client => cpc \in {"none", "crashed"}
    /\ cycle # "none" => apc \in {"wait", "unregister", "clear"}
    /\ cycle = "began" => cpc # "none"

\* at[m] bytes were sent before message m.
Starts(at) ==
    /\ \A m \in 1 .. Sent : at[m + 1] = at[m] + sizes[m]
    /\ \A a, b \in 1 .. Sent + 1 : a < b => at[a] + sizes[a] <= at[b]

Reading == IF cpc = "read" THEN 1 ELSE 0
Halfway == IF apc = "size" THEN 1 ELSE 0

\* So many sizes wait in the ring.
Waiting(k) == Sent - k - Reading - Halfway

\* The sizes in the ring are those of the messages after the first k.
SizesAfter(k) ==
    cpc # "crashed" =>
        /\ cpc = "read" => (k < Sent /\ space = sizes[k + 1])
        /\ Waiting(k) \in Nat /\ Len(buffSize) = 4 * Waiting(k)
        /\ \A j \in 1 .. Waiting(k), b \in 1 .. 4 :
                buffSize[4 * j - 4 + b] = SizeBytes(sizes[k + Reading + j])[b]

\* And so are the bytes.
Place(k, at, m) == at[m] - at[k + 1] + 1 .. at[m] - at[k + 1] + sizes[m]

BytesAfter(k, at) ==
    /\ Len(buffMessage) = at[Sent + 1] - at[k + 1]
    /\ \A i \in 1 .. Len(buffMessage) : buffMessage[i] \in k + 1 .. Sent
    /\ \A m \in k + 1 .. Sent : \A i \in 1 .. Len(buffMessage) :
            buffMessage[i] = m <=> i \in Place(k, at, m)

\* What JACK was given are whole messages in their order.
GivenWhole ==
    /\ \A i \in 1 .. Len(out) : out[i] # <<>> /\ out[i][1] \in 1 .. Sent /\ out[i] = Bytes(out[i][1])
    /\ \A i, j \in 1 .. Len(out) : i < j => out[i][1] < out[j][1]

Order(k, at) ==
    /\ BytesAfter(k, at)
    /\ GivenWhole
    /\ Given \cap lost = {} /\ Gone = 1 .. k

RingsAt(k, at) ==
    /\ Starts(at)
    /\ "size" \notin overrun => (SizesAfter(k) /\ Len(buffMessage) <= at[Sent + 1] - at[k + 1])
    /\ overrun = {} => Order(k, at)

Rings == \E k \in 0 .. Sent : \E at \in [1 .. Sent + 1 -> Nat] : RingsAt(k, at)

\* A cycle within the wait leaves the rings empty.
Flushed ==
    (cycle = "done" \/ (cycle = "began" /\ cpc \in {"post", "answer"})) =>
        buffSize = <<>> /\ ("size" \notin overrun => buffMessage = <<>>)

JackInv == Typed /\ Control /\ Rings /\ Flushed /\ TokensMatch
-----------------------------------------------------------------------------
(***************************************************************************)
(* Types, the control, and the semaphores.                                 *)
(***************************************************************************)
\* The smaller of two numbers.
LEMMA MinOfTwo ==
    ASSUME NEW a \in Int, NEW b \in Int
    PROVE  Min({a, b}) = IF a <= b THEN a ELSE b
  <1> DEFINE c == IF a <= b THEN a ELSE b
  <1>1. c \in {a, b} /\ \A y \in {a, b} : c <= y
    OBVIOUS
  <1>2. \A x \in {a, b} : (\A y \in {a, b} : x <= y) => x = c
    OBVIOUS
  <1> HIDE DEF c
  <1>3. Min({a, b}) = c
    BY <1>1, <1>2 DEF Min
  <1> QED
    BY <1>3 DEF c

LEMMA MaxOfTwo ==
    ASSUME NEW a \in Int, NEW b \in Int
    PROVE  Max({a, b}) = IF a <= b THEN b ELSE a
  <1> DEFINE c == IF a <= b THEN b ELSE a
  <1>1. c \in {a, b} /\ \A y \in {a, b} : c >= y
    OBVIOUS
  <1>2. \A x \in {a, b} : (\A y \in {a, b} : x >= y) => x = c
    OBVIOUS
  <1> HIDE DEF c
  <1>3. Max({a, b}) = c
    BY <1>1, <1>2 DEF Max
  <1> QED
    BY <1>3 DEF c

\* The first bytes of a sequence, and the rest.
LEMMA Prefix ==
    ASSUME NEW S, NEW s \in Seq(S), NEW n \in Nat
    PROVE  LET p == SubSeq(s, 1, Min({n, Len(s)}))
               l == IF n <= Len(s) THEN n ELSE Len(s)
           IN  /\ p \in Seq(S) /\ Len(p) = l
               /\ \A i \in 1 .. l : p[i] = s[i]
               /\ SubSeq(s, Len(p) + 1, Len(s)) \in Seq(S)
               /\ Len(SubSeq(s, Len(p) + 1, Len(s))) = Len(s) - l
               /\ \A i \in 1 .. Len(s) - l : SubSeq(s, Len(p) + 1, Len(s))[i] = s[l + i]
  <1> DEFINE l == IF n <= Len(s) THEN n ELSE Len(s)
             p == SubSeq(s, 1, l)
             r == SubSeq(s, l + 1, Len(s))
  <1>1. Min({n, Len(s)}) = l /\ l \in Nat /\ l <= Len(s)
    BY MinOfTwo
  <1>2. \A i \in 1 .. Len(s) : s[i] \in S
    OBVIOUS
  <1> HIDE DEF l
  <1>3. p \in Seq(S) /\ Len(p) = l /\ \A i \in 1 .. l : p[i] = s[i]
    <2>1. \A i \in 1 .. l : s[i] \in S
      BY <1>1, <1>2
    <2>2. /\ p \in Seq(S) /\ Len(p) = IF 1 <= l THEN l - 1 + 1 ELSE 0
          /\ \A i \in 1 .. l - 1 + 1 : p[i] = s[1 + i - 1]
      BY <1>1, <2>1, SubSeqProperties
    <2> HIDE DEF p
    <2> QED
      BY <1>1, <2>2
  <1>4. r \in Seq(S) /\ Len(r) = Len(s) - l /\ \A i \in 1 .. Len(s) - l : r[i] = s[l + i]
    <2>1. \A i \in l + 1 .. Len(s) : s[i] \in S
      BY <1>1, <1>2
    <2>2. l + 1 \in Int /\ Len(s) \in Int
      BY <1>1
    <2>3. /\ r \in Seq(S) /\ Len(r) = IF l + 1 <= Len(s) THEN Len(s) - (l + 1) + 1 ELSE 0
          /\ \A i \in 1 .. Len(s) - (l + 1) + 1 : r[i] = s[l + 1 + i - 1]
      BY <2>1, <2>2, SubSeqProperties
    <2> HIDE DEF r
    <2>4. \A i \in 1 .. Len(s) - l : i \in 1 .. Len(s) - (l + 1) + 1 /\ l + 1 + i - 1 = l + i
      BY <1>1
    <2> QED
      BY <1>1, <2>3, <2>4
  <1> HIDE DEF p, r
  <1>5. p = SubSeq(s, 1, Min({n, Len(s)}))
    BY <1>1 DEF p
  <1>6. r = SubSeq(s, Len(p) + 1, Len(s))
    BY <1>3 DEF r
  <1>7. l = IF n <= Len(s) THEN n ELSE Len(s)
    BY DEF l
  <1> QED
    BY <1>3, <1>4, <1>5, <1>6, <1>7

LEMMA BytesOfMessage ==
    ASSUME NEW n \in Nat, NEW m \in Nat
    PROVE  /\ [i \in 1 .. n |-> m] \in Seq(Nat) /\ Len([i \in 1 .. n |-> m]) = n
           /\ \A i \in 1 .. n : [j \in 1 .. n |-> m][i] = m
  OBVIOUS

\* What fits into a ring is the beginning of what is written.
LEMMA FittingType ==
    ASSUME NEW ring \in Seq(Nat), NEW s \in Seq(Nat)
    PROVE  Fitting(ring, s) \in Seq(Nat) /\ Len(Fitting(ring, s)) <= Len(s)
  <1> DEFINE n == Min({Len(s), RingBytes - Len(ring)})
  <1>1. n \in Int /\ n <= Len(s)
    <2>1. Len(s) \in Int /\ RingBytes - Len(ring) \in Int
      <3>1. RingBytes \in Nat
        BY JackAssumption
      <3> QED
        BY <3>1
    <2> QED
      BY <2>1, MinOfTwo
  <1> HIDE DEF n
  <1>2. \A i \in 1 .. n : s[i] \in Nat
    BY <1>1
  <1>3. /\ SubSeq(s, 1, n) \in Seq(Nat)
        /\ Len(SubSeq(s, 1, n)) = IF 1 <= n THEN n - 1 + 1 ELSE 0
    BY <1>1, <1>2, SubSeqProperties
  <1>4. Len(SubSeq(s, 1, n)) <= Len(s)
    BY <1>1, <1>3
  <1> QED
    BY <1>3, <1>4 DEF Fitting, n

\* A ring that takes less than all of what is written is remembered for ever.
LEMMA OverrunProperties ==
    ASSUME Typed, NEW ring, NEW s, NEW what \in {"bytes", "size"}
    PROVE  /\ Overrun(ring, s, what) \in SUBSET {"bytes", "size"}
           /\ overrun \subseteq Overrun(ring, s, what)
           /\ what \notin Overrun(ring, s, what) => Fitting(ring, s) = s
  BY DEF Overrun, Typed

\* A size is four bytes, from which it can be read again.
LEMMA SizeBytesType ==
    ASSUME NEW n \in Nat
    PROVE  SizeBytes(n) \in Seq(Nat) /\ Len(SizeBytes(n)) = 4
  <1>1. n % 256 \in Nat /\ (n \div 256) % 256 \in Nat /\ (n \div 65536) % 256 \in Nat /\ n \div 16777216 \in Nat
    OBVIOUS
  <1> QED
    BY <1>1 DEF SizeBytes

LEMMA SizeOfBytes ==
    ASSUME NEW n \in Nat, NEW s, \A b \in 1 .. 4 : s[b] = SizeBytes(n)[b]
    PROVE  SizeOf(s) = n
  <1>1. /\ s[1] = n % 256 /\ s[2] = (n \div 256) % 256
        /\ s[3] = (n \div 65536) % 256 /\ s[4] = n \div 16777216
    BY DEF SizeBytes
  <1>2. n = (n % 256) + 256 * (n \div 256)
    OBVIOUS
  <1>3. n \div 256 = ((n \div 256) % 256) + 256 * (n \div 65536)
    OBVIOUS
  <1>4. n \div 65536 = ((n \div 65536) % 256) + 256 * (n \div 16777216)
    OBVIOUS
  <1>5. /\ n % 256 \in Int /\ n \div 256 \in Int /\ (n \div 256) % 256 \in Int /\ n \div 65536 \in Int
        /\ (n \div 65536) % 256 \in Int /\ n \div 16777216 \in Int
    OBVIOUS
  <1>6. SizeOf(s) = (n % 256) + 256 * ((n \div 256) % 256) + 65536 * ((n \div 65536) % 256)
                    + 16777216 * (n \div 16777216)
    BY <1>1 DEF SizeOf
  <1> QED
    BY <1>2, <1>3, <1>4, <1>5, <1>6

LEMMA SizeOfType ==
    ASSUME NEW s, \A b \in 1 .. 4 : s[b] \in Nat
    PROVE  SizeOf(s) \in Nat
  <1>1. s[1] \in Nat /\ s[2] \in Nat /\ s[3] \in Nat /\ s[4] \in Nat
    OBVIOUS
  <1> QED
    BY <1>1 DEF SizeOf

\* What jackProcessOut reads from the ring of sizes, and what it leaves.
LEMMA AvailableProperties ==
    ASSUME NEW ring \in Seq(Nat), NEW n \in Nat
    PROVE  LET l == IF n <= Len(ring) THEN n ELSE Len(ring)
               r == SubSeq(ring, Len(Available(ring, n)) + 1, Len(ring))
           IN  /\ Available(ring, n) \in Seq(Nat) /\ Len(Available(ring, n)) = l
               /\ \A i \in 1 .. l : Available(ring, n)[i] = ring[i]
               /\ r \in Seq(Nat) /\ Len(r) = Len(ring) - l
               /\ \A i \in 1 .. Len(ring) - l : r[i] = ring[l + i]
  BY Prefix, Zenon DEF Available

LEMMA SpacedType ==
    ASSUME Typed, NEW bytes \in Seq(Nat)
    PROVE  Spaced(bytes) \in Nat
  <1>1. PICK old \in Seq(Nat) : old = SizeBytes(space) /\ Len(old) = 4
    BY SizeBytesType DEF Typed
  <1>2. PICK s : s = [i \in 1 .. 4 |-> IF i <= Len(bytes) THEN bytes[i] ELSE old[i]]
    OBVIOUS
  <1>3. ASSUME NEW i \in 1 .. 4 PROVE s[i] \in Nat
    <2>1. old[i] \in Nat
      <3>1. i \in 1 .. Len(old)
        BY <1>1
      <3>2. \A j \in 1 .. Len(old) : old[j] \in Nat
        OBVIOUS
      <3> QED
        BY <3>1, <3>2, Zenon
    <2>2. i <= Len(bytes) => bytes[i] \in Nat
      OBVIOUS
    <2> QED
      BY <1>2, <2>1, <2>2
  <1>4. SizeOf(s) \in Nat
    BY <1>3, SizeOfType
  <1> QED
    BY <1>1, <1>2, <1>4 DEF Spaced

LEMMA LastSize ==
    ASSUME Typed, sizes # <<>>
    PROVE  Last(sizes) = sizes[Sent] /\ Last(sizes) \in Nat
  <1>1. sizes \in Seq(Sizes) /\ sizes # <<>> /\ Sizes \subseteq Nat
    BY JackAssumption DEF Typed
  <1>2. sizes[Len(sizes)] \in Sizes
    BY <1>1
  <1> QED
    BY <1>1, <1>2 DEF Last, Sent

\* The bytes that jackProcessOut takes, what it leaves, and what it gives JACK.
LEMMA TakenProperties ==
    ASSUME Typed
    PROVE  LET l == IF space <= Len(buffMessage) THEN space ELSE Len(buffMessage)
               r == SubSeq(buffMessage, Len(Taken) + 1, Len(buffMessage))
           IN  /\ Taken \in Seq(Nat) /\ Len(Taken) = l
               /\ \A i \in 1 .. l : Taken[i] = buffMessage[i]
               /\ r \in Seq(Nat) /\ Len(r) = Len(buffMessage) - l
               /\ \A i \in 1 .. Len(buffMessage) - l : r[i] = buffMessage[l + i]
  BY AvailableProperties, Zenon DEF Taken, Typed

LEMMA EventType ==
    ASSUME Typed
    PROVE  EventOf(Taken) \in Seq(Nat)
  <1>1. Taken \in Seq(Nat) /\ space \in Nat
    BY TakenProperties DEF Typed
  <1> DEFINE n == Max({space, Len(Taken)})
  <1>2. n \in Nat
    BY <1>1, MaxOfTwo
  <1> HIDE DEF n
  <1>3. [i \in 1 .. n |-> IF i <= Len(Taken) THEN Taken[i] ELSE Garbage] \in Seq(Nat)
    BY <1>1, <1>2 DEF Garbage
  <1> QED
    BY <1>3 DEF EventOf, n

LEMMA TypedInit == Init => Typed
  <1>1. <<>> \in Seq(Nat) /\ <<>> \in Seq(Sizes) /\ <<>> \in Seq(Seq(Nat))
    OBVIOUS
  <1>2. {} \in SUBSET Nat
    OBVIOUS
  <1> QED
    <2> SUFFICES ASSUME Init PROVE Typed
      OBVIOUS
    <2>1. /\ client \in BOOLEAN /\ port \in BOOLEAN /\ registered \in BOOLEAN
          /\ freed \in BOOLEAN /\ overrun \in SUBSET {"bytes", "size"}
      BY Zenon DEF Init
    <2>2. /\ needpost \in Nat /\ cleanup \in Nat /\ timeouts \in Nat /\ space \in Nat
          /\ apc = "idle" /\ cpc = "none" /\ cycle = "none"
      BY DEF Init
    <2>3. /\ buffMessage \in Seq(Nat) /\ buffSize \in Seq(Nat)
          /\ sizes \in Seq(Sizes) /\ out \in Seq(Seq(Nat)) /\ lost \in SUBSET Nat
      BY <1>1, <1>2, Zenon DEF Init
    <2> QED
      BY <2>1, <2>2, <2>3 DEF Typed

LEMMA TypedConnect ==
    ASSUME Typed, Connect
    PROVE  /\ client' \in BOOLEAN /\ freed' = freed /\ lost' \in SUBSET Nat
           /\ buffMessage' \in Seq(Nat) /\ buffSize' \in Seq(Nat)
  <1>1. ToSet(buffMessage) \subseteq Nat
    BY DEF Typed, ToSet
  <1>2. <<>> \in Seq(Nat)
    OBVIOUS
  <1>3. CASE client /\ UNCHANGED <<client, rings, lost>>
    BY <1>3 DEF Typed, rings
  <1>4. CASE ~client /\ client' \in BOOLEAN /\ buffMessage' = <<>> /\ buffSize' = <<>> /\ UNCHANGED freed
             /\ lost' = lost \cup ToSet(buffMessage)
    BY <1>1, <1>2, <1>4 DEF Typed
  <1> QED
    BY <1>3, <1>4 DEF Connect

LEMMA TypedStep ==
    ASSUME Typed, Next
    PROVE  Typed'
  <1>1. CASE GetPorts
    BY <1>1, TypedConnect DEF GetPorts, Typed, semaphores, call, process, waits
  <1>2. CASE OpenPort
    <2>1. port' \in BOOLEAN /\ registered' \in BOOLEAN
      BY <1>2, TypedConnect DEF OpenPort, Typed
    <2> QED
      BY <1>2, <2>1, TypedConnect DEF OpenPort, Typed, semaphores, process, waits
  <1>3. CASE WriteMessage
    <2>1. PICK n, bytes :
             /\ n \in Sizes
             /\ bytes = [i \in 1 .. n |-> Len(sizes) + 1]
             /\ sizes' = Append(sizes, n)
             /\ buffMessage' = buffMessage \o Fitting(buffMessage, bytes)
             /\ overrun' = Overrun(buffMessage, bytes, "bytes")
      BY <1>3 DEF WriteMessage
    <2>2. n \in Nat /\ Len(sizes) + 1 \in Nat /\ buffMessage \in Seq(Nat)
      BY <2>1, JackAssumption DEF Typed
    <2>3. Fitting(buffMessage, bytes) \in Seq(Nat)
      BY <2>1, <2>2, BytesOfMessage, FittingType
    <2>4. buffMessage' \in Seq(Nat)
      BY <2>1, <2>2, <2>3, ConcatProperties
    <2>5. sizes' \in Seq(Sizes) /\ sizes' # <<>>
      <3>1. sizes \in Seq(Sizes) /\ n \in Sizes /\ sizes' = Append(sizes, n)
        BY <2>1 DEF Typed
      <3> QED
        BY <3>1, AppendProperties
    <2>6. overrun' \in SUBSET {"bytes", "size"}
      BY <2>1, OverrunProperties
    <2> QED
      BY <1>3, <2>4, <2>5, <2>6 DEF WriteMessage, Typed, semaphores, object, process, waits
  <1>4. CASE WriteSize
    <2>1. PICK bytes :
             /\ bytes = SizeBytes(Last(sizes))
             /\ buffSize' = buffSize \o Fitting(buffSize, bytes)
             /\ overrun' = Overrun(buffSize, bytes, "size")
      BY <1>4 DEF WriteSize
    <2>2. buffSize \in Seq(Nat) /\ bytes \in Seq(Nat)
      BY <1>4, <2>1, LastSize, SizeBytesType DEF WriteSize, Typed
    <2>3. buffSize' \in Seq(Nat)
      BY <2>1, <2>2, FittingType, ConcatProperties
    <2>4. overrun' \in SUBSET {"bytes", "size"}
      BY <2>1, OverrunProperties
    <2> QED
      BY <1>4, <2>3, <2>4 DEF WriteSize, Typed, semaphores, object, process, waits
  <1>5. CASE ClosePort
    BY <1>5 DEF ClosePort, Typed, rings, object, process, history
  <1>6. CASE Closing
    <2>1. CASE WaitAnswered
      BY <2>1 DEF WaitAnswered, Typed, rings, object, process, history
    <2>2. CASE WaitTimesOut
      BY <2>2 DEF WaitTimesOut, Typed, rings, semaphores, object, process, history
    <2>3. CASE Unregister
      BY <2>3 DEF Unregister, Typed, rings, semaphores, process, waits, history
    <2>4. CASE ClearPort
      BY <2>4 DEF ClearPort, Typed, rings, semaphores, process, history
    <2>5. CASE FreeRings
      BY <2>5 DEF FreeRings, Typed, semaphores, object, process, waits, history
    <2>6. CASE CloseClient
      BY <2>6 DEF CloseClient, Typed, rings, semaphores, process, waits, history
    <2> QED
      BY <1>6, <2>1, <2>2, <2>3, <2>4, <2>5, <2>6 DEF Closing
  <1>7. CASE CycleBegins
    BY <1>7 DEF CycleBegins, Typed, rings, semaphores, object, call, history
  <1>8. CASE GetBuffer \/ Freed \/ Drained \/ ReserveFails
    BY <1>8 DEF GetBuffer, Freed, Drained, ReserveFails, Typed, rings, semaphores, object, call, waits, history
  <1>9. CASE ReadSize
    <2>1. space' \in Nat /\ buffSize' \in Seq(Nat)
      <3>1. buffSize \in Seq(Nat) /\ Available(buffSize, 4) \in Seq(Nat)
        BY AvailableProperties DEF Typed
      <3> DEFINE r == SubSeq(buffSize, Len(Available(buffSize, 4)) + 1, Len(buffSize))
      <3>2. r \in Seq(Nat)
        BY <3>1, AvailableProperties, Zenon
      <3> HIDE DEF r
      <3>3. buffSize' = r /\ space' = Spaced(Available(buffSize, 4))
        BY <1>9 DEF ReadSize, r
      <3> QED
        BY <3>1, <3>2, <3>3, SpacedType
    <2> QED
      BY <1>9, <2>1 DEF ReadSize, Typed, semaphores, object, call, waits, history
  <1>10. CASE ReadMessage
    <2>1. buffMessage' \in Seq(Nat)
      BY <1>10, TakenProperties DEF ReadMessage
    <2>2. out' \in Seq(Seq(Nat))
      <3>1. out \in Seq(Seq(Nat)) /\ EventOf(Taken) \in Seq(Nat)
        BY EventType DEF Typed
      <3>2. Append(out, EventOf(Taken)) \in Seq(Seq(Nat))
        BY <3>1, AppendProperties
      <3> QED
        BY <1>10, <3>1, <3>2 DEF ReadMessage
    <2>3. lost' \in SUBSET Nat
      <3>1. Taken \in Seq(Nat)
        BY TakenProperties
      <3>2. ToSet(Taken) \subseteq Nat
        BY <3>1 DEF ToSet
      <3> QED
        BY <1>10, <3>2 DEF ReadMessage, Typed
    <2> QED
      BY <1>10, <2>1, <2>2, <2>3 DEF ReadMessage, Typed, semaphores, object, call, waits
  <1>11. CASE Unasked
    BY <1>11 DEF Unasked, CycleEnds, Typed, rings, semaphores, object, call, history
  <1>12. CASE Asked
    BY <1>12 DEF Asked, Typed, rings, object, call, waits, history
  <1>13. CASE Answer
    BY <1>13 DEF Answer, CycleEnds, Typed, rings, object, call, history
  <1> QED
    BY <1>1, <1>2, <1>3, <1>4, <1>5, <1>6, <1>7, <1>8, <1>9, <1>10, <1>11, <1>12, <1>13
    DEF Next, AppStep, ProcessStep

LEMMA ControlStep ==
    ASSUME Typed, Control, Next
    PROVE  Control'
  <1>1. CASE GetPorts \/ OpenPort
    <2>1. client => client'
      BY <1>1 DEF GetPorts, OpenPort, Connect
    <2>2. UNCHANGED <<cpc, cycle, apc>>
      BY <1>1 DEF GetPorts, OpenPort, call, process, waits
    <2> QED
      BY <2>1, <2>2 DEF Control
  <1>2. CASE WriteMessage \/ WriteSize
    BY <1>2 DEF WriteMessage, WriteSize, Control, object, process, waits
  <1>3. CASE ClosePort
    BY <1>3 DEF ClosePort, Control, object, process
  <1>4. CASE Closing
    BY <1>4 DEF Closing, WaitAnswered, WaitTimesOut, Unregister, ClearPort, FreeRings, CloseClient,
                Control, object, process, waits
  <1>5. CASE CycleBegins \/ GetBuffer \/ Freed \/ Drained
    BY <1>5 DEF CycleBegins, GetBuffer, Freed, Drained, Control, object, call, waits
  <1>6. CASE ReadSize \/ ReadMessage \/ ReserveFails \/ Asked
    BY <1>6 DEF ReadSize, ReadMessage, ReserveFails, Asked, Control, object, call, waits
  <1>7. CASE Unasked \/ Answer
    BY <1>7 DEF Unasked, Answer, CycleEnds, Typed, Control, object, call
  <1> QED
    BY <1>1, <1>2, <1>3, <1>4, <1>5, <1>6, <1>7 DEF Next, AppStep, ProcessStep

LEMMA TokensStep ==
    ASSUME Typed, TokensMatch, Next
    PROVE  TokensMatch'
  <1> USE DEF TokensMatch
  <1>0. needpost \in Nat /\ cleanup \in Nat /\ timeouts \in Nat /\ port \in BOOLEAN
    BY DEF Typed
  <1>1. CASE GetPorts \/ OpenPort
    BY <1>0, <1>1 DEF GetPorts, OpenPort, semaphores, call, process, waits
  <1>2. CASE WriteMessage \/ WriteSize
    BY <1>0, <1>2 DEF WriteMessage, WriteSize, semaphores, process, waits
  <1>3. CASE ClosePort
    <2>1. UNCHANGED <<cpc, cleanup, timeouts>> /\ apc = "idle"
      BY <1>3 DEF ClosePort, process
    <2>2. CASE HaveSemaphore /\ port
      <3>1. apc' = "wait" /\ needpost' = needpost + 1
        BY <1>3, <2>2 DEF ClosePort
      <3> QED
        BY <2>1, <3>1, <1>0
    <2>3. CASE HaveSemaphore /\ ~port
      <3>1. apc' = "free" /\ needpost' = needpost
        BY <1>3, <2>3 DEF ClosePort
      <3> QED
        BY <2>1, <3>1, <1>0
    <2>4. CASE ~HaveSemaphore
      BY <2>4
    <2> QED
      BY <2>2, <2>3, <2>4, <1>0
  <1>4. CASE WaitAnswered \/ WaitTimesOut
    <2>1. UNCHANGED <<cpc, needpost>> /\ apc = "wait" /\ apc' = "unregister"
      BY <1>4 DEF WaitAnswered, WaitTimesOut, semaphores, process
    <2>2. \/ cleanup' = cleanup - 1 /\ timeouts' = timeouts
          \/ cleanup' = cleanup /\ timeouts' = timeouts + 1
      BY <1>4 DEF WaitAnswered, WaitTimesOut, semaphores
    <2>3. CASE cleanup' = cleanup - 1 /\ timeouts' = timeouts
      BY <2>1, <2>3, <1>0
    <2>4. CASE cleanup' = cleanup /\ timeouts' = timeouts + 1
      BY <2>1, <2>4, <1>0
    <2> QED
      BY <2>2, <2>3, <2>4
  <1>5. CASE Unregister \/ ClearPort \/ FreeRings \/ CloseClient
    BY <1>0, <1>5 DEF Unregister, ClearPort, FreeRings, CloseClient, semaphores, process, waits
  <1>6. CASE CycleBegins \/ GetBuffer \/ Freed \/ ReadSize \/ ReadMessage \/ ReserveFails \/ Drained
    BY <1>0, <1>6 DEF CycleBegins, GetBuffer, Freed, ReadSize, ReadMessage, ReserveFails, Drained, semaphores, call, waits
  <1>7. CASE Unasked
    BY <1>0, <1>7 DEF Unasked, CycleEnds, semaphores, call
  <1>8. CASE Asked
    BY <1>0, <1>8 DEF Asked, call, waits
  <1>9. CASE Answer
    BY <1>0, <1>9 DEF Answer, CycleEnds, call
  <1> QED
    BY <1>1, <1>2, <1>3, <1>4, <1>5, <1>6, <1>7, <1>8, <1>9 DEF Next, AppStep, ProcessStep, Closing

-----------------------------------------------------------------------------
(***************************************************************************)
(* The rings.                                                              *)
(***************************************************************************)
\* A step that leaves the rings and the histories alone.
LEMMA RingsKept ==
    ASSUME NEW k \in 0 .. Sent, NEW at \in [1 .. Sent + 1 -> Nat], RingsAt(k, at),
           UNCHANGED <<buffMessage, buffSize, space, sizes, out, lost, overrun>>,
           Halfway' = Halfway,
           (Reading' = Reading /\ (cpc = "crashed" => cpc' = "crashed")) \/ cpc' = "crashed"
    PROVE  Rings'
  <1>1. Sent' = Sent
    BY DEF Sent
  <1>2. Starts(at)'
    BY DEF RingsAt, Starts, Sent
  <1>3. ASSUME "size" \notin overrun' PROVE SizesAfter(k)'
    <2>1. CASE cpc' = "crashed"
      BY <2>1 DEF SizesAfter
    <2>2. CASE cpc' # "crashed"
      <3>1. cpc # "crashed" /\ Reading' = Reading
        BY <2>2
      <3>2. cpc' = "read" <=> cpc = "read"
        BY <3>1 DEF Reading
      <3>3. SizesAfter(k) /\ Waiting(k)' = Waiting(k)
        BY <1>1, <1>3, <3>1 DEF RingsAt, Waiting
      <3> QED
        BY <3>1, <3>2, <3>3 DEF SizesAfter, Sent
    <2> QED
      BY <2>1, <2>2
  <1>4. overrun' = {} => Order(k, at)'
    <2>1. Order(k, at) => Order(k, at)'
      BY DEF Order, BytesAfter, GivenWhole, Bytes, Place, Given, Gone, Sent
    <2> QED
      BY <2>1 DEF RingsAt
  <1>5. RingsAt(k, at)'
    BY <1>1, <1>2, <1>3, <1>4 DEF RingsAt, Sent
  <1> QED
    BY <1>1, <1>5 DEF Rings

\* Nothing is said of the rings any more when a size did not fit.
LEMMA RingsGarbled ==
    ASSUME Rings, UNCHANGED sizes, "size" \in overrun'
    PROVE  Rings'
  <1>1. PICK k \in 0 .. Sent, at \in [1 .. Sent + 1 -> Nat] : RingsAt(k, at)
    BY DEF Rings
  <1>2. Sent' = Sent /\ Starts(at)'
    BY <1>1 DEF RingsAt, Starts, Sent
  <1>3. RingsAt(k, at)'
    BY <1>2 DEF RingsAt
  <1> QED
    BY <1>2, <1>3 DEF Rings

LEMMA RingsInit == Init => Rings
  <1> SUFFICES ASSUME Init PROVE Rings
    OBVIOUS
  <1> DEFINE at == [m \in 1 .. 1 |-> 0]
  <1>1. Sent = 0 /\ at \in [1 .. Sent + 1 -> Nat] /\ at[Sent + 1] = 0 /\ at[0 + 1] = 0
    BY DEF Init, Sent
  <1>2. Starts(at)
    BY <1>1 DEF Starts
  <1>3. SizesAfter(0)
    BY <1>1 DEF SizesAfter, Waiting, Init, Reading, Halfway
  <1>4. Len(buffMessage) = 0 /\ Len(out) = 0
    BY DEF Init
  <1>5. Order(0, at)
    <2>1. Given = {} /\ Gone = {}
      BY DEF Given, Gone, Init
    <2> QED
      BY <1>1, <1>4, <2>1 DEF Order, BytesAfter, GivenWhole
  <1>6. RingsAt(0, at)
    BY <1>1, <1>2, <1>3, <1>4, <1>5 DEF RingsAt
  <1> QED
    BY <1>1, <1>6 DEF Rings

\* Where the bytes of a message that is not gone are.
LEMMA PlaceInRing ==
    ASSUME Typed, NEW k \in 0 .. Sent, NEW at \in [1 .. Sent + 1 -> Nat], Starts(at),
           NEW m \in k + 1 .. Sent
    PROVE  /\ sizes[m] \in Nat /\ sizes[m] >= 1
           /\ at[m] \in Nat /\ at[k + 1] \in Nat /\ at[Sent + 1] \in Nat
           /\ at[k + 1] <= at[m] /\ at[m] + sizes[m] <= at[Sent + 1]
  <1>1. Sent \in Nat /\ sizes \in Seq(Sizes) /\ \A n \in 1 .. Sent : sizes[n] \in Nat \ {0}
    <2>1. sizes \in Seq(Sizes) /\ Sizes \subseteq Nat \ {0}
      BY JackAssumption DEF Typed
    <2>2. Sent \in Nat /\ \A n \in 1 .. Sent : sizes[n] \in Sizes
      BY <2>1 DEF Sent
    <2> QED
      BY <2>1, <2>2, Zenon
  <1>2. m \in 1 .. Sent /\ k + 1 \in 1 .. Sent /\ m \in 1 .. Sent + 1 /\ k + 1 \in 1 .. Sent + 1
        /\ Sent + 1 \in 1 .. Sent + 1 /\ m < Sent + 1
    BY <1>1
  <1>3. sizes[m] \in Nat /\ sizes[m] >= 1 /\ sizes[k + 1] \in Nat
    BY <1>1, <1>2
  <1>4. at[m] \in Nat /\ at[k + 1] \in Nat /\ at[Sent + 1] \in Nat
    BY <1>2
  <1>5. at[m] + sizes[m] <= at[Sent + 1]
    BY <1>2 DEF Starts
  <1>6. at[k + 1] <= at[m]
    <2>1. CASE k + 1 = m
      BY <2>1, <1>4
    <2>2. CASE k + 1 < m
      <3>1. at[k + 1] + sizes[k + 1] <= at[m]
        BY <1>2, <2>2 DEF Starts
      <3> QED
        BY <3>1, <1>3, <1>4
    <2> QED
      BY <2>1, <2>2
  <1> QED
    BY <1>3, <1>4, <1>5, <1>6

LEMMA WaitingBytes ==
    ASSUME Typed, NEW k \in 0 .. Sent, NEW at \in [1 .. Sent + 1 -> Nat], Starts(at),
           BytesAfter(k, at)
    PROVE  ToSet(buffMessage) = k + 1 .. Sent
  <1>1. buffMessage \in Seq(Nat) /\ Sent \in Nat /\ ToSet(buffMessage) = {buffMessage[i] : i \in 1 .. Len(buffMessage)}
    BY DEF Typed, ToSet, Sent
  <1>2. ToSet(buffMessage) \subseteq k + 1 .. Sent
    BY <1>1 DEF BytesAfter
  <1>3. ASSUME NEW m \in k + 1 .. Sent PROVE m \in ToSet(buffMessage)
    <2> DEFINE i == at[m] - at[k + 1] + 1
    <2>1. /\ sizes[m] \in Nat /\ sizes[m] >= 1
          /\ at[m] \in Nat /\ at[k + 1] \in Nat /\ at[Sent + 1] \in Nat
          /\ at[k + 1] <= at[m] /\ at[m] + sizes[m] <= at[Sent + 1]
      BY PlaceInRing
    <2>2. Len(buffMessage) = at[Sent + 1] - at[k + 1]
      BY DEF BytesAfter
    <2>3. i \in 1 .. Len(buffMessage) /\ i \in Place(k, at, m)
      BY <2>1, <2>2 DEF Place
    <2> HIDE DEF i
    <2>4. buffMessage[i] = m
      BY <2>3 DEF BytesAfter
    <2> QED
      BY <2>3, <2>4, <1>1
  <1> QED
    BY <1>2, <1>3

LEMMA RingsConnect ==
    ASSUME Typed, Control, Rings, Connect, cpc # "crashed", apc = "idle",
           UNCHANGED <<space, sizes, out, overrun, cpc, apc>>
    PROVE  Rings'
  <1>1. PICK k \in 0 .. Sent, at \in [1 .. Sent + 1 -> Nat] : RingsAt(k, at)
    BY DEF Rings
  <1>2. CASE client
    <2>1. UNCHANGED <<buffMessage, buffSize, lost>> /\ Halfway' = Halfway /\ Reading' = Reading
      BY <1>2 DEF Connect, rings, Halfway, Reading
    <2> QED
      BY <1>1, <2>1, RingsKept
  <1>3. CASE ~client
    <2>1. /\ buffMessage' = <<>> /\ buffSize' = <<>> /\ lost' = lost \cup ToSet(buffMessage)
          /\ cpc = "none" /\ cpc' = "none" /\ apc' = "idle"
      BY <1>3 DEF Connect, Control
    <2>2. Sent' = Sent /\ Sent \in Nat
      BY DEF Sent, Typed
    <2>3. Starts(at)'
      BY <1>1 DEF RingsAt, Starts, Sent
    <2>4. SizesAfter(Sent)'
      <3>1. Waiting(Sent)' = 0 /\ Len(buffSize') = 0
        BY <2>1, <2>2 DEF Waiting, Reading, Halfway
      <3> QED
        BY <2>1, <3>1 DEF SizesAfter
    <2>5. at[Sent + 1] \in Nat /\ Len(buffMessage') = 0
      BY <2>1, <2>2
    <2>6. ASSUME overrun' = {} PROVE Order(Sent, at)'
      <3>1. Order(k, at) /\ ToSet(buffMessage) = k + 1 .. Sent
        BY <1>1, <2>6, WaitingBytes DEF RingsAt, Order
      <3>2. BytesAfter(Sent, at)'
        BY <2>2, <2>5 DEF BytesAfter
      <3>3. GivenWhole'
        BY <3>1 DEF Order, GivenWhole, Bytes, Sent
      <3>4. Given' = Given /\ Given \cup lost = 1 .. k /\ Given \cap lost = {}
        BY <3>1 DEF Order, Given, Gone
      <3>5. Given' \cap lost' = {}
        BY <2>1, <2>2, <3>1, <3>4
      <3>6. Given' \cup lost' = 1 .. Sent
        BY <2>1, <2>2, <3>1, <3>4
      <3> QED
        BY <2>2, <3>2, <3>3, <3>5, <3>6 DEF Order, Gone
    <2>7. RingsAt(Sent, at)'
      BY <2>2, <2>3, <2>4, <2>5, <2>6 DEF RingsAt
    <2>8. Sent' \in 0 .. Sent' /\ at \in [1 .. Sent' + 1 -> Nat]
      BY <2>2
    <2> QED
      BY <2>7, <2>8, Zenon DEF Rings
  <1> QED
    BY <1>2, <1>3

LEMMA RingsWriteMessage ==
    ASSUME Typed, Rings, WriteMessage, cpc # "crashed"
    PROVE  Rings'
  <1>1. PICK k \in 0 .. Sent, at \in [1 .. Sent + 1 -> Nat] : RingsAt(k, at)
    BY DEF Rings
  <1>2. PICK n, bytes :
           /\ n \in Sizes
           /\ bytes = [i \in 1 .. n |-> Sent + 1]
           /\ sizes' = Append(sizes, n)
           /\ buffMessage' = buffMessage \o Fitting(buffMessage, bytes)
           /\ overrun' = Overrun(buffMessage, bytes, "bytes")
    BY DEF WriteMessage, Sent
  <1> DEFINE fit == Fitting(buffMessage, bytes)
  <1>3. n \in Nat /\ n >= 1 /\ Sent \in Nat /\ Sent + 1 \in Nat
    BY <1>2, JackAssumption DEF Typed, Sent
  <1>4. bytes \in Seq(Nat) /\ Len(bytes) = n /\ \A i \in 1 .. n : bytes[i] = Sent + 1
    BY <1>2, <1>3, BytesOfMessage
  <1>5. /\ fit \in Seq(Nat) /\ Len(fit) <= n /\ buffMessage' = buffMessage \o fit
        /\ overrun \subseteq overrun' /\ (overrun' = {} => (overrun = {} /\ fit = bytes))
    <2>1. fit \in Seq(Nat) /\ Len(fit) <= n
      BY <1>4, FittingType DEF Typed
    <2>2. overrun \subseteq overrun' /\ ("bytes" \notin overrun' => fit = bytes)
      BY <1>2, OverrunProperties, Zenon
    <2> HIDE DEF fit
    <2>3. overrun' = {} => (overrun = {} /\ fit = bytes)
      BY <2>2
    <2> QED
      BY <1>2, <2>1, <2>2, <2>3 DEF fit
  <1>6. /\ Len(buffMessage') = Len(buffMessage) + Len(fit)
        /\ \A i \in 1 .. Len(buffMessage) : buffMessage'[i] = buffMessage[i]
        /\ \A i \in Len(buffMessage) + 1 .. Len(buffMessage) + Len(fit) :
                buffMessage'[i] = fit[i - Len(buffMessage)]
    <2>1. buffMessage \in Seq(Nat)
      BY DEF Typed
    <2>2. /\ Len(buffMessage \o fit) = Len(buffMessage) + Len(fit)
          /\ \A i \in 1 .. Len(buffMessage) + Len(fit) : (buffMessage \o fit)[i] =
                IF i <= Len(buffMessage) THEN buffMessage[i] ELSE fit[i - Len(buffMessage)]
      BY <2>1, <1>5, ConcatProperties
    <2>3. Len(buffMessage) \in Nat /\ Len(fit) \in Nat
      BY <2>1, <1>5
    <2> HIDE DEF fit
    <2> QED
      BY <2>2, <2>3, <1>5
  <1>7. /\ Sent' = Sent + 1 /\ sizes'[Sent + 1] = n
        /\ \A m \in 1 .. Sent : sizes'[m] = sizes[m] /\ sizes[m] \in Nat
    <2>1. sizes \in Seq(Sizes) /\ Sizes \subseteq Nat
      BY JackAssumption DEF Typed
    <2>2. \A m \in 1 .. Sent : sizes[m] \in Sizes
      BY <2>1 DEF Sent
    <2>3. /\ Len(Append(sizes, n)) = Len(sizes) + 1
          /\ \A i \in 1 .. Len(sizes) : Append(sizes, n)[i] = sizes[i]
          /\ Append(sizes, n)[Len(sizes) + 1] = n
      BY <2>1, AppendProperties
    <2> QED
      BY <1>2, <2>1, <2>2, <2>3 DEF Sent
  <1> HIDE DEF fit
  <1>8. PICK later \in [1 .. Sent' + 1 -> Nat] :
            /\ later[Sent + 2] = at[Sent + 1] + n
            /\ \A m \in 1 .. Sent + 1 : later[m] = at[m] /\ at[m] \in Nat
    <2> DEFINE f == [m \in 1 .. Sent + 2 |-> IF m = Sent + 2 THEN at[Sent + 1] + n ELSE at[m]]
    <2>1. /\ f \in [1 .. Sent' + 1 -> Nat] /\ f[Sent + 2] = at[Sent + 1] + n
          /\ \A m \in 1 .. Sent + 1 : f[m] = at[m] /\ at[m] \in Nat
      BY <1>3, <1>7
    <2> HIDE DEF f
    <2> QED
      BY <2>1
  <1>9. Starts(later)'
    <2>1. \A m \in 1 .. Sent' : later[m + 1] = later[m] + sizes'[m]
      <3>1. \A m \in 1 .. Sent : at[m + 1] = at[m] + sizes[m]
        BY <1>1 DEF RingsAt, Starts
      <3>2. ASSUME NEW m \in 1 .. Sent PROVE later[m + 1] = later[m] + sizes'[m]
        BY <3>1, <1>3, <1>7, <1>8
      <3>3. later[Sent + 1 + 1] = later[Sent + 1] + sizes'[Sent + 1]
        BY <1>3, <1>7, <1>8
      <3> QED
        BY <3>2, <3>3, <1>3, <1>7
    <2>2. ASSUME NEW a \in 1 .. Sent' + 1, NEW b \in 1 .. Sent' + 1, a < b
          PROVE  later[a] + sizes'[a] <= later[b]
      <3>1. \A c, d \in 1 .. Sent + 1 : c < d => at[c] + sizes[c] <= at[d]
        BY <1>1 DEF RingsAt, Starts
      <3>2. CASE b <= Sent + 1
        <4>1. a \in 1 .. Sent /\ a \in 1 .. Sent + 1 /\ b \in 1 .. Sent + 1
          BY <3>2, <2>2, <1>3, <1>7
        <4> QED
          BY <4>1, <3>1, <2>2, <1>7, <1>8
      <3>3. CASE b = Sent + 2 /\ a = Sent + 1
        BY <3>3, <1>3, <1>7, <1>8
      <3>4. CASE b = Sent + 2 /\ a <= Sent
        <4>1. a \in 1 .. Sent /\ a \in 1 .. Sent + 1 /\ Sent + 1 \in 1 .. Sent + 1 /\ a < Sent + 1
          BY <3>4, <1>3
        <4>2. at[a] + sizes[a] <= at[Sent + 1] /\ at[Sent + 1] \in Nat /\ at[a] \in Nat /\ sizes[a] \in Nat
          BY <4>1, <3>1, <1>7, <1>8
        <4>3. later[a] = at[a] /\ sizes'[a] = sizes[a] /\ later[b] = at[Sent + 1] + n
          BY <4>1, <3>4, <1>7, <1>8
        <4> QED
          BY <4>2, <4>3, <1>3
      <3> QED
        BY <2>2, <3>2, <3>3, <3>4, <1>3, <1>7
    <2> QED
      BY <2>1, <2>2 DEF Starts
  <1>10. k \in 0 .. Sent' /\ later[k + 1] = at[k + 1] /\ at[k + 1] \in Nat /\ at[Sent + 1] \in Nat
         /\ later[Sent' + 1] = at[Sent + 1] + n
    BY <1>3, <1>7, <1>8
  <1>11. ASSUME "size" \notin overrun' PROVE SizesAfter(k)'
    <2>1. /\ UNCHANGED <<buffSize, cpc, space>> /\ Reading' = Reading /\ Reading \in {0, 1}
          /\ Halfway' = 1 /\ Halfway = 0
      BY DEF WriteMessage, process, Reading, Halfway
    <2>2. /\ (cpc = "read" => (k < Sent /\ space = sizes[k + 1]))
          /\ Waiting(k) \in Nat /\ Len(buffSize) = 4 * Waiting(k)
          /\ \A j \in 1 .. Waiting(k), b \in 1 .. 4 :
                buffSize[4 * j - 4 + b] = SizeBytes(sizes[k + Reading + j])[b]
      BY <1>1, <1>5, <1>11 DEF RingsAt, SizesAfter
    <2>3. cpc' = "read" => (k < Sent' /\ space' = sizes'[k + 1])
      BY <2>1, <2>2, <1>3, <1>7
    <2>4. Waiting(k)' = Waiting(k)
      BY <2>1, <1>3, <1>7 DEF Waiting
    <2>5. \A j \in 1 .. Waiting(k) : k + Reading + j \in 1 .. Sent
      BY <2>1, <2>2, <1>3 DEF Waiting
    <2>6. \A j \in 1 .. Waiting(k), b \in 1 .. 4 :
                buffSize'[4 * j - 4 + b] = SizeBytes(sizes'[k + Reading' + j])[b]
      BY <2>1, <2>2, <2>5, <1>7
    <2> QED
      BY <2>1, <2>2, <2>3, <2>4, <2>6 DEF SizesAfter
  <1>12. Len(buffMessage) \in Nat /\ Len(fit) \in Nat
    BY <1>5 DEF Typed
  <1>13. ASSUME "size" \notin overrun' PROVE Len(buffMessage') <= later[Sent' + 1] - later[k + 1]
    <2>1. Len(buffMessage) <= at[Sent + 1] - at[k + 1]
      BY <1>1, <1>5, <1>13 DEF RingsAt
    <2> QED
      BY <2>1, <1>3, <1>5, <1>6, <1>10, <1>12
  <1>14. ASSUME overrun' = {} PROVE Order(k, later)'
    <2>1. Order(k, at) /\ fit = bytes /\ Len(fit) = n
      BY <1>1, <1>4, <1>5, <1>14 DEF RingsAt
    <2>2. /\ Len(buffMessage) = at[Sent + 1] - at[k + 1]
          /\ \A i \in 1 .. Len(buffMessage) : buffMessage[i] \in k + 1 .. Sent
          /\ \A m \in k + 1 .. Sent : \A i \in 1 .. Len(buffMessage) :
                buffMessage[i] = m <=> i \in Place(k, at, m)
      BY <2>1 DEF Order, BytesAfter
    <2>3. \A i \in Len(buffMessage) + 1 .. Len(buffMessage) + n : buffMessage'[i] = Sent + 1
      BY <2>1, <1>3, <1>4, <1>6, <1>12
    <2>4. Len(buffMessage') = later[Sent' + 1] - later[k + 1]
      BY <2>1, <2>2, <1>3, <1>6, <1>10, <1>12
    <2>5. ASSUME NEW i \in 1 .. Len(buffMessage') PROVE buffMessage'[i] \in k + 1 .. Sent'
      <3>1. CASE i <= Len(buffMessage)
        <4>1. i \in 1 .. Len(buffMessage)
          BY <3>1, <1>12
        <4>2. buffMessage'[i] = buffMessage[i] /\ buffMessage[i] \in k + 1 .. Sent
          BY <4>1, <2>2, <1>6
        <4> QED
          BY <4>2, <1>3, <1>7
      <3>2. CASE i > Len(buffMessage)
        <4>1. i \in Len(buffMessage) + 1 .. Len(buffMessage) + n
          BY <3>2, <2>1, <1>3, <1>6, <1>12
        <4>2. buffMessage'[i] = Sent + 1
          BY <4>1, <2>3
        <4> QED
          BY <4>2, <1>3, <1>7
      <3> QED
        BY <3>1, <3>2, <1>12
    <2>6. ASSUME NEW m \in k + 1 .. Sent', NEW i \in 1 .. Len(buffMessage')
          PROVE  buffMessage'[i] = m <=> i \in later[m] - later[k + 1] + 1 .. later[m] - later[k + 1] + sizes'[m]
      <3>1. CASE m = Sent + 1
        <4>1. later[m] = at[Sent + 1] /\ sizes'[m] = n
          BY <3>1, <1>3, <1>7, <1>8
        <4>2. CASE i <= Len(buffMessage)
          <5>1. buffMessage'[i] # m
            BY <4>2, <3>1, <2>2, <1>3, <1>6, <1>12
          <5> QED
            BY <5>1, <4>1, <4>2, <2>2, <1>3, <1>10, <1>12
        <4>3. CASE i > Len(buffMessage)
          <5>1. i \in Len(buffMessage) + 1 .. Len(buffMessage) + n
            BY <4>3, <2>1, <1>3, <1>6, <1>12
          <5>2. buffMessage'[i] = m
            BY <5>1, <3>1, <2>3
          <5> QED
            BY <5>1, <5>2, <4>1, <2>2, <1>3, <1>10, <1>12
        <4> QED
          BY <4>2, <4>3, <1>12
      <3>2. CASE m # Sent + 1
        <4>1. m \in k + 1 .. Sent /\ m \in 1 .. Sent /\ m \in 1 .. Sent + 1
          BY <3>2, <1>3, <1>7
        <4>2. later[m] = at[m] /\ sizes'[m] = sizes[m]
          BY <4>1, <1>7, <1>8
        <4>3. CASE i <= Len(buffMessage)
          <5>1. i \in 1 .. Len(buffMessage)
            BY <4>3, <1>12
          <5>2. buffMessage'[i] = buffMessage[i] /\ (buffMessage[i] = m <=> i \in Place(k, at, m))
            BY <5>1, <4>1, <2>2, <1>6
          <5> QED
            BY <5>2, <4>2, <1>10 DEF Place
        <4>4. CASE i > Len(buffMessage)
          <5>1. i \in Len(buffMessage) + 1 .. Len(buffMessage) + n
            BY <4>4, <2>1, <1>3, <1>6, <1>12
          <5>2. buffMessage'[i] # m
            BY <5>1, <4>1, <2>3, <1>3
          <5>3. at[m] + sizes[m] <= at[Sent + 1] /\ at[m] \in Nat /\ sizes[m] \in Nat
            BY <4>1, <1>1, PlaceInRing DEF RingsAt
          <5> QED
            <6>1. at[k + 1] \in Nat /\ at[Sent + 1] \in Nat /\ Len(buffMessage) = at[Sent + 1] - at[k + 1]
              BY <2>2, <1>10
            <6>2. ~(i <= at[m] - at[k + 1] + sizes[m])
              BY <5>1, <5>3, <6>1, <1>3
            <6>3. i \notin later[m] - later[k + 1] + 1 .. later[m] - later[k + 1] + sizes'[m]
              BY <6>2, <4>2, <1>10
            <6> QED
              BY <5>2, <6>3
        <4> QED
          BY <4>3, <4>4, <1>12
      <3> QED
        BY <3>1, <3>2
    <2>7. BytesAfter(k, later)'
      BY <2>4, <2>5, <2>6 DEF BytesAfter, Place
    <2>8. UNCHANGED <<out, lost>>
      BY DEF WriteMessage
    <2>9. GivenWhole'
      <3>1. GivenWhole
        BY <2>1 DEF Order
      <3>2. \A m \in 1 .. Sent : Bytes(m)' = Bytes(m)
        BY <1>7 DEF Bytes
      <3>3. \A m \in 1 .. Sent : m \in 1 .. Sent'
        BY <1>3, <1>7
      <3> QED
        BY <2>8, <3>1, <3>2, <3>3 DEF GivenWhole
    <2> QED
      BY <2>1, <2>7, <2>8, <2>9 DEF Order, Given, Gone
  <1>15. RingsAt(k, later)'
    BY <1>9, <1>11, <1>13, <1>14 DEF RingsAt
  <1> QED
    BY <1>8, <1>10, <1>15, Zenon DEF Rings

\* The histories say the same when only the sizes move.
LEMMA OrderKept ==
    ASSUME NEW k \in 0 .. Sent, NEW at \in [1 .. Sent + 1 -> Nat], RingsAt(k, at),
           UNCHANGED <<buffMessage, sizes, out, lost>>, overrun \subseteq overrun',
           "size" \notin overrun' => SizesAfter(k)'
    PROVE  Rings'
  <1>1. Sent' = Sent
    BY DEF Sent
  <1>2. Starts(at)'
    BY DEF RingsAt, Starts, Sent
  <1>3. Order(k, at) => Order(k, at)'
    BY DEF Order, BytesAfter, GivenWhole, Bytes, Place, Given, Gone, Sent
  <1>4. overrun' = {} => overrun = {}
    OBVIOUS
  <1>5. "size" \notin overrun' => Len(buffMessage') <= at[Sent' + 1] - at[k + 1]
    BY <1>1 DEF RingsAt
  <1>6. RingsAt(k, at)'
    BY <1>2, <1>3, <1>4, <1>5 DEF RingsAt
  <1> QED
    BY <1>1, <1>6 DEF Rings

LEMMA RingsWriteSize ==
    ASSUME Typed, Rings, WriteSize, cpc # "crashed"
    PROVE  Rings'
  <1>1. PICK k \in 0 .. Sent, at \in [1 .. Sent + 1 -> Nat] : RingsAt(k, at)
    BY DEF Rings
  <1>2. /\ UNCHANGED <<buffMessage, sizes, out, lost, cpc, space>>
        /\ Reading' = Reading /\ Reading \in {0, 1} /\ Halfway' = 0 /\ Halfway = 1
    BY DEF WriteSize, process, Reading, Halfway
  <1>3. Sent' = Sent /\ Sent \in Nat /\ Last(sizes) = sizes[Sent] /\ Last(sizes) \in Nat
    BY <1>2, LastSize DEF WriteSize, Sent, Typed
  <1>4. PICK bytes \in Seq(Nat) :
            /\ bytes = SizeBytes(sizes[Sent]) /\ Len(bytes) = 4
            /\ buffSize' = buffSize \o Fitting(buffSize, bytes)
            /\ overrun' = Overrun(buffSize, bytes, "size")
    BY <1>3, SizeBytesType DEF WriteSize
  <1>5. overrun \subseteq overrun' /\ ("size" \notin overrun' => buffSize' = buffSize \o bytes)
    BY <1>4, OverrunProperties, Zenon
  <1>6. ASSUME "size" \notin overrun' PROVE SizesAfter(k)'
    <2>1. /\ (cpc = "read" => (k < Sent /\ space = sizes[k + 1]))
          /\ Waiting(k) \in Nat /\ Len(buffSize) = 4 * Waiting(k)
          /\ \A j \in 1 .. Waiting(k), b \in 1 .. 4 :
                buffSize[4 * j - 4 + b] = SizeBytes(sizes[k + Reading + j])[b]
      BY <1>1, <1>5, <1>6 DEF RingsAt, SizesAfter
    <2>2. /\ Len(buffSize') = Len(buffSize) + 4
          /\ \A i \in 1 .. Len(buffSize) : buffSize'[i] = buffSize[i]
          /\ \A b \in 1 .. 4 : buffSize'[Len(buffSize) + b] = bytes[b]
      <3>1. buffSize \in Seq(Nat) /\ bytes \in Seq(Nat) /\ buffSize' = buffSize \o bytes
        BY <1>5, <1>6 DEF Typed
      <3>2. /\ Len(buffSize \o bytes) = Len(buffSize) + Len(bytes)
            /\ \A i \in 1 .. Len(buffSize) + Len(bytes) : (buffSize \o bytes)[i] =
                  IF i <= Len(buffSize) THEN buffSize[i] ELSE bytes[i - Len(buffSize)]
        BY <3>1, ConcatProperties
      <3>3. Len(buffSize) \in Nat /\ Len(bytes) = 4
        BY <3>1, <1>4
      <3> QED
        BY <3>1, <3>2, <3>3
    <2>3. Waiting(k)' = Waiting(k) + 1 /\ k + Reading + (Waiting(k) + 1) = Sent
      BY <1>2, <1>3 DEF Waiting
    <2>4. ASSUME NEW j \in 1 .. Waiting(k)', NEW b \in 1 .. 4
          PROVE  buffSize'[4 * j - 4 + b] = SizeBytes(sizes[k + Reading + j])[b]
      <3>1. CASE j = Waiting(k) + 1
        <4>1. 4 * j - 4 + b = Len(buffSize) + b
          BY <3>1, <2>1
        <4>2. k + Reading + j = Sent
          BY <3>1, <2>3
        <4> QED
          BY <4>1, <4>2, <2>2, <1>4
      <3>2. CASE j # Waiting(k) + 1
        <4>1. j \in 1 .. Waiting(k)
          BY <3>2, <2>1, <2>3
        <4>2. 4 * j - 4 + b \in 1 .. Len(buffSize)
          BY <4>1, <2>1
        <4>3. buffSize'[4 * j - 4 + b] = buffSize[4 * j - 4 + b]
          BY <4>2, <2>2
        <4> QED
          BY <4>1, <4>3, <2>1
      <3> QED
        BY <3>1, <3>2
    <2>5. Waiting(k)' \in Nat /\ Len(buffSize') = 4 * Waiting(k)'
      <3>1. PICK w \in Nat : w = Waiting(k)
        BY <2>1
      <3>2. Waiting(k)' = w + 1 /\ Len(buffSize') = 4 * w + 4
        BY <3>1, <2>1, <2>2, <2>3
      <3>3. w + 1 \in Nat /\ 4 * w + 4 = 4 * (w + 1)
        BY <3>1
      <3> QED
        BY <3>2, <3>3
    <2> QED
      BY <1>2, <1>3, <2>1, <2>4, <2>5 DEF SizesAfter
  <1> QED
    BY <1>1, <1>2, <1>5, <1>6, OrderKept

LEMMA RingsReadSize ==
    ASSUME Typed, Rings, ReadSize
    PROVE  Rings'
  <1>1. PICK k \in 0 .. Sent, at \in [1 .. Sent + 1 -> Nat] : RingsAt(k, at)
    BY DEF Rings
  <1>2. /\ UNCHANGED <<buffMessage, sizes, out, lost, overrun>>
        /\ Reading' = 1 /\ Reading = 0 /\ Halfway' = Halfway /\ Halfway \in {0, 1}
        /\ cpc = "drain" /\ cpc' = "read"
    BY DEF ReadSize, history, call, Reading, Halfway
  <1>3. Sent' = Sent /\ Sent \in Nat
    BY <1>2 DEF Sent, Typed
  <1>4. ASSUME "size" \notin overrun' PROVE SizesAfter(k)'
    <2>1. /\ Waiting(k) \in Nat /\ Len(buffSize) = 4 * Waiting(k)
          /\ \A j \in 1 .. Waiting(k), b \in 1 .. 4 :
                buffSize[4 * j - 4 + b] = SizeBytes(sizes[k + 0 + j])[b]
      BY <1>1, <1>2, <1>4 DEF RingsAt, SizesAfter
    <2>2. buffSize # <<>> /\ buffSize \in Seq(Nat) /\ Len(buffSize) >= 1
      BY DEF ReadSize, Typed
    <2>3. Waiting(k) >= 1 /\ Waiting(k)' = Waiting(k) - 1 /\ Len(buffSize) >= 4
      BY <2>1, <2>2, <1>2, <1>3 DEF Waiting
    <2>4. PICK taken \in Seq(Nat) :
              /\ taken = Available(buffSize, 4)
              /\ Len(taken) = 4 /\ \A b \in 1 .. 4 : taken[b] = buffSize[b]
      <3>1. /\ Available(buffSize, 4) \in Seq(Nat) /\ Len(Available(buffSize, 4)) = 4
            /\ \A b \in 1 .. 4 : Available(buffSize, 4)[b] = buffSize[b]
        BY <2>2, <2>3, AvailableProperties
      <3> QED
        BY <3>1
    <2>5. Len(buffSize') = Len(buffSize) - 4 /\ \A i \in 1 .. Len(buffSize) - 4 : buffSize'[i] = buffSize[4 + i]
      <3> DEFINE r == SubSeq(buffSize, Len(Available(buffSize, 4)) + 1, Len(buffSize))
      <3>1. buffSize' = r
        BY DEF ReadSize
      <3>2. PICK l : l = IF 4 <= Len(buffSize) THEN 4 ELSE Len(buffSize)
        OBVIOUS
      <3>3. buffSize \in Seq(Nat) /\ 4 \in Nat
        BY <2>2
      <3>4. Len(r) = Len(buffSize) - l /\ \A i \in 1 .. Len(buffSize) - l : r[i] = buffSize[l + i]
        BY <3>2, <3>3, AvailableProperties, Zenon
      <3>5. l = 4
        BY <3>2, <2>3
      <3> HIDE DEF r
      <3> QED
        BY <3>1, <3>4, <3>5
    <2>6. space' = sizes[k + 1] /\ k < Sent
      <3>1. k < Sent /\ k + 1 \in 1 .. Sent
        <4>1. Waiting(k) >= 1
          BY <2>3
        <4>2. Waiting(k) = Sent - k - 0 - Halfway
          BY <1>2 DEF Waiting
        <4>3. k \in Nat /\ Sent \in Nat /\ Halfway \in Nat
          BY <1>2, <1>3
        <4> HIDE DEF Halfway
        <4> QED
          BY <4>1, <4>2, <4>3
      <3>2. sizes[k + 1] \in Nat
        <4>1. sizes \in Seq(Sizes) /\ Sizes \subseteq Nat
          BY JackAssumption DEF Typed
        <4>2. k + 1 \in 1 .. Len(sizes)
          BY <3>1 DEF Sent
        <4>3. \A m \in 1 .. Len(sizes) : sizes[m] \in Sizes
          BY <4>1
        <4> QED
          BY <4>1, <4>2, <4>3, Zenon
      <3>3. ASSUME NEW b \in 1 .. 4 PROVE taken[b] = SizeBytes(sizes[k + 1])[b]
        <4>1. 1 \in 1 .. Waiting(k) /\ 4 * 1 - 4 + b = b /\ k + 0 + 1 = k + 1
          BY <2>1, <2>3
        <4>2. buffSize[4 * 1 - 4 + b] = SizeBytes(sizes[k + 0 + 1])[b]
          BY <4>1, <2>1
        <4>3. taken[b] = buffSize[b]
          BY <2>4
        <4> QED
          BY <4>1, <4>2, <4>3
      <3>4. PICK s : s = [i \in 1 .. 4 |-> IF i <= Len(taken) THEN taken[i] ELSE SizeBytes(space)[i]]
        OBVIOUS
      <3>5. \A b \in 1 .. 4 : s[b] = taken[b]
        BY <3>4, <2>4
      <3>6. SizeOf(s) = sizes[k + 1]
        BY <3>2, <3>3, <3>5, SizeOfBytes
      <3>7. space' = SizeOf(s)
        BY <2>4, <3>4 DEF ReadSize, Spaced
      <3> QED
        BY <3>1, <3>6, <3>7
    <2>7. ASSUME NEW j \in 1 .. Waiting(k)', NEW b \in 1 .. 4
          PROVE  buffSize'[4 * j - 4 + b] = SizeBytes(sizes[k + 1 + j])[b]
      <3>1. /\ j + 1 \in 1 .. Waiting(k) /\ k + 0 + (j + 1) = k + 1 + j
            /\ 4 * (j + 1) - 4 + b = 4 + (4 * j - 4 + b)
            /\ 4 * j - 4 + b \in 1 .. Len(buffSize) - 4
        BY <2>1, <2>3
      <3>2. buffSize'[4 * j - 4 + b] = buffSize[4 + (4 * j - 4 + b)]
        BY <3>1, <2>5
      <3>3. buffSize[4 * (j + 1) - 4 + b] = SizeBytes(sizes[k + 0 + (j + 1)])[b]
        BY <3>1, <2>1
      <3> QED
        BY <3>1, <3>2, <3>3
    <2>8. Waiting(k)' \in Nat /\ Len(buffSize') = 4 * Waiting(k)'
      BY <2>1, <2>3, <2>5
    <2> QED
      BY <1>2, <1>3, <2>6, <2>7, <2>8 DEF SizesAfter
  <1> QED
    BY <1>1, <1>2, <1>4, OrderKept

\* In order, the bytes taken are the message of the size, and JACK is given just them.
LEMMA WholeMessageTaken ==
    ASSUME Typed, NEW k \in 0 .. Sent, NEW at \in [1 .. Sent + 1 -> Nat], Starts(at),
           k < Sent, space = sizes[k + 1], BytesAfter(k, at)
    PROVE  /\ space \in Nat /\ space >= 1 /\ space <= Len(buffMessage) /\ Len(Taken) = space
           /\ EventOf(Taken) = [i \in 1 .. space |-> k + 1] /\ ToSet(Taken) = {k + 1}
  <1>1. Sent \in Nat /\ k + 1 \in k + 1 .. Sent
    BY DEF Sent, Typed
  <1>2. /\ space \in Nat /\ space >= 1 /\ at[k + 1] \in Nat /\ at[Sent + 1] \in Nat
        /\ at[k + 1] + space <= at[Sent + 1]
    BY <1>1, PlaceInRing
  <1>3. Len(buffMessage) = at[Sent + 1] - at[k + 1]
    BY DEF BytesAfter
  <1>4. space <= Len(buffMessage)
    BY <1>2, <1>3
  <1>5. \A i \in 1 .. space : i \in 1 .. Len(buffMessage) /\ i \in Place(k, at, k + 1)
    BY <1>2, <1>3 DEF Place
  <1>6. \A i \in 1 .. space : buffMessage[i] = k + 1
    BY <1>1, <1>5 DEF BytesAfter
  <1>7. Taken \in Seq(Nat) /\ Len(Taken) = space /\ \A i \in 1 .. space : Taken[i] = buffMessage[i]
    BY <1>4, TakenProperties
  <1>8. \A i \in 1 .. space : Taken[i] = k + 1
    BY <1>6, <1>7
  <1>9. Max({space, Len(Taken)}) = space
    BY <1>2, <1>7, MaxOfTwo
  <1>10. EventOf(Taken) = [i \in 1 .. space |-> k + 1]
    <2>1. EventOf(Taken) = [i \in 1 .. space |-> IF i <= Len(Taken) THEN Taken[i] ELSE Garbage]
      BY <1>9 DEF EventOf
    <2>2. \A i \in 1 .. space : (IF i <= Len(Taken) THEN Taken[i] ELSE Garbage) = k + 1
      BY <1>2, <1>7, <1>8
    <2> QED
      BY <2>1, <2>2
  <1>11. ToSet(Taken) = {k + 1}
    <2>1. ToSet(Taken) = {Taken[i] : i \in 1 .. space}
      BY <1>7 DEF ToSet
    <2>2. 1 \in 1 .. space
      BY <1>2
    <2> QED
      BY <2>1, <2>2, <1>8
  <1> QED
    BY <1>2, <1>4, <1>7, <1>10, <1>11

\* The sizes that wait are the same when the one read is of no message left.
LEMMA SizesAfterTaken ==
    ASSUME Typed, NEW k \in 0 .. Sent, NEW at \in [1 .. Sent + 1 -> Nat], RingsAt(k, at),
           "size" \notin overrun, cpc = "read", cpc' = "drain", UNCHANGED <<buffSize, sizes, apc>>
    PROVE  SizesAfter(k + 1)'
  <1>1. Sent' = Sent /\ Sent \in Nat /\ Reading = 1 /\ Reading' = 0 /\ Halfway' = Halfway /\ Halfway \in Int
    BY DEF Sent, Typed, Reading, Halfway
  <1>2. /\ Waiting(k) \in Nat /\ Len(buffSize) = 4 * Waiting(k)
        /\ \A j \in 1 .. Waiting(k), b \in 1 .. 4 :
              buffSize[4 * j - 4 + b] = SizeBytes(sizes[k + 1 + j])[b]
    BY <1>1 DEF RingsAt, SizesAfter
  <1>3. Waiting(k + 1)' = Waiting(k)
    BY <1>1 DEF Waiting
  <1>4. \A j \in 1 .. Waiting(k) : k + 1 + 0 + j = k + 1 + j
    BY <1>2
  <1> QED
    BY <1>1, <1>2, <1>3, <1>4 DEF SizesAfter

\* So many bytes wait for the messages after the one that is read.
LEMMA PlaceOfNext ==
    ASSUME Typed, NEW k \in 0 .. Sent, NEW at \in [1 .. Sent + 1 -> Nat], RingsAt(k, at),
           k < Sent, space = sizes[k + 1]
    PROVE  /\ at[k + 1] \in Nat /\ at[k + 1 + 1] = at[k + 1] + space /\ at[Sent + 1] \in Nat
           /\ space \in Nat /\ space >= 1 /\ at[k + 1] + space <= at[Sent + 1]
  <1>1. k + 1 \in k + 1 .. Sent /\ k + 1 \in 1 .. Sent /\ Starts(at)
    BY DEF RingsAt, Sent, Typed
  <1>2. at[k + 1 + 1] = at[k + 1] + sizes[k + 1]
    BY <1>1 DEF Starts
  <1> QED
    BY <1>1, <1>2, PlaceInRing

LEMMA RingsReadMessage ==
    ASSUME Typed, Rings, ReadMessage, "size" \notin overrun
    PROVE  Rings'
  <1>1. PICK k \in 0 .. Sent, at \in [1 .. Sent + 1 -> Nat] : RingsAt(k, at)
    BY DEF Rings
  <1>2. /\ UNCHANGED <<buffSize, space, sizes, overrun, apc>>
        /\ Reading' = 0 /\ Reading = 1 /\ Halfway' = Halfway
        /\ cpc = "read" /\ cpc' = "drain"
    BY DEF ReadMessage, call, Reading, Halfway
  <1>3. Sent' = Sent /\ Sent \in Nat
    BY <1>2 DEF Sent, Typed
  <1>4. k < Sent /\ space = sizes[k + 1]
    BY <1>1, <1>2 DEF RingsAt, SizesAfter
  <1>5. k + 1 \in 0 .. Sent' /\ at \in [1 .. Sent' + 1 -> Nat]
    BY <1>3, <1>4
  <1>6. Starts(at)'
    BY <1>1, <1>2 DEF RingsAt, Starts, Sent
  <1>7. SizesAfter(k + 1)'
    BY <1>1, <1>2, SizesAfterTaken
  <1>8. /\ at[k + 1] \in Nat /\ at[k + 1 + 1] = at[k + 1] + space /\ at[Sent + 1] \in Nat
        /\ space \in Nat /\ at[k + 1] + space <= at[Sent + 1]
    BY <1>1, <1>4, PlaceOfNext
  <1> DEFINE l == IF space <= Len(buffMessage) THEN space ELSE Len(buffMessage)
  <1>9. /\ Len(buffMessage) \in Nat /\ Len(buffMessage') = Len(buffMessage) - l
        /\ \A i \in 1 .. Len(buffMessage) - l : buffMessage'[i] = buffMessage[l + i]
    <2> DEFINE r == SubSeq(buffMessage, Len(Taken) + 1, Len(buffMessage))
    <2>1. buffMessage' = r /\ Len(buffMessage) \in Nat
      BY DEF ReadMessage, Typed
    <2>2. Len(r) = Len(buffMessage) - l /\ \A i \in 1 .. Len(buffMessage) - l : r[i] = buffMessage[l + i]
      BY TakenProperties, Zenon
    <2> HIDE DEF r, l
    <2> QED
      BY <2>1, <2>2
  <1>10. Len(buffMessage') <= at[Sent' + 1] - at[k + 1 + 1]
    <2>1. Len(buffMessage) <= at[Sent + 1] - at[k + 1]
      BY <1>1 DEF RingsAt
    <2> QED
      BY <2>1, <1>3, <1>8, <1>9
  <1>11. ASSUME overrun' = {} PROVE Order(k + 1, at)'
    <2>1. Order(k, at) /\ BytesAfter(k, at) /\ Starts(at)
      BY <1>1, <1>2, <1>11 DEF RingsAt, Order
    <2>2. /\ space >= 1 /\ space <= Len(buffMessage)
          /\ EventOf(Taken) = [i \in 1 .. space |-> k + 1] /\ ToSet(Taken) = {k + 1}
      BY <2>1, <1>4, WholeMessageTaken
    <2>3. Len(buffMessage) = at[Sent + 1] - at[k + 1] /\ l = space
      BY <2>1, <2>2 DEF BytesAfter
    <2> HIDE DEF l
    <2>4. Len(buffMessage') = at[Sent' + 1] - at[k + 1 + 1]
      BY <2>3, <1>3, <1>8, <1>9
    <2>5. ASSUME NEW i \in 1 .. Len(buffMessage')
          PROVE  space + i \in 1 .. Len(buffMessage) /\ buffMessage'[i] = buffMessage[space + i]
      BY <2>2, <2>3, <1>8, <1>9
    <2>6. ASSUME NEW m \in k + 1 + 1 .. Sent', NEW i \in 1 .. Len(buffMessage')
          PROVE  buffMessage'[i] = m <=> i \in Place(k + 1, at, m)'
      <3>1. m \in k + 1 .. Sent /\ m \in 1 .. Sent + 1 /\ at[m] \in Nat /\ sizes[m] \in Nat
        <4>1. m \in k + 1 .. Sent /\ m \in 1 .. Sent + 1
          BY <1>3
        <4> QED
          BY <4>1, <2>1, PlaceInRing
      <3>2. buffMessage[space + i] = m <=> space + i \in Place(k, at, m)
        BY <3>1, <2>1, <2>5 DEF BytesAfter
      <3>3. space + i \in at[m] - at[k + 1] + 1 .. at[m] - at[k + 1] + sizes[m]
            <=> i \in at[m] - at[k + 1 + 1] + 1 .. at[m] - at[k + 1 + 1] + sizes[m]
        <4> DEFINE x == at[m]
                   y == at[k + 1]
                   z == at[k + 1 + 1]
                   n == sizes[m]
        <4>1. x \in Nat /\ y \in Nat /\ z = y + space /\ n \in Nat /\ space \in Nat /\ i \in Int
          BY <3>1, <1>8
        <4> HIDE DEF x, y, z, n
        <4>2. space + i \in x - y + 1 .. x - y + n <=> i \in x - z + 1 .. x - z + n
          BY <4>1
        <4> QED
          BY <4>2 DEF x, y, z, n
      <3> QED
        BY <3>2, <3>3, <2>5, <1>2 DEF Place
    <2>7. ASSUME NEW i \in 1 .. Len(buffMessage') PROVE buffMessage'[i] \in k + 1 + 1 .. Sent'
      <3>1. buffMessage[space + i] \in k + 1 .. Sent
        BY <2>1, <2>5 DEF BytesAfter
      <3>2. k + 1 \in k + 1 .. Sent
        BY <1>3, <1>4
      <3>3. buffMessage[space + i] = k + 1 <=> space + i \in Place(k, at, k + 1)
        BY <3>2, <2>1, <2>5 DEF BytesAfter
      <3>4. space + i \notin Place(k, at, k + 1)
        BY <1>4, <1>8, <1>9 DEF Place
      <3> QED
        BY <3>1, <3>3, <3>4, <2>5, <1>3
    <2>8. BytesAfter(k + 1, at)'
      BY <2>4, <2>6, <2>7, Zenon DEF BytesAfter
    <2>9. GivenWhole /\ Given \cap lost = {} /\ Given \cup lost = 1 .. k
      BY <2>1 DEF Order, Gone
    <2>10. \A m : Bytes(m)' = Bytes(m)
      BY <1>2 DEF Bytes
    <2>11. CASE registered
      <3>1. out' = Append(out, Bytes(k + 1)) /\ lost' = lost
        BY <2>2, <2>11, <1>4 DEF ReadMessage, Bytes
      <3>2. /\ Bytes(k + 1) \in Seq(Nat) /\ Bytes(k + 1) # <<>> /\ Bytes(k + 1)[1] = k + 1
            /\ k + 1 \in 1 .. Sent
        <4>1. sizes[k + 1] \in Nat /\ sizes[k + 1] >= 1 /\ k + 1 \in Nat
          BY <2>2, <1>3, <1>4, <1>8
        <4>2. Bytes(k + 1) \in Seq(Nat) /\ Len(Bytes(k + 1)) = sizes[k + 1]
          BY <4>1, BytesOfMessage DEF Bytes
        <4>3. Bytes(k + 1)[1] = k + 1
          BY <4>1 DEF Bytes
        <4>4. Bytes(k + 1) # <<>>
          BY <4>1, <4>2
        <4> QED
          BY <4>2, <4>3, <4>4, <1>3, <1>4
      <3>3. /\ Len(out) \in Nat /\ Len(out') = Len(out) + 1
            /\ \A i \in 1 .. Len(out) : out'[i] = out[i]
            /\ out'[Len(out) + 1] = Bytes(k + 1)
        <4>1. out \in Seq(Seq(Nat))
          BY DEF Typed
        <4> QED
          BY <4>1, <3>1, <3>2, AppendProperties
      <3>4. \A i \in 1 .. Len(out) : out[i][1] \in 1 .. k
        <4>1. Given = {out[i][1] : i \in 1 .. Len(out)}
          BY DEF Given, Typed
        <4> QED
          BY <4>1, <2>9
      <3>5. ASSUME NEW i \in 1 .. Len(out')
            PROVE  out'[i] # <<>> /\ out'[i][1] \in 1 .. Sent /\ out'[i] = Bytes(out'[i][1])
        <4>1. CASE i = Len(out) + 1
          BY <4>1, <3>2, <3>3
        <4>2. CASE i # Len(out) + 1
          <5>1. i \in 1 .. Len(out)
            BY <4>2, <3>3
          <5> QED
            BY <5>1, <3>3, <2>9 DEF GivenWhole
        <4> QED
          BY <4>1, <4>2
      <3>6. ASSUME NEW i \in 1 .. Len(out'), NEW j \in 1 .. Len(out'), i < j
            PROVE  out'[i][1] < out'[j][1]
        <4>1. i \in 1 .. Len(out)
          BY <3>3, <3>6
        <4>2. CASE j = Len(out) + 1
          <5>1. out'[j][1] = k + 1 /\ out'[i][1] \in 1 .. k
            BY <4>1, <4>2, <3>2, <3>3, <3>4
          <5> QED
            BY <5>1
        <4>3. CASE j # Len(out) + 1
          <5>1. j \in 1 .. Len(out)
            BY <4>3, <3>3
          <5> QED
            BY <4>1, <5>1, <3>3, <3>6, <2>9 DEF GivenWhole
        <4> QED
          BY <4>2, <4>3
      <3>7. GivenWhole'
        BY <3>5, <3>6, <2>10, <1>3 DEF GivenWhole
      <3>8. Given' = Given \cup {k + 1}
        <4>1. Given = {out[i][1] : i \in 1 .. Len(out)} /\ Given' = {out'[i][1] : i \in 1 .. Len(out')}
          <5>1. out \in Seq(Seq(Nat)) /\ Bytes(k + 1) \in Seq(Nat)
            BY <3>2 DEF Typed
          <5>2. out' \in Seq(Seq(Nat))
            BY <5>1, <3>1, AppendProperties
          <5>3. DOMAIN out = 1 .. Len(out) /\ DOMAIN out' = 1 .. Len(out')
            BY <5>1, <5>2
          <5> QED
            BY <5>3 DEF Given
        <4>2. \A i \in 1 .. Len(out') : i \in 1 .. Len(out) \/ i = Len(out) + 1
          BY <3>3
        <4>3. Len(out) + 1 \in 1 .. Len(out') /\ \A i \in 1 .. Len(out) : i \in 1 .. Len(out')
          BY <3>3
        <4>4. out'[Len(out) + 1][1] = k + 1
          BY <3>2, <3>3
        <4>5. Given' \subseteq Given \cup {k + 1}
          BY <4>1, <4>2, <4>4, <3>3
        <4>6. Given \subseteq Given'
          BY <4>1, <4>3, <3>3
        <4>7. k + 1 \in Given'
          BY <4>1, <4>3, <4>4
        <4> QED
          BY <4>5, <4>6, <4>7
      <3>9. Given' \cap lost' = {} /\ Given' \cup lost' = 1 .. k + 1
        BY <3>1, <3>8, <2>9
      <3> QED
        BY <3>7, <3>9, <2>8 DEF Order, Gone
    <2>12. CASE ~registered
      <3>1. out' = out /\ lost' = lost \cup {k + 1}
        BY <2>2, <2>12 DEF ReadMessage
      <3>2. GivenWhole' /\ Given' = Given
        BY <3>1, <2>9, <2>10, <1>3 DEF GivenWhole, Given
      <3>3. Given' \cap lost' = {} /\ Given' \cup lost' = 1 .. k + 1
        BY <3>1, <3>2, <2>9
      <3> QED
        BY <3>2, <3>3, <2>8 DEF Order, Gone
    <2> QED
      BY <2>11, <2>12
  <1>12. RingsAt(k + 1, at)'
    BY <1>6, <1>7, <1>10, <1>11 DEF RingsAt
  <1> QED
    BY <1>5, <1>12, Zenon DEF Rings

\* Nothing is taken for a message only when there is nothing.
LEMMA RingsReserveFails ==
    ASSUME Typed, Rings, ReserveFails, "size" \notin overrun
    PROVE  Rings'
  <1>1. PICK k \in 0 .. Sent, at \in [1 .. Sent + 1 -> Nat] : RingsAt(k, at)
    BY DEF Rings
  <1>2. /\ UNCHANGED <<buffMessage, buffSize, space, sizes, out, lost, overrun, apc>>
        /\ cpc = "read" /\ Halfway' = Halfway
    BY DEF ReserveFails, rings, process, history, call, Halfway
  <1>3. CASE Taken # <<>>
    <2>1. cpc' = "crashed"
      BY <1>3 DEF ReserveFails
    <2> QED
      BY <1>1, <1>2, <2>1, RingsKept
  <1>4. CASE Taken = <<>>
    <2>1. cpc' = "drain" /\ k < Sent /\ space = sizes[k + 1] /\ Sent' = Sent /\ Sent \in Nat
      BY <1>1, <1>2, <1>4 DEF ReserveFails, RingsAt, SizesAfter, Sent, Typed
    <2>2. /\ at[k + 1] \in Nat /\ at[k + 1 + 1] = at[k + 1] + space /\ at[Sent + 1] \in Nat
          /\ space \in Nat /\ space >= 1 /\ at[k + 1] + space <= at[Sent + 1]
      BY <1>1, <2>1, PlaceOfNext
    <2>3. Len(buffMessage) = 0
      <3>1. PICK l : l = IF space <= Len(buffMessage) THEN space ELSE Len(buffMessage)
        OBVIOUS
      <3>2. Len(Taken) = l
        BY <3>1, TakenProperties, Zenon
      <3>3. Len(Taken) = 0 /\ Len(buffMessage) \in Nat
        BY <1>4 DEF Typed
      <3> QED
        BY <3>1, <3>2, <3>3, <2>2
    <2>4. Starts(at)'
      BY <1>1, <1>2 DEF RingsAt, Starts, Sent
    <2>5. SizesAfter(k + 1)'
      BY <1>1, <1>2, <2>1, SizesAfterTaken
    <2>6. Len(buffMessage') <= at[Sent' + 1] - at[k + 1 + 1]
      BY <1>2, <2>1, <2>2, <2>3
    <2>7. overrun' # {}
      <3>1. SUFFICES ASSUME overrun = {} PROVE FALSE
        BY <1>2
      <3>2. Starts(at) /\ BytesAfter(k, at)
        BY <1>1, <3>1 DEF RingsAt, Order
      <3>3. space <= Len(buffMessage)
        BY <2>1, <3>2, WholeMessageTaken
      <3> QED
        BY <2>2, <2>3, <3>3
    <2>8. RingsAt(k + 1, at)'
      BY <2>4, <2>5, <2>6, <2>7 DEF RingsAt
    <2>9. k + 1 \in 0 .. Sent' /\ at \in [1 .. Sent' + 1 -> Nat]
      BY <2>1
    <2> QED
      BY <2>8, <2>9, Zenon DEF Rings
  <1> QED
    BY <1>3, <1>4

LEMMA RingsStep ==
    ASSUME Typed, Control, Rings, Next
    PROVE  Rings'
  <1>1. PICK k \in 0 .. Sent, at \in [1 .. Sent + 1 -> Nat] : RingsAt(k, at)
    BY DEF Rings
  <1>2. cpc # "crashed"
    BY DEF Next
  <1>3. CASE GetPorts \/ OpenPort
    <2>1. Connect /\ apc = "idle" /\ UNCHANGED <<space, sizes, out, overrun, cpc, apc>>
      BY <1>3 DEF GetPorts, OpenPort, call, process
    <2> QED
      BY <2>1, <1>2, RingsConnect
  <1>4. CASE WriteMessage
    BY <1>2, <1>4, RingsWriteMessage
  <1>5. CASE WriteSize
    BY <1>2, <1>5, RingsWriteSize
  <1>6. CASE ClosePort \/ Closing
    <2>1. UNCHANGED <<buffMessage, buffSize, space, sizes, out, lost, overrun, cpc>>
          /\ apc # "size" /\ apc' # "size"
      BY <1>6 DEF ClosePort, Closing, WaitAnswered, WaitTimesOut, Unregister, ClearPort, FreeRings,
                  CloseClient, rings, process, history
    <2>2. Halfway' = Halfway /\ Reading' = Reading
      BY <2>1 DEF Halfway, Reading
    <2> QED
      BY <2>1, <2>2, <1>1, RingsKept
  <1>7. CASE CycleBegins \/ GetBuffer \/ Freed \/ Drained \/ Unasked \/ Asked \/ Answer
    <2>1. UNCHANGED <<buffMessage, buffSize, space, sizes, out, lost, overrun, apc>>
          /\ ((cpc \in {"none", "buffer", "drain", "post", "answer"} /\ cpc' # "read") \/ cpc' = "crashed")
      BY <1>7 DEF CycleBegins, GetBuffer, Freed, Drained, Unasked, Asked, Answer, CycleEnds,
                  rings, process, history, call
    <2>2. Halfway' = Halfway /\ (Reading' = Reading \/ cpc' = "crashed")
      BY <2>1 DEF Halfway, Reading
    <2> QED
      BY <2>1, <2>2, <1>1, <1>2, RingsKept
  <1>8. CASE ReadSize
    BY <1>8, RingsReadSize
  <1>9. CASE (ReadMessage \/ ReserveFails) /\ "size" \notin overrun
    BY <1>9, RingsReadMessage, RingsReserveFails
  <1>10. CASE (ReadMessage \/ ReserveFails) /\ "size" \in overrun
    <2>1. UNCHANGED <<sizes, overrun>>
      BY <1>10 DEF ReadMessage, ReserveFails, history
    <2> QED
      BY <2>1, <1>10, RingsGarbled
  <1> QED
    BY <1>3, <1>4, <1>5, <1>6, <1>7, <1>8, <1>9, <1>10 DEF Next, AppStep, ProcessStep

\* When a cycle has found the ring of sizes empty while closePort waits, there
\* are no bytes either.
LEMMA NothingWaiting ==
    ASSUME Typed, Rings, buffSize = <<>>, cpc = "drain", apc # "size", "size" \notin overrun
    PROVE  buffMessage = <<>>
  <1>1. PICK k \in 0 .. Sent, at \in [1 .. Sent + 1 -> Nat] : RingsAt(k, at)
    BY DEF Rings
  <1>2. Len(buffSize) = 0 /\ Sent \in Nat
    BY DEF Sent, Typed
  <1>3. k = Sent
    BY <1>1, <1>2 DEF RingsAt, SizesAfter, Waiting, Reading, Halfway
  <1>4. at[Sent + 1] \in Nat
    BY <1>2
  <1>5. Len(buffMessage) <= 0
    BY <1>1, <1>3, <1>4 DEF RingsAt
  <1> QED
    BY <1>5 DEF Typed

LEMMA FlushedStep ==
    ASSUME Typed, Control, Rings, Flushed, Next
    PROVE  Flushed'
  <1>1. CASE apc = "idle" \/ apc = "size"
    <2>1. cycle = "none"
      BY <1>1 DEF Control, Typed
    <2>2. cycle' = "none"
      BY <1>1, <2>1 DEF Next, AppStep, ProcessStep, GetPorts, OpenPort, WriteMessage, WriteSize,
            ClosePort, Closing, WaitAnswered, WaitTimesOut, Unregister, ClearPort, FreeRings,
            CloseClient, CycleBegins, GetBuffer, Freed, ReadSize, ReadMessage, ReserveFails, Drained,
            Unasked, Asked, Answer, CycleEnds, waits
    <2> QED
      BY <2>2 DEF Flushed
  <1>2. CASE AppStep /\ apc # "idle" /\ apc # "size"
    <2>1. UNCHANGED <<buffSize, buffMessage, cpc, overrun>> /\ cycle' \in {cycle, "none"}
      BY <1>2 DEF AppStep, GetPorts, OpenPort, WriteMessage, WriteSize, ClosePort, Closing,
            WaitAnswered, WaitTimesOut, Unregister, ClearPort, FreeRings, CloseClient, rings,
            process, waits, history
    <2> QED
      BY <2>1 DEF Flushed
  <1>3. CASE CycleBegins
    BY <1>3 DEF CycleBegins, Flushed, rings, history
  <1>4. CASE GetBuffer \/ Freed \/ Asked \/ ReserveFails
    BY <1>4 DEF GetBuffer, Freed, Asked, ReserveFails, Flushed, rings, waits, history
  <1>5. CASE ReadSize
    BY <1>5 DEF ReadSize, Flushed, waits, history
  <1>6. CASE ReadMessage
    <2>1. UNCHANGED <<buffSize, cycle, overrun>> /\ cpc' = "drain"
      BY <1>6 DEF ReadMessage, waits
    <2>2. buffMessage = <<>> => buffMessage' = <<>>
      <3>1. buffMessage' \in Seq(Nat) /\ Len(buffMessage') <= Len(buffMessage)
        <4> DEFINE l == IF space <= Len(buffMessage) THEN space ELSE Len(buffMessage)
                   r == SubSeq(buffMessage, Len(Taken) + 1, Len(buffMessage))
        <4>1. r \in Seq(Nat) /\ Len(r) = Len(buffMessage) - l
          BY TakenProperties, Zenon
        <4>2. buffMessage' = r /\ l \in Nat /\ Len(buffMessage) \in Nat
          BY <1>6 DEF ReadMessage, Typed
        <4> HIDE DEF r, l
        <4> QED
          BY <4>1, <4>2
      <3> QED
        BY <3>1
    <2> QED
      BY <2>1, <2>2 DEF Flushed
  <1>7. CASE Drained /\ apc # "size"
    <2>1. UNCHANGED <<buffSize, buffMessage, overrun>> /\ buffSize = <<>> /\ cpc = "drain"
      BY <1>7 DEF Drained, rings, history
    <2>2. "size" \notin overrun => buffMessage = <<>>
      BY <2>1, <1>7, NothingWaiting
    <2> QED
      BY <2>1, <2>2 DEF Flushed
  <1>8. CASE Unasked \/ Answer
    <2>1. UNCHANGED <<buffSize, buffMessage, overrun>> /\ cpc \in {"post", "answer"} /\ cpc' = "none"
          /\ (cycle' = "done" => cycle \in {"began", "done"})
      BY <1>8 DEF Unasked, Answer, CycleEnds, rings, history
    <2> QED
      BY <2>1 DEF Flushed
  <1> QED
    BY <1>1, <1>2, <1>3, <1>4, <1>5, <1>6, <1>7, <1>8 DEF Next, ProcessStep

LEMMA JackInit == Init => JackInv
  <1> SUFFICES ASSUME Init PROVE JackInv
    OBVIOUS
  <1>1. Control /\ Flushed /\ TokensMatch
    BY DEF Init, Control, Flushed, TokensMatch
  <1> QED
    BY <1>1, TypedInit, RingsInit DEF JackInv

LEMMA JackStep == JackInv /\ [Next]_jackVars => JackInv'
  <1> SUFFICES ASSUME JackInv, [Next]_jackVars PROVE JackInv'
    OBVIOUS
  <1> USE DEF JackInv
  <1>1. CASE Next
    BY <1>1, TypedStep, ControlStep, RingsStep, FlushedStep, TokensStep
  <1>2. CASE UNCHANGED jackVars
    <2>1. /\ UNCHANGED <<client, port, registered, buffMessage, buffSize, freed, needpost, cleanup>>
          /\ UNCHANGED <<apc, cpc, space, cycle, timeouts, sizes, out, lost, overrun>>
      BY <1>2 DEF jackVars, rings, semaphores, object, call, process, waits, history
    <2>2. Typed' /\ Control' /\ Flushed' /\ TokensMatch'
      BY <2>1 DEF Typed, Control, Flushed, TokensMatch
    <2>3. Rings'
      <3>1. PICK k \in 0 .. Sent, at \in [1 .. Sent + 1 -> Nat] : RingsAt(k, at)
        BY DEF Rings
      <3>2. Halfway' = Halfway /\ Reading' = Reading /\ cpc' = cpc
        BY <2>1 DEF Halfway, Reading
      <3> QED
        BY <2>1, <3>1, <3>2, RingsKept
    <2> QED
      BY <2>2, <2>3
  <1> QED
    BY <1>1, <1>2

LEMMA WholeInOrderInv == JackInv => WholeInOrder
  <1> SUFFICES ASSUME JackInv, overrun = {} PROVE WholeInOrder
    BY DEF WholeInOrder
  <1>1. PICK k \in 0 .. Sent, at \in [1 .. Sent + 1 -> Nat] : RingsAt(k, at)
    BY DEF JackInv, Rings
  <1>2. Typed /\ Starts(at) /\ BytesAfter(k, at) /\ GivenWhole /\ Given \cap lost = {} /\ Gone = 1 .. k
    BY <1>1 DEF JackInv, RingsAt, Order
  <1>3. /\ DOMAIN out = 1 .. Len(out) /\ DOMAIN sizes = 1 .. Sent /\ Sent \in Nat
        /\ DOMAIN buffMessage = 1 .. Len(buffMessage) /\ Len(buffMessage) \in Nat
    BY <1>2 DEF Typed, Sent
  <1>4. ToSet(buffMessage) = k + 1 .. Sent
    BY <1>2, WaitingBytes
  <1>5. ASSUME NEW m \in k + 1 .. Sent
        PROVE  /\ at[m] - at[k + 1] \in 0 .. Len(buffMessage) - sizes[m]
               /\ \A i \in 1 .. Len(buffMessage) : buffMessage[i] = m <=> i \in Place(k, at, m)
    <2>1. /\ sizes[m] \in Nat /\ at[m] \in Nat /\ at[k + 1] \in Nat /\ at[Sent + 1] \in Nat
          /\ at[k + 1] <= at[m] /\ at[m] + sizes[m] <= at[Sent + 1]
      BY <1>2, PlaceInRing
    <2>2. Len(buffMessage) = at[Sent + 1] - at[k + 1]
      BY <1>2 DEF BytesAfter
    <2>3. at[m] - at[k + 1] \in 0 .. Len(buffMessage) - sizes[m]
      BY <2>1, <2>2
    <2> QED
      BY <2>3, <1>2 DEF BytesAfter
  <1>6. ASSUME NEW m \in DOMAIN sizes
        PROVE  IF m \in Gone THEN m \notin ToSet(buffMessage) ELSE WholeInRing(m)
    <2>1. CASE m \in Gone
      BY <2>1, <1>2, <1>4
    <2>2. CASE m \notin Gone
      <3>1. m \in k + 1 .. Sent
        BY <2>2, <1>2, <1>3
      <3>2. at[m] - at[k + 1] \in 0 .. Len(buffMessage) - sizes[m]
        BY <3>1, <1>5
      <3>3. \A i \in DOMAIN buffMessage :
              buffMessage[i] = m <=> i \in at[m] - at[k + 1] + 1 .. at[m] - at[k + 1] + sizes[m]
        BY <3>1, <1>3, <1>5 DEF Place
      <3> QED
        BY <2>2, <3>2, <3>3, Zenon DEF WholeInRing
    <2> QED
      BY <2>1, <2>2
  <1>7. ASSUME NEW i \in DOMAIN buffMessage, NEW j \in DOMAIN buffMessage, i < j
        PROVE  buffMessage[i] <= buffMessage[j]
    <2> DEFINE a == buffMessage[i]
               b == buffMessage[j]
    <2>1. a \in k + 1 .. Sent /\ b \in k + 1 .. Sent /\ i \in Int /\ j \in Int
      BY <1>2, <1>3 DEF BytesAfter
    <2>2. i \in Place(k, at, a) /\ j \in Place(k, at, b)
      BY <2>1, <1>3, <1>5
    <2> HIDE DEF a, b
    <2>3. ASSUME b < a PROVE FALSE
      <3>1. at[b] + sizes[b] <= at[a]
        <4>1. a \in 1 .. Sent + 1 /\ b \in 1 .. Sent + 1
          BY <2>1, <1>3
        <4> QED
          BY <4>1, <2>3, <1>2 DEF Starts
      <3>2. at[a] \in Nat /\ at[b] \in Nat /\ at[k + 1] \in Nat /\ sizes[b] \in Nat
        BY <2>1, <1>2, PlaceInRing
      <3>3. i >= at[a] - at[k + 1] + 1 /\ j <= at[b] - at[k + 1] + sizes[b]
        BY <2>1, <2>2, <3>2 DEF Place
      <3> QED
        BY <3>1, <3>2, <3>3, <2>1, <1>7
    <2>4. a <= b
      BY <2>1, <2>3
    <2> QED
      BY <2>4 DEF a, b
  <1>8. \A m \in Gone, i \in DOMAIN buffMessage : m < buffMessage[i]
    BY <1>2, <1>3 DEF BytesAfter
  <1>9. /\ \A i \in DOMAIN out : out[i] # <<>> /\ out[i][1] \in DOMAIN sizes /\ out[i] = Bytes(out[i][1])
        /\ \A i, j \in DOMAIN out : i < j => out[i][1] < out[j][1]
    BY <1>2, <1>3 DEF GivenWhole
  <1> QED
    BY <1>2, <1>6, <1>7, <1>8, <1>9 DEF WholeInOrder

LEMMA CycleFlushesInv == JackInv => CycleFlushes
  BY DEF JackInv, Flushed, CycleFlushes

-----------------------------------------------------------------------------
\* jackProcessOut, ClosePort, connect and sendMessage keep the two rings and
\* the semaphores as JackInv says.
THEOREM JackInvariant == Spec => []JackInv
  BY JackInit, JackStep, PTL DEF Spec

\* Up to the first message that did not fit, jackProcessOut gives JACK whole
\* messages, each once and in the order of sendMessage, and what is left in the
\* rings are the whole messages that follow.
THEOREM JackWholeInOrder == Spec => []WholeInOrder
  BY JackInvariant, WholeInOrderInv, PTL

\* The semaphores hold a token for each wait of closePort that timed out.
THEOREM JackTokensMatch == Spec => []TokensMatch
  <1>1. JackInv => TokensMatch
    BY DEF JackInv
  <1> QED
    BY <1>1, JackInvariant, PTL

\* A cycle that begins and ends within the wait of closePort leaves nothing in
\* the rings, also when the bytes of messages did not fit; when a size did not,
\* it still leaves nothing in the ring of sizes, and bytes may stay in the other.
THEOREM JackCycleFlushes == Spec => []CycleFlushes
  BY JackInvariant, CycleFlushesInv, PTL
=============================================================================
