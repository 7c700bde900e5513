--------------------------- MODULE PmOutputProofs ---------------------------
(***************************************************************************)
(* Proofs about Pm_Write and Pm_WriteSysEx, for every size of the buffer   *)
(* of Pm_WriteSysEx and all lists of events and sysex messages: what is    *)
(* written is what was given, PortMidi and the device agree on being       *)
(* within a sysex message, and an error does not outlive its call.         *)
(***************************************************************************)
EXTENDS PmOutput, SequenceTheorems, WellFoundedInduction, NaturalsInduction, TLAPS

-----------------------------------------------------------------------------
(***************************************************************************)
(* Sequences of bytes.                                                     *)
(***************************************************************************)
Bytes == Seq(Byte)
Cat(s, t) == s \o t

LEMMA CatFacts ==
    /\ << >> \in Bytes
    /\ \A b \in Byte : <<b>> \in Bytes
    /\ \A s, t \in Bytes : Cat(s, t) \in Bytes
    /\ \A s \in Bytes : Cat(s, << >>) = s /\ Cat(<< >>, s) = s
    /\ \A s, t, u \in Bytes : Cat(Cat(s, t), u) = Cat(s, Cat(t, u))
<1>1. << >> \in Bytes /\ \A b \in Byte : <<b>> \in Bytes
  BY DEF Bytes
<1>2. \A s, t \in Bytes : Cat(s, t) \in Bytes
  BY ConcatProperties DEF Bytes, Cat
<1>3. \A s \in Bytes : Cat(s, << >>) = s /\ Cat(<< >>, s) = s
  BY ConcatEmptySeq DEF Bytes, Cat
<1>4. \A s, t, u \in Bytes : Cat(Cat(s, t), u) = Cat(s, Cat(t, u))
  BY ConcatAssociative DEF Bytes, Cat
<1> QED
  BY <1>1, <1>2, <1>3, <1>4

\* From byte b + 1 on.
From(s, b) == SubSeq(s, b + 1, Len(s))

LEMMA FromFacts ==
    ASSUME NEW s \in Bytes
    PROVE  /\ Len(s) \in Nat
           /\ \A b \in 0 .. Len(s) : From(s, b) \in Bytes /\ Len(From(s, b)) = Len(s) - b
           /\ \A b \in 0 .. Len(s) : \A p \in 1 .. Len(s) - b : From(s, b)[p] = s[b + p]
           /\ From(s, 0) = s
           /\ From(s, Len(s)) = << >>
           /\ \A b \in 0 .. Len(s) - 1 : From(s, b) = Cat(<<s[b + 1]>>, From(s, b + 1))
<1>0. Len(s) \in Nat /\ \A p \in 1 .. Len(s) : s[p] \in Byte
  BY DEF Bytes
<1>1. ASSUME NEW b \in 0 .. Len(s)
      PROVE  /\ From(s, b) \in Bytes /\ Len(From(s, b)) = Len(s) - b
             /\ \A p \in 1 .. Len(s) - b : From(s, b)[p] = s[b + p]
  <2>1. b + 1 \in Int /\ Len(s) \in Int /\ \A p \in b + 1 .. Len(s) : s[p] \in Byte
    BY <1>0
  <2>2. /\ From(s, b) \in Seq(Byte)
        /\ Len(From(s, b)) = IF b + 1 <= Len(s) THEN Len(s) - (b + 1) + 1 ELSE 0
        /\ \A p \in 1 .. Len(s) - (b + 1) + 1 : From(s, b)[p] = s[b + 1 + p - 1]
    BY <2>1, SubSeqProperties DEF From
  <2> HIDE DEF From
  <2>3. Len(From(s, b)) = Len(s) - b
    BY <1>0, <2>2
  <2>4. ASSUME NEW p \in 1 .. Len(s) - b PROVE From(s, b)[p] = s[b + p]
    <3>1. p \in 1 .. Len(s) - (b + 1) + 1 /\ b + 1 + p - 1 = b + p
      BY <1>0
    <3> QED
      BY <2>2, <3>1
  <2> QED
    BY <2>2, <2>3, <2>4 DEF Bytes
<1>2. From(s, 0) = s
  BY SubSeqFull DEF From, Bytes
<1>3. From(s, Len(s)) = << >>
  BY <1>0, SubSeqEmpty DEF From
<1>4. ASSUME NEW b \in 0 .. Len(s) - 1
      PROVE  From(s, b) = Cat(<<s[b + 1]>>, From(s, b + 1))
  <2>1. b + 1 \in 1 .. Len(s) /\ Len(s) \in b + 1 .. Len(s)
    BY <1>0
  <2> QED
    BY <2>1, SubSeqRecursiveFirst DEF From, Cat, Bytes
<1> QED
  BY <1>0, <1>1, <1>2, <1>3, <1>4

\* A beginning of a sequence.
LEMMA PrefixFacts ==
    ASSUME NEW s \in Bytes, NEW t \in Bytes
    PROVE  /\ IsPrefix(s, Cat(s, t))
           /\ IsPrefix(s, s)
<1>1. /\ Cat(s, t) \in Bytes /\ Len(Cat(s, t)) = Len(s) + Len(t)
      /\ Len(s) \in Nat /\ Len(t) \in Nat
  BY ConcatProperties DEF Cat, Bytes
<1>2. SubSeq(s, 1, Len(s)) = s
  BY SubSeqFull DEF Bytes
<1>3. SubSeq(Cat(s, t), 1, Len(s)) = s
  <2>1. CASE Len(s) = 0
    <3>1. s = << >>
      BY <2>1, EmptySeq DEF Bytes
    <3> QED
      BY <2>1, <3>1, SubSeqEmpty
  <2>2. CASE Len(s) # 0
    <3>1. 1 \in 1 .. Len(s) /\ Len(s) \in 1 .. Len(s)
      BY <1>1, <2>2
    <3> QED
      BY <1>2, <3>1, SubSeqOfConcat1 DEF Cat, Bytes
  <2> QED
    BY <2>1, <2>2
<1>4. Len(s) <= Len(Cat(s, t)) /\ Len(s) <= Len(s)
  BY <1>1
<1> QED
  BY <1>2, <1>3, <1>4 DEF IsPrefix

\* The first n bytes and the others.
LEMMA FirstBytes ==
    ASSUME NEW s \in Bytes, NEW n \in 0 .. Len(s)
    PROVE  SubSeq(s, 1, n) \in Bytes /\ s = Cat(SubSeq(s, 1, n), From(s, n))
<1>1. /\ Len(s) \in Nat /\ 1 \in 1 .. Len(s) + 1 /\ n \in 1 - 1 .. Len(s)
      /\ Len(s) \in n .. Len(s)
      /\ \A p \in 1 .. n : s[p] \in Byte
  BY DEF Bytes
<1>2. SubSeq(s, 1, n) \o SubSeq(s, n + 1, Len(s)) = SubSeq(s, 1, Len(s))
  BY <1>1, ConcatAdjacentSubSeq DEF Bytes
<1>3. SubSeq(s, 1, n) \in Seq(Byte)
  BY <1>1, SubSeqProperties
<1>4. SubSeq(s, 1, Len(s)) = s
  BY SubSeqFull DEF Bytes
<1> QED
  BY <1>2, <1>3, <1>4 DEF Cat, From, Bytes

-----------------------------------------------------------------------------
(***************************************************************************)
(* The bytes of an event.                                                  *)
(***************************************************************************)
IsShort(e) == IsStatus(e[1]) /\ e[1] \notin {SYSEX, EOX}

LEMMA EventIsSeq == ASSUME NEW e \in Event PROVE e \in Bytes /\ Len(e) = 4
<1>1. e \in [1 .. 4 -> Byte] /\ 4 \in Nat
  BY DEF Event
<1>2. \E n \in Nat : e \in [1 .. n -> Byte]
  BY <1>1
<1>3. e \in Seq(Byte)
  BY <1>2
<1>4. DOMAIN e = 1 .. 4
  BY <1>1
<1>5. Len(e) = 4
  BY <1>3, <1>4
<1> QED
  BY <1>3, <1>5 DEF Bytes

LEMMA ShortBytes ==
    ASSUME NEW e \in Event, IsShort(e)
    PROVE  /\ EventBytes(e) = SubSeq(e, 1, midi_message_length(e[1]))
           /\ EventBytes(e) \in Bytes
<1>1. midi_message_length(e[1]) \in 0 .. 4
  BY DEF Event, Byte, midi_message_length
<1>2. EventBytes(e) = SubSeq(e, 1, midi_message_length(e[1]))
  BY DEF EventBytes, IsShort
<1> QED
  BY <1>1, <1>2, FirstBytes, EventIsSeq

\* The first EOX of an event is its k-th byte.
FirstEox(e, k) == e[k] = EOX /\ \A j \in 1 .. k - 1 : e[j] # EOX

LEMMA FirstEoxExists == ASSUME NEW e, HasEox(e) PROVE \E k \in 1 .. 4 : FirstEox(e, k)
<1>1. e[1] = EOX \/ e[2] = EOX \/ e[3] = EOX \/ e[4] = EOX
  BY DEF HasEox
<1>2. e[1] = EOX => FirstEox(e, 1)
  BY DEF FirstEox
<1>3. e[2] = EOX /\ e[1] # EOX => FirstEox(e, 2)
  BY DEF FirstEox
<1>4. e[3] = EOX /\ e[1] # EOX /\ e[2] # EOX => FirstEox(e, 3)
  BY DEF FirstEox
<1>5. e[4] = EOX /\ e[1] # EOX /\ e[2] # EOX /\ e[3] # EOX => FirstEox(e, 4)
  BY DEF FirstEox
<1> QED
  BY <1>1, <1>2, <1>3, <1>4, <1>5

LEMMA FirstEoxUnique ==
    ASSUME NEW e, NEW k \in 1 .. 4, NEW l \in 1 .. 4, FirstEox(e, k), FirstEox(e, l)
    PROVE  k = l
<1>1. k \in 1 .. l - 1 \/ l \in 1 .. k - 1 \/ k = l
  OBVIOUS
<1> QED
  BY <1>1 DEF FirstEox

LEMMA SysexBytes ==
    ASSUME NEW e \in Event, ~IsShort(e)
    PROVE  /\ EventBytes(e) \in Bytes
           /\ ~HasEox(e) => EventBytes(e) = e
           /\ \A k \in 1 .. 4 : FirstEox(e, k) => EventBytes(e) = SubSeq(e, 1, k)
<1>1. ~HasEox(e) => EventBytes(e) = e
  BY DEF EventBytes, IsShort
<1>2. ASSUME NEW k \in 1 .. 4, FirstEox(e, k) PROVE EventBytes(e) = SubSeq(e, 1, k)
  <2>1. HasEox(e)
    BY <1>2 DEF FirstEox, HasEox
  <2>2. EventBytes(e) = SubSeq(e, 1, CHOOSE l \in 1 .. 4 : FirstEox(e, l))
    BY <2>1 DEF EventBytes, IsShort, FirstEox
  <2>3. (CHOOSE l \in 1 .. 4 : FirstEox(e, l)) = k
    BY <1>2, FirstEoxUnique
  <2> QED
    BY <2>2, <2>3
<1>3. EventBytes(e) \in Bytes
  <2>1. CASE HasEox(e)
    <3>1. PICK k \in 1 .. 4 : FirstEox(e, k)
      BY <2>1, FirstEoxExists
    <3>2. EventBytes(e) = SubSeq(e, 1, k)
      BY <1>2, <3>1
    <3>3. k \in 0 .. Len(e) /\ e \in Bytes
      BY EventIsSeq
    <3> QED
      BY <3>2, <3>3, FirstBytes
  <2>2. CASE ~HasEox(e)
    BY <1>1, <2>2, EventIsSeq
  <2> QED
    BY <2>1, <2>2
<1> QED
  BY <1>1, <1>2, <1>3

LEMMA EventBytesType == ASSUME NEW e \in Event PROVE EventBytes(e) \in Bytes
  BY ShortBytes, SysexBytes

\* The loop of Pm_Write has written b bytes of event e, none of them an EOX.
Begun(e, b) == b \in 0 .. 4 /\ \A j \in 1 .. b : e[j] # EOX

\* Its next byte is the next one that the event stands for, and the EOX the last.
LEMMA LoopByte ==
    ASSUME NEW e \in Event, ~IsShort(e), NEW b \in 0 .. 3, Begun(e, b), e[b + 1] # EOX
    PROVE  /\ Begun(e, b + 1)
           /\ From(EventBytes(e), b) = Cat(<<e[b + 1]>>, From(EventBytes(e), b + 1))
           /\ From(EventBytes(e), b + 1) \in Bytes
<1> DEFINE s == EventBytes(e)
<1>0. s \in Bytes /\ Len(s) \in Nat
  BY EventBytesType, FromFacts
<1>1. Begun(e, b + 1)
  BY DEF Begun
<1>2. b \in 0 .. Len(s) - 1 /\ s[b + 1] = e[b + 1]
  <2>1. CASE HasEox(e)
    <3>1. PICK k \in 1 .. 4 : FirstEox(e, k)
      BY <2>1, FirstEoxExists
    <3>2. s = SubSeq(e, 1, k)
      BY <3>1, SysexBytes
    <3>3. k > b + 1
      <4>1. k \notin 1 .. b + 1
        BY <1>1, <3>1 DEF Begun, FirstEox
      <4> QED
        BY <4>1
    <3>4. \A p \in 1 .. k : e[p] \in Byte
      BY DEF Event
    <3>5. Len(s) = k /\ \A p \in 1 .. k : s[p] = e[p]
      <4>1. /\ Len(SubSeq(e, 1, k)) = IF 1 <= k THEN k - 1 + 1 ELSE 0
            /\ \A p \in 1 .. k - 1 + 1 : SubSeq(e, 1, k)[p] = e[1 + p - 1]
        BY <3>4, SubSeqProperties
      <4> HIDE DEF s
      <4> QED
        BY <3>2, <4>1
    <3> HIDE DEF s
    <3> QED
      BY <3>3, <3>5
  <2>2. CASE ~HasEox(e)
    <3>1. s = e
      BY <2>2, SysexBytes
    <3> HIDE DEF s
    <3> QED
      BY <3>1, EventIsSeq
  <2> QED
    BY <2>1, <2>2
<1>3. b + 1 \in 0 .. Len(s)
  BY <1>0, <1>2
<1> HIDE DEF s
<1>4. From(s, b) = Cat(<<e[b + 1]>>, From(s, b + 1)) /\ From(s, b + 1) \in Bytes
  BY <1>0, <1>2, <1>3, FromFacts
<1> QED
  BY <1>1, <1>4 DEF s

LEMMA LoopEox ==
    ASSUME NEW e \in Event, ~IsShort(e), NEW b \in 0 .. 3, Begun(e, b), e[b + 1] = EOX
    PROVE  From(EventBytes(e), b) = <<EOX>>
<1>1. FirstEox(e, b + 1) /\ b + 1 \in 1 .. 4
  BY DEF FirstEox, Begun
<1>2. EventBytes(e) = SubSeq(e, 1, b + 1)
  BY <1>1, SysexBytes
<1>3. \A p \in 1 .. b + 1 : e[p] \in Byte
  BY DEF Event
<1> DEFINE s == SubSeq(e, 1, b + 1)
<1>4. s \in Bytes /\ Len(s) = b + 1 /\ s[b + 1] = EOX
  <2>1. /\ s \in Seq(Byte)
        /\ Len(s) = IF 1 <= b + 1 THEN b + 1 - 1 + 1 ELSE 0
        /\ \A p \in 1 .. b + 1 - 1 + 1 : s[p] = e[1 + p - 1]
    BY <1>3, SubSeqProperties
  <2> HIDE DEF s
  <2>2. b + 1 \in 1 .. b + 1 - 1 + 1 /\ 1 + (b + 1) - 1 = b + 1
    OBVIOUS
  <2>3. s[b + 1] = e[b + 1]
    BY <2>1, <2>2
  <2> QED
    BY <2>1, <2>3 DEF Bytes
<1> HIDE DEF s
<1>5. From(s, b) = Cat(<<s[b + 1]>>, From(s, b + 1)) /\ From(s, b + 1) = << >>
  <2>1. b \in 0 .. Len(s) - 1
    BY <1>4
  <2> QED
    BY <1>4, <2>1, FromFacts
<1>6. Cat(<<EOX>>, << >>) = <<EOX>>
  <2>1. EOX \in Byte
    BY DEF EOX, Byte
  <2> QED
    BY <2>1, CatFacts
<1> QED
  BY <1>2, <1>4, <1>5, <1>6 DEF s

LEMMA LoopDone ==
    ASSUME NEW e \in Event, ~IsShort(e), Begun(e, 4)
    PROVE  ~HasEox(e) /\ From(EventBytes(e), 4) = << >>
<1>1. ~HasEox(e)
  BY DEF Begun, HasEox
<1>2. EventBytes(e) = e
  BY <1>1, SysexBytes
<1> QED
  BY <1>1, <1>2, EventIsSeq, FromFacts

-----------------------------------------------------------------------------
(***************************************************************************)
(* The bytes of a list of events.  That the recursion of BytesOf is        *)
(* defined, and that it goes on with the tail, is shown with the least     *)
(* number at which it would not be so.                                     *)
(***************************************************************************)
LEMMA LeastNumber ==
    ASSUME NEW T \in SUBSET Nat, T # {}
    PROVE  \E x \in T : \A y \in T : x <= y
<1> DEFINE R == OpToRel(<, Nat)
<1>1. IsWellFoundedOn(R, Nat)
  BY NatLessThanWellFounded, Zenon
<1>2. \A x, y \in Nat : <<y, x>> \in R <=> y < x
  <2>1. R = {ss \in Nat \X Nat : ss[1] < ss[2]}
    BY Zenon DEF OpToRel
  <2> HIDE DEF R
  <2> QED
    BY <2>1
<1> HIDE DEF R
<1>3. PICK x \in T : \A y \in T : ~(<<y, x>> \in R)
  BY <1>1, WFMin
<1>4. ASSUME NEW y \in T PROVE x <= y
  <2>1. x \in Nat /\ y \in Nat /\ ~(y < x)
    BY <1>2, <1>3
  <2> QED
    BY <2>1
<1> QED
  BY <1>4

Events == Seq(Event)

\* The bytes of the last k events of s, those of the last k - 1 given by f.
LastBytes(s, f, k) ==
    IF k = 0 THEN << >> ELSE Cat(EventBytes(s[Len(s) + 1 - k]), f[k - 1])

IsBytes(s, f) == f = [k \in 0 .. Len(s) |-> LastBytes(s, f, k)]

LEMMA LastBytesType ==
    ASSUME NEW s \in Events, NEW k \in 0 .. Len(s), NEW f, k # 0 => f[k - 1] \in Bytes
    PROVE  LastBytes(s, f, k) \in Bytes
<1>1. CASE k = 0
  BY <1>1, CatFacts DEF LastBytes
<1>2. CASE k # 0
  <2>1. Len(s) + 1 - k \in 1 .. Len(s)
    BY <1>2 DEF Events
  <2>2. EventBytes(s[Len(s) + 1 - k]) \in Bytes
    <3>1. s[Len(s) + 1 - k] \in Event
      BY <2>1, ElementOfSeq DEF Events
    <3> QED
      BY <3>1, EventBytesType
  <2> QED
    BY <1>2, <2>2, CatFacts DEF LastBytes
<1> QED
  BY <1>1, <1>2

LEMMA BytesExist == ASSUME NEW s \in Events PROVE \E f : IsBytes(s, f)
<1> DEFINE Dom == 0 .. Len(s)
           Upto(f, n) == /\ f \in [Dom -> Bytes]
                         /\ \A k \in Dom : k < n => f[k] = LastBytes(s, f, k)
           Bad == {n \in Nat : ~\E f : Upto(f, n)}
<1>0. Len(s) \in Nat
  BY DEF Events
<1>1. ASSUME NEW n \in Bad, \A m \in Bad : n <= m PROVE FALSE
  <2>0. n \in Nat
    OBVIOUS
  <2>1. n # 0
    <3> DEFINE f == [k \in Dom |-> << >>]
    <3>1. f \in [Dom -> Bytes]
      BY CatFacts
    <3>2. \A k \in Dom : ~(k < 0)
      BY <1>0
    <3>3. Upto(f, 0)
      BY <3>1, <3>2
    <3> HIDE DEF f, Upto
    <3> QED
      BY <3>3
  <2>2. \E f : Upto(f, n - 1)
    <3>1. n - 1 \in Nat /\ ~(n <= n - 1)
      BY <2>0, <2>1
    <3>2. n - 1 \notin Bad
      <4> HIDE DEF Bad
      <4> QED
        BY <1>1, <3>1
    <3> HIDE DEF Upto
    <3> QED
      BY <3>1, <3>2
  <2>3. PICK f : Upto(f, n - 1)
    BY <2>2
  <2> DEFINE g == [k \in Dom |-> IF k = n - 1 THEN LastBytes(s, f, k) ELSE f[k]]
  <2>4. g \in [Dom -> Bytes]
    <3>1. ASSUME NEW k \in Dom PROVE LastBytes(s, f, k) \in Bytes
      <4>1. k # 0 => k - 1 \in Dom
        BY <1>0
      <4>2. k # 0 => f[k - 1] \in Bytes
        BY <2>3, <4>1
      <4> QED
        BY <4>2, LastBytesType
    <3> QED
      BY <2>3, <3>1
  <2>5. ASSUME NEW k \in Dom, k < n PROVE g[k] = LastBytes(s, g, k)
    <3>1. LastBytes(s, g, k) = LastBytes(s, f, k)
      <4>1. k # 0 => k - 1 \in Dom /\ k - 1 # n - 1
        BY <1>0, <2>0, <2>5
      <4>2. k # 0 => g[k - 1] = f[k - 1]
        BY <4>1
      <4> HIDE DEF g
      <4> QED
        BY <4>2 DEF LastBytes
    <3>2. k # n - 1 => k < n - 1
      BY <1>0, <2>0, <2>5
    <3>3. g[k] = LastBytes(s, f, k)
      BY <2>3, <3>2
    <3> QED
      BY <3>1, <3>3
  <2> HIDE DEF g
  <2>6. Upto(g, n)
    BY <2>4, <2>5
  <2> HIDE DEF Upto
  <2> QED
    BY <2>6
<1>2. Bad = {}
  <2>1. Bad \in SUBSET Nat
    OBVIOUS
  <2> HIDE DEF Bad
  <2> QED
    BY <1>1, <2>1, LeastNumber
<1>3. \E f : Upto(f, Len(s) + 1)
  <2>1. Len(s) + 1 \in Nat
    BY <1>0
  <2> HIDE DEF Upto
  <2> QED
    BY <1>2, <2>1
<1>4. PICK f : Upto(f, Len(s) + 1)
  BY <1>3
<1>5. \A k \in Dom : f[k] = LastBytes(s, f, k)
  BY <1>0, <1>4
<1> QED
  BY <1>4, <1>5 DEF IsBytes

LEMMA BytesOfIs ==
    ASSUME NEW s \in Events
    PROVE  \E f : /\ BytesOf(s) = f[Len(s)]
                  /\ \A k \in 0 .. Len(s) : f[k] = LastBytes(s, f, k) /\ f[k] \in Bytes
<1> DEFINE f == CHOOSE f : IsBytes(s, f)
<1>0. Len(s) \in Nat
  BY DEF Events
<1>1. IsBytes(s, f)
  BY BytesExist
<1>2. BytesOf(s) = f[Len(s)]
  BY DEF BytesOf, IsBytes, LastBytes, Cat
<1> HIDE DEF f
<1>3. \A k \in 0 .. Len(s) : f[k] = LastBytes(s, f, k)
  BY <1>1 DEF IsBytes
<1> DEFINE Bad == {k \in 0 .. Len(s) : f[k] \notin Bytes}
<1>4. ASSUME NEW n \in Bad, \A m \in Bad : n <= m PROVE FALSE
  <2>1. n \in 0 .. Len(s) /\ n \in Nat /\ f[n] \notin Bytes
    BY <1>0
  <2>2. n # 0 => n - 1 \in 0 .. Len(s) /\ ~(n <= n - 1)
    BY <1>0, <2>1
  <2>3. n # 0 => n - 1 \notin Bad
    <3> HIDE DEF Bad
    <3> QED
      BY <1>4, <2>2
  <2>4. n # 0 => f[n - 1] \in Bytes
    BY <2>2, <2>3
  <2> QED
    BY <1>3, <2>1, <2>4, LastBytesType
<1>5. Bad = {}
  <2>1. Bad \in SUBSET Nat
    BY <1>0
  <2> HIDE DEF Bad
  <2> QED
    BY <1>4, <2>1, LeastNumber
<1>6. \A k \in 0 .. Len(s) : f[k] \in Bytes
  BY <1>5
<1> QED
  BY <1>2, <1>3, <1>6

LEMMA BytesOfEmpty == BytesOf(<< >>) = << >>
<1>1. << >> \in Events /\ Len(<< >>) = 0
  BY DEF Events
<1>2. PICK f : BytesOf(<< >>) = f[0] /\ \A k \in 0 .. 0 : f[k] = LastBytes(<< >>, f, k)
  BY <1>1, BytesOfIs
<1> QED
  BY <1>2 DEF LastBytes

LEMMA BytesOfType == ASSUME NEW s \in Events PROVE BytesOf(s) \in Bytes
<1>1. Len(s) \in 0 .. Len(s)
  BY DEF Events
<1> QED
  BY <1>1, BytesOfIs

\* The first event's bytes come first.
LEMMA BytesOfTail ==
    ASSUME NEW s \in Events, s # << >>
    PROVE  /\ s[1] \in Event /\ Tail(s) \in Events
           /\ BytesOf(s) = Cat(EventBytes(s[1]), BytesOf(Tail(s)))
<1> DEFINE t == Tail(s)
           n == Len(t)
<1>0. /\ t \in Events /\ n \in Nat /\ Len(s) = n + 1
      /\ \A p \in 1 .. n : t[p] = s[p + 1]
      /\ s[1] \in Event
  <2>1. /\ t \in Seq(Event) /\ Len(t) = Len(s) - 1
        /\ \A p \in 1 .. Len(t) : t[p] = s[p + 1]
    BY HeadTailProperties DEF Events
  <2>2. Len(s) \in Nat \ {0}
    BY EmptySeq DEF Events
  <2>3. s[1] \in Event
    BY <2>2, ElementOfSeq DEF Events
  <2> HIDE DEF t
  <2> QED
    BY <2>1, <2>2, <2>3 DEF Events
<1> HIDE DEF t
<1>1. PICK f : /\ BytesOf(s) = f[n + 1]
               /\ \A k \in 0 .. n + 1 : f[k] = LastBytes(s, f, k) /\ f[k] \in Bytes
  BY <1>0, BytesOfIs
<1>2. PICK g : /\ BytesOf(t) = g[n]
               /\ \A k \in 0 .. n : g[k] = LastBytes(t, g, k) /\ g[k] \in Bytes
  BY <1>0, BytesOfIs
<1> DEFINE Bad == {k \in 0 .. n : f[k] # g[k]}
<1>3. ASSUME NEW k \in Bad, \A m \in Bad : k <= m PROVE FALSE
  <2>1. k \in 0 .. n /\ k \in Nat /\ f[k] # g[k]
    BY <1>0
  <2>2. f[k] = LastBytes(s, f, k) /\ g[k] = LastBytes(t, g, k)
    BY <1>0, <1>1, <1>2, <2>1
  <2>3. k # 0
    BY <2>1, <2>2 DEF LastBytes
  <2>4. k - 1 \in 0 .. n /\ ~(k <= k - 1)
    BY <1>0, <2>1, <2>3
  <2>5. k - 1 \notin Bad
    <3> HIDE DEF Bad
    <3> QED
      BY <1>3, <2>4
  <2>6. f[k - 1] = g[k - 1]
    BY <2>4, <2>5
  <2>7. s[Len(s) + 1 - k] = t[Len(t) + 1 - k]
    <3>1. n + 1 - k \in 1 .. n /\ n + 1 - k + 1 = Len(s) + 1 - k
      BY <1>0, <2>1, <2>3
    <3> QED
      BY <1>0, <3>1
  <2> QED
    BY <2>1, <2>2, <2>3, <2>6, <2>7 DEF LastBytes
<1>4. Bad = {}
  <2>1. Bad \in SUBSET Nat
    BY <1>0
  <2> HIDE DEF Bad
  <2> QED
    BY <1>3, <2>1, LeastNumber
<1>5. f[n] = g[n] /\ n \in 0 .. n
  BY <1>0, <1>4
<1>6. f[n + 1] = Cat(EventBytes(s[1]), f[n])
  <2>1. /\ n + 1 \in 0 .. n + 1 /\ n + 1 # 0 /\ n + 1 - 1 = n
        /\ Len(s) + 1 - (n + 1) = 1
    BY <1>0
  <2> QED
    BY <1>1, <2>1 DEF LastBytes
<1> QED
  BY <1>0, <1>1, <1>2, <1>5, <1>6 DEF t

-----------------------------------------------------------------------------
(***************************************************************************)
(* The last bytes of a sysex message, and how they are packed into events. *)
(***************************************************************************)
SysexEnd(s) ==
    /\ s \in Bytes
    /\ \A p \in 1 .. Len(s) :
         /\ s[p] = EOX <=> p = Len(s)
         /\ s[p] < 128 \/ s[p] = EOX \/ (p = 1 /\ s[p] = SYSEX)

\* The events b hold the first n bytes of s.
Packed(b, s, n) ==
    /\ b \in Events
    /\ 4 * Len(b) \in n .. n + 3
    /\ \A k \in 1 .. Len(b), j \in 1 .. 4 :
         b[k][j] = IF 4 * (k - 1) + j <= n THEN s[4 * (k - 1) + j] ELSE 0

LEMMA MessageEnds ==
    ASSUME NEW msg \in SysexMessages
    PROVE  SysexEnd(msg) /\ msg # << >> /\ msg[1] = SYSEX
<1>1. /\ msg \in Seq(Byte) /\ Len(msg) >= 2 /\ Len(msg) \in Nat
      /\ msg[1] = SYSEX /\ msg[Len(msg)] = EOX
      /\ \A k \in 2 .. Len(msg) - 1 : msg[k] < 128 /\ msg[k] \in Byte
  BY SysexMessagesAssumption
<1>2. ASSUME NEW p \in 1 .. Len(msg)
      PROVE  /\ msg[p] = EOX <=> p = Len(msg)
             /\ msg[p] < 128 \/ msg[p] = EOX \/ (p = 1 /\ msg[p] = SYSEX)
  <2>1. CASE p = 1
    BY <1>1, <2>1 DEF EOX, SYSEX
  <2>2. CASE p = Len(msg)
    BY <1>1, <2>2
  <2>3. CASE p # 1 /\ p # Len(msg)
    <3>1. p \in 2 .. Len(msg) - 1
      BY <1>1, <2>3
    <3> QED
      BY <1>1, <2>3, <3>1 DEF EOX, Byte
  <2> QED
    BY <2>1, <2>2, <2>3
<1>3. msg # << >>
  BY <1>1
<1> QED
  BY <1>1, <1>2, <1>3 DEF SysexEnd, Bytes

\* What follows the first b bytes is such an end too, and does not start a message.
LEMMA EndGoesOn ==
    ASSUME NEW s, SysexEnd(s), NEW b \in 1 .. Len(s)
    PROVE  /\ SysexEnd(From(s, b))
           /\ From(s, b) # << >> => From(s, b)[1] # SYSEX
<1>1. /\ s \in Bytes /\ Len(s) \in Nat /\ From(s, b) \in Bytes
      /\ Len(From(s, b)) = Len(s) - b
      /\ \A p \in 1 .. Len(s) - b : From(s, b)[p] = s[b + p]
  BY FromFacts DEF SysexEnd
<1> DEFINE t == From(s, b)
<1>2. ASSUME NEW p \in 1 .. Len(t)
      PROVE  /\ t[p] = s[b + p] /\ b + p \in 2 .. Len(s)
             /\ t[p] = EOX <=> p = Len(t)
             /\ t[p] < 128 \/ t[p] = EOX
  <2>1. t[p] = s[b + p] /\ b + p \in 1 .. Len(s) /\ b + p # 1 /\ (b + p = Len(s) <=> p = Len(t))
    BY <1>1
  <2> HIDE DEF t
  <2> QED
    BY <2>1 DEF SysexEnd
<1>3. t # << >> => 1 \in 1 .. Len(t)
  BY <1>1, EmptySeq DEF Bytes
<1> HIDE DEF t
<1>4. t # << >> => t[1] # SYSEX
  BY <1>2, <1>3 DEF SYSEX, EOX
<1>5. t \in Bytes
  BY <1>1 DEF t
<1> QED
  BY <1>2, <1>4, <1>5 DEF t, SysexEnd

LEMMA EmptyEnd == SysexEnd(<< >>) /\ Packed(<< >>, << >>, 0) /\ From(<< >>, 0) = << >>
<1>1. << >> \in Bytes /\ Len(<< >>) = 0 /\ << >> \in Events
  BY CatFacts DEF Events
<1>2. From(<< >>, 0) = << >>
  BY <1>1, FromFacts
<1> QED
  BY <1>1, <1>2 DEF SysexEnd, Packed

\* What Pm_WriteSysEx hands over next.
LEMMA ChunkIs ==
    ASSUME NEW s \in Bytes, NEW m \in Nat \ {0}
    PROVE  \E n \in 0 .. Len(s) : /\ n % 4 = 0 \/ n = Len(s)
                                  /\ s # << >> => n > 0
                                  /\ Packed(Pack(Chunk(s, m)), s, n)
                                  /\ Remainder(s, m) = From(s, n)
<1> DEFINE n == IF Len(s) < 4 * m THEN Len(s) ELSE 4 * m
           c == SubSeq(s, 1, n)
<1>0. /\ n \in 0 .. Len(s) /\ Len(s) \in Nat
      /\ n % 4 = 0 \/ n = Len(s)
      /\ s # << >> => n > 0
  <2>1. Len(s) \in Nat /\ (s # << >> => Len(s) > 0)
    BY EmptySeq DEF Bytes
  <2>2. (4 * m) % 4 = 0 /\ 4 * m > 0 /\ 4 * m \in Nat
    OBVIOUS
  <2>3. CASE Len(s) < 4 * m
    <3>1. n = Len(s)
      BY <2>3
    <3> HIDE DEF n
    <3> QED
      BY <2>1, <3>1
  <2>4. CASE ~(Len(s) < 4 * m)
    <3>1. n = 4 * m
      BY <2>4
    <3>2. n <= Len(s) /\ n \in Nat
      BY <2>1, <2>2, <2>4, <3>1
    <3> HIDE DEF n
    <3> QED
      BY <2>1, <2>2, <3>1, <3>2
  <2> QED
    BY <2>3, <2>4
<1>1. Chunk(s, m) = c
  BY DEF Chunk
<1>2. Remainder(s, m) = From(s, n)
  <2>1. CASE Len(s) < 4 * m
    <3>1. SubSeq(s, 4 * m + 1, Len(s)) = << >>
      BY <1>0, <2>1, SubSeqEmpty
    <3> QED
      BY <2>1, <3>1, FromFacts DEF Remainder
  <2>2. CASE ~(Len(s) < 4 * m)
    BY <2>2 DEF Remainder, From
  <2> QED
    BY <2>1, <2>2
<1>3. /\ \A p \in 1 .. n : c[p] = s[p] /\ s[p] \in Byte
      /\ Len(c) = n
  <2> HIDE DEF n
  <2>1. \A p \in 1 .. n : s[p] \in Byte
    BY <1>0 DEF Bytes
  <2>2. /\ Len(c) = IF 1 <= n THEN n - 1 + 1 ELSE 0
        /\ \A p \in 1 .. n - 1 + 1 : c[p] = s[1 + p - 1]
    BY <1>0, <2>1, SubSeqProperties
  <2> HIDE DEF c
  <2> QED
    BY <1>0, <2>1, <2>2
<1> HIDE DEF n, c
<1> DEFINE q == (n + 3) \div 4
           b == Pack(c)
<1>4. q \in Nat /\ 4 * q \in n .. n + 3
  BY <1>0
<1>5. b = [k \in 1 .. q |->
              [j \in 1 .. 4 |-> IF 4 * (k - 1) + j <= n THEN c[4 * (k - 1) + j] ELSE 0]]
  BY <1>3 DEF Pack
<1> HIDE DEF q, b
<1>6. ASSUME NEW k \in 1 .. q, NEW j \in 1 .. 4
      PROVE  /\ b[k][j] = IF 4 * (k - 1) + j <= n THEN s[4 * (k - 1) + j] ELSE 0
             /\ b[k][j] \in Byte
  <2>1. b[k][j] = IF 4 * (k - 1) + j <= n THEN c[4 * (k - 1) + j] ELSE 0
    BY <1>5
  <2>2. 0 \in Byte
    BY DEF Byte
  <2>3. CASE 4 * (k - 1) + j <= n
    <3>1. 4 * (k - 1) + j \in 1 .. n
      BY <1>0, <1>4, <2>3
    <3> QED
      BY <1>3, <2>1, <2>3, <3>1
  <2>4. CASE ~(4 * (k - 1) + j <= n)
    BY <2>1, <2>2, <2>4
  <2> QED
    BY <2>3, <2>4
<1>7. b \in Events /\ Len(b) = q
  <2>1. ASSUME NEW k \in 1 .. q PROVE b[k] \in Event
    BY <1>5, <1>6 DEF Event
  <2>2. DOMAIN b = 1 .. q /\ b = [k \in 1 .. q |-> b[k]]
    BY <1>5
  <2>3. b \in [1 .. q -> Event]
    BY <2>1, <2>2
  <2>4. b \in Seq(Event)
    BY <1>4, <2>3
  <2> QED
    BY <1>4, <2>2, <2>4 DEF Events
<1>8. Packed(b, s, n)
  BY <1>4, <1>6, <1>7 DEF Packed
<1> QED
  BY <1>0, <1>1, <1>2, <1>8 DEF b

\* The first of the events, and the others.
LEMMA PackedFirst ==
    ASSUME NEW s, NEW n \in Nat, NEW b, Packed(b, s, n), b # << >>
    PROVE  /\ b[1] \in Event /\ n > 0
           /\ \A j \in 1 .. 4 : b[1][j] = IF j <= n THEN s[j] ELSE 0
<1>1. b \in Seq(Event) /\ Len(b) \in Nat \ {0}
  BY EmptySeq DEF Packed, Events
<1>2. 1 \in 1 .. Len(b) /\ b[1] \in Event
  BY <1>1
<1>3. \A j \in 1 .. 4 : 4 * (1 - 1) + j = j
  OBVIOUS
<1>4. \A j \in 1 .. 4 : b[1][j] = IF 4 * (1 - 1) + j <= n THEN s[4 * (1 - 1) + j] ELSE 0
  BY <1>2 DEF Packed
<1>5. n > 0
  BY <1>1 DEF Packed
<1> QED
  BY <1>2, <1>3, <1>4, <1>5

LEMMA PackedRest ==
    ASSUME NEW s \in Bytes, NEW n \in 4 .. Len(s), NEW b, Packed(b, s, n)
    PROVE  /\ b # << >> /\ Packed(Tail(b), From(s, 4), n - 4)
           /\ From(From(s, 4), n - 4) = From(s, n)
<1>1. b \in Seq(Event) /\ Len(b) \in Nat \ {0}
  BY FromFacts DEF Packed, Events
<1>2. /\ Tail(b) \in Seq(Event) /\ Len(Tail(b)) = Len(b) - 1 /\ b # << >>
      /\ \A k \in 1 .. Len(b) - 1 : Tail(b)[k] = b[k + 1]
  BY <1>1, HeadTailProperties, EmptySeq
<1>3. /\ From(s, 4) \in Bytes /\ Len(From(s, 4)) = Len(s) - 4 /\ Len(s) \in Nat
      /\ \A p \in 1 .. Len(s) - 4 : From(s, 4)[p] = s[4 + p]
  <2>1. Len(s) \in Nat /\ 4 \in 0 .. Len(s)
    BY FromFacts
  <2> QED
    BY <2>1, FromFacts
<1> DEFINE t == Tail(b)
           f == From(s, 4)
<1>4. ASSUME NEW k \in 1 .. Len(t), NEW j \in 1 .. 4
      PROVE  t[k][j] = IF 4 * (k - 1) + j <= n - 4 THEN f[4 * (k - 1) + j] ELSE 0
  <2>1. k + 1 \in 1 .. Len(b) /\ t[k] = b[k + 1] /\ k \in Nat
    BY <1>1, <1>2
  <2>2. t[k][j] = IF 4 * ((k + 1) - 1) + j <= n THEN s[4 * ((k + 1) - 1) + j] ELSE 0
    BY <2>1 DEF Packed
  <2>3. 4 * ((k + 1) - 1) + j = 4 + (4 * (k - 1) + j)
    BY <2>1
  <2>4. CASE 4 * (k - 1) + j <= n - 4
    <3>1. 4 * (k - 1) + j \in 1 .. Len(s) - 4
      BY <1>3, <2>1, <2>4
    <3>2. f[4 * (k - 1) + j] = s[4 + (4 * (k - 1) + j)]
      BY <1>3, <3>1
    <3>3. 4 * ((k + 1) - 1) + j <= n
      BY <2>1, <2>4
    <3> HIDE DEF t, f
    <3> QED
      BY <2>2, <2>3, <2>4, <3>2, <3>3
  <2>5. CASE ~(4 * (k - 1) + j <= n - 4)
    <3>1. ~(4 * ((k + 1) - 1) + j <= n)
      BY <2>1, <2>5
    <3> HIDE DEF t, f
    <3> QED
      BY <2>2, <2>5, <3>1
  <2> QED
    BY <2>4, <2>5
<1>5. 4 * Len(t) \in (n - 4) .. (n - 4) + 3
  <2>1. 4 * Len(b) \in n .. n + 3
    BY DEF Packed
  <2> QED
    BY <1>1, <1>2, <2>1
<1>6. Packed(t, f, n - 4)
  BY <1>2, <1>4, <1>5 DEF Packed, Events
<1>7. From(f, n - 4) = From(s, n)
  <2>1. n - 4 \in 0 .. Len(f) /\ n \in 0 .. Len(s)
    BY <1>3
  <2>2. /\ From(f, n - 4) \in Bytes /\ From(s, n) \in Bytes
        /\ Len(From(f, n - 4)) = Len(f) - (n - 4) /\ Len(From(s, n)) = Len(s) - n
        /\ \A p \in 1 .. Len(f) - (n - 4) : From(f, n - 4)[p] = f[n - 4 + p]
        /\ \A p \in 1 .. Len(s) - n : From(s, n)[p] = s[n + p]
    BY <1>3, <2>1, FromFacts
  <2> DEFINE x == From(f, n - 4)
             y == From(s, n)
  <2>3. Len(x) = Len(y) /\ Len(x) = Len(s) - n
    BY <1>3, <2>2
  <2>4. ASSUME NEW p \in 1 .. Len(x) PROVE x[p] = y[p]
    <3>1. /\ p \in 1 .. Len(f) - (n - 4) /\ p \in 1 .. Len(s) - n
          /\ n - 4 + p \in 1 .. Len(s) - 4 /\ 4 + (n - 4 + p) = n + p
      BY <1>3, <2>3
    <3> QED
      BY <1>3, <2>2, <3>1
  <2> HIDE DEF x, y
  <2>5. x = y
    BY <2>2, <2>3, <2>4, SeqEqual DEF x, y, Bytes
  <2> QED
    BY <2>5 DEF x, y
<1> QED
  BY <1>2, <1>6, <1>7

LEMMA PackedLast ==
    ASSUME NEW s, NEW n \in 1 .. 4, NEW b, Packed(b, s, n)
    PROVE  b # << >> /\ Tail(b) = << >>
<1>1. b \in Seq(Event) /\ Len(b) \in Nat /\ 4 * Len(b) \in n .. n + 3
  BY DEF Packed, Events
<1>2. Len(b) = 1
  <2>1. \A x \in Nat : 4 * x >= 1 /\ 4 * x <= 7 => x = 1
    OBVIOUS
  <2>2. 4 * Len(b) >= 1 /\ 4 * Len(b) <= 7
    BY <1>1
  <2> QED
    BY <1>1, <2>1, <2>2
<1>3. b # << >> /\ Tail(b) \in Seq(Event) /\ Len(Tail(b)) = 0
  BY <1>1, <1>2, HeadTailProperties, EmptySeq
<1> QED
  BY <1>3, EmptySeq

-----------------------------------------------------------------------------
(***************************************************************************)
(* Lists of events.                                                        *)
(***************************************************************************)
LEMMA ProperTail ==
    ASSUME NEW s \in Events, s # << >>, NEW on \in BOOLEAN, Proper(s, on)
    PROVE  Takes(s[1], on) /\ Proper(Tail(s), OnAfter(s[1], on))
<1>1. PICK f \in [0 .. Len(s) -> BOOLEAN] :
         /\ f[0] = on
         /\ \A k \in 1 .. Len(s) : Takes(s[k], f[k - 1]) /\ f[k] = OnAfter(s[k], f[k - 1])
  BY DEF Proper
<1>2. /\ Len(s) \in Nat \ {0} /\ Len(Tail(s)) = Len(s) - 1
      /\ \A k \in 1 .. Len(s) - 1 : Tail(s)[k] = s[k + 1]
  BY HeadTailProperties, EmptySeq DEF Events
<1>3. Takes(s[1], on) /\ f[1] = OnAfter(s[1], on)
  <2>1. 1 \in 1 .. Len(s) /\ 1 - 1 = 0
    BY <1>2
  <2> QED
    BY <1>1, <2>1
<1> DEFINE g == [k \in 0 .. Len(s) - 1 |-> f[k + 1]]
           t == Tail(s)
<1>4. g \in [0 .. Len(t) -> BOOLEAN] /\ g[0] = OnAfter(s[1], on)
  BY <1>2, <1>3
<1>5. ASSUME NEW k \in 1 .. Len(t)
      PROVE  Takes(t[k], g[k - 1]) /\ g[k] = OnAfter(t[k], g[k - 1])
  <2>1. /\ k + 1 \in 1 .. Len(s) /\ t[k] = s[k + 1] /\ k + 1 - 1 = k
        /\ g[k - 1] = f[k] /\ g[k] = f[k + 1]
    BY <1>2
  <2> HIDE DEF g, t
  <2> QED
    BY <1>1, <2>1
<1> HIDE DEF g
<1>6. Proper(t, OnAfter(s[1], on))
  BY <1>4, <1>5 DEF Proper
<1> QED
  BY <1>3, <1>6
-----------------------------------------------------------------------------
(***************************************************************************)
(* The inductive invariant: what the call still owes the device, for a     *)
(* call of Pm_Write and for one of Pm_WriteSysEx.                          *)
(***************************************************************************)
InData(b) == b < 128 \/ b = EOX

\* After its first byte an event holds data bytes, or the end of the message.
Filled(events) == \A k \in 1 .. Len(events), j \in 2 .. 4 : InData(events[k][j])

OutType ==
    /\ sysex_in_progress \in BOOLEAN /\ receiver \in BOOLEAN
    /\ headless \in BOOLEAN /\ embedded \in BOOLEAN /\ left \in BOOLEAN /\ whole \in BOOLEAN
    /\ opc \in {"idle", "event", "bytes"}
    /\ wire \in Bytes /\ given \in Bytes
    /\ buffer \in Events /\ Filled(buffer)

\* In the loop over the bytes of an event.
LoopInv ==
    opc = "bytes" =>
        /\ buffer # << >> /\ Begun(buffer[1], bits) /\ sysex_in_progress
        /\ \A j \in bits + 1 .. 4 : InData(buffer[1][j]) \/ IsRealTime(buffer[1][j])

Owes(bytes) == ~embedded => given = Cat(wire, bytes)

\* A list of whole messages comes to a stream that was in step with it.
Fits == whole /\ ~left

\* At an event of Pm_Write.
ListAt ==
    /\ rest = << >>
    /\ Owes(BytesOf(buffer))
    /\ Fits => Proper(buffer, sysex_in_progress)

\* In the loop of Pm_Write, b bytes of the event written.
ListLoop(b) ==
    /\ rest = << >>
    /\ Owes(Cat(From(EventBytes(buffer[1]), b), BytesOf(Tail(buffer))))
    /\ ~embedded => ~IsShort(buffer[1])
    /\ Fits => Proper(Tail(buffer), ~HasEox(buffer[1]))

\* Pm_WriteSysEx: s is the message from the current event on, the first n bytes of it
\* are in the buffer.
SysexHeld(s, n) ==
    /\ SysexEnd(s) /\ n \in 0 .. Len(s) /\ (n % 4 = 0 \/ n = Len(s))
    /\ Packed(buffer, s, n) /\ rest = From(s, n)
    /\ ~embedded

SysexAt(s, n) ==
    /\ SysexHeld(s, n)
    /\ given = Cat(wire, s)
    /\ ~left => (sysex_in_progress <=> s # << >> /\ s[1] # SYSEX)

SysexLoop(s, n, b) ==
    /\ SysexHeld(s, n)
    /\ given = Cat(wire, From(s, b))

AtCall == ListAt \/ \E s \in Bytes, n \in Nat : SysexAt(s, n)
LoopCall(b) == ListLoop(b) \/ \E s \in Bytes, n \in Nat : SysexLoop(s, n, b)

CallInv ==
    /\ opc = "event" => AtCall
    /\ opc = "bytes" => LoopCall(bits)

IdleInv ==
    opc = "idle" =>
        /\ ~embedded => IsPrefix(wire, given) /\ (ret = "NoError" => wire = given)
        /\ ret = "BadData" => ~sysex_in_progress /\ (whole => left)

OutInv == OutType /\ LoopInv /\ CallInv /\ IdleInv /\ InStep

-----------------------------------------------------------------------------
(***************************************************************************)
(* Writes to the device.                                                   *)
(***************************************************************************)
LEMMA PutType ==
    ASSUME NEW x \in Bytes, wire \in Bytes, Put(x)
    PROVE  wire' \in Bytes /\ wire' = Cat(wire, x) /\ receiver' \in BOOLEAN
<1>1. wire' = Cat(wire, x)
  BY DEF Put, Cat
<1>2. receiver' \in BOOLEAN
  BY DEF Put, Hears
<1> QED
  BY <1>1, <1>2, CatFacts

\* Of the bytes owed, x and then y, the device has taken x.
LEMMA PutOwed ==
    ASSUME NEW x \in Bytes, NEW y \in Bytes, wire \in Bytes, Put(x),
           given = Cat(wire, Cat(x, y)), given' = given
    PROVE  given' = Cat(wire', y)
  BY PutType, CatFacts

LEMMA OwedIsPrefix ==
    ASSUME NEW y \in Bytes, wire \in Bytes, given = Cat(wire, y)
    PROVE  IsPrefix(wire, given)
  BY PrefixFacts

\* The device has taken less than x.
LEMMA FailOwed ==
    ASSUME NEW x \in Bytes, NEW y \in Bytes, wire \in Bytes, WriteFails(x)
    PROVE  /\ wire' \in Bytes /\ receiver' \in BOOLEAN
           /\ given = Cat(wire, Cat(x, y)) => IsPrefix(wire', given)
<1>1. PICK n \in 0 .. Len(x) - 1 : Put(SubSeq(x, 1, n))
  BY DEF WriteFails
<1>2. n \in 0 .. Len(x) /\ SubSeq(x, 1, n) \in Bytes /\ x = Cat(SubSeq(x, 1, n), From(x, n))
      /\ From(x, n) \in Bytes
  <2>1. n \in 0 .. Len(x)
    BY <1>1, FromFacts
  <2> QED
    BY <2>1, FirstBytes, FromFacts
<1>3. wire' \in Bytes /\ wire' = Cat(wire, SubSeq(x, 1, n)) /\ receiver' \in BOOLEAN
  BY <1>1, <1>2, PutType
<1> DEFINE z == SubSeq(x, 1, n)
<1>4. ASSUME given = Cat(wire, Cat(x, y)) PROVE IsPrefix(wire', given)
  <2>1. Cat(x, y) = Cat(z, Cat(From(x, n), y)) /\ Cat(From(x, n), y) \in Bytes
    <3> HIDE DEF z
    <3>1. x = Cat(z, From(x, n)) /\ z \in Bytes
      BY <1>2 DEF z
    <3> QED
      BY <1>2, <3>1, CatFacts
  <2>2. given = Cat(wire', Cat(From(x, n), y))
    <3>1. given = Cat(wire, Cat(z, Cat(From(x, n), y)))
      BY <1>4, <2>1
    <3> HIDE DEF z
    <3>2. z \in Bytes /\ wire' = Cat(wire, z)
      BY <1>2, <1>3 DEF z
    <3> QED
      BY <2>1, <3>1, <3>2, CatFacts
  <2> QED
    BY <1>3, <2>1, <2>2, PrefixFacts
<1> QED
  BY <1>3, <1>4

\* Data and real-time messages leave the device where it is, in a sysex message or not.
LEMMA HearsNothing ==
    ASSUME NEW x \in Bytes, \A k \in 1 .. Len(x) : (InData(x[k]) /\ x[k] # EOX) \/ IsRealTime(x[k])
    PROVE  Hears(x) <=> receiver
<1>0. ASSUME NEW k \in 1 .. Len(x) PROVE x[k] \in Int
  <2>1. x[k] \in Byte
    BY DEF Bytes
  <2>2. \A b \in Byte : b \in Int
    BY DEF Byte
  <2> QED
    BY <2>1, <2>2, Zenon
<1>1. \A k \in 1 .. Len(x) : ~(IsStatus(x[k]) /\ ~IsRealTime(x[k]))
  BY <1>0 DEF InData, IsStatus, IsRealTime
<1>2. {k \in 1 .. Len(x) : IsStatus(x[k]) /\ ~IsRealTime(x[k])} = {}
  BY <1>1
<1> QED
  BY <1>2 DEF Hears

LEMMA HearsSysex == Hears(<<SYSEX>>)
<1> DEFINE status == {k \in 1 .. Len(<<SYSEX>>) : IsStatus(<<SYSEX>>[k]) /\ ~IsRealTime(<<SYSEX>>[k])}
<1>1. status = {1}
  BY DEF IsStatus, IsRealTime, SYSEX
<1>2. <<SYSEX>>[1] = SYSEX
  OBVIOUS
<1> HIDE DEF status
<1>3. 1 \in status /\ \A j \in status : j <= 1
  BY <1>1
<1> QED
  BY <1>2, <1>3 DEF Hears, status

\* A write of one byte that fails writes nothing.
LEMMA FailOne ==
    ASSUME NEW b \in Byte, wire \in Bytes, receiver \in BOOLEAN, WriteFails(<<b>>)
    PROVE  wire' = wire /\ receiver' = receiver /\ Returns("HostError")
<1>1. PICK n \in 0 .. Len(<<b>>) - 1 : Put(SubSeq(<<b>>, 1, n))
  BY DEF WriteFails
<1>2. n = 0
  OBVIOUS
<1>3. SubSeq(<<b>>, 1, 0) = << >>
  BY SubSeqEmpty
<1>4. wire' = Cat(wire, << >>) /\ receiver' = Hears(<< >>)
  BY <1>1, <1>2, <1>3 DEF Put, Cat
<1>5. Hears(<< >>) <=> receiver
  <2>1. \A k \in 1 .. Len(<< >>) : FALSE
    OBVIOUS
  <2> QED
    BY <2>1, CatFacts, HearsNothing
<1>6. Hears(<< >>) \in BOOLEAN
  BY DEF Hears
<1> QED
  BY <1>4, <1>5, <1>6, CatFacts DEF WriteFails

-----------------------------------------------------------------------------
(***************************************************************************)
(* The events in the buffer.                                               *)
(***************************************************************************)
LEMMA FirstEvent ==
    ASSUME NEW b \in Events, Filled(b), b # << >>
    PROVE  /\ b[1] \in Event /\ Tail(b) \in Events /\ Filled(Tail(b))
           /\ \A j \in 1 .. 4 : b[1][j] \in Byte
           /\ \A j \in 2 .. 4 : InData(b[1][j])
<1>1. /\ Len(b) \in Nat \ {0} /\ Len(Tail(b)) = Len(b) - 1
      /\ Tail(b) \in Events /\ b[1] \in Event
      /\ \A k \in 1 .. Len(b) - 1 : Tail(b)[k] = b[k + 1]
  BY HeadTailProperties, EmptySeq, ElementOfSeq DEF Events
<1>2. ASSUME NEW k \in 1 .. Len(Tail(b)), NEW j \in 2 .. 4
      PROVE  InData(Tail(b)[k][j])
  <2>1. k + 1 \in 1 .. Len(b) /\ Tail(b)[k] = b[k + 1]
    BY <1>1
  <2> QED
    BY <2>1 DEF Filled
<1>3. 1 \in 1 .. Len(b)
  BY <1>1
<1> QED
  BY <1>1, <1>2, <1>3 DEF Filled, Event

LEMMA EmptyBuffer == << >> \in Events /\ Filled(<< >>) /\ BytesOf(<< >>) = << >>
<1>1. << >> \in Events /\ Len(<< >>) = 0
  BY DEF Events
<1> QED
  BY <1>1, BytesOfEmpty DEF Filled

\* The buffers of Pm_WriteSysEx.
LEMMA PackedFilled ==
    ASSUME NEW s, NEW n \in 0 .. Len(s), NEW b, SysexEnd(s), Packed(b, s, n)
    PROVE  b \in Events /\ Filled(b)
<1>1. b \in Events /\ Len(b) \in Nat
  BY DEF Packed, Events
<1>2. ASSUME NEW k \in 1 .. Len(b), NEW j \in 2 .. 4
      PROVE  InData(b[k][j])
  <2>0. j \in 1 .. 4
    OBVIOUS
  <2>1. b[k][j] = IF 4 * (k - 1) + j <= n THEN s[4 * (k - 1) + j] ELSE 0
    BY <2>0 DEF Packed
  <2>2. CASE 4 * (k - 1) + j <= n
    <3>1. Len(s) \in Nat
      BY FromFacts DEF SysexEnd
    <3>2. 4 * (k - 1) + j \in 1 .. Len(s) /\ 4 * (k - 1) + j # 1
      BY <1>1, <2>2, <3>1
    <3>3. s[4 * (k - 1) + j] < 128 \/ s[4 * (k - 1) + j] = EOX
      BY <3>2 DEF SysexEnd
    <3> QED
      BY <2>1, <2>2, <3>3 DEF InData
  <2>3. CASE ~(4 * (k - 1) + j <= n)
    <3>1. b[k][j] = 0
      BY <2>1, <2>3
    <3> QED
      BY <3>1 DEF InData
  <2> QED
    BY <2>2, <2>3
<1> QED
  BY <1>1, <1>2 DEF Filled

\* Pm_WriteSysEx is at an event: its first byte is the next of the message.
LEMMA SysexEvent ==
    ASSUME NEW s, NEW n, SysexHeld(s, n), buffer # << >>
    PROVE  /\ s \in Bytes /\ Len(s) \in Nat /\ n \in 1 .. Len(s) /\ s # << >>
           /\ buffer[1][1] = s[1] /\ (InData(s[1]) \/ s[1] = SYSEX)
           /\ s[1] = EOX <=> Len(s) = 1
<1>1. s \in Bytes /\ Len(s) \in Nat /\ n \in 0 .. Len(s) /\ n \in Nat
  BY FromFacts DEF SysexHeld, SysexEnd
<1>2. n > 0 /\ \A j \in 1 .. 4 : buffer[1][j] = IF j <= n THEN s[j] ELSE 0
  BY <1>1, PackedFirst DEF SysexHeld
<1>3. buffer[1][1] = s[1]
  <2>1. 1 \in 1 .. 4 /\ 1 <= n
    BY <1>1, <1>2
  <2> QED
    BY <1>2, <2>1
<1>4. 1 \in 1 .. Len(s)
  BY <1>1, <1>2
<1>5. (InData(s[1]) \/ s[1] = SYSEX) /\ (s[1] = EOX <=> Len(s) = 1)
  BY <1>4 DEF SysexHeld, SysexEnd, InData
<1>6. s # << >>
  BY <1>1, <1>2
<1> QED
  BY <1>1, <1>2, <1>3, <1>5, <1>6

\* It is in the loop, b bytes of the event written: so is the next byte.
LEMMA SysexLoopByte ==
    ASSUME NEW s, NEW n, SysexHeld(s, n), buffer # << >>, NEW b \in 0 .. 3,
           Begun(buffer[1], b)
    PROVE  b + 1 \in 1 .. n /\ buffer[1][b + 1] = s[b + 1]
<1>1. s \in Bytes /\ Len(s) \in Nat /\ n \in 1 .. Len(s)
  BY SysexEvent
<1>2. \A j \in 1 .. 4 : buffer[1][j] = IF j <= n THEN s[j] ELSE 0
  BY <1>1, PackedFirst DEF SysexHeld
<1>3. ASSUME n <= b PROVE FALSE
  <2>1. n \in 1 .. 3 /\ n \in 1 .. b
    BY <1>1, <1>3
  <2>2. n = Len(s)
    BY <2>1 DEF SysexHeld
  <2>3. s[n] = EOX
    BY <1>1, <2>2 DEF SysexHeld, SysexEnd
  <2>4. buffer[1][n] = s[n]
    BY <1>2, <2>1
  <2> QED
    BY <2>1, <2>3, <2>4 DEF Begun
<1>4. b + 1 \in 1 .. n /\ b + 1 \in 1 .. 4
  BY <1>1, <1>3
<1> QED
  BY <1>2, <1>4

-----------------------------------------------------------------------------
(***************************************************************************)
(* The steps of a call.                                                    *)
(***************************************************************************)
\* What a step of a call never changes.
Call == UNCHANGED history

LEMMA Returned ==
    ASSUME NEW r, OutType, Returns(r), Call,
           wire' \in Bytes, receiver' \in BOOLEAN, headless' \in BOOLEAN,
           embedded' \in BOOLEAN, sysex_in_progress' \in BOOLEAN,
           ~embedded' => IsPrefix(wire', given) /\ (r = "NoError" => wire' = given),
           r = "BadData" => ~sysex_in_progress' /\ ~Fits,
           InStep'
    PROVE  OutInv'
<1>1. opc' = "idle" /\ buffer' = << >> /\ ret' = r
  BY DEF Returns
<1>2. given' = given /\ left' = left /\ whole' = whole
  BY DEF Call, history
<1>3. OutType'
  BY <1>1, <1>2, EmptyBuffer DEF OutType
<1>4. LoopInv' /\ CallInv'
  BY <1>1 DEF LoopInv, CallInv
<1>5. IdleInv'
  BY <1>1, <1>2 DEF IdleInv, Fits, OutType
<1> QED
  BY <1>3, <1>4, <1>5 DEF OutInv

\* At an event, what has been written is a part of what was given.
LEMMA EventOwed ==
    ASSUME OutInv, opc = "event"
    PROVE  ~embedded => IsPrefix(wire, given)
<1>1. CASE ListAt
  <2>1. buffer \in Events /\ wire \in Bytes /\ BytesOf(buffer) \in Bytes
    BY BytesOfType DEF OutInv, OutType
  <2> QED
    BY <1>1, <2>1, OwedIsPrefix DEF ListAt, Owes
<1>2. CASE \E s \in Bytes, n \in Nat : SysexAt(s, n)
  <2>1. PICK s \in Bytes, n \in Nat : SysexAt(s, n)
    BY <1>2
  <2> QED
    BY <2>1, OwedIsPrefix DEF SysexAt, OutInv, OutType
<1> QED
  BY <1>1, <1>2 DEF OutInv, CallInv, AtCall

\* Whole messages are not refused on a stream that was in step with them.
LEMMA Refused ==
    ASSUME OutInv, AtEvent, SysexUnterminated \/ StatusInSysex \/ DataAlone
    PROVE  ~Fits
<1> USE DEF AtEvent
<1>0. /\ buffer \in Events /\ buffer # << >> /\ opc = "event" /\ sysex_in_progress \in BOOLEAN
      /\ Next4 = buffer[1]
  BY DEF OutInv, OutType, Next4
<1>1. \/ buffer[1][1] = SYSEX /\ sysex_in_progress
      \/ /\ IsStatus(buffer[1][1]) /\ buffer[1][1] \notin {SYSEX, EOX}
         /\ ~IsRealTime(buffer[1][1]) /\ sysex_in_progress
      \/ (~IsStatus(buffer[1][1]) \/ buffer[1][1] = EOX) /\ ~sysex_in_progress
  BY <1>0 DEF SysexUnterminated, StatusInSysex, OtherStatus, DataAlone, DataOrEox
<1>2. ASSUME ListAt, Fits PROVE FALSE
  <2>1. Proper(buffer, sysex_in_progress)
    BY <1>0, <1>2 DEF ListAt
  <2>2. Takes(buffer[1], sysex_in_progress)
    BY <1>0, <2>1, ProperTail
  <2>3. IsStatus(SYSEX) /\ ~IsRealTime(SYSEX) /\ SYSEX # EOX
    BY DEF IsStatus, IsRealTime, SYSEX, EOX
  <2> QED
    BY <1>1, <2>2, <2>3 DEF Takes
<1>3. ASSUME \E s \in Bytes, n \in Nat : SysexAt(s, n), Fits PROVE FALSE
  <2>1. PICK s \in Bytes, n \in Nat : SysexAt(s, n)
    BY <1>3
  <2>2. buffer[1][1] = s[1] /\ s # << >> /\ (InData(s[1]) \/ s[1] = SYSEX) /\ s[1] \in Int
    <3>1. 1 \in 1 .. Len(s) /\ s[1] \in Byte
      BY <1>0, <2>1, SysexEvent DEF SysexAt, Bytes
    <3> QED
      BY <1>0, <2>1, <3>1, SysexEvent DEF SysexAt, Byte
  <2>3. sysex_in_progress <=> s[1] # SYSEX
    BY <1>0, <1>3, <2>1, <2>2 DEF SysexAt, Fits
  <2> QED
    BY <1>1, <2>2, <2>3 DEF InData, IsStatus, SYSEX, EOX
<1> QED
  BY <1>0, <1>2, <1>3 DEF OutInv, CallInv, AtCall

LEMMA RefusedStep ==
    ASSUME OutInv, SysexUnterminated \/ StatusInSysex \/ DataAlone
    PROVE  OutInv'
<1>1. /\ AtEvent /\ opc = "event" /\ Returns("BadData") /\ Call /\ sysex_in_progress' = FALSE
      /\ UNCHANGED <<wire, receiver, embedded, headless>>
  BY DEF SysexUnterminated, StatusInSysex, DataAlone, AtEvent, OtherStatus, DataOrEox, Call,
         stream, OutInv, OutType
<1>2. ~Fits
  BY <1>1, Refused
<1>3. ~embedded => IsPrefix(wire, given)
  BY <1>1, EventOwed
<1>4. InStep'
  BY <1>1 DEF InStep
<1> QED
  BY <1>1, <1>2, <1>3, <1>4, Returned DEF OutInv, OutType

LEMMA ReturnStep == ASSUME OutInv, WriteReturns PROVE OutInv'
<1>1. /\ opc = "event" /\ Returns("NoError") /\ Call /\ UNCHANGED sysex_in_progress
      /\ UNCHANGED <<wire, receiver, embedded, headless>>
      /\ buffer = << >> /\ rest = << >>
  BY DEF WriteReturns, Call, stream
<1>2. ~embedded => wire = given
  <2>0. wire \in Bytes
    BY DEF OutInv, OutType
  <2>1. CASE ListAt
    BY <1>1, <2>0, <2>1, BytesOfEmpty, CatFacts DEF ListAt, Owes
  <2>2. CASE \E s \in Bytes, n \in Nat : SysexAt(s, n)
    <3>1. PICK s \in Bytes, n \in Nat : SysexAt(s, n)
      BY <2>2
    <3>2. s = << >>
      <4>1. n = 0
        <5>1. 4 * Len(buffer) \in n .. n + 3 /\ Len(buffer) = 0
          BY <1>1, <3>1 DEF SysexAt, SysexHeld, Packed
        <5> QED
          BY <5>1
      <4> QED
        BY <1>1, <3>1, <4>1, FromFacts DEF SysexAt, SysexHeld
    <3> QED
      BY <1>1, <2>0, <3>1, <3>2, CatFacts DEF SysexAt
  <2> QED
    BY <1>1, <2>1, <2>2 DEF OutInv, CallInv, AtCall
<1>3. ~embedded => IsPrefix(wire, given)
  BY <1>1, EventOwed
<1>4. InStep'
  BY <1>1 DEF InStep, OutInv
<1>5. "NoError" # "BadData"
  OBVIOUS
<1> QED
  BY <1>1, <1>2, <1>3, <1>4, <1>5, Returned DEF OutInv, OutType

\* The calls start with what they owe.
LEMMA IdleStep ==
    ASSUME OutInv, OpenOutput(TRUE) \/ OpenOutput(FALSE) \/ Close \/ HasHostError \/ GetHostErrorText
    PROVE  OutInv'
<1>1. /\ opc' = "idle" /\ opc = "idle" /\ buffer' = buffer
      /\ UNCHANGED <<left, whole, embedded, headless>>
  BY DEF OpenOutput, Close, HasHostError, GetHostErrorText, call, history
<1>2. \/ wire' = << >> /\ given' = << >>
      \/ UNCHANGED <<wire, given>>
  BY DEF OpenOutput, Close, HasHostError, GetHostErrorText, call, history
<1>3. /\ ret' \notin {"BadData"}
      /\ ret' = "NoError" => wire' = << >> /\ given' = << >>
  BY DEF OpenOutput, Close, HasHostError, GetHostErrorText
<1>4. /\ sysex_in_progress' \in BOOLEAN /\ receiver' \in BOOLEAN
      /\ sysex_in_progress' => sysex_in_progress /\ receiver' = receiver
  <2>1. \/ sysex_in_progress' = FALSE /\ (receiver' = FALSE \/ receiver' = receiver)
        \/ sysex_in_progress' = sysex_in_progress /\ receiver' = receiver
    BY DEF OpenOutput, Close, HasHostError, GetHostErrorText, stream
  <2>2. sysex_in_progress \in BOOLEAN /\ receiver \in BOOLEAN
    BY DEF OutInv, OutType
  <2>3. CASE sysex_in_progress' = FALSE /\ (receiver' = FALSE \/ receiver' = receiver)
    <3>1. sysex_in_progress' \in BOOLEAN /\ receiver' \in BOOLEAN
      BY <2>2, <2>3
    <3>2. ~sysex_in_progress'
      BY <2>3
    <3> QED
      BY <3>1, <3>2
  <2>4. CASE sysex_in_progress' = sysex_in_progress /\ receiver' = receiver
    BY <2>2, <2>4
  <2> QED
    BY <2>1, <2>3, <2>4
<1>5. << >> \in Bytes /\ IsPrefix(<< >>, << >>)
  BY CatFacts, PrefixFacts
<1>6. OutType'
  BY <1>1, <1>2, <1>4, <1>5 DEF OutInv, OutType
<1>7. LoopInv' /\ CallInv'
  BY <1>1 DEF LoopInv, CallInv
<1>8. IdleInv'
  BY <1>1, <1>2, <1>3, <1>5 DEF OutInv, IdleInv
<1>9. InStep'
  BY <1>1, <1>4 DEF OutInv, InStep
<1> QED
  BY <1>6, <1>7, <1>8, <1>9 DEF OutInv

-----------------------------------------------------------------------------
(***************************************************************************)
(* The loop over the bytes of an event.                                    *)
(***************************************************************************)
\* Pm_Write enters it with the event owed from its first byte on.
LEMMA LoopEnter ==
    ASSUME OutType, buffer # << >>, AtCall,
           \/ buffer[1][1] = SYSEX /\ ~sysex_in_progress
           \/ (~IsStatus(buffer[1][1]) \/ buffer[1][1] = EOX) /\ sysex_in_progress
    PROVE  LoopCall(0)
<1>0. /\ buffer[1] \in Event /\ Tail(buffer) \in Events /\ ~IsShort(buffer[1])
      /\ BytesOf(Tail(buffer)) \in Bytes /\ EventBytes(buffer[1]) \in Bytes
  BY FirstEvent, BytesOfType, EventBytesType DEF OutType, IsShort
<1>1. ASSUME ListAt PROVE ListLoop(0)
  <2>1. BytesOf(buffer) = Cat(From(EventBytes(buffer[1]), 0), BytesOf(Tail(buffer)))
    BY <1>0, BytesOfTail, FromFacts DEF OutType
  <2>2. OnAfter(buffer[1], sysex_in_progress) = ~HasEox(buffer[1])
    BY DEF OnAfter, HasEox
  <2>3. Fits => Proper(Tail(buffer), ~HasEox(buffer[1]))
    BY <1>1, <2>2, ProperTail DEF ListAt, OutType
  <2> QED
    BY <1>0, <1>1, <2>1, <2>3 DEF ListAt, ListLoop
<1>2. ASSUME NEW s \in Bytes, NEW n \in Nat, SysexAt(s, n) PROVE SysexLoop(s, n, 0)
  BY <1>2, FromFacts DEF SysexAt, SysexLoop
<1> QED
  BY <1>1, <1>2 DEF AtCall, LoopCall

\* The next byte goes out.
LEMMA LoopPut ==
    ASSUME OutType, buffer # << >>, NEW b \in 0 .. 3, Begun(buffer[1], b), LoopCall(b),
           buffer[1][b + 1] # EOX,
           Put(<<buffer[1][b + 1]>>), Call, UNCHANGED <<buffer, rest, embedded>>
    PROVE  LoopCall(b + 1)'
<1> DEFINE e == buffer[1]
           x == <<e[b + 1]>>
           t == BytesOf(Tail(buffer))
<1>0. /\ e \in Event /\ x \in Bytes /\ t \in Bytes /\ wire \in Bytes /\ given' = given
      /\ left' = left /\ whole' = whole
  <2>1. e \in Event /\ Tail(buffer) \in Events /\ e[b + 1] \in Byte
    BY FirstEvent DEF OutType
  <2>2. x \in Bytes
    <3> HIDE DEF e
    <3> QED
      BY <2>1, CatFacts
  <2> QED
    BY <2>1, <2>2, BytesOfType DEF Call, history, OutType
<1>1. ASSUME ListLoop(b) PROVE ListLoop(b + 1)'
  <2> DEFINE f == From(EventBytes(e), b + 1)
  <2>1. ASSUME ~embedded PROVE given' = Cat(wire', Cat(f, t))
    <3>1. ~IsShort(e)
      BY <1>1, <2>1 DEF ListLoop
    <3>2. From(EventBytes(e), b) = Cat(x, f) /\ f \in Bytes
      BY <1>0, <3>1, LoopByte
    <3>3. given = Cat(wire, Cat(Cat(x, f), t))
      BY <1>1, <2>1, <3>2 DEF ListLoop, Owes
    <3> HIDE DEF x, f, t
    <3>4. given = Cat(wire, Cat(x, Cat(f, t))) /\ Cat(f, t) \in Bytes
      BY <1>0, <3>2, <3>3, CatFacts
    <3>5. Put(x)
      BY DEF x
    <3> QED
      BY <1>0, <3>4, <3>5, PutOwed
  <2> QED
    BY <1>0, <1>1, <2>1 DEF ListLoop, Owes, Fits
<1>2. ASSUME NEW s \in Bytes, NEW n \in Nat, SysexLoop(s, n, b)
      PROVE  SysexLoop(s, n, b + 1)'
  <2>1. b + 1 \in 1 .. n /\ x = <<s[b + 1]>> /\ n \in 0 .. Len(s) /\ Len(s) \in Nat
    BY <1>2, SysexLoopByte, FromFacts DEF SysexLoop, SysexHeld
  <2>2. b \in 0 .. Len(s) - 1 /\ b + 1 \in 0 .. Len(s)
    BY <2>1
  <2>3. From(s, b) = Cat(x, From(s, b + 1)) /\ From(s, b + 1) \in Bytes
    BY <2>1, <2>2, FromFacts
  <2>4. given' = Cat(wire', From(s, b + 1))
    <3>1. given = Cat(wire, Cat(x, From(s, b + 1)))
      BY <1>2, <2>3 DEF SysexLoop
    <3>2. Put(x)
      OBVIOUS
    <3> HIDE DEF x
    <3> QED
      BY <1>0, <2>3, <3>1, <3>2, PutOwed
  <2> QED
    BY <1>2, <2>4 DEF SysexLoop, SysexHeld
<1> QED
  BY <1>1, <1>2 DEF LoopCall

\* The byte is among those that are owed.
LEMMA LoopOwed ==
    ASSUME OutType, buffer # << >>, NEW b \in 0 .. 3, Begun(buffer[1], b), LoopCall(b)
    PROVE  \E y \in Bytes : Owes(Cat(<<buffer[1][b + 1]>>, y))
<1> DEFINE e == buffer[1]
           x == <<e[b + 1]>>
           t == BytesOf(Tail(buffer))
<1>0. e \in Event /\ x \in Bytes /\ t \in Bytes /\ wire \in Bytes
  <2>1. e \in Event /\ Tail(buffer) \in Events /\ e[b + 1] \in Byte
    BY FirstEvent DEF OutType
  <2>2. x \in Bytes
    <3> HIDE DEF e
    <3> QED
      BY <2>1, CatFacts
  <2> QED
    BY <2>1, <2>2, BytesOfType DEF OutType
<1>1. CASE embedded
  BY <1>1, CatFacts DEF Owes
<1>2. ASSUME ListLoop(b), ~embedded PROVE \E y \in Bytes : Owes(Cat(x, y))
  <2>1. ~IsShort(e)
    BY <1>2 DEF ListLoop
  <2>2. \E f \in Bytes : From(EventBytes(e), b) = Cat(x, f)
    <3>1. CASE e[b + 1] # EOX
      BY <1>0, <2>1, <3>1, LoopByte
    <3>2. CASE e[b + 1] = EOX
      <4>1. From(EventBytes(e), b) = x
        BY <1>0, <2>1, <3>2, LoopEox
      <4> HIDE DEF x
      <4> QED
        BY <1>0, <4>1, CatFacts
    <3> QED
      BY <3>1, <3>2
  <2>3. PICK f \in Bytes : From(EventBytes(e), b) = Cat(x, f)
    BY <2>2
  <2>4. given = Cat(wire, Cat(Cat(x, f), t))
    BY <1>2, <2>3 DEF ListLoop, Owes
  <2> HIDE DEF x, t
  <2>5. given = Cat(wire, Cat(x, Cat(f, t))) /\ Cat(f, t) \in Bytes
    BY <1>0, <2>4, CatFacts
  <2> QED
    BY <2>5 DEF Owes
<1>3. ASSUME NEW s \in Bytes, NEW n \in Nat, SysexLoop(s, n, b)
      PROVE  \E y \in Bytes : Owes(Cat(x, y))
  <2>1. b + 1 \in 1 .. n /\ x = <<s[b + 1]>> /\ n \in 0 .. Len(s) /\ Len(s) \in Nat
    BY <1>3, SysexLoopByte, FromFacts DEF SysexLoop, SysexHeld
  <2>2. b \in 0 .. Len(s) - 1 /\ b + 1 \in 0 .. Len(s)
    BY <2>1
  <2>3. From(s, b) = Cat(x, From(s, b + 1)) /\ From(s, b + 1) \in Bytes
    BY <2>1, <2>2, FromFacts
  <2>4. given = Cat(wire, Cat(x, From(s, b + 1)))
    BY <1>3, <2>3 DEF SysexLoop
  <2> HIDE DEF x
  <2> QED
    BY <2>3, <2>4 DEF Owes
<1> QED
  BY <1>1, <1>2, <1>3 DEF LoopCall

\* The byte is an EOX: the event and the sysex message end with it.
LEMMA LoopEnd ==
    ASSUME OutType, buffer # << >>, NEW b \in 0 .. 3, Begun(buffer[1], b), LoopCall(b),
           buffer[1][b + 1] = EOX, Put(<<EOX>>), Call, UNCHANGED <<rest, embedded>>,
           buffer' = Tail(buffer), sysex_in_progress' = FALSE
    PROVE  AtCall'
<1> DEFINE e == buffer[1]
           x == <<EOX>>
           t == BytesOf(Tail(buffer))
<1>0. /\ e \in Event /\ x \in Bytes /\ t \in Bytes /\ wire \in Bytes /\ given' = given
      /\ left' = left /\ whole' = whole
  <2>1. e \in Event /\ Tail(buffer) \in Events /\ EOX \in Byte
    BY FirstEvent DEF OutType, EOX, Byte
  <2> QED
    BY <2>1, CatFacts, BytesOfType DEF Call, history, OutType
<1>1. ASSUME ListLoop(b) PROVE ListAt'
  <2>1. ASSUME ~embedded PROVE given' = Cat(wire', t)
    <3>1. ~IsShort(e)
      BY <1>1, <2>1 DEF ListLoop
    <3>2. From(EventBytes(e), b) = x
      BY <1>0, <3>1, LoopEox
    <3>3. given = Cat(wire, Cat(x, t))
      BY <1>1, <2>1, <3>2 DEF ListLoop, Owes
    <3> QED
      BY <1>0, <3>3, PutOwed
  <2>2. HasEox(e) /\ b + 1 \in 1 .. 4
    BY DEF HasEox
  <2>3. (~HasEox(e)) = FALSE
    BY <2>2
  <2>4. Fits' => Proper(Tail(buffer), FALSE)
    BY <1>0, <1>1, <2>3 DEF ListLoop, Fits
  <2> QED
    BY <1>0, <1>1, <2>1, <2>4 DEF ListLoop, ListAt, Owes
<1>2. ASSUME NEW s \in Bytes, NEW n \in Nat, SysexLoop(s, n, b)
      PROVE  SysexAt(<< >>, 0)'
  <2>1. b + 1 \in 1 .. n /\ s[b + 1] = EOX /\ n \in 0 .. Len(s) /\ Len(s) \in Nat
    BY <1>2, SysexLoopByte, FromFacts DEF SysexLoop, SysexHeld
  <2>2. b + 1 \in 1 .. Len(s) /\ b + 1 = Len(s) /\ n = Len(s)
    <3>1. b + 1 \in 1 .. Len(s)
      BY <2>1
    <3>2. b + 1 = Len(s)
      BY <1>2, <2>1, <3>1 DEF SysexLoop, SysexHeld, SysexEnd
    <3> QED
      BY <2>1, <3>1, <3>2
  <2>3. From(s, b) = x
    <3>1. b \in 0 .. Len(s) - 1
      BY <2>1, <2>2
    <3>2. From(s, b) = Cat(<<s[b + 1]>>, From(s, b + 1)) /\ From(s, b + 1) = << >>
      BY <2>2, <3>1, FromFacts
    <3> QED
      BY <1>0, <2>1, <3>2, CatFacts
  <2>4. given' = Cat(wire', << >>)
    <3>1. given = Cat(wire, Cat(x, << >>))
      BY <1>0, <1>2, <2>3, CatFacts DEF SysexLoop
    <3> QED
      BY <1>0, <3>1, CatFacts, PutOwed
  <2>5. buffer' = << >>
    <3>1. n \in 1 .. 4
      BY <2>1, <2>2
    <3> QED
      BY <1>2, <3>1, PackedLast DEF SysexLoop, SysexHeld
  <2>6. rest' = << >>
    BY <1>2, <2>2, FromFacts DEF SysexLoop, SysexHeld
  <2>7. ~embedded'
    BY <1>2 DEF SysexLoop, SysexHeld
  <2>8. 0 \in 0 .. Len(<< >>) /\ 0 % 4 = 0
    OBVIOUS
  <2>9. SysexHeld(<< >>, 0)'
    BY <2>5, <2>6, <2>7, <2>8, EmptyEnd DEF SysexHeld
  <2> QED
    BY <2>4, <2>9 DEF SysexAt
<1> QED
  BY <1>1, <1>2, CatFacts DEF LoopCall, AtCall

\* All four bytes are written, and there was no EOX.
LEMMA LoopOver ==
    ASSUME OutType, buffer # << >>, Begun(buffer[1], 4), LoopCall(4), sysex_in_progress,
           Call, UNCHANGED <<wire, rest, embedded, sysex_in_progress>>, buffer' = Tail(buffer)
    PROVE  AtCall'
<1> DEFINE e == buffer[1]
           t == BytesOf(Tail(buffer))
<1>0. /\ e \in Event /\ t \in Bytes /\ wire \in Bytes /\ given' = given
      /\ left' = left /\ whole' = whole
  BY FirstEvent, BytesOfType DEF Call, history, OutType
<1>1. ASSUME ListLoop(4) PROVE ListAt'
  <2>1. ASSUME ~embedded PROVE given' = Cat(wire', t)
    <3>1. ~IsShort(e)
      BY <1>1, <2>1 DEF ListLoop
    <3>2. From(EventBytes(e), 4) = << >>
      BY <1>0, <3>1, LoopDone
    <3>3. given = Cat(wire, Cat(<< >>, t))
      BY <1>1, <2>1, <3>2 DEF ListLoop, Owes
    <3> QED
      BY <1>0, <3>3, CatFacts
  <2>2. (~HasEox(e)) = sysex_in_progress
    BY DEF HasEox, Begun, OutType
  <2>3. Fits' => Proper(Tail(buffer), sysex_in_progress)
    BY <1>0, <1>1, <2>2 DEF ListLoop, Fits
  <2> QED
    BY <1>0, <1>1, <2>1, <2>3 DEF ListLoop, ListAt, Owes
<1>2. ASSUME NEW s \in Bytes, NEW n \in Nat, SysexLoop(s, n, 4)
      PROVE  From(s, 4) \in Bytes /\ n - 4 \in Nat /\ SysexAt(From(s, 4), n - 4)'
  <2>0. s \in Bytes /\ Len(s) \in Nat /\ n \in 0 .. Len(s) /\ SysexEnd(s) /\ Packed(buffer, s, n)
        /\ rest = From(s, n)
    BY <1>2, FromFacts DEF SysexLoop, SysexHeld
  <2>1. n >= 4
    <3>1. 3 + 1 \in 1 .. n
      BY <1>2, SysexLoopByte DEF SysexLoop, Begun
    <3> QED
      BY <3>1
  <2>2. Len(s) # 4
    <3>1. ASSUME Len(s) = 4 PROVE FALSE
      <4>1. s[4] = EOX
        BY <2>0, <3>1 DEF SysexEnd
      <4>2. e[4] = s[4]
        BY <2>0, <2>1, PackedFirst
      <4> QED
        BY <4>1, <4>2 DEF Begun
    <3> QED
      BY <3>1
  <2>3. n \in 4 .. Len(s) /\ 4 \in 1 .. Len(s) /\ 4 \in 0 .. Len(s) /\ Len(s) - 4 > 0
    <3>1. n \in 0 .. Len(s) /\ Len(s) \in Nat
      BY <2>0
    <3>2. \A l \in Nat : \A k \in 0 .. l : k >= 4 /\ l # 4 => l >= 5 /\ k <= l /\ k \in Nat
      OBVIOUS
    <3>3. Len(s) >= 5 /\ n <= Len(s) /\ n \in Nat
      BY <2>1, <2>2, <3>1, <3>2, Zenon
    <3> QED
      BY <2>1, <3>1, <3>3
  <2> DEFINE f == From(s, 4)
  <2>4. /\ SysexEnd(f) /\ f \in Bytes /\ Len(f) = Len(s) - 4
        /\ (f # << >> => f[1] # SYSEX)
    BY <2>0, <2>3, EndGoesOn, FromFacts
  <2>5. Packed(Tail(buffer), f, n - 4) /\ From(f, n - 4) = From(s, n)
    BY <2>0, <2>3, PackedRest
  <2>6. n % 4 = 0 \/ n = Len(s)
    BY <1>2 DEF SysexLoop, SysexHeld
  <2> HIDE DEF f
  <2>7. f # << >>
    BY <2>3, <2>4
  <2>8. n - 4 \in 0 .. Len(f) /\ ((n - 4) % 4 = 0 \/ n - 4 = Len(f)) /\ n - 4 \in Nat
    BY <2>0, <2>3, <2>4, <2>6
  <2>9. SysexHeld(f, n - 4)'
    <3>1. ~embedded'
      BY <1>2 DEF SysexLoop, SysexHeld
    <3> QED
      BY <2>0, <2>4, <2>5, <2>8, <3>1 DEF SysexHeld
  <2>10. SysexAt(f, n - 4)'
    <3>1. given' = Cat(wire', f)
      BY <1>0, <1>2 DEF SysexLoop, f
    <3> QED
      BY <2>4, <2>7, <2>9, <3>1 DEF SysexAt
  <2> QED
    BY <2>4, <2>8, <2>10 DEF f
<1>3. ASSUME NEW s \in Bytes, NEW n \in Nat, SysexLoop(s, n, 4)
      PROVE  \E r \in Bytes, m \in Nat : SysexAt(r, m)'
  BY <1>2, <1>3
<1> QED
  BY <1>1, <1>3 DEF LoopCall, AtCall

\* Pm_WriteSysEx hands over the next of its buffers.
LEMMA ChunkStep == ASSUME OutInv, NextChunk PROVE OutInv'
<1>0. /\ opc = "event" /\ buffer = << >> /\ rest # << >> /\ opc' = opc
      /\ buffer' = Pack(Chunk(rest, BUFLEN)) /\ rest' = Remainder(rest, BUFLEN)
      /\ UNCHANGED <<sysex_in_progress, wire, given, receiver, left, whole, embedded, headless>>
  BY DEF NextChunk, stream, history
<1>1. PICK s \in Bytes, n \in Nat : SysexAt(s, n)
  BY <1>0 DEF OutInv, CallInv, AtCall, ListAt
<1>2. rest = s
  <2>1. n = 0
    <3>1. 4 * Len(buffer) \in n .. n + 3 /\ Len(buffer) = 0
      BY <1>0, <1>1 DEF SysexAt, SysexHeld, Packed
    <3> QED
      BY <3>1
  <2> QED
    BY <1>1, <2>1, FromFacts DEF SysexAt, SysexHeld
<1>3. PICK m \in 0 .. Len(s) : /\ m % 4 = 0 \/ m = Len(s)
                               /\ Packed(Pack(Chunk(s, BUFLEN)), s, m)
                               /\ Remainder(s, BUFLEN) = From(s, m)
  BY ChunkIs, BuflenAssumption
<1>4. SysexHeld(s, m)'
  BY <1>0, <1>1, <1>2, <1>3 DEF SysexAt, SysexHeld
<1>5. SysexAt(s, m)' /\ m \in Nat
  BY <1>0, <1>1, <1>4, FromFacts DEF SysexAt
<1>6. CallInv'
  BY <1>0, <1>5 DEF CallInv, AtCall
<1>7. OutType'
  <2>1. buffer' \in Events /\ Filled(buffer')
    BY <1>4, PackedFilled DEF SysexHeld
  <2> QED
    BY <1>0, <2>1 DEF OutInv, OutType
<1>8. LoopInv' /\ IdleInv' /\ InStep'
  BY <1>0 DEF OutInv, LoopInv, IdleInv, InStep
<1> QED
  BY <1>6, <1>7, <1>8 DEF OutInv

-----------------------------------------------------------------------------
(***************************************************************************)
(* The other steps.                                                        *)
(***************************************************************************)
LEMMA WriteStep == ASSUME OutInv, Write PROVE OutInv'
<1>1. PICK events \in WholeMessages \cup Pieces :
         StartWrite(events, BytesOf(events), << >>, events \in WholeMessages)
  BY DEF Write
<1>2. /\ opc' = "event" /\ buffer' = events /\ rest' = << >>
      /\ wire' = << >> /\ given' = BytesOf(events)
      /\ left' = sysex_in_progress /\ whole' = (events \in WholeMessages)
      /\ embedded' = FALSE
      /\ UNCHANGED <<sysex_in_progress, receiver, headless>>
  BY <1>1 DEF StartWrite, stream
<1>3. events \in Events /\ Filled(events)
  BY ListsAssumption DEF Events, Filled, InData
<1>4. BytesOf(events) \in Bytes /\ << >> \in Bytes
  BY <1>3, BytesOfType, CatFacts
<1>5. OutType'
  <2>1. whole' \in BOOLEAN
    <3>1. (events \in WholeMessages) = TRUE \/ (events \in WholeMessages) = FALSE
      OBVIOUS
    <3> QED
      BY <1>2, <3>1, Zenon
  <2>2. UNCHANGED <<sysex_in_progress, receiver, headless>> /\ embedded' \in BOOLEAN
    BY <1>2
  <2>3. left' \in BOOLEAN /\ opc' = "event" /\ buffer' = events /\ wire' = << >>
    BY <1>2 DEF OutInv, OutType
  <2> QED
    BY <1>2, <1>3, <1>4, <2>1, <2>2, <2>3 DEF OutInv, OutType
<1>6. ListAt'
  <2>1. Fits' => events \in WholeMessages /\ sysex_in_progress' = FALSE
    BY <1>2 DEF Fits, OutInv, OutType
  <2>2. Fits' => Proper(buffer', sysex_in_progress')
    BY <1>2, <2>1, ListsAssumption
  <2>3. given' = Cat(wire', BytesOf(events))
    BY <1>2, <1>4, CatFacts
  <2> QED
    BY <1>2, <2>2, <2>3 DEF ListAt, Owes
<1>7. CallInv' /\ LoopInv' /\ IdleInv' /\ InStep'
  BY <1>2, <1>6 DEF OutInv, CallInv, AtCall, LoopInv, IdleInv, InStep
<1> QED
  BY <1>5, <1>7 DEF OutInv

LEMMA WriteSysExStep == ASSUME OutInv, WriteSysEx PROVE OutInv'
<1>1. PICK msg \in SysexMessages : StartWrite(Pack(Chunk(msg, 1)), msg, Remainder(msg, 1), TRUE)
  BY DEF WriteSysEx
<1>2. /\ opc' = "event" /\ buffer' = Pack(Chunk(msg, 1)) /\ rest' = Remainder(msg, 1)
      /\ wire' = << >> /\ given' = msg
      /\ left' = sysex_in_progress /\ whole' = TRUE
      /\ embedded' = FALSE
      /\ UNCHANGED <<sysex_in_progress, receiver, headless>>
  BY <1>1 DEF StartWrite, stream
<1>3. SysexEnd(msg) /\ msg # << >> /\ msg[1] = SYSEX /\ msg \in Bytes /\ << >> \in Bytes
  BY MessageEnds, CatFacts DEF SysexEnd
<1>4. PICK n \in 0 .. Len(msg) : /\ n % 4 = 0 \/ n = Len(msg)
                                 /\ Packed(Pack(Chunk(msg, 1)), msg, n)
                                 /\ Remainder(msg, 1) = From(msg, n)
  <2>1. 1 \in Nat \ {0}
    OBVIOUS
  <2> QED
    BY <1>3, <2>1, ChunkIs
<1>5. SysexHeld(msg, n)'
  BY <1>2, <1>3, <1>4 DEF SysexHeld
<1>6. SysexAt(msg, n)' /\ n \in Nat
  <2>1. given' = Cat(wire', msg)
    BY <1>2, <1>3, CatFacts
  <2>2. ~left' => ~sysex_in_progress'
    BY <1>2
  <2> QED
    BY <1>3, <1>5, <2>1, <2>2, FromFacts DEF SysexAt
<1>7. OutType'
  <2>1. buffer' \in Events /\ Filled(buffer')
    BY <1>5, PackedFilled DEF SysexHeld
  <2> QED
    BY <1>2, <1>3, <2>1 DEF OutInv, OutType
<1>8. CallInv' /\ LoopInv' /\ IdleInv' /\ InStep'
  BY <1>2, <1>3, <1>6 DEF OutInv, CallInv, AtCall, LoopInv, IdleInv, InStep
<1> QED
  BY <1>7, <1>8 DEF OutInv

\* A write that fails ends the call; y is what would have come after x.
LEMMA Failed ==
    ASSUME NEW x \in Bytes, NEW y \in Bytes, OutType, WriteFails(x), Call,
           headless' \in BOOLEAN, embedded' \in BOOLEAN, sysex_in_progress' \in BOOLEAN,
           ~embedded' => given = Cat(wire, Cat(x, y)),
           InStep'
    PROVE  OutInv'
<1>1. Returns("HostError")
  BY DEF WriteFails
<1>2. /\ wire' \in Bytes /\ receiver' \in BOOLEAN
      /\ ~embedded' => IsPrefix(wire', given)
  BY FailOwed DEF OutType
<1>3. "HostError" # "NoError" /\ "HostError" # "BadData"
  OBVIOUS
<1> QED
  BY <1>1, <1>2, <1>3, Returned

LEMMA SysexStartStep == ASSUME OutInv, SysexStart PROVE OutInv'
<1>0. /\ opc = "event" /\ buffer # << >> /\ buffer[1][1] = SYSEX /\ ~sysex_in_progress
      /\ sysex_in_progress' = TRUE /\ Call /\ embedded' = embedded
      /\ SYSEX \in Byte /\ <<SYSEX>> \in Bytes /\ OutType /\ Begun(buffer[1], 0)
  <2>1. SYSEX \in Byte /\ <<SYSEX>> \in Bytes
    BY CatFacts DEF SYSEX, Byte
  <2>2. Begun(buffer[1], 0)
    BY DEF Begun
  <2> QED
    BY <2>1, <2>2 DEF SysexStart, AtEvent, Next4, Call, OutInv
<1>1. LoopCall(0)
  BY <1>0, LoopEnter DEF OutInv, CallInv
<1>2. CASE Written(<<SYSEX>>) /\ ByteLoop(1) /\ headless' = FALSE
  <2>0. /\ opc' = "bytes" /\ bits' = 1 /\ UNCHANGED <<buffer, rest>>
        /\ Put(<<SYSEX>>)
    BY <1>2 DEF ByteLoop, Written
  <2>1. LoopCall(0 + 1)'
    <3>1. 0 \in 0 .. 3 /\ buffer[1][0 + 1] = SYSEX /\ SYSEX # EOX
      BY <1>0 DEF SYSEX, EOX
    <3> QED
      BY <1>0, <1>1, <2>0, <3>1, LoopPut
  <2>2. 0 + 1 = 1
    OBVIOUS
  <2>3. CallInv'
    BY <2>0, <2>1, <2>2 DEF CallInv, LoopCall, ListLoop, SysexLoop, SysexHeld, Owes, Fits
  <2>4. receiver' = TRUE
    BY <2>0, HearsSysex DEF Put, Hears
  <2>5. OutType'
    BY <1>0, <1>2, <2>0, <2>4, PutType DEF OutType, Call, history
  <2>6. LoopInv'
    <3>1. Begun(buffer[1], 1)
      BY <1>0 DEF Begun, SYSEX, EOX
    <3>2. \A j \in 1 + 1 .. 4 : InData(buffer[1][j])
      BY <1>0, FirstEvent DEF OutType
    <3> QED
      BY <1>0, <2>0, <3>1, <3>2 DEF LoopInv
  <2>7. IdleInv' /\ InStep'
    BY <2>0, <2>4 DEF IdleInv, InStep
  <2> QED
    BY <2>3, <2>5, <2>6, <2>7 DEF OutInv
<1>3. CASE WriteFails(<<SYSEX>>) /\ headless' = TRUE
  <2>1. \E y \in Bytes : Owes(Cat(<<SYSEX>>, y))
    <3>1. 0 \in 0 .. 3 /\ buffer[1][0 + 1] = SYSEX
      BY <1>0
    <3> QED
      BY <1>0, <1>1, <3>1, LoopOwed
  <2>2. PICK y \in Bytes : Owes(Cat(<<SYSEX>>, y))
    BY <2>1
  <2>3. InStep'
    BY <1>3 DEF InStep
  <2>4. /\ ~embedded' => given = Cat(wire, Cat(<<SYSEX>>, y))
        /\ headless' \in BOOLEAN /\ embedded' \in BOOLEAN /\ sysex_in_progress' \in BOOLEAN
    BY <1>0, <1>3, <2>2 DEF Owes, OutType
  <2> QED
    BY <1>0, <1>3, <2>3, <2>4, Failed
<1> QED
  BY <1>2, <1>3 DEF SysexStart

\* In the loop: the next byte b + 1 is of the event, and the device is within sysex.
LEMMA LoopFacts ==
    ASSUME OutInv, opc = "bytes", bits < 4
    PROVE  \E b \in 0 .. 3 :
              /\ b = bits /\ buffer # << >> /\ Begun(buffer[1], b) /\ LoopCall(b)
              /\ buffer[1][b + 1] \in Byte /\ <<buffer[1][b + 1]>> \in Bytes
              /\ InData(buffer[1][b + 1]) \/ IsRealTime(buffer[1][b + 1])
              /\ sysex_in_progress
<1>1. bits \in 0 .. 3
  BY DEF OutInv, LoopInv, Begun
<1>2. bits + 1 \in 1 .. 4 /\ bits + 1 \in bits + 1 .. 4
  BY <1>1
<1>3. buffer # << >> /\ buffer[1][bits + 1] \in Byte
  BY <1>2, FirstEvent DEF OutInv, OutType, LoopInv
<1> QED
  BY <1>1, <1>2, <1>3, CatFacts DEF OutInv, LoopInv, CallInv

\* One byte that is neither status nor EOX leaves the device where it is.
LEMMA HearsOne ==
    ASSUME NEW b \in Byte, b # EOX, InData(b) \/ IsRealTime(b), Put(<<b>>), receiver \in BOOLEAN
    PROVE  receiver' = receiver
<1>1. <<b>> \in Bytes /\ Len(<<b>>) = 1 /\ <<b>>[1] = b
  BY CatFacts
<1>2. \A k \in 1 .. Len(<<b>>) : (InData(<<b>>[k]) /\ <<b>>[k] # EOX) \/ IsRealTime(<<b>>[k])
  BY <1>1
<1>3. Hears(<<b>>) <=> receiver
  BY <1>1, <1>2, HearsNothing
<1>4. receiver' = Hears(<<b>>) /\ Hears(<<b>>) \in BOOLEAN
  BY DEF Put, Hears
<1> QED
  BY <1>3, <1>4

LEMMA WriteByteStep == ASSUME OutInv, WriteByte PROVE OutInv'
<1>0. /\ opc = "bytes" /\ bits < 4 /\ Call /\ OutType
      /\ UNCHANGED <<sysex_in_progress, embedded, headless>>
  BY DEF WriteByte, Call, stream, OutInv
<1>1. PICK b \in 0 .. 3 :
         /\ b = bits /\ buffer # << >> /\ Begun(buffer[1], b) /\ LoopCall(b)
         /\ buffer[1][b + 1] \in Byte /\ <<buffer[1][b + 1]>> \in Bytes
         /\ InData(buffer[1][b + 1]) \/ IsRealTime(buffer[1][b + 1])
         /\ sysex_in_progress
  BY <1>0, LoopFacts
<1> DEFINE c == buffer[1][b + 1]
<1>2. c # EOX
  BY <1>1 DEF WriteByte, Next4
<1>3. CASE Written(<<c>>) /\ ByteLoop(b + 1)
  <2>0. Put(<<c>>) /\ opc' = "bytes" /\ bits' = b + 1 /\ UNCHANGED <<buffer, rest>>
    BY <1>3 DEF Written, ByteLoop
  <2>1. receiver' = receiver
    <3> HIDE DEF c
    <3>1. c \in Byte /\ (InData(c) \/ IsRealTime(c))
      BY <1>1 DEF c
    <3> QED
      BY <1>0, <1>2, <2>0, <3>1, HearsOne DEF OutType
  <2>2. LoopCall(b + 1)'
    BY <1>0, <1>1, <1>2, <2>0, LoopPut
  <2>3. CallInv'
    BY <2>0, <2>2 DEF CallInv, LoopCall, ListLoop, SysexLoop, SysexHeld, Owes, Fits
  <2>4. OutType'
    BY <1>0, <1>1, <2>0, <2>1, PutType DEF OutType, Call, history
  <2>5. LoopInv'
    <3>1. Begun(buffer[1], b + 1)
      BY <1>1, <1>2 DEF Begun
    <3>2. \A j \in (b + 1) + 1 .. 4 : InData(buffer[1][j])
      BY <1>1, FirstEvent DEF OutInv, OutType
    <3> QED
      BY <1>0, <1>1, <2>0, <3>1, <3>2 DEF LoopInv
  <2>6. IdleInv' /\ InStep'
    BY <1>0, <2>0, <2>1 DEF OutInv, IdleInv, InStep
  <2> QED
    BY <2>3, <2>4, <2>5, <2>6 DEF OutInv
<1>4. CASE WriteFails(<<c>>)
  <2>1. PICK y \in Bytes : Owes(Cat(<<c>>, y))
    BY <1>0, <1>1, LoopOwed
  <2>2. wire' = wire /\ receiver' = receiver
    BY <1>0, <1>1, <1>4, FailOne DEF OutType
  <2>3. InStep'
    BY <1>0, <2>2 DEF OutInv, InStep
  <2>4. ~embedded' => given = Cat(wire, Cat(<<c>>, y))
    BY <1>0, <2>1 DEF Owes
  <2> QED
    BY <1>0, <1>1, <1>4, <2>3, <2>4, Failed DEF OutType
<1> QED
  BY <1>1, <1>3, <1>4 DEF WriteByte, Next4

LEMMA WriteEoxStep == ASSUME OutInv, WriteEox PROVE OutInv'
<1>0. /\ opc = "bytes" /\ bits < 4 /\ Call /\ OutType
      /\ UNCHANGED <<embedded, headless>>
  BY DEF WriteEox, Call, OutInv
<1>1. PICK b \in 0 .. 3 :
         /\ b = bits /\ buffer # << >> /\ Begun(buffer[1], b) /\ LoopCall(b)
         /\ buffer[1][b + 1] \in Byte /\ <<buffer[1][b + 1]>> \in Bytes
         /\ InData(buffer[1][b + 1]) \/ IsRealTime(buffer[1][b + 1])
         /\ sysex_in_progress
  BY <1>0, LoopFacts
<1>2. buffer[1][b + 1] = EOX /\ EOX \in Byte /\ <<EOX>> \in Bytes
  BY <1>1 DEF WriteEox, Next4
<1>3. CASE Written(<<EOX>>) /\ NextEvent /\ sysex_in_progress' = FALSE
  <2>0. /\ Put(<<EOX>>) /\ opc' = "event" /\ buffer' = Tail(buffer) /\ rest' = rest
    BY <1>3 DEF Written, NextEvent
  <2>1. AtCall'
    BY <1>0, <1>1, <1>2, <1>3, <2>0, LoopEnd
  <2>2. OutType'
    BY <1>0, <1>1, <1>2, <1>3, <2>0, PutType, FirstEvent DEF OutType, Call, history
  <2>3. CallInv' /\ LoopInv' /\ IdleInv' /\ InStep'
    BY <1>3, <2>0, <2>1 DEF CallInv, LoopInv, IdleInv, InStep
  <2> QED
    BY <2>2, <2>3 DEF OutInv
<1>4. CASE WriteFails(<<EOX>>) /\ UNCHANGED sysex_in_progress
  <2>1. PICK y \in Bytes : Owes(Cat(<<EOX>>, y))
    BY <1>0, <1>1, <1>2, LoopOwed
  <2>2. wire' = wire /\ receiver' = receiver
    BY <1>0, <1>2, <1>4, FailOne DEF OutType
  <2>3. InStep'
    BY <1>0, <1>4, <2>2 DEF OutInv, InStep
  <2>4. ~embedded' => given = Cat(wire, Cat(<<EOX>>, y))
    BY <1>0, <2>1 DEF Owes
  <2> QED
    BY <1>0, <1>2, <1>4, <2>3, <2>4, Failed DEF OutType
<1> QED
  BY <1>3, <1>4 DEF WriteEox

LEMMA BytesDoneStep == ASSUME OutInv, BytesDone PROVE OutInv'
<1>0. /\ opc = "bytes" /\ bits = 4 /\ Call /\ OutType
      /\ UNCHANGED <<sysex_in_progress, wire, receiver, embedded, headless>>
      /\ opc' = "event" /\ buffer' = Tail(buffer) /\ rest' = rest
  BY DEF BytesDone, Call, stream, NextEvent, OutInv
<1>1. buffer # << >> /\ Begun(buffer[1], 4) /\ LoopCall(4) /\ sysex_in_progress
  BY <1>0 DEF OutInv, LoopInv, CallInv
<1>2. AtCall'
  BY <1>0, <1>1, LoopOver
<1>3. OutType'
  BY <1>0, <1>1, FirstEvent DEF OutType, Call, history
<1>4. CallInv' /\ LoopInv' /\ IdleInv' /\ InStep'
  BY <1>0, <1>2 DEF OutInv, CallInv, LoopInv, IdleInv, InStep
<1> QED
  BY <1>3, <1>4 DEF OutInv

\* Only Pm_Write meets another status byte.
LEMMA OtherIsList ==
    ASSUME OutInv, OtherStatus
    PROVE  /\ opc = "event" /\ buffer # << >> /\ IsShort(buffer[1]) /\ ListAt
           /\ buffer[1] \in Event /\ buffer[1][1] \in Byte /\ Tail(buffer) \in Events
           /\ BytesOf(Tail(buffer)) \in Bytes
           /\ Fits => Proper(Tail(buffer), OnAfter(buffer[1], sysex_in_progress))
<1>1. opc = "event" /\ buffer # << >> /\ IsShort(buffer[1]) /\ AtCall
  BY DEF OtherStatus, AtEvent, Next4, IsShort, OutInv, CallInv
<1>2. /\ buffer[1] \in Event /\ buffer[1][1] \in Byte /\ Tail(buffer) \in Events
      /\ BytesOf(Tail(buffer)) \in Bytes
  BY <1>1, FirstEvent, BytesOfType DEF OutInv, OutType
<1>3. ASSUME NEW s \in Bytes, NEW n \in Nat, SysexAt(s, n) PROVE FALSE
  <2>1. buffer[1][1] = s[1] /\ (InData(s[1]) \/ s[1] = SYSEX)
    BY <1>1, <1>3, SysexEvent DEF SysexAt
  <2>2. \A b \in Byte : ~(IsStatus(b) /\ b \notin {SYSEX, EOX} /\ (InData(b) \/ b = SYSEX))
    BY DEF InData, IsStatus, Byte
  <2>3. InData(buffer[1][1]) \/ buffer[1][1] = SYSEX
    BY <2>1, Zenon
  <2> QED
    BY <1>1, <1>2, <2>2, <2>3, Zenon DEF IsShort
<1>4. ListAt
  BY <1>1, <1>3 DEF AtCall
<1>5. Fits => Proper(Tail(buffer), OnAfter(buffer[1], sysex_in_progress))
  BY <1>1, <1>4, ProperTail DEF ListAt, OutInv, OutType
<1> QED
  BY <1>1, <1>2, <1>4, <1>5

LEMMA RealTimeStep == ASSUME OutInv, RealTimeInSysex PROVE OutInv'
<1> DEFINE c == buffer[1][1]
<1>0. /\ OtherStatus /\ sysex_in_progress /\ IsRealTime(c) /\ embedded' = TRUE /\ Call /\ OutType
      /\ UNCHANGED <<sysex_in_progress, headless>>
  BY DEF RealTimeInSysex, Next4, Call, stream, OutInv
<1>1. /\ buffer # << >> /\ ListAt /\ c \in Byte /\ <<c>> \in Bytes
      /\ Fits => Proper(Tail(buffer), OnAfter(buffer[1], sysex_in_progress))
      /\ c # EOX
  BY <1>0, OtherIsList, CatFacts DEF IsShort
<1>2. CASE Written(<<c>>) /\ ByteLoop(0)
  <2>0. Put(<<c>>) /\ opc' = "bytes" /\ bits' = 0 /\ UNCHANGED <<buffer, rest>>
    BY <1>2 DEF Written, ByteLoop
  <2>1. receiver' = receiver
    <3> HIDE DEF c
    <3> QED
      BY <1>0, <1>1, <2>0, HearsOne DEF OutType
  <2>2. OnAfter(buffer[1], sysex_in_progress) = ~HasEox(buffer[1])
    BY <1>0 DEF OnAfter, HasEox
  <2>3. ListLoop(0)'
    <3>1. Fits' => Proper(Tail(buffer), ~HasEox(buffer[1]))
      BY <1>0, <1>1, <2>2 DEF Fits, Call, history
    <3> QED
      BY <1>0, <1>1, <2>0, <3>1 DEF ListAt, ListLoop, Owes
  <2>4. CallInv'
    BY <2>0, <2>3 DEF CallInv, LoopCall, ListLoop, Owes, Fits
  <2>5. OutType'
    BY <1>0, <1>1, <2>0, <2>1, PutType DEF OutType, Call, history
  <2>6. LoopInv'
    <3>1. Begun(buffer[1], 0)
      BY DEF Begun
    <3>2. ASSUME NEW j \in 0 + 1 .. 4 PROVE InData(buffer[1][j]) \/ IsRealTime(buffer[1][j])
      <4>1. j = 1 \/ j \in 2 .. 4
        OBVIOUS
      <4> QED
        BY <1>0, <1>1, <4>1, FirstEvent DEF OutType
    <3> QED
      BY <1>0, <1>1, <2>0, <3>1, <3>2 DEF LoopInv
  <2>7. IdleInv' /\ InStep'
    BY <1>0, <2>0, <2>1 DEF OutInv, IdleInv, InStep
  <2> QED
    BY <2>4, <2>5, <2>6, <2>7 DEF OutInv
<1>3. CASE WriteFails(<<c>>)
  <2>1. wire' = wire /\ receiver' = receiver
    BY <1>0, <1>1, <1>3, FailOne DEF OutType
  <2>2. InStep'
    BY <1>0, <2>1 DEF OutInv, InStep
  <2>3. << >> \in Bytes /\ embedded' \in BOOLEAN /\ headless' \in BOOLEAN
        /\ sysex_in_progress' \in BOOLEAN
    BY <1>0, CatFacts DEF OutType
  <2> QED
    BY <1>0, <1>1, <1>3, <2>2, <2>3, Failed
<1> QED
  BY <1>2, <1>3 DEF RealTimeInSysex, Next4

LEMMA ShortStep == ASSUME OutInv, ShortMessage PROVE OutInv'
<1> DEFINE x == EventBytes(buffer[1])
           t == BytesOf(Tail(buffer))
<1>0. OtherStatus /\ ~sysex_in_progress /\ Call /\ OutType
      /\ UNCHANGED <<sysex_in_progress, embedded, headless>>
  BY DEF ShortMessage, Call, stream, OutInv
<1>1. /\ buffer # << >> /\ ListAt /\ IsShort(buffer[1]) /\ buffer[1] \in Event
      /\ Fits => Proper(Tail(buffer), OnAfter(buffer[1], sysex_in_progress))
      /\ x \in Bytes /\ t \in Bytes /\ Tail(buffer) \in Events
      /\ x = SubSeq(buffer[1], 1, midi_message_length(buffer[1][1]))
  BY <1>0, OtherIsList, ShortBytes
<1>2. ~embedded => given = Cat(wire, Cat(x, t))
  BY <1>0, <1>1, BytesOfTail DEF ListAt, Owes, OutType
<1>3. \/ Written(x) /\ NextEvent
      \/ WriteFails(x)
  BY <1>1 DEF ShortMessage, Next4
<1>4. CASE Written(x) /\ NextEvent
  <2>0. /\ Put(x) /\ opc' = "event" /\ buffer' = Tail(buffer) /\ rest' = rest
    BY <1>4 DEF Written, NextEvent
  <2>1. OnAfter(buffer[1], sysex_in_progress) = FALSE
    BY <1>0, <1>1 DEF OnAfter, IsShort
  <2>2. sysex_in_progress = FALSE
    BY <1>0 DEF OutType
  <2>3. ListAt'
    <3>1. ~embedded => given' = Cat(wire', t)
      <4> HIDE DEF x, t
      <4> QED
        BY <1>0, <1>1, <1>2, <2>0, PutOwed DEF OutType, Call, history
    <3>2. Fits' => Proper(Tail(buffer), FALSE)
      BY <1>0, <1>1, <2>1 DEF Fits, Call, history
    <3> QED
      BY <1>0, <1>1, <2>0, <2>2, <3>1, <3>2 DEF ListAt, Owes
  <2>4. OutType'
    <3>1. wire' \in Bytes /\ receiver' \in BOOLEAN
      <4> HIDE DEF x
      <4> QED
        BY <1>0, <1>1, <2>0, PutType DEF OutType
    <3> QED
      BY <1>0, <1>1, <2>0, <3>1, FirstEvent DEF OutType, Call, history
  <2>5. CallInv' /\ LoopInv' /\ IdleInv' /\ InStep'
    BY <1>0, <2>0, <2>2, <2>3 DEF CallInv, AtCall, LoopInv, IdleInv, InStep
  <2> QED
    BY <2>4, <2>5 DEF OutInv
<1>5. CASE WriteFails(x)
  <2>1. InStep'
    BY <1>0 DEF InStep
  <2>2. /\ ~embedded' => given = Cat(wire, Cat(x, t))
        /\ embedded' \in BOOLEAN /\ headless' \in BOOLEAN /\ sysex_in_progress' \in BOOLEAN
    BY <1>0, <1>2 DEF OutType
  <2> HIDE DEF x, t
  <2> QED
    BY <1>0, <1>1, <1>5, <2>1, <2>2, Failed
<1> QED
  BY <1>3, <1>4, <1>5

LEMMA SysexGoesOnStep == ASSUME OutInv, SysexGoesOn PROVE OutInv'
<1>0. /\ opc = "event" /\ buffer # << >> /\ (~IsStatus(buffer[1][1]) \/ buffer[1][1] = EOX)
      /\ sysex_in_progress /\ OutType /\ AtCall
      /\ UNCHANGED <<sysex_in_progress, wire, receiver, given, left, whole, embedded, headless>>
      /\ opc' = "bytes" /\ bits' = 0 /\ UNCHANGED <<buffer, rest>>
  BY DEF SysexGoesOn, DataOrEox, AtEvent, Next4, ByteLoop, stream, history, OutInv, CallInv
<1>1. LoopCall(0)
  BY <1>0, LoopEnter
<1>2. CallInv'
  BY <1>0, <1>1 DEF CallInv, LoopCall, ListLoop, SysexLoop, SysexHeld, Owes, Fits
<1>3. LoopInv'
  <2>1. Begun(buffer[1], 0)
    BY DEF Begun
  <2>2. ASSUME NEW j \in 0 + 1 .. 4 PROVE InData(buffer[1][j])
    <3>1. j = 1 \/ j \in 2 .. 4
      OBVIOUS
    <3>2. buffer[1][1] \in Int
      <4>1. buffer[1][1] \in Byte
        BY <1>0, FirstEvent DEF OutType
      <4> QED
        BY <4>1 DEF Byte
    <3>3. InData(buffer[1][1])
      BY <1>0, <3>2 DEF InData, IsStatus
    <3> QED
      BY <1>0, <3>1, <3>3, FirstEvent DEF OutType
  <2> QED
    BY <1>0, <2>1, <2>2 DEF LoopInv
<1>4. OutType' /\ IdleInv' /\ InStep'
  BY <1>0 DEF OutInv, OutType, IdleInv, InStep
<1> QED
  BY <1>2, <1>3, <1>4 DEF OutInv

-----------------------------------------------------------------------------
(***************************************************************************)
(* The invariant, and what follows from it.                                *)
(***************************************************************************)
LEMMA OutInit == ASSUME Init PROVE OutInv
<1>1. OutType
  BY EmptyBuffer, CatFacts DEF Init, OutType
<1>2. LoopInv /\ CallInv /\ IdleInv /\ InStep
  BY CatFacts, PrefixFacts DEF Init, LoopInv, CallInv, IdleInv, InStep
<1> QED
  BY <1>1, <1>2 DEF OutInv

LEMMA OutStep == ASSUME OutInv, [Next]_vars PROVE OutInv'
<1>1. CASE OpenOutput(TRUE) \/ OpenOutput(FALSE) \/ Close \/ HasHostError \/ GetHostErrorText
  BY <1>1, IdleStep
<1>2. CASE Write
  BY <1>2, WriteStep
<1>3. CASE WriteSysEx
  BY <1>3, WriteSysExStep
<1>4. CASE SysexUnterminated \/ StatusInSysex \/ DataAlone
  BY <1>4, RefusedStep
<1>5. CASE SysexStart
  BY <1>5, SysexStartStep
<1>6. CASE RealTimeInSysex
  BY <1>6, RealTimeStep
<1>7. CASE ShortMessage
  BY <1>7, ShortStep
<1>8. CASE SysexGoesOn
  BY <1>8, SysexGoesOnStep
<1>9. CASE WriteByte
  BY <1>9, WriteByteStep
<1>10. CASE WriteEox
  BY <1>10, WriteEoxStep
<1>11. CASE BytesDone
  BY <1>11, BytesDoneStep
<1>12. CASE NextChunk
  BY <1>12, ChunkStep
<1>13. CASE WriteReturns
  BY <1>13, ReturnStep
<1>14. CASE UNCHANGED vars
  BY <1>14 DEF vars, stream, errors, call, history, OutInv, OutType, LoopInv, CallInv, AtCall,
     ListAt, SysexAt, SysexHeld, LoopCall, ListLoop, SysexLoop, Owes, Fits, IdleInv, InStep
<1> QED
  BY <1>1, <1>2, <1>3, <1>4, <1>5, <1>6, <1>7, <1>8, <1>9, <1>10, <1>11, <1>12, <1>13, <1>14
     DEF Next

LEMMA OutInvariance == Spec => []OutInv
  BY OutInit, OutStep, PTL DEF Spec

\* What a call of Pm_Write or Pm_WriteSysEx writes is what it was given, as far as it
\* gets, and all of it when it succeeds; unless a real-time message lies within a
\* sysex message.
THEOREM OutputAsGiven == Spec => []WrittenAsGiven
<1>1. ASSUME OutInv PROVE WrittenAsGiven
  <2>1. CASE opc = "idle"
    BY <1>1, <2>1 DEF OutInv, IdleInv, WrittenAsGiven, AsGiven
  <2>2. CASE opc = "event"
    BY <1>1, <2>2, EventOwed DEF WrittenAsGiven, AsGiven
  <2>3. CASE opc = "bytes"
    <3>1. ASSUME ~embedded PROVE IsPrefix(wire, given)
      <4>1. CASE bits < 4
        <5>1. PICK b \in 0 .. 3 :
                 /\ b = bits /\ buffer # << >> /\ Begun(buffer[1], b) /\ LoopCall(b)
                 /\ <<buffer[1][b + 1]>> \in Bytes
          BY <1>1, <2>3, <4>1, LoopFacts
        <5>2. PICK y \in Bytes : Owes(Cat(<<buffer[1][b + 1]>>, y))
          BY <1>1, <5>1, LoopOwed DEF OutInv
        <5>3. Cat(<<buffer[1][b + 1]>>, y) \in Bytes
          BY <5>1, CatFacts
        <5> QED
          BY <1>1, <3>1, <5>2, <5>3, OwedIsPrefix DEF Owes, OutInv, OutType
      <4>2. CASE ~(bits < 4)
        <5>1. /\ bits = 4 /\ buffer # << >> /\ Begun(buffer[1], 4) /\ LoopCall(4)
              /\ OutType
          BY <1>1, <2>3, <4>2 DEF OutInv, LoopInv, CallInv, Begun
        <5>2. CASE ListLoop(4)
          <6>1. ~IsShort(buffer[1]) /\ buffer[1] \in Event /\ BytesOf(Tail(buffer)) \in Bytes
            BY <3>1, <5>1, <5>2, FirstEvent, BytesOfType DEF ListLoop, OutType
          <6>2. given = Cat(wire, Cat(<< >>, BytesOf(Tail(buffer))))
            BY <3>1, <5>1, <5>2, <6>1, LoopDone DEF ListLoop, Owes
          <6>3. given = Cat(wire, BytesOf(Tail(buffer)))
            BY <6>1, <6>2, CatFacts
          <6> QED
            BY <5>1, <6>1, <6>3, OwedIsPrefix DEF OutType
        <5>3. CASE \E s \in Bytes, n \in Nat : SysexLoop(s, n, 4)
          <6>1. PICK s \in Bytes, n \in Nat : SysexLoop(s, n, 4)
            BY <5>3
          <6>2. 3 + 1 \in 1 .. n /\ n \in 0 .. Len(s) /\ Len(s) \in Nat
            BY <5>1, <6>1, SysexLoopByte, FromFacts DEF SysexLoop, SysexHeld, Begun
          <6>3. 4 \in 0 .. Len(s)
            BY <6>2
          <6>4. From(s, 4) \in Bytes
            BY <6>3, FromFacts
          <6> QED
            BY <5>1, <6>1, <6>4, OwedIsPrefix DEF SysexLoop, OutType
        <5> QED
          BY <5>1, <5>2, <5>3 DEF LoopCall
      <4> QED
        BY <4>1, <4>2
    <3> QED
      BY <2>3, <3>1 DEF WrittenAsGiven, AsGiven
  <2> QED
    BY <1>1, <2>1, <2>2, <2>3 DEF OutInv, OutType
<1> QED
  BY <1>1, OutInvariance, PTL

\* When PortMidi is within a sysex message, the device has seen its start, unless
\* writing just that byte failed.
THEOREM OutputInStep == Spec => []InStep
<1>1. OutInv => InStep
  BY DEF OutInv
<1> QED
  BY <1>1, OutInvariance, PTL

\* An error in the data ends the sysex message in progress, and whole messages meet
\* one only after a call that left a message unfinished.
THEOREM OutputResynchronised == Spec => []Resynchronised
<1>1. OutInv => Resynchronised
  BY DEF OutInv, IdleInv, Resynchronised
<1> QED
  BY <1>1, OutInvariance, PTL
=============================================================================
