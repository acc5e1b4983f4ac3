---------------------------- MODULE UrcuBpProofs ----------------------------
(***************************************************************************)
(* Proofs about UrcuBp: the invariant of UrcuBpInvariant is inductive, and *)
(* with it grace periods outlast the sections before them, also where a    *)
(* process forks, slots have one owner, and the arena and the lists agree. *)
(***************************************************************************)
EXTENDS UrcuBpInvariant, FiniteSetTheorems, WellFoundedInduction, TLAPS

-----------------------------------------------------------------------------
(* Sequences and numbers *)

(* A function over the indices of a sequence is a sequence. *)
LEMMA FcnSeq ==
  ASSUME NEW S, NEW T, NEW q \in Seq(S), NEW f \in [DOMAIN q -> T] PROVE f \in Seq(T)
  OBVIOUS

(* The same, element by element. *)
LEMMA MapSeq ==
  ASSUME NEW S, NEW T, NEW q \in Seq(S), NEW f,
         f = [i \in DOMAIN q |-> f[i]], \A i \in DOMAIN q : f[i] \in T
  PROVE  f \in Seq(T)
<1>1. f \in [DOMAIN q -> T]
  BY Zenon
<1> QED
  BY Zenon, <1>1, FcnSeq

(* An update of a sequence. *)
LEMMA ExceptSeq ==
  ASSUME NEW S, NEW q \in Seq(S), NEW i \in DOMAIN q, NEW v \in S,
         NEW f, f = [q EXCEPT ![i] = v]
  PROVE  /\ f \in Seq(S) /\ DOMAIN f = DOMAIN q /\ f[i] = v
         /\ \A j \in DOMAIN q : j # i => f[j] = q[j]
<1>1. q \in [DOMAIN q -> S]
  OBVIOUS
<1>2. f \in [DOMAIN q -> S]
  BY Zenon, <1>1
<1>3. f \in Seq(S)
  BY Zenon, <1>2, FcnSeq
<1> QED
  BY Zenon, <1>1, <1>2, <1>3

(* A set of natural numbers has a least element. *)
LEMMA Least ==
  ASSUME NEW S \in SUBSET Nat, S # {} PROVE \E x \in S : \A y \in S : x <= y
<1> DEFINE R == {p \in Nat \X Nat : p[1] < p[2]}
<1>1. IsWellFoundedOn(R, Nat)
  BY NatLessThanWellFounded DEF OpToRel
<1>2. \E x \in S : \A y \in S : <<y, x>> \notin R
  <2> HIDE DEF R
  <2> QED
    BY Zenon, <1>1, WFMin
<1>3. \A x, y \in Nat : <<y, x>> \notin R => x <= y
  OBVIOUS
<1> QED
  BY Zenon, <1>2, <1>3

-----------------------------------------------------------------------------
(* An arena and its slots *)

SlotsOf(a) == UNION {{<<c, i>> : i \in DOMAIN a[c].readers} : c \in DOMAIN a}
AtOf(a, s) == a[s[1]].readers[s[2]]

(* What a slot is. *)
LEMMA SlotIff ==
  ASSUME NEW a, NEW c, NEW i
  PROVE  <<c, i>> \in SlotsOf(a) <=> c \in DOMAIN a /\ i \in DOMAIN a[c].readers
<1>1. ASSUME <<c, i>> \in SlotsOf(a)
      PROVE  c \in DOMAIN a /\ i \in DOMAIN a[c].readers
  <2>1. PICK d \in DOMAIN a : <<c, i>> \in {<<d, j>> : j \in DOMAIN a[d].readers}
    BY Zenon, <1>1 DEF SlotsOf
  <2>2. PICK j \in DOMAIN a[d].readers : <<c, i>> = <<d, j>>
    BY Zenon, <2>1
  <2>3. c = d /\ i = j
    BY <2>2
  <2> QED
    BY Zenon, <2>3
<1>2. ASSUME c \in DOMAIN a, i \in DOMAIN a[c].readers
      PROVE  <<c, i>> \in SlotsOf(a)
  <2>1. <<c, i>> \in {<<c, j>> : j \in DOMAIN a[c].readers}
    BY Zenon, <1>2
  <2> QED
    BY Zenon, <1>2, <2>1 DEF SlotsOf
<1> QED
  BY Zenon, <1>1, <1>2

(* A slot is a pair. *)
LEMMA SlotPair ==
  ASSUME NEW a, NEW s \in SlotsOf(a)
  PROVE  s = <<s[1], s[2]>> /\ s[1] \in DOMAIN a /\ s[2] \in DOMAIN a[s[1]].readers
<1>1. PICK c, i : s = <<c, i>> /\ c \in DOMAIN a /\ i \in DOMAIN a[c].readers
  BY Zenon DEF SlotsOf
<1>2. s[1] = c /\ s[2] = i
  BY <1>1
<1> QED
  BY Zenon, <1>1, <1>2

(* The type of a slot and of what it holds. *)
LEMMA SlotType ==
  ASSUME NEW a \in Arenas, NEW s \in SlotsOf(a)
  PROVE  s \in Nat \X Nat /\ AtOf(a, s) \in ReaderRecord
<1>1. s = <<s[1], s[2]>> /\ s[1] \in DOMAIN a /\ s[2] \in DOMAIN a[s[1]].readers
  BY Zenon, SlotPair
<1>2. a[s[1]] \in ChunkRecord /\ s[1] \in Nat
  BY <1>1 DEF Arenas
<1>3. a[s[1]].readers \in Seq(ReaderRecord)
  BY <1>2 DEF ChunkRecord
<1>4. a[s[1]].readers[s[2]] \in ReaderRecord /\ s[2] \in Nat
  BY <1>1, <1>3
<1> QED
  BY Zenon, <1>1, <1>2, <1>4 DEF AtOf

(* Two arenas of the same chunks. *)
SameShape(a, b) ==
  /\ DOMAIN b = DOMAIN a
  /\ \A c \in DOMAIN a : DOMAIN b[c].readers = DOMAIN a[c].readers

(* They have the same slots. *)
LEMMA SameSlots ==
  ASSUME NEW a, NEW b, SameShape(a, b) PROVE SlotsOf(b) = SlotsOf(a)
<1>1. \A c, i : <<c, i>> \in SlotsOf(a) <=> <<c, i>> \in SlotsOf(b)
  BY Zenon, SlotIff DEF SameShape
<1>2. ASSUME NEW s \in SlotsOf(a) PROVE s \in SlotsOf(b)
  <2>1. PICK c, i : s = <<c, i>>
    BY Zenon, SlotPair
  <2> QED
    BY Zenon, <1>1, <2>1
<1>3. ASSUME NEW s \in SlotsOf(b) PROVE s \in SlotsOf(a)
  <2>1. PICK c, i : s = <<c, i>>
    BY Zenon, SlotPair
  <2> QED
    BY Zenon, <1>1, <2>1
<1> QED
  BY Zenon, <1>2, <1>3

(* The counts hold when no slot changes hands. *)
LEMMA CountedKept ==
  ASSUME NEW a, NEW b, SameShape(a, b), Counted(a),
         \A c \in DOMAIN a : b[c].used = a[c].used,
         \A s \in SlotsOf(a) : AtOf(b, s).alloc = AtOf(a, s).alloc
  PROVE  Counted(b)
<1> SUFFICES ASSUME NEW c \in DOMAIN a PROVE InUse(b, c) = InUse(a, c)
  BY Zenon DEF Counted, SameShape
<1>1. \A i \in DOMAIN a[c].readers : b[c].readers[i].alloc = a[c].readers[i].alloc
  <2> TAKE i \in DOMAIN a[c].readers
  <2>1. <<c, i>> \in SlotsOf(a)
    BY Zenon, SlotIff
  <2>2. <<c, i>>[1] = c /\ <<c, i>>[2] = i
    OBVIOUS
  <2> QED
    BY Zenon, <2>1, <2>2 DEF AtOf
<1> QED
  BY Zenon, <1>1 DEF InUse, SameShape

(* An update of a chunk. *)
LEMMA ExceptArena ==
  ASSUME NEW a \in Arenas, NEW c \in DOMAIN a, NEW m \in ChunkRecord
  PROVE  /\ [a EXCEPT ![c] = m] \in Arenas
         /\ DOMAIN [a EXCEPT ![c] = m] = DOMAIN a
         /\ [a EXCEPT ![c] = m][c] = m
         /\ \A d \in DOMAIN a : d # c => [a EXCEPT ![c] = m][d] = a[d]
  BY Zenon, ExceptSeq DEF Arenas

(* A store to a slot. *)
Stored(a, b, s, r) ==
  /\ b \in Arenas /\ SameShape(a, b)
  /\ \A c \in DOMAIN a : b[c].used = a[c].used
  /\ AtOf(b, s) = r
  /\ \A q \in SlotsOf(a) : q # s => AtOf(b, q) = AtOf(a, q)

(* What Put does. *)
LEMMA PutStores ==
  ASSUME NEW a \in Arenas, NEW s \in SlotsOf(a), NEW r \in ReaderRecord,
         NEW b, b = [a EXCEPT ![s[1]].readers[s[2]] = r]
  PROVE  Stored(a, b, s, r)
<1>1. s = <<s[1], s[2]>> /\ s[1] \in DOMAIN a /\ s[2] \in DOMAIN a[s[1]].readers
  BY Zenon, SlotPair
<1>2. PICK c, i, k : c = s[1] /\ i = s[2] /\ k = a[c]
  BY Zenon
<1>3. PICK rs : rs = [k.readers EXCEPT ![i] = r]
  BY Zenon
<1>4. b = [a EXCEPT ![c] = [k EXCEPT !.readers = rs]]
  BY Zenon, <1>1, <1>2, <1>3
<1>5. k \in ChunkRecord
  BY <1>1, <1>2 DEF Arenas
<1>6. k.readers \in Seq(ReaderRecord) /\ k.used \in Int
  BY Zenon, <1>5 DEF ChunkRecord
<1>7. /\ rs \in Seq(ReaderRecord) /\ DOMAIN rs = DOMAIN k.readers /\ rs[i] = r
      /\ \A j \in DOMAIN k.readers : j # i => rs[j] = k.readers[j]
  BY Zenon, <1>1, <1>2, <1>3, <1>6, ExceptSeq
<1>8. PICK m : m = [k EXCEPT !.readers = rs]
  BY Zenon
<1>9. m \in ChunkRecord /\ m.readers = rs /\ m.used = k.used
  BY <1>5, <1>7, <1>8 DEF ChunkRecord
<1>10. /\ b \in Arenas /\ DOMAIN b = DOMAIN a /\ b[c] = m
       /\ \A d \in DOMAIN a : d # c => b[d] = a[d]
  <2>1. c \in DOMAIN a /\ b = [a EXCEPT ![c] = m]
    BY Zenon, <1>1, <1>2, <1>4, <1>8
  <2>2. m \in ChunkRecord
    BY Zenon, <1>9
  <2>3. PICK f : f = [a EXCEPT ![c] = m]
    BY Zenon
  <2>4. /\ f \in Arenas /\ DOMAIN f = DOMAIN a /\ f[c] = m
        /\ \A d \in DOMAIN a : d # c => f[d] = a[d]
    BY Zenon, <2>1, <2>2, <2>3, ExceptArena
  <2> QED
    BY Zenon, <2>1, <2>3, <2>4
<1>12. SameShape(a, b) /\ \A d \in DOMAIN a : b[d].used = a[d].used
  BY Zenon, <1>2, <1>7, <1>9, <1>10 DEF SameShape
<1>13. AtOf(b, s) = r
  BY Zenon, <1>2, <1>7, <1>9, <1>10 DEF AtOf
<1>14. ASSUME NEW q \in SlotsOf(a), q # s PROVE AtOf(b, q) = AtOf(a, q)
  <2>1. q = <<q[1], q[2]>> /\ q[1] \in DOMAIN a /\ q[2] \in DOMAIN a[q[1]].readers
    BY Zenon, SlotPair
  <2>2. q[1] # c \/ q[2] # i
    BY Zenon, <1>1, <1>2, <1>14, <2>1
  <2> QED
    <3>1. CASE q[1] # c
      BY Zenon, <1>10, <2>1, <3>1 DEF AtOf
    <3>2. CASE q[1] = c /\ q[2] # i
      <4>1. rs[q[2]] = k.readers[q[2]]
        BY Zenon, <1>2, <1>7, <2>1, <3>2
      <4> QED
        BY Zenon, <1>2, <1>9, <1>10, <3>2, <4>1 DEF AtOf
    <3> QED
      BY Zenon, <2>2, <3>1, <3>2
<1> QED
  BY Zenon, <1>10, <1>12, <1>13, <1>14 DEF Stored

-----------------------------------------------------------------------------
(* Growth of the arena *)

(* A free slot. *)
LEMMA ReaderFree ==
  Reader \in ReaderRecord /\ ~Reader.alloc /\ Reader.nest = 0 /\ Reader.list = "none"
  BY DEF Reader, ReaderRecord, Lists

(* A new chunk is free. *)
LEMMA ChunkFree ==
  ASSUME NEW n \in Nat
  PROVE  /\ Chunk(n) \in ChunkRecord /\ Chunk(n).used = 0 /\ DOMAIN Chunk(n).readers = 1..n
         /\ Len(Chunk(n).readers) = n
         /\ \A i \in 1..n : Chunk(n).readers[i] = Reader
<1>1. Reader \in ReaderRecord
  BY Zenon, ReaderFree
<1>2. [i \in 1..n |-> Reader] \in Seq(ReaderRecord)
  <2> HIDE DEF Reader, ReaderRecord
  <2> QED
    BY <1>1
<1>0. 0 \in Int
  OBVIOUS
<1>3. /\ Chunk(n).readers = [i \in 1..n |-> Reader] /\ Chunk(n).used = 0
      /\ Chunk(n) \in ChunkRecord
  BY Zenon, <1>0, <1>2 DEF Chunk, ChunkRecord
<1> QED
  BY <1>2, <1>3

(* b is a with free slots added. *)
Extends(a, b) ==
  /\ DOMAIN a \subseteq DOMAIN b
  /\ \A c \in DOMAIN a :
       /\ b[c].used = a[c].used
       /\ DOMAIN a[c].readers \subseteq DOMAIN b[c].readers
       /\ \A i \in DOMAIN b[c].readers :
            IF i \in DOMAIN a[c].readers THEN b[c].readers[i] = a[c].readers[i]
                                         ELSE b[c].readers[i] = Reader
  /\ \A c \in DOMAIN b : c \notin DOMAIN a =>
       b[c].used = 0 /\ \A i \in DOMAIN b[c].readers : b[c].readers[i] = Reader

(* The same, of its slots. *)
Grown(a, b) ==
  /\ SlotsOf(a) \subseteq SlotsOf(b)
  /\ \A s \in SlotsOf(a) : AtOf(b, s) = AtOf(a, s)
  /\ \A s \in SlotsOf(b) : s \notin SlotsOf(a) => AtOf(b, s) = Reader
  /\ Counted(b)

(* Growth leaves the slots there were alone, and the counts. *)
LEMMA ExtendsGrown ==
  ASSUME NEW a, NEW b, Extends(a, b), Counted(a) PROVE Grown(a, b)
<1>1. ASSUME NEW s \in SlotsOf(a) PROVE s \in SlotsOf(b) /\ AtOf(b, s) = AtOf(a, s)
  <2>1. PICK c, i : s = <<c, i>> /\ s[1] = c /\ s[2] = i
    BY Zenon, SlotPair
  <2>2. c \in DOMAIN a /\ i \in DOMAIN a[c].readers
    BY Zenon, <2>1, SlotIff
  <2>3. c \in DOMAIN b /\ i \in DOMAIN b[c].readers /\ b[c].readers[i] = a[c].readers[i]
    BY Zenon, <2>2 DEF Extends
  <2> QED
    BY Zenon, <2>1, <2>3, SlotIff DEF AtOf
<1>2. ASSUME NEW s \in SlotsOf(b), s \notin SlotsOf(a) PROVE AtOf(b, s) = Reader
  <2>1. PICK c, i : s = <<c, i>> /\ s[1] = c /\ s[2] = i
    BY Zenon, SlotPair
  <2>2. /\ c \in DOMAIN b /\ i \in DOMAIN b[c].readers
        /\ ~(c \in DOMAIN a /\ i \in DOMAIN a[c].readers)
    BY Zenon, <1>2, <2>1, SlotIff
  <2>3. b[c].readers[i] = Reader
    BY Zenon, <2>2 DEF Extends
  <2> QED
    BY Zenon, <2>1, <2>3 DEF AtOf
<1>3. ASSUME NEW c \in DOMAIN b PROVE b[c].used = Cardinality(InUse(b, c))
  <2>0. ~Reader.alloc
    BY Zenon, ReaderFree
  <2>1. CASE c \in DOMAIN a
    <3>1. InUse(b, c) = InUse(a, c)
      BY Zenon, <2>0, <2>1 DEF Extends, InUse
    <3> QED
      BY Zenon, <2>1, <3>1 DEF Extends, Counted
  <2>2. CASE c \notin DOMAIN a
    <3>1. InUse(b, c) = {}
      BY Zenon, <2>0, <2>2 DEF Extends, InUse
    <3>2. b[c].used = 0
      BY Zenon, <2>2 DEF Extends
    <3> QED
      BY Zenon, <3>1, <3>2, FS_EmptySet
  <2> QED
    BY Zenon, <2>1, <2>2
<1> QED
  BY Zenon, <1>1, <1>2, <1>3 DEF Grown, Counted

(* expand_arena() adds free slots. *)
LEMMA ExpandedExtends ==
  ASSUME arena \in Arenas, BpAssumption, NEW a \in Expanded
  PROVE  a \in Arenas /\ Extends(arena, a)
<1>1. CASE arena = <<>>
  <2>1. a = <<Chunk(InitCount)>>
    BY Zenon, <1>1 DEF Expanded
  <2>2. PICK k : k = Chunk(InitCount)
    BY Zenon
  <2>3. /\ k \in ChunkRecord /\ k.used = 0
        /\ \A i \in DOMAIN k.readers : k.readers[i] = Reader
    BY Zenon, <2>2, ChunkFree DEF BpAssumption
  <2>4. a \in Arenas /\ DOMAIN a = {1} /\ a[1] = k
    BY <2>1, <2>2, <2>3 DEF Arenas
  <2>5. DOMAIN arena = {}
    BY <1>1
  <2> QED
    BY Zenon, <2>3, <2>4, <2>5 DEF Extends
<1>2. CASE arena # <<>>
  <2>1. PICK last, rs, cap : last = Len(arena) /\ rs = arena[last].readers /\ cap = Len(rs)
    BY Zenon
  <2>2. \/ a = [arena EXCEPT ![last].readers = @ \o Chunk(cap).readers]
        \/ a = Append(arena, Chunk(2 * cap))
    BY Zenon, <1>2, <2>1 DEF Expanded
  <2>3. last \in DOMAIN arena /\ arena[last] \in ChunkRecord
    BY <1>2, <2>1 DEF Arenas
  <2>4. rs \in Seq(ReaderRecord)
    BY Zenon, <2>1, <2>3 DEF ChunkRecord
  <2>5. cap \in Nat /\ 2 * cap \in Nat
    BY <2>1, <2>4
  <2>6. CASE a = [arena EXCEPT ![last].readers = @ \o Chunk(cap).readers]
    <3>1. PICK k, new : k = Chunk(cap) /\ new = rs \o k.readers
      BY Zenon
    <3>2. PICK m : m = [arena[last] EXCEPT !.readers = new]
      BY Zenon
    <3>3. a = [arena EXCEPT ![last] = m]
      BY Zenon, <2>1, <2>3, <2>6, <3>1, <3>2
    <3>4. /\ k.readers \in Seq(ReaderRecord) /\ DOMAIN k.readers = 1..cap
          /\ \A i \in 1..cap : k.readers[i] = Reader
      BY Zenon, <2>5, <3>1, ChunkFree DEF ChunkRecord
    <3>5. /\ new \in Seq(ReaderRecord) /\ DOMAIN rs \subseteq DOMAIN new
          /\ \A i \in DOMAIN rs : new[i] = rs[i]
      BY <2>4, <3>1, <3>4
    <3>6. \A i \in DOMAIN new : i \notin DOMAIN rs => new[i] = Reader
      <4> SUFFICES ASSUME NEW i \in DOMAIN new, i \notin DOMAIN rs PROVE new[i] = Reader
        BY Zenon
      <4>1. PICK ks \in Seq(ReaderRecord) : ks = k.readers
        BY Zenon, <3>4
      <4>2. i - cap \in DOMAIN ks /\ new[i] = ks[i - cap]
        <5>1. new = rs \o ks /\ rs \in Seq(ReaderRecord) /\ cap = Len(rs)
          BY Zenon, <2>1, <2>4, <3>1, <4>1
        <5>2. i \in 1..(Len(rs) + Len(ks)) /\ i \notin 1..Len(rs)
          BY <5>1
        <5> QED
          BY <5>1, <5>2
      <4> QED
        BY Zenon, <3>4, <4>1, <4>2
    <3>7. m \in ChunkRecord /\ m.readers = new /\ m.used = arena[last].used
      BY Zenon, <2>3, <3>2, <3>5 DEF ChunkRecord
    <3>8. /\ a \in Arenas /\ DOMAIN a = DOMAIN arena /\ a[last] = m
          /\ \A d \in DOMAIN arena : d # last => a[d] = arena[d]
      BY Zenon, <2>3, <3>3, <3>7, ExceptArena
    <3>9. a[last].readers = new /\ a[last].used = arena[last].used
      BY Zenon, <3>7, <3>8
    <3>10. ASSUME NEW c \in DOMAIN arena
           PROVE  /\ a[c].used = arena[c].used
                  /\ DOMAIN arena[c].readers \subseteq DOMAIN a[c].readers
                  /\ \A i \in DOMAIN a[c].readers :
                       IF i \in DOMAIN arena[c].readers
                       THEN a[c].readers[i] = arena[c].readers[i]
                       ELSE a[c].readers[i] = Reader
      <4>1. CASE c = last
        BY Zenon, <2>1, <3>5, <3>6, <3>9, <4>1
      <4>2. CASE c # last
        BY Zenon, <3>8, <4>2
      <4> QED
        BY Zenon, <4>1, <4>2
    <3> QED
      BY Zenon, <3>8, <3>10 DEF Extends
  <2>7. CASE a = Append(arena, Chunk(2 * cap))
    <3>1. PICK k : k = Chunk(2 * cap)
      BY Zenon
    <3>2. /\ k \in ChunkRecord /\ k.used = 0
          /\ \A i \in DOMAIN k.readers : k.readers[i] = Reader
      BY Zenon, <2>5, <3>1, ChunkFree
    <3>3. /\ a \in Arenas /\ DOMAIN arena \subseteq DOMAIN a
          /\ \A c \in DOMAIN arena : a[c] = arena[c]
          /\ \A c \in DOMAIN a : c \notin DOMAIN arena => a[c] = k
      BY <2>7, <3>1, <3>2 DEF Arenas
    <3> QED
      BY Zenon, <3>2, <3>3 DEF Extends
  <2> QED
    BY Zenon, <2>2, <2>6, <2>7
<1> QED
  BY Zenon, <1>1, <1>2

(* arena_alloc() finds the first of the free slots. *)
LEMMA FirstIn ==
  ASSUME NEW R \in SUBSET (Nat \X Nat), R # {} PROVE First(R) \in R
<1>1. PICK c \in {s[1] : s \in R} : \A d \in {s[1] : s \in R} : c <= d
  <2>1. {s[1] : s \in R} \in SUBSET Nat /\ {s[1] : s \in R} # {}
    OBVIOUS
  <2> QED
    BY Zenon, <2>1, Least
<1> DEFINE P == {s \in R : s[1] = c}
<1>2. PICK i \in {s[2] : s \in P} : \A j \in {s[2] : s \in P} : i <= j
  <2>1. {s[2] : s \in P} \in SUBSET Nat /\ {s[2] : s \in P} # {}
    OBVIOUS
  <2> QED
    BY Zenon, <2>1, Least
<1>3. PICK s \in R : s[1] = c /\ s[2] = i
  BY Zenon, <1>2
<1>4. ASSUME NEW r \in R PROVE s[1] < r[1] \/ (s[1] = r[1] /\ s[2] <= r[2])
  <2>1. r[1] \in Nat /\ c \in Nat /\ c <= r[1]
    BY <1>1
  <2>2. r[1] = c => i <= r[2]
    BY Zenon, <1>2
  <2> QED
    BY <1>3, <2>1, <2>2
<1> QED
  BY Zenon, <1>4 DEF First

(* A slot s of a is given to the thread t. *)
Taken(a, b, s, t) ==
  /\ b \in Arenas /\ SameShape(a, b) /\ Counted(b)
  /\ AtOf(b, s).alloc /\ AtOf(b, s).tid = t /\ AtOf(b, s).nest = 0
  /\ AtOf(b, s).list = "registry"
  /\ \A q \in SlotsOf(a) : q # s => AtOf(b, q) = AtOf(a, q)

(* What add_thread() does to the slot it has found. *)
LEMMA TakeSlot ==
  ASSUME NEW a \in Arenas, Counted(a), NEW t \in Threads, NEW s \in SlotsOf(a),
         AtOf(a, s) = Reader,
         NEW b, b = Registered(a, s, t)
  PROVE  Taken(a, b, s, t)
<1>1. PICK c, i : s = <<c, i>> /\ s[1] = c /\ s[2] = i
  BY Zenon, SlotPair
<1>2. c \in DOMAIN a /\ i \in DOMAIN a[c].readers /\ a[c].readers[i] = Reader
  BY Zenon, <1>1, SlotIff DEF AtOf
<1>3. PICK x \in ReaderRecord : x = Reader /\ x.nest = 0
  BY Zenon, ReaderFree
<1>4. PICK r : r = [x EXCEPT !.alloc = TRUE, !.tid = t, !.list = "registry"]
  BY Zenon
<1>5. /\ r \in ReaderRecord
      /\ r.alloc /\ r.tid = t /\ r.nest = 0 /\ r.list = "registry"
  BY Zenon, <1>3, <1>4 DEF ReaderRecord, Lists
<1>6. PICK rs : rs = [a[c].readers EXCEPT ![i] = r]
  BY Zenon
<1>7. PICK m : m = [readers |-> rs, used |-> a[c].used + 1]
  BY Zenon
<1>8. PICK f : f = [a EXCEPT ![c] = m]
  BY Zenon
<1>9. b = f
  <2>1. a[c].readers[i] = x
    BY Zenon, <1>2, <1>3
  <2>2. b = [a EXCEPT ![s[1]] = [readers |-> [a[s[1]].readers EXCEPT ![s[2]] =
                                   [a[s[1]].readers[s[2]] EXCEPT
                                       !.alloc = TRUE, !.tid = t, !.list = "registry"]],
                                 used |-> a[s[1]].used + 1]]
    BY Zenon DEF Registered
  <2>3. b = [a EXCEPT ![s[1]] = [readers |-> [a[s[1]].readers EXCEPT ![s[2]] = r],
                                 used |-> a[s[1]].used + 1]]
    BY Zenon, <1>1, <1>4, <2>1, <2>2
  <2> QED
    BY Zenon, <1>1, <1>6, <1>7, <1>8, <2>3
<1>10. a[c] \in ChunkRecord
  BY <1>2 DEF Arenas
<1>11. a[c].readers \in Seq(ReaderRecord) /\ a[c].used \in Int /\ a[c].used + 1 \in Int
  BY <1>10 DEF ChunkRecord
<1>12. /\ rs \in Seq(ReaderRecord) /\ DOMAIN rs = DOMAIN a[c].readers /\ rs[i] = r
       /\ \A j \in DOMAIN a[c].readers : j # i => rs[j] = a[c].readers[j]
  BY Zenon, <1>2, <1>5, <1>6, <1>11, ExceptSeq
<1>13. m \in ChunkRecord /\ m.readers = rs /\ m.used = a[c].used + 1
  BY Zenon, <1>7, <1>11, <1>12 DEF ChunkRecord
<1>14. /\ b \in Arenas /\ DOMAIN b = DOMAIN a /\ b[c] = m
       /\ \A d \in DOMAIN a : d # c => b[d] = a[d]
  <2>1. /\ f \in Arenas /\ DOMAIN f = DOMAIN a /\ f[c] = m
        /\ \A d \in DOMAIN a : d # c => f[d] = a[d]
    BY Zenon, <1>2, <1>8, <1>13, ExceptArena
  <2> QED
    BY Zenon, <1>9, <2>1
<1>15. SameShape(a, b) /\ AtOf(b, s) = r
  BY Zenon, <1>1, <1>12, <1>13, <1>14 DEF SameShape, AtOf
<1>16. ASSUME NEW q \in SlotsOf(a), q # s PROVE AtOf(b, q) = AtOf(a, q)
  <2>1. PICK d, j : q = <<d, j>> /\ q[1] = d /\ q[2] = j
    BY Zenon, SlotPair
  <2>2. d \in DOMAIN a /\ j \in DOMAIN a[d].readers
    BY Zenon, <2>1, SlotIff
  <2>3. CASE d # c
    BY Zenon, <1>14, <2>1, <2>2, <2>3 DEF AtOf
  <2>4. CASE d = c /\ j # i
    <3>1. rs[j] = a[c].readers[j]
      BY Zenon, <1>12, <2>2, <2>4
    <3> QED
      BY Zenon, <1>13, <1>14, <2>1, <2>4, <3>1 DEF AtOf
  <2> QED
    BY Zenon, <1>1, <1>16, <2>1, <2>3, <2>4
<1>17. ASSUME NEW d \in DOMAIN a PROVE b[d].used = Cardinality(InUse(b, d))
  <2>1. CASE d # c
    <3>1. b[d] = a[d]
      BY Zenon, <1>14, <2>1
    <3> QED
      BY Zenon, <3>1 DEF InUse, Counted
  <2>2. CASE d = c
    <3>1. ~Reader.alloc
      BY Zenon, ReaderFree
    <3>2. i \notin InUse(a, c)
      BY Zenon, <1>2, <3>1 DEF InUse
    <3>3. IsFiniteSet(InUse(a, c))
      <4>1. PICK n \in Nat : DOMAIN a[c].readers = 1..n
        BY <1>11
      <4>2. IsFiniteSet(1..n)
        BY FS_Interval
      <4>3. InUse(a, c) \in SUBSET (1..n)
        BY Zenon, <4>1 DEF InUse
      <4> QED
        BY Zenon, <4>2, <4>3, FS_Subset
    <3>4. InUse(b, c) = InUse(a, c) \cup {i}
      <4>1. b[c].readers = rs
        BY Zenon, <1>13, <1>14
      <4>2. \A j : j \in InUse(b, c) <=> j \in DOMAIN a[c].readers /\ rs[j].alloc
        BY Zenon, <1>12, <4>1 DEF InUse
      <4>3. \A j : j \in InUse(b, c) <=> j \in InUse(a, c) \/ j = i
        BY Zenon, <1>2, <1>5, <1>12, <4>2 DEF InUse
      <4> QED
        BY Zenon, <4>3
    <3>5. Cardinality(InUse(b, c)) = Cardinality(InUse(a, c)) + 1
      BY Zenon, <3>2, <3>3, <3>4, FS_AddElement
    <3> QED
      BY Zenon, <1>2, <1>13, <1>14, <2>2, <3>5 DEF Counted
  <2> QED
    BY Zenon, <2>1, <2>2
<1> QED
  BY Zenon, <1>5, <1>14, <1>15, <1>16, <1>17 DEF Taken, Counted

-----------------------------------------------------------------------------
(* What the actions do to the arena *)

(* The state's slots. *)
LEMMA StateSlots == Slots = SlotsOf(arena) /\ \A s : At(s) = AtOf(arena, s)
  BY Zenon DEF Slots, SlotsOf, At, AtOf

(* The slots after a step. *)
LEMMA NextSlots == Slots' = SlotsOf(arena') /\ \A s : At(s)' = AtOf(arena', s)
  BY Zenon DEF Slots, SlotsOf, At, AtOf

(* The slot s is t's, as arena_alloc() and add_thread() leave it. *)
Joined(s, t) ==
  /\ arena' \in Arenas /\ Counted(arena') /\ tls' = [tls EXCEPT ![t] = s]
  /\ Slots \subseteq Slots' /\ s \in Slots' /\ s \in Nat \X Nat
  /\ s \in Slots => ~At(s).alloc
  /\ At(s)'.alloc /\ At(s)'.tid = t /\ At(s)'.nest = 0 /\ At(s)'.list = "registry"
  /\ \A q \in Slots : q # s => At(q)' = At(q)
  /\ \A q \in Slots' : q \notin Slots /\ q # s => At(q)' = Reader

(* A thread that registers gets a free slot. *)
LEMMA AddThreadJoins ==
  ASSUME TypeOK, ArenaInv, BpAssumption, NEW t \in Threads, AddThread(t)
  PROVE  \E s \in Nat \X Nat : Joined(s, t)
<1>1. PICK a \in IF Room(arena) = {} THEN Expanded ELSE {arena} :
        /\ Room(a) # {}
        /\ arena' = Registered(a, First(Room(a)), t)
        /\ tls' = [tls EXCEPT ![t] = First(Room(a))]
  BY Zenon DEF AddThread
<1>2. arena \in Arenas /\ Counted(arena)
  BY Zenon DEF TypeOK, ArenaInv
<1>3. a \in Arenas /\ Grown(arena, a)
  <2>1. CASE a \in Expanded
    BY Zenon, <1>2, <2>1, ExpandedExtends, ExtendsGrown
  <2>2. CASE a = arena
    BY Zenon, <1>2, <2>2 DEF Grown
  <2> QED
    BY Zenon, <1>1, <2>1, <2>2
<1>4. \A q \in Room(a) : q \in SlotsOf(a) /\ ~AtOf(a, q).alloc
  <2> TAKE q \in Room(a)
  <2>1. /\ \E c \in DOMAIN a, i \in 1..MaxCapacity : q = <<c, i>>
        /\ q[2] \in DOMAIN a[q[1]].readers /\ ~a[q[1]].readers[q[2]].alloc
    BY DEF Room
  <2>2. PICK c \in DOMAIN a, i \in 1..MaxCapacity : q = <<c, i>>
    BY Zenon, <2>1
  <2>3. q[1] = c /\ q[2] = i
    BY <2>2
  <2> QED
    BY Zenon, <2>1, <2>2, <2>3, SlotIff DEF AtOf
<1>5. PICK s : s = First(Room(a))
  BY Zenon
<1>6. s \in SlotsOf(a) /\ s \in Nat \X Nat /\ ~AtOf(a, s).alloc
  <2>1. \A q \in Room(a) : q \in Nat \X Nat
    BY Zenon, <1>3, <1>4, SlotType
  <2>2. s \in Room(a)
    BY Zenon, <1>1, <1>5, <2>1, FirstIn
  <2> QED
    BY Zenon, <1>4, <2>1, <2>2
<1>7. AtOf(a, s) = Reader /\ (s \in Slots => ~At(s).alloc)
  <2>1. CASE s \in Slots
    <3>1. AtOf(a, s) = At(s)
      BY Zenon, <1>3, <2>1, StateSlots DEF Grown
    <3> QED
      BY Zenon, <1>6, <2>1, <3>1 DEF ArenaInv, Slot
  <2>2. CASE s \notin Slots
    BY Zenon, <1>3, <1>6, <2>2, StateSlots DEF Grown
  <2> QED
    BY Zenon, <2>1, <2>2
<1>8. Taken(a, arena', s, t)
  <2>1. Counted(a)
    BY Zenon, <1>3 DEF Grown
  <2> QED
    BY Zenon, <1>1, <1>3, <1>5, <1>6, <1>7, <2>1, TakeSlot
<1>9. Slots' = SlotsOf(a) /\ \A q : At(q)' = AtOf(arena', q)
  <2>1. SlotsOf(arena') = SlotsOf(a)
    BY Zenon, <1>8, SameSlots DEF Taken
  <2> QED
    BY Zenon, <2>1, NextSlots
<1>10. /\ At(s)'.alloc /\ At(s)'.tid = t /\ At(s)'.nest = 0 /\ At(s)'.list = "registry"
       /\ arena' \in Arenas /\ Counted(arena')
  BY Zenon, <1>8, <1>9 DEF Taken
<1>11. \A q \in Slots' : q # s => At(q)' = AtOf(a, q)
  BY Zenon, <1>8, <1>9 DEF Taken
<1>12. /\ Slots \subseteq Slots'
       /\ \A q \in Slots : AtOf(a, q) = At(q)
       /\ \A q \in Slots' : q \notin Slots => AtOf(a, q) = Reader
  BY Zenon, <1>3, <1>9, StateSlots DEF Grown
<1>13. /\ \A q \in Slots : q # s => At(q)' = At(q)
       /\ \A q \in Slots' : q \notin Slots /\ q # s => At(q)' = Reader
  BY Zenon, <1>11, <1>12
<1>14. tls' = [tls EXCEPT ![t] = s] /\ s \in Slots'
  BY Zenon, <1>1, <1>5, <1>6, <1>9
<1>15. Joined(s, t)
  BY Zenon, <1>6, <1>7, <1>10, <1>12, <1>13, <1>14 DEF Joined
<1> QED
  BY Zenon, <1>6, <1>15

(* The slots ss are free, and nothing else has changed. *)
Left(ss) ==
  /\ arena' \in Arenas /\ Counted(arena') /\ Slots' = Slots
  /\ \A q \in Slots : q \in ss => At(q)' = Reader
  /\ \A q \in Slots : q \notin ss => At(q)' = At(q)

(* What cleanup_thread() does to slots in use. *)
LEMMA CleanupLeaves ==
  ASSUME TypeOK, ArenaInv, NEW ss, \A q \in ss : q \in Slots /\ At(q).alloc, Cleanup(ss)
  PROVE  Left(ss)
<1> DEFINE Gone(c) == {i \in DOMAIN arena[c].readers : <<c, i>> \in ss}
<1>0. arena \in Arenas /\ Counted(arena)
  BY Zenon DEF TypeOK, ArenaInv
<1>1. PICK b : b = arena'
  BY Zenon
<1>2. DOMAIN b = DOMAIN arena
  BY Zenon, <1>1 DEF Cleanup
<1>3. ASSUME NEW c \in DOMAIN arena
      PROVE  /\ b[c] = [readers |-> b[c].readers, used |-> b[c].used]
             /\ b[c].used = arena[c].used - Cardinality(Gone(c))
             /\ DOMAIN b[c].readers = DOMAIN arena[c].readers
             /\ b[c].readers = [i \in DOMAIN arena[c].readers |-> b[c].readers[i]]
             /\ \A i \in DOMAIN arena[c].readers :
                  b[c].readers[i] = IF <<c, i>> \in ss THEN Reader ELSE arena[c].readers[i]
  <2>1. PICK rs : rs = [i \in DOMAIN arena[c].readers |->
                          IF <<c, i>> \in ss THEN Reader ELSE arena[c].readers[i]]
    BY Zenon
  <2>0. PICK n : n = arena[c].used - Cardinality(Gone(c))
    BY Zenon
  <2>2. b[c] = [readers |-> rs, used |-> n]
    BY Zenon, <1>1, <1>3, <2>0, <2>1 DEF Cleanup
  <2>3. b[c].readers = rs /\ b[c].used = n
    BY <2>2
  <2>4. /\ DOMAIN rs = DOMAIN arena[c].readers
        /\ \A i \in DOMAIN arena[c].readers :
              rs[i] = IF <<c, i>> \in ss THEN Reader ELSE arena[c].readers[i]
        /\ rs = [i \in DOMAIN arena[c].readers |-> rs[i]]
    BY Zenon, <2>1
  <2> HIDE DEF Gone
  <2> QED
    BY Zenon, <2>0, <2>2, <2>3, <2>4
<1>4. ASSUME NEW c \in DOMAIN arena, NEW i \in DOMAIN arena[c].readers
      PROVE  /\ <<c, i>> \in ss => b[c].readers[i] = Reader
             /\ <<c, i>> \notin ss => b[c].readers[i] = arena[c].readers[i]
  BY Zenon, <1>3
<1>5. ASSUME NEW c \in DOMAIN arena
      PROVE  arena[c].readers \in Seq(ReaderRecord) /\ arena[c].used \in Int
  <2>1. arena[c] \in ChunkRecord
    BY <1>0 DEF Arenas
  <2> QED
    BY Zenon, <2>1 DEF ChunkRecord
<1>6. ASSUME NEW c \in DOMAIN arena
      PROVE  /\ IsFiniteSet(InUse(arena, c)) /\ Gone(c) \subseteq InUse(arena, c)
             /\ InUse(b, c) = InUse(arena, c) \ Gone(c)
  <2>1. PICK n \in Nat : DOMAIN arena[c].readers = 1..n
    BY <1>5
  <2>2. IsFiniteSet(1..n)
    BY FS_Interval
  <2>3. InUse(arena, c) \in SUBSET (1..n)
    BY Zenon, <2>1 DEF InUse
  <2>4. ASSUME NEW i \in Gone(c) PROVE i \in InUse(arena, c)
    <3>1. <<c, i>> \in ss /\ i \in DOMAIN arena[c].readers
      BY Zenon
    <3>2. At(<<c, i>>).alloc
      BY Zenon, <3>1
    <3>3. At(<<c, i>>) = arena[c].readers[i]
      BY DEF At
    <3> QED
      BY Zenon, <3>1, <3>2, <3>3 DEF InUse
  <2>5. \A i : i \in InUse(b, c) <=> i \in InUse(arena, c) /\ i \notin Gone(c)
    BY Zenon, <1>3, <1>4, ReaderFree DEF InUse
  <2> HIDE DEF Gone
  <2> QED
    BY Zenon, <2>2, <2>3, <2>4, <2>5, FS_Subset
<1>7. ASSUME NEW c \in DOMAIN arena
      PROVE  /\ b[c].used = Cardinality(InUse(b, c))
             /\ Cardinality(Gone(c)) \in Nat
  <2>1. Cardinality(InUse(b, c)) = Cardinality(InUse(arena, c)) - Cardinality(Gone(c))
    <3> HIDE DEF Gone
    <3>1. InUse(arena, c) \cap Gone(c) = Gone(c)
      BY Zenon, <1>6
    <3> QED
      BY ZenonT(30), <1>6, <3>1, FS_Difference
  <2>2. Gone(c) \in SUBSET InUse(arena, c)
    BY Zenon, <1>6
  <2> HIDE DEF Gone
  <2>3. Cardinality(Gone(c)) \in Nat
    BY Zenon, <1>6, <2>2, FS_Subset, FS_CardinalityType
  <2> QED
    BY Zenon, <1>0, <1>3, <2>1, <2>3 DEF Counted
<1>8. ASSUME NEW c \in DOMAIN arena PROVE b[c] \in ChunkRecord
  <2>1. ASSUME NEW i \in DOMAIN arena[c].readers PROVE b[c].readers[i] \in ReaderRecord
    <3>1. arena[c].readers[i] \in ReaderRecord
      BY <1>5
    <3> QED
      BY Zenon, <1>4, <3>1, ReaderFree
  <2>2. b[c].readers \in Seq(ReaderRecord)
    BY Zenon, <1>3, <1>5, <2>1, MapSeq
  <2>3. b[c].used \in Int
    <3> HIDE DEF Gone
    <3>1. PICK n \in Nat : n = Cardinality(Gone(c))
      BY Zenon, <1>7
    <3>2. PICK k \in Int : k = arena[c].used
      BY Zenon, <1>5
    <3>3. b[c].used = k - n
      BY Zenon, <1>3, <3>1, <3>2
    <3> QED
      BY <3>3
  <2>4. PICK x, y : x = b[c].readers /\ y = b[c].used
    BY Zenon
  <2>5. b[c] = [readers |-> x, used |-> y]
    BY Zenon, <1>3, <2>4
  <2> QED
    BY Zenon, <2>2, <2>3, <2>4, <2>5 DEF ChunkRecord
<1>9. b \in Arenas
  <2>1. b \in [DOMAIN arena -> ChunkRecord]
    BY Zenon, <1>1, <1>2, <1>8 DEF Cleanup
  <2> QED
    BY Zenon, <1>0, <2>1, FcnSeq DEF Arenas
<1>10. SlotsOf(b) = SlotsOf(arena)
  BY Zenon, <1>2, <1>3, SameSlots DEF SameShape
<1>11. ASSUME NEW q \in SlotsOf(arena)
       PROVE  /\ q \in ss => AtOf(b, q) = Reader
              /\ q \notin ss => AtOf(b, q) = AtOf(arena, q)
  <2>1. PICK c, i : q = <<c, i>> /\ q[1] = c /\ q[2] = i
    BY Zenon, SlotPair
  <2>2. c \in DOMAIN arena /\ i \in DOMAIN arena[c].readers
    BY Zenon, <2>1, SlotIff
  <2> QED
    BY Zenon, <1>4, <2>1, <2>2 DEF AtOf
<1>12. Slots' = SlotsOf(b) /\ \A q : At(q)' = AtOf(b, q)
  BY Zenon, <1>1, NextSlots
<1>13. Counted(b)
  BY Zenon, <1>2, <1>7 DEF Counted
<1> QED
  BY Zenon, <1>1, <1>9, <1>10, <1>11, <1>12, <1>13, StateSlots DEF Left

(* The slots are sorted anew, and nothing else has changed. *)
Sorted ==
  /\ arena' \in Arenas /\ Counted(arena') /\ Slots' = Slots
  /\ \A q \in Slots :
       /\ At(q).list = "qs" => At(q)' = [At(q) EXCEPT !.list = "registry"]
       /\ At(q).list # "qs" => At(q)' = At(q)

(* What the splice at the end of a grace period does. *)
LEMMA SpliceSorts == ASSUME TypeOK, ArenaInv, Splice PROVE Sorted
<1> DEFINE Back(r) == IF r.list = "qs" THEN [r EXCEPT !.list = "registry"] ELSE r
<1>0. arena \in Arenas /\ Counted(arena)
  BY Zenon DEF TypeOK, ArenaInv
<1>1. PICK b : b = arena'
  BY Zenon
<1>2. /\ DOMAIN b = DOMAIN arena /\ b = [c \in DOMAIN arena |-> b[c]]
      /\ \A c \in DOMAIN arena :
           b[c] = [readers |-> [i \in DOMAIN arena[c].readers |-> Back(arena[c].readers[i])],
                   used |-> arena[c].used]
  BY Zenon, <1>1 DEF Splice
<1>b. \A r \in ReaderRecord :
        /\ r.list = "qs" => Back(r) = [r EXCEPT !.list = "registry"]
        /\ r.list # "qs" => Back(r) = r
        /\ Back(r) \in ReaderRecord /\ Back(r).alloc = r.alloc
  BY Zenon DEF ReaderRecord, Lists
<1> HIDE DEF Back
<1>3. ASSUME NEW c \in DOMAIN arena
      PROVE  /\ b[c] = [readers |-> b[c].readers, used |-> b[c].used]
             /\ b[c].used = arena[c].used
             /\ DOMAIN b[c].readers = DOMAIN arena[c].readers
             /\ b[c].readers = [i \in DOMAIN arena[c].readers |-> b[c].readers[i]]
             /\ \A i \in DOMAIN arena[c].readers :
                  b[c].readers[i] = Back(arena[c].readers[i])
  <2>1. PICK rs : rs = [i \in DOMAIN arena[c].readers |-> Back(arena[c].readers[i])]
    BY Zenon
  <2>2. b[c] = [readers |-> rs, used |-> arena[c].used]
    BY Zenon, <1>2, <1>3, <2>1
  <2>3. b[c].readers = rs /\ b[c].used = arena[c].used
    BY <2>2
  <2>4. /\ DOMAIN rs = DOMAIN arena[c].readers
        /\ \A i \in DOMAIN arena[c].readers : rs[i] = Back(arena[c].readers[i])
        /\ rs = [i \in DOMAIN arena[c].readers |-> rs[i]]
    BY Zenon, <2>1
  <2> QED
    BY Zenon, <2>2, <2>3, <2>4
<1>4. SameShape(arena, b)
  BY Zenon, <1>2, <1>3 DEF SameShape
<1>5. ASSUME NEW c \in DOMAIN arena PROVE b[c] \in ChunkRecord
  <2>1. arena[c] \in ChunkRecord
    BY <1>0 DEF Arenas
  <2>2. arena[c].readers \in Seq(ReaderRecord) /\ arena[c].used \in Int
    BY Zenon, <2>1 DEF ChunkRecord
  <2>3. ASSUME NEW i \in DOMAIN arena[c].readers PROVE b[c].readers[i] \in ReaderRecord
    <3>1. arena[c].readers[i] \in ReaderRecord
      BY <2>2
    <3> QED
      BY Zenon, <1>b, <1>3, <3>1
  <2>4. PICK x, y : x = b[c].readers /\ y = b[c].used
    BY Zenon
  <2>5. b[c] = [readers |-> x, used |-> y]
    BY Zenon, <1>3, <2>4
  <2>6. x \in Seq(ReaderRecord) /\ y \in Int
    BY Zenon, <1>3, <2>2, <2>3, <2>4, MapSeq
  <2> QED
    BY <2>5, <2>6 DEF ChunkRecord
<1>6. b \in Arenas
  BY Zenon, <1>0, <1>2, <1>5, MapSeq DEF Arenas
<1>7. ASSUME NEW q \in SlotsOf(arena)
      PROVE  /\ AtOf(arena, q).list = "qs" =>
                  AtOf(b, q) = [AtOf(arena, q) EXCEPT !.list = "registry"]
             /\ AtOf(arena, q).list # "qs" => AtOf(b, q) = AtOf(arena, q)
             /\ AtOf(b, q).alloc = AtOf(arena, q).alloc
  <2>1. PICK c, i : q = <<c, i>> /\ q[1] = c /\ q[2] = i
    BY Zenon, SlotPair
  <2>2. c \in DOMAIN arena /\ i \in DOMAIN arena[c].readers
    BY Zenon, <2>1, SlotIff
  <2>3. AtOf(b, q) = Back(AtOf(arena, q)) /\ AtOf(arena, q) \in ReaderRecord
    BY Zenon, <1>0, <1>3, <2>1, <2>2, SlotType DEF AtOf
  <2> QED
    BY Zenon, <1>b, <2>3
<1>8. Slots' = SlotsOf(b) /\ \A q : At(q)' = AtOf(b, q)
  BY Zenon, <1>1, NextSlots
<1>9. Counted(b) /\ SlotsOf(b) = SlotsOf(arena)
  BY Zenon, <1>0, <1>3, <1>4, <1>7, CountedKept, SameSlots
<1> QED
  BY Zenon, <1>1, <1>6, <1>7, <1>8, <1>9, StateSlots DEF Sorted

(* The slot s holds r, and nothing else has changed. *)
Wrote(s, r) ==
  /\ arena' \in Arenas /\ Counted(arena') /\ Slots' = Slots
  /\ At(s)' = r
  /\ \A q \in Slots : q # s => At(q)' = At(q)

(* What a store to a slot in use does. *)
LEMMA PutWrites ==
  ASSUME TypeOK, ArenaInv, NEW s \in Slots, NEW r \in ReaderRecord,
         r.alloc = At(s).alloc, arena' = Put(s, r)
  PROVE  Wrote(s, r)
<1>1. arena \in Arenas /\ Counted(arena) /\ s \in SlotsOf(arena)
  BY Zenon, StateSlots DEF TypeOK, ArenaInv
<1>2. PICK b : b = arena'
  BY Zenon
<1>3. Stored(arena, b, s, r)
  <2>1. b = [arena EXCEPT ![s[1]].readers[s[2]] = r]
    BY Zenon, <1>2 DEF Put
  <2> QED
    BY Zenon, <1>1, <2>1, PutStores
<1>4. \A q \in SlotsOf(arena) : AtOf(b, q).alloc = AtOf(arena, q).alloc
  BY Zenon, <1>3, StateSlots DEF Stored
<1>5. Counted(b) /\ SlotsOf(b) = SlotsOf(arena)
  BY Zenon, <1>1, <1>3, <1>4, CountedKept, SameSlots DEF Stored
<1>6. Slots' = SlotsOf(b) /\ \A q : At(q)' = AtOf(b, q)
  BY Zenon, <1>2, NextSlots
<1> QED
  BY Zenon, <1>2, <1>3, <1>5, <1>6, StateSlots DEF Stored, Wrote

-----------------------------------------------------------------------------
(* What a step keeps of the invariant *)

(* A store to a slot that leaves its owner and its being on a list. *)
LEMMA WroteOwned ==
  ASSUME IInv, NEW s \in Slots, At(s).alloc, NEW r \in ReaderRecord, Wrote(s, r),
         r.alloc, r.tid = At(s).tid, r.list # "none", tls' = tls
  PROVE  ArenaInv' /\ OwnerInv'
<1>1. ASSUME NEW q \in Slots PROVE Slot(q)'
  <2>1. CASE q = s
    BY Zenon, <2>1 DEF Wrote, IInv, ArenaInv, Slot
  <2>2. CASE q # s
    BY Zenon, <2>2 DEF Wrote, IInv, ArenaInv, Slot
  <2> QED
    BY Zenon, <2>1, <2>2
<1>2. ASSUME NEW t \in Threads PROVE Owns(t)'
  <2>1. CASE tls[t] = s
    BY Zenon, <2>1 DEF Wrote, IInv, OwnerInv, Owns
  <2>2. CASE tls[t] # s
    BY Zenon, <2>2 DEF Wrote, IInv, OwnerInv, Owns
  <2> QED
    BY Zenon, <2>1, <2>2
<1> QED
  BY Zenon, <1>1, <1>2 DEF ArenaInv, OwnerInv, Wrote

(* A splice leaves owners alone. *)
LEMMA SortedOwned ==
  ASSUME IInv, Sorted, tls' = tls PROVE ArenaInv' /\ OwnerInv'
<1>0. \A q \in Slots : At(q) \in ReaderRecord
  BY Zenon, StateSlots, SlotType DEF IInv, TypeOK
<1>1. ASSUME NEW q \in Slots
      PROVE  /\ At(q)'.alloc = At(q).alloc /\ At(q)'.tid = At(q).tid
             /\ At(q)'.nest = At(q).nest
             /\ At(q)'.list = "none" <=> At(q).list = "none"
             /\ ~At(q).alloc => At(q)' = At(q)
  <2>1. ~At(q).alloc => At(q).list = "none"
    BY Zenon, ReaderFree DEF IInv, ArenaInv, Slot
  <2>2. At(q) \in ReaderRecord
    BY Zenon, <1>0
  <2>3. CASE At(q).list = "qs"
    <3>1. At(q)' = [At(q) EXCEPT !.list = "registry"]
      BY Zenon, <2>3 DEF Sorted
    <3> QED
      BY Zenon, <2>1, <2>2, <2>3, <3>1 DEF ReaderRecord
  <2>4. CASE At(q).list # "qs"
    BY Zenon, <2>4 DEF Sorted
  <2> QED
    BY Zenon, <2>3, <2>4
<1>2. ASSUME NEW q \in Slots PROVE Slot(q)'
  BY Zenon, <1>1 DEF IInv, ArenaInv, Slot
<1>3. ASSUME NEW t \in Threads PROVE Owns(t)'
  BY Zenon, <1>1 DEF IInv, OwnerInv, Owns, Sorted
<1> QED
  BY Zenon, <1>2, <1>3 DEF ArenaInv, OwnerInv, Sorted

(* A thread that joins owns its slot; the others keep theirs. *)
LEMMA JoinedOwned ==
  ASSUME IInv, BpAssumption, NEW t \in Threads, NEW s \in Nat \X Nat, Joined(s, t),
         tls[t] = NULL
  PROVE  /\ ArenaInv' /\ OwnerInv' /\ tls' \in [Threads -> (Nat \X Nat) \cup {NULL}]
         /\ tls'[t] = s /\ s # NULL
         /\ \A u \in Threads : u # t => tls'[u] = tls[u]
         /\ \A u \in Threads : u # t /\ tls[u] # NULL => At(tls[u])' = At(tls[u])
<1>1. /\ tls' \in [Threads -> (Nat \X Nat) \cup {NULL}] /\ tls'[t] = s /\ s # NULL
      /\ \A u \in Threads : u # t => tls'[u] = tls[u]
  <2>1. tls \in [Threads -> (Nat \X Nat) \cup {NULL}] /\ tls' = [tls EXCEPT ![t] = s]
    BY Zenon DEF IInv, TypeOK, Joined
  <2>2. s # NULL
    BY Zenon DEF BpAssumption
  <2> QED
    BY Zenon, <2>1, <2>2
<1>2. ASSUME NEW u \in Threads, tls[u] # NULL
      PROVE  u # t /\ tls[u] # s /\ tls[u] \in Slots /\ At(tls[u])' = At(tls[u])
  <2>1. tls[u] \in Slots /\ At(tls[u]).alloc
    BY Zenon, <1>2 DEF IInv, OwnerInv, Owns
  <2>2. tls[u] # s
    BY Zenon, <2>1 DEF Joined
  <2>3. u # t /\ tls'[u] = tls[u]
    BY Zenon, <1>1, <1>2
  <2>4. \A q \in Slots : q # s => At(q)' = At(q)
    BY Zenon DEF Joined
  <2>5. At(tls[u])' = At(tls[u])
    BY Zenon, <2>1, <2>2, <2>3, <2>4
  <2> QED
    BY Zenon, <2>1, <2>2, <2>3, <2>5
<1>3. ASSUME NEW u \in Threads PROVE Owns(u)'
  <2>1. CASE u = t
    BY Zenon, <1>1, <2>1 DEF Owns, Joined
  <2>2. CASE u # t
    <3>1. Owns(u) /\ tls'[u] = tls[u] /\ Slots \subseteq Slots'
      BY Zenon, <1>1, <2>2 DEF IInv, OwnerInv, Joined
    <3>2. tls[u] # NULL => At(tls[u])' = At(tls[u])
      BY Zenon, <1>2
    <3> QED
      BY Zenon, <3>1, <3>2 DEF Owns
  <2> QED
    BY Zenon, <2>1, <2>2
<1>4. ASSUME NEW q \in Slots' PROVE Slot(q)'
  <2>1. CASE q = s
    BY Zenon, <1>1, <2>1 DEF Slot, Joined
  <2>2. CASE q # s /\ q \in Slots
    <3>1. At(q)' = At(q) /\ Slot(q)
      BY Zenon, <2>2 DEF Joined, IInv, ArenaInv
    <3>2. CASE At(q).alloc
      <4>1. At(q).tid \in Threads /\ tls[At(q).tid] = q /\ At(q).list # "none"
        BY Zenon, <3>1, <3>2 DEF Slot
      <4>2. q \in Nat \X Nat
        BY Zenon, <2>2, StateSlots, SlotType DEF IInv, TypeOK
      <4>3. At(q).tid # t
        BY Zenon, <4>1, <4>2 DEF BpAssumption
      <4> QED
        BY Zenon, <1>1, <3>1, <3>2, <4>1, <4>3 DEF Slot
    <3>3. CASE ~At(q).alloc
      BY Zenon, <3>1, <3>3 DEF Slot
    <3> QED
      BY Zenon, <3>2, <3>3
  <2>3. CASE q # s /\ q \notin Slots
    <3>1. At(q)' = Reader
      BY Zenon, <2>3 DEF Joined
    <3> QED
      BY Zenon, <3>1, ReaderFree DEF Slot
  <2> QED
    BY Zenon, <2>1, <2>2, <2>3
<1> QED
  BY Zenon, <1>1, <1>2, <1>3, <1>4 DEF ArenaInv, OwnerInv, Joined

(* Threads that leave give up their slots; the others keep theirs. *)
LEMMA LeftOwned ==
  ASSUME IInv, BpAssumption, NEW ss, Left(ss),
         NEW gone \in SUBSET Threads,
         tls' = [u \in Threads |-> IF u \in gone THEN NULL ELSE tls[u]],
         \A q \in Slots : At(q).alloc => (q \in ss <=> At(q).tid \in gone)
  PROVE  /\ ArenaInv' /\ OwnerInv'
         /\ \A u \in Threads : u \in gone => tls'[u] = NULL
         /\ \A u \in Threads : u \notin gone => tls'[u] = tls[u]
         /\ \A u \in Threads : u \notin gone /\ tls[u] # NULL => At(tls[u])' = At(tls[u])
<1>1. ASSUME NEW u \in Threads
      PROVE  /\ u \in gone => tls'[u] = NULL
             /\ u \notin gone => tls'[u] = tls[u]
  BY Zenon
<1>2. ASSUME NEW u \in Threads, u \notin gone, tls[u] # NULL
      PROVE  tls[u] \in Slots /\ At(tls[u])' = At(tls[u])
  <2>1. tls[u] \in Slots /\ At(tls[u]).alloc /\ At(tls[u]).tid = u
    BY Zenon, <1>2 DEF IInv, OwnerInv, Owns
  <2>2. tls[u] \notin ss /\ tls'[u] = tls[u]
    BY Zenon, <1>1, <1>2, <2>1
  <2> QED
    BY Zenon, <2>1, <2>2 DEF Left
<1>3. ASSUME NEW u \in Threads PROVE Owns(u)'
  <2>1. CASE u \in gone
    BY Zenon, <1>1, <2>1 DEF Owns
  <2>2. CASE u \notin gone
    <3>1. Owns(u) /\ tls'[u] = tls[u] /\ Slots' = Slots
      BY Zenon, <1>1, <2>2 DEF IInv, OwnerInv, Left
    <3>2. tls[u] # NULL => At(tls[u])' = At(tls[u])
      BY Zenon, <1>2, <2>2
    <3> QED
      BY Zenon, <3>1, <3>2 DEF Owns
  <2> QED
    BY Zenon, <2>1, <2>2
<1>4. ASSUME NEW q \in Slots PROVE Slot(q)'
  <2>1. CASE q \in ss
    <3>1. At(q)' = Reader
      BY Zenon, <2>1 DEF Left
    <3> QED
      BY Zenon, <3>1, ReaderFree DEF Slot
  <2>2. CASE q \notin ss
    <3>1. At(q)' = At(q) /\ Slot(q)
      BY Zenon, <2>2 DEF Left, IInv, ArenaInv
    <3>2. CASE At(q).alloc
      <4>1. At(q).tid \in Threads /\ tls[At(q).tid] = q /\ At(q).list # "none"
        BY Zenon, <3>1, <3>2 DEF Slot
      <4>2. tls'[At(q).tid] = q
        BY Zenon, <1>1, <2>2, <3>2, <4>1
      <4> QED
        BY Zenon, <3>1, <3>2, <4>1, <4>2 DEF Slot
    <3>3. CASE ~At(q).alloc
      BY Zenon, <3>1, <3>3 DEF Slot
    <3> QED
      BY Zenon, <3>2, <3>3
  <2> QED
    BY Zenon, <2>1, <2>2
<1> QED
  BY Zenon, <1>1, <1>2, <1>3, <1>4 DEF ArenaInv, OwnerInv, Left

(* A step that leaves the arena and the slots of threads alone. *)
LEMMA StillOwned ==
  ASSUME IInv, arena' = arena, tls' = tls
  PROVE  /\ ArenaInv' /\ OwnerInv' /\ Slots' = Slots /\ \A s : At(s)' = At(s)
         /\ \A t \in Threads : Nest(t)' = Nest(t) /\ (InCS(t)' <=> InCS(t))
<1>1. Slots' = Slots /\ \A s : At(s)' = At(s)
  BY Zenon, StateSlots, NextSlots
<1>2. ArenaInv' /\ OwnerInv'
  BY Zenon, <1>1 DEF IInv, ArenaInv, Slot, OwnerInv, Owns
<1>3. \A t \in Threads : Nest(t)' = Nest(t) /\ (InCS(t)' <=> InCS(t))
  BY Zenon, <1>1 DEF Nest, InCS
<1> QED
  BY Zenon, <1>1, <1>2, <1>3

(* A step of a thread that is not in a grace period leaves the lists alone *)
(* while they are walked over.                                             *)
LEMMA OutsideInv ==
  ASSUME IInv, BpAssumption, NEW t \in Threads, gp' = gp, pc' \in [Threads -> Pcs],
         \A u \in Threads : u # t => pc'[u] = pc[u],
         pc[t] \notin LockPc, pc'[t] \notin LockPc,
         \/ Slots' = Slots /\ \A s \in Slots : At(s)'.list = At(s).list
         \/ gp.reg = NULL /\ \A s \in Slots' : \/ At(s)'.list \in {"none", "registry"}
                                               \/ s \in Slots /\ At(s)'.list = At(s).list
  PROVE  LockInv' /\ ListInv'
<1>1. RegPc \subseteq LockPc /\ WalkPc \subseteq LockPc
  BY Zenon DEF RegPc, WalkPc, LockPc, ForkPc
<1>2. ASSUME NEW u \in Threads
      PROVE  \/ pc'[u] = pc[u]
             \/ pc'[u] \notin LockPc /\ pc[u] \notin LockPc
  BY Zenon
<1>3. LockInv'
  BY Zenon, <1>1, <1>2 DEF IInv, LockInv
<1>4. (\A u \in Threads : pc'[u] \notin WalkPc) => Whole'
  <2>1. (\A u \in Threads : pc'[u] \notin WalkPc) => (\A u \in Threads : pc[u] \notin WalkPc)
    BY Zenon, <1>1, <1>2
  <2>2. Whole => Whole'
    BY Zenon DEF Whole
  <2> QED
    BY Zenon, <2>1, <2>2 DEF IInv, ListInv
<1>5. ASSUME NEW u \in Threads, pc'[u] \in {"scan", "passed"}
      PROVE  pc[u] = pc'[u] /\ Input' = Input
  <2>1. pc[u] = pc'[u]
    BY Zenon, <1>2, <1>5 DEF LockPc, WalkPc
  <2>2. gp.reg # NULL
    <3>1. gp.reg = u
      BY Zenon, <1>5, <2>1 DEF IInv, LockInv, RegPc
    <3> QED
      BY Zenon, <3>1 DEF BpAssumption
  <2>3. Slots' = Slots /\ \A s \in Slots : At(s)'.list = At(s).list
    BY Zenon, <2>2
  <2> QED
    BY Zenon, <2>1, <2>3 DEF Input, OnList
<1>6. /\ \A u \in Threads : pc'[u] = "passed" => Input' = {}
      /\ \A u \in Threads : pc'[u] = "scan" => gp'.todo \subseteq Input'
  BY Zenon, <1>5 DEF IInv, ListInv
<1> QED
  BY Zenon, <1>3, <1>4, <1>6 DEF ListInv

(* A section that goes on stays where it is sorted. *)
LEMMA GraceKept ==
  ASSUME IInv, gp'.ctr = gp.ctr, gp'.pass = gp.pass,
         \A u \in Threads : \A q \in pre'[u] :
           q \in pre[u] /\ InCS(q)' /\ tls'[q] = tls[q]
             /\ At(tls[q])'.list = At(tls[q]).list /\ At(tls[q])'.phase = At(tls[q]).phase,
         \A u \in Threads : /\ pc'[u] \in WalkPc => pc[u] \in WalkPc
                            /\ pc'[u] = "out" => pc[u] = "out"
  PROVE  GraceInv'
<1> SUFFICES ASSUME NEW u \in Threads
             PROVE  /\ \A q \in pre'[u] : InCS(q)'
                    /\ pc'[u] \in WalkPc => \A q \in pre'[u] : Tracked(tls[q])'
                    /\ pc'[u] = "out" => pre'[u] = {}
  BY Zenon DEF GraceInv
<1>1. ASSUME pc'[u] \in WalkPc, NEW q \in pre'[u] PROVE Tracked(tls[q])'
  <2>1. Tracked(tls[q])
    BY Zenon, <1>1 DEF IInv, GraceInv
  <2> QED
    BY Zenon, <2>1 DEF Tracked
<1>2. pc'[u] = "out" => pre'[u] = {}
  BY Zenon DEF IInv, GraceInv
<1> QED
  BY Zenon, <1>1, <1>2

(* References: the count with and without a holder. *)
LEMMA RefKept ==
  ASSUME IInv, Holders' = Holders, lib' = lib PROVE RefInv'
  BY Zenon DEF IInv, RefInv, OwnRef

(* The numbers that RefInv compares. *)
LEMMA RefNumbers ==
  ASSUME IInv
  PROVE  /\ IsFiniteSet(Holders) /\ Cardinality(Holders) \in Nat
         /\ lib.refcount \in Int /\ OwnRef \in {0, 1}
         /\ Cardinality(Holders) + OwnRef <= lib.refcount
  BY Zenon, FS_CardinalityType DEF IInv, TypeOK, LibRecord, RefInv, OwnRef

(* Numbers that fit are counted. *)
LEMMA RefFits ==
  ASSUME IsFiniteSet(Holders'),
         NEW k \in Nat, NEW o \in {0, 1}, NEW m \in Int, k + o <= m,
         k = Cardinality(Holders'), o = OwnRef', m = lib'.refcount
  PROVE  RefInv'
  BY Zenon DEF RefInv

(* A reference taken or given back. *)
LEMMA LibRef ==
  ASSUME IInv, NEW n \in Int, lib' = [lib EXCEPT !.refcount = n]
  PROVE  lib' \in LibRecord /\ lib'.refcount = n /\ OwnRef' = OwnRef
<1>1. lib \in LibRecord
  BY Zenon DEF IInv, TypeOK
<1>2. lib' \in LibRecord /\ lib'.refcount = n /\ lib'.state = lib.state
  BY <1>1 DEF LibRecord
<1> QED
  BY Zenon, <1>2 DEF OwnRef

(* One more holder, one more reference. *)
LEMMA RefUp ==
  ASSUME IInv, NEW t, Holders' = Holders \cup {t},
         lib' = [lib EXCEPT !.refcount = @ + 1]
  PROVE  RefInv' /\ lib' \in LibRecord
<1>1. PICK n \in Nat, o \in {0, 1}, m \in Int :
        /\ n = Cardinality(Holders) /\ o = OwnRef /\ m = lib.refcount /\ n + o <= m
        /\ IsFiniteSet(Holders)
  BY Zenon, RefNumbers
<1>2. IsFiniteSet(Holders') /\ (Cardinality(Holders') = n \/ Cardinality(Holders') = n + 1)
  BY Zenon, <1>1, FS_AddElement
<1>3. m + 1 \in Int /\ n + 1 \in Nat /\ n + o <= m + 1 /\ (n + 1) + o <= m + 1
  BY <1>1
<1>4. lib' = [lib EXCEPT !.refcount = m + 1]
  BY Zenon, <1>1
<1>5. lib' \in LibRecord /\ lib'.refcount = m + 1 /\ OwnRef' = o
  BY Zenon, <1>1, <1>3, <1>4, LibRef
<1>6. RefInv'
  BY Zenon, <1>1, <1>2, <1>3, <1>5, RefFits
<1> QED
  BY Zenon, <1>5, <1>6

(* A holder gives its reference back; the last one leaves no holder and    *)
(* no library.                                                             *)
LEMMA RefDown ==
  ASSUME IInv, NEW t \in Holders, Holders' = Holders \ {t},
         lib' = [lib EXCEPT !.refcount = @ - 1]
  PROVE  /\ RefInv' /\ lib' \in LibRecord
         /\ lib.refcount = 1 => Holders' = {} /\ lib.state # "loaded"
<1>1. PICK n \in Nat, o \in {0, 1}, m \in Int :
        /\ n = Cardinality(Holders) /\ o = OwnRef /\ m = lib.refcount /\ n + o <= m
        /\ IsFiniteSet(Holders)
  BY Zenon, RefNumbers
<1>2. IsFiniteSet(Holders') /\ Cardinality(Holders') = n - 1
  BY Zenon, <1>1, FS_RemoveElement
<1>3. PICK k \in Nat : k = Cardinality(Holders')
  BY Zenon, <1>2, FS_CardinalityType
<1>4. m - 1 \in Int /\ k + o <= m - 1 /\ (m = 1 => k = 0 /\ o = 0)
  <2>1. k = n - 1
    BY Zenon, <1>2, <1>3
  <2> QED
    BY <1>1, <2>1
<1>5. lib' = [lib EXCEPT !.refcount = m - 1]
  BY Zenon, <1>1
<1>6. lib' \in LibRecord /\ lib'.refcount = m - 1 /\ OwnRef' = o
  BY Zenon, <1>1, <1>4, <1>5, LibRef
<1>7. RefInv'
  BY Zenon, <1>2, <1>3, <1>4, <1>6, RefFits
<1>8. m = 1 => Holders' = {}
  BY Zenon, <1>2, <1>3, <1>4, FS_EmptySet
<1>9. m = 1 => lib.state # "loaded"
  <2>1. o = 0 => lib.state # "loaded"
    BY <1>1 DEF OwnRef
  <2> QED
    BY Zenon, <1>4, <2>1
<1> QED
  BY Zenon, <1>1, <1>6, <1>7, <1>8, <1>9

(* Holders that the child of a fork does not have keep their references. *)
LEMMA RefLess ==
  ASSUME IInv, Holders' \subseteq Holders, lib' = lib PROVE RefInv'
<1>1. PICK n \in Nat, o \in {0, 1}, m \in Int :
        /\ n = Cardinality(Holders) /\ o = OwnRef /\ m = lib.refcount /\ n + o <= m
        /\ IsFiniteSet(Holders)
  BY Zenon, RefNumbers
<1>2. Holders' \in SUBSET Holders
  BY Zenon
<1>3. IsFiniteSet(Holders') /\ Cardinality(Holders') <= n
  BY Zenon, <1>1, <1>2, FS_Subset
<1>4. PICK k \in Nat : k = Cardinality(Holders')
  BY Zenon, <1>3, FS_CardinalityType
<1>5. k <= n
  BY Zenon, <1>3, <1>4
<1>6. k + o <= m
  BY <1>1, <1>5
<1>7. lib'.refcount = m /\ OwnRef' = o
  BY Zenon, <1>1 DEF OwnRef
<1> QED
  BY Zenon, <1>3, <1>4, <1>6, <1>7, RefFits

-----------------------------------------------------------------------------
(* Steps outside of grace periods *)

(* A step that changes no slot, mutex or list. *)
LEMMA StillStep ==
  ASSUME IInv, BpAssumption, NEW t \in Threads, NEW l \in Pcs,
         pc[t] \notin LockPc, l \notin LockPc, pc' = [pc EXCEPT ![t] = l],
         arena' = arena, tls' = tls, gp' = gp, pre' = pre,
         gctr' \in [Threads -> {0, 1}], lib' \in LibRecord,
         Where(t)', RefInv'
  PROVE  IInv'
<1>1. /\ pc' \in [Threads -> Pcs] /\ pc'[t] = l
      /\ \A u \in Threads : u # t => pc'[u] = pc[u]
  BY Zenon DEF IInv, TypeOK
<1>2. /\ ArenaInv' /\ OwnerInv' /\ Slots' = Slots /\ \A s : At(s)' = At(s)
      /\ \A u \in Threads : InCS(u)' <=> InCS(u)
  BY Zenon, StillOwned
<1>3. TypeOK'
  BY Zenon, <1>1 DEF IInv, TypeOK
<1>4. WhereInv'
  <2>1. ASSUME NEW u \in Threads, u # t PROVE Where(u)'
    BY Zenon, <1>1, <1>2, <2>1 DEF IInv, WhereInv, Where
  <2> QED
    BY Zenon, <2>1 DEF WhereInv
<1>5. LockInv' /\ ListInv'
  BY Zenon, <1>1, <1>2, OutsideInv
<1>6. GraceInv'
  <2>1. \A u \in Threads : /\ pc'[u] \in WalkPc => pc[u] \in WalkPc
                           /\ pc'[u] = "out" => pc[u] = "out"
    BY Zenon, <1>1 DEF LockPc
  <2>2. ASSUME NEW u \in Threads, NEW q \in pre'[u]
        PROVE  /\ q \in pre[u] /\ InCS(q)' /\ tls'[q] = tls[q]
               /\ At(tls[q])'.list = At(tls[q]).list
               /\ At(tls[q])'.phase = At(tls[q]).phase
    <3>1. q \in pre[u] /\ q \in Threads /\ InCS(q)
      BY Zenon DEF IInv, TypeOK, GraceInv
    <3> QED
      BY Zenon, <1>2, <3>1
  <2> QED
    BY Zenon, <2>1, <2>2, GraceKept
<1> QED
  BY Zenon, <1>2, <1>3, <1>4, <1>5, <1>6 DEF IInv

(* Registration, up to the registry mutex. *)
LEMMA RegisterInv ==
  ASSUME IInv, BpAssumption, NEW t \in Threads, NeedsRegister(t) \/ Register(t)
  PROVE  IInv'
<1>0. /\ \A u \in Threads : InCS(u)' <=> InCS(u)
      /\ arena' = arena /\ tls' = tls /\ gp' = gp /\ gctr' = gctr /\ pre' = pre
  <2>1. arena' = arena /\ tls' = tls /\ gp' = gp /\ gctr' = gctr /\ pre' = pre
    BY Zenon DEF NeedsRegister, Register
  <2> QED
    BY Zenon, <2>1, StillOwned
<1>t. /\ pc \in [Threads -> Pcs] /\ gctr \in [Threads -> {0, 1}] /\ lib \in LibRecord
  BY Zenon DEF IInv, TypeOK
<1>l. {"idle", "register", "add"} \cap LockPc = {} /\ {"idle", "register", "add"} \subseteq Pcs
  BY Zenon DEF LockPc, WalkPc, ForkPc, Pcs
<1>w. ~InCS(t) \/ pc[t] \in {"idle"} \cup ForkPc
  BY Zenon DEF IInv, WhereInv, Where
<1>1. CASE NeedsRegister(t)
  <2>1. /\ pc[t] = "idle" /\ tls[t] = NULL /\ lib' = lib
        /\ pc' = [pc EXCEPT ![t] = "register"]
    BY Zenon, <1>1 DEF NeedsRegister, Goto
  <2>2. pc'[t] = "register" /\ \A u \in Threads : u # t => pc'[u] = pc[u]
    BY Zenon, <1>t, <2>1
  <2>3. ~InCS(t)
    <3>1. Nest(t) = 0
      BY Zenon, <2>1 DEF Nest
    <3> QED
      BY <3>1 DEF InCS
  <2>4. Where(t)'
    BY Zenon, <1>0, <2>2, <2>3 DEF Where
  <2>5. Holders' = Holders
    BY Zenon, <1>0, <2>1, <2>2 DEF Holders
  <2>6. RefInv'
    BY Zenon, <2>1, <2>5, RefKept
  <2> QED
    BY Zenon, <1>0, <1>t, <1>l, <2>1, <2>4, <2>6, StillStep
<1>2. CASE Register(t) /\ tls[t] # NULL
  <2>1. /\ pc[t] = "register" /\ lib' = lib
        /\ pc' = [pc EXCEPT ![t] = "idle"]
    BY Zenon, <1>2 DEF Register, Goto
  <2>2. pc'[t] = "idle" /\ \A u \in Threads : u # t => pc'[u] = pc[u]
    BY Zenon, <1>t, <2>1
  <2>4. Where(t)'
    BY Zenon, <2>2 DEF Where
  <2>5. Holders' = Holders
    BY Zenon, <1>0, <2>1, <2>2 DEF Holders
  <2>6. RefInv'
    BY Zenon, <2>1, <2>5, RefKept
  <2> QED
    BY Zenon, <1>0, <1>t, <1>l, <2>1, <2>4, <2>6, StillStep
<1>3. CASE Register(t) /\ tls[t] = NULL
  <2>1. /\ pc[t] = "register" /\ lib' = [lib EXCEPT !.refcount = @ + 1]
        /\ pc' = [pc EXCEPT ![t] = "add"]
    BY Zenon, <1>3 DEF Register, Goto
  <2>2. pc'[t] = "add" /\ \A u \in Threads : u # t => pc'[u] = pc[u]
    BY Zenon, <1>t, <2>1
  <2>3. ~InCS(t)
    <3>1. Nest(t) = 0
      BY Zenon, <1>3 DEF Nest
    <3> QED
      BY <3>1 DEF InCS
  <2>4. Where(t)'
    BY Zenon, <1>0, <1>3, <2>2, <2>3 DEF Where
  <2>5. Holders' = Holders \cup {t}
    BY Zenon, <1>0, <2>1, <2>2 DEF Holders
  <2>6. RefInv' /\ lib' \in LibRecord
    BY Zenon, <2>1, <2>5, RefUp
  <2> QED
    BY Zenon, <1>0, <1>t, <1>l, <2>1, <2>4, <2>6, StillStep
<1> QED
  BY Zenon, <1>1, <1>2, <1>3

(* The arena is unmapped when no thread holds a reference. *)
LEMMA UnmapInv ==
  ASSUME IInv, BpAssumption, arena' = <<>>, tls' = tls, gp' = gp, gctr' = gctr, pre' = pre,
         pc' \in [Threads -> Pcs], Holders' = {}, lib' \in LibRecord, RefInv',
         \A u \in Threads : pc'[u] = pc[u] \/ (pc[u] = "exit" /\ pc'[u] = "idle")
  PROVE  IInv'
<1>1. \A u \in Threads : tls[u] = NULL /\ tls'[u] = NULL
  BY Zenon DEF Holders
<1>2. \A u \in Threads : ~InCS(u) /\ ~InCS(u)'
  <2>1. \A u \in Threads : Nest(u) = 0 /\ Nest(u)' = 0
    BY Zenon, <1>1 DEF Nest
  <2>2. ~(0 > 0)
    OBVIOUS
  <2> QED
    BY Zenon, <2>1, <2>2 DEF InCS
<1>3. Slots' = {} /\ DOMAIN arena' = {}
  <2>1. DOMAIN arena' = {}
    OBVIOUS
  <2> QED
    BY Zenon, <2>1 DEF Slots
<1>4. Input = {}
  <2>1. ASSUME NEW s \in Slots PROVE At(s).list = "none"
    <3>1. s \in Nat \X Nat
      BY Zenon, SlotType, StateSlots DEF IInv, TypeOK
    <3>2. ~At(s).alloc
      BY Zenon, <1>1, <3>1 DEF IInv, ArenaInv, Slot, BpAssumption
    <3> QED
      BY Zenon, <3>2, ReaderFree DEF IInv, ArenaInv, Slot
  <2> QED
    BY Zenon, <2>1 DEF Input, OnList
<1>5. TypeOK'
  <2>1. arena' \in Arenas
    BY DEF Arenas
  <2> QED
    BY Zenon, <2>1 DEF IInv, TypeOK
<1>6. ArenaInv' /\ OwnerInv'
  BY Zenon, <1>1, <1>3 DEF ArenaInv, Counted, OwnerInv, Owns
<1>7. WhereInv'
  <2>1. \A u \in Threads : pc'[u] # "lock_store"
    BY Zenon, <1>1 DEF IInv, WhereInv, Where
  <2> QED
    BY Zenon, <1>1, <1>2, <2>1 DEF WhereInv, Where
<1>8. {"exit", "idle"} \cap LockPc = {} /\ {"exit", "idle"} \cap RegPc = {}
  BY Zenon DEF LockPc, RegPc, WalkPc, ForkPc
<1>9. LockInv'
  <2>1. ASSUME NEW u \in Threads
        PROVE  (pc'[u] \in LockPc <=> pc[u] \in LockPc) /\ (pc'[u] \in RegPc <=> pc[u] \in RegPc)
    BY Zenon, <1>8
  <2> QED
    BY Zenon, <2>1 DEF IInv, LockInv
<1>10. ListInv'
  <2>1. Whole' /\ Input' = {}
    BY Zenon, <1>3 DEF Whole, Input, OnList
  <2>2. ASSUME NEW u \in Threads, pc'[u] = "scan" PROVE gp'.todo \subseteq Input'
    <3>1. pc[u] = "scan"
      BY Zenon, <2>2
    <3> QED
      BY Zenon, <1>4, <2>1, <3>1 DEF IInv, ListInv
  <2> QED
    BY Zenon, <2>1, <2>2 DEF ListInv
<1>11. GraceInv'
  <2>1. \A u \in Threads : pre'[u] = {}
    BY Zenon, <1>2 DEF IInv, TypeOK, GraceInv
  <2> QED
    BY Zenon, <2>1 DEF GraceInv
<1> QED
  BY Zenon, <1>5, <1>6, <1>7, <1>9, <1>10, <1>11 DEF IInv

(* urcu_bp_exit() of a thread: the last reference is given back when no    *)
(* other thread holds one and the library is not loaded.                   *)
LEMMA ExitRef ==
  ASSUME IInv, NEW t \in Threads, Exit(t)
  PROVE  /\ RefInv' /\ lib' \in LibRecord /\ lib'.state = lib.state
         /\ \/ arena' = arena
            \/ arena' = <<>> /\ Holders' = {} /\ lib.state # "loaded"
<1>1. /\ pc[t] = "exit" /\ pc' = [pc EXCEPT ![t] = "idle"] /\ tls' = tls
      /\ lib' = [lib EXCEPT !.refcount = @ - 1]
  BY Zenon DEF Exit, Goto
<1>2. pc'[t] = "idle" /\ \A u \in Threads : u # t => pc'[u] = pc[u]
  BY Zenon, <1>1 DEF IInv, TypeOK
<1>3. t \in Holders /\ tls[t] = NULL
  BY Zenon, <1>1 DEF Holders, IInv, WhereInv, Where
<1>4. Holders' = Holders \ {t}
  BY Zenon, <1>1, <1>2, <1>3 DEF Holders
<1>5. /\ RefInv' /\ lib' \in LibRecord
      /\ lib.refcount = 1 => Holders' = {} /\ lib.state # "loaded"
  BY Zenon, <1>1, <1>3, <1>4, RefDown
<1>6. lib'.state = lib.state
  BY <1>1 DEF IInv, TypeOK, LibRecord
<1> QED
  BY Zenon, <1>5, <1>6 DEF Exit, UnmapIfLast

(* The end of an exit *)
LEMMA ExitInv ==
  ASSUME IInv, BpAssumption, NEW t \in Threads, Exit(t) PROVE IInv'
<1>1. /\ pc[t] = "exit" /\ pc' = [pc EXCEPT ![t] = "idle"]
      /\ tls' = tls /\ gp' = gp /\ gctr' = gctr /\ pre' = pre
  BY Zenon DEF Exit, Goto
<1>2. pc \in [Threads -> Pcs] /\ gctr \in [Threads -> {0, 1}]
  BY Zenon DEF IInv, TypeOK
<1>3. pc'[t] = "idle" /\ \A u \in Threads : u # t => pc'[u] = pc[u]
  BY Zenon, <1>1, <1>2
<1>4. /\ RefInv' /\ lib' \in LibRecord
      /\ arena' = arena \/ (arena' = <<>> /\ Holders' = {})
  BY Zenon, ExitRef
<1>5. Where(t)'
  BY Zenon, <1>3 DEF Where
<1>6. "exit" \notin LockPc /\ "idle" \notin LockPc /\ "idle" \in Pcs
  BY Zenon DEF LockPc, WalkPc, ForkPc, Pcs
<1>7. CASE arena' = arena
  BY Zenon, <1>1, <1>2, <1>4, <1>5, <1>6, <1>7, StillStep
<1>8. CASE arena' = <<>> /\ Holders' = {}
  <2>1. pc' \in [Threads -> Pcs]
    BY Zenon, <1>1, <1>2, <1>6
  <2>2. \A u \in Threads : pc'[u] = pc[u] \/ (pc[u] = "exit" /\ pc'[u] = "idle")
    BY Zenon, <1>1, <1>3
  <2> QED
    BY Zenon, <1>1, <1>4, <1>8, <2>1, <2>2, UnmapInv
<1> QED
  BY Zenon, <1>4, <1>7, <1>8

(* The call of synchronize_rcu() *)
LEMMA SyncInv ==
  ASSUME IInv, BpAssumption, NEW t \in Threads, Sync(t) PROVE IInv'
<1>1. /\ pc[t] = "idle" /\ ~InCS(t) /\ pc' = [pc EXCEPT ![t] = "gp_lock"]
      /\ pre' = [pre EXCEPT ![t] = {u \in Threads : InCS(u)}]
      /\ arena' = arena /\ tls' = tls /\ lib' = lib /\ gp' = gp /\ gctr' = gctr
  BY Zenon DEF Sync, Goto
<1>2. /\ ArenaInv' /\ OwnerInv' /\ Slots' = Slots /\ \A s : At(s)' = At(s)
      /\ \A u \in Threads : InCS(u)' <=> InCS(u)
  BY Zenon, <1>1, StillOwned
<1>3. TypeOK
  BY Zenon DEF IInv
<1>4. /\ pc' \in [Threads -> Pcs] /\ pc'[t] = "gp_lock"
      /\ \A u \in Threads : u # t => pc'[u] = pc[u]
  <2>1. "gp_lock" \in Pcs
    BY Zenon DEF Pcs, SyncPc
  <2> QED
    BY Zenon, <1>1, <1>3, <2>1 DEF TypeOK
<1>5. /\ pre' \in [Threads -> SUBSET Threads] /\ pre'[t] = {u \in Threads : InCS(u)}
      /\ \A u \in Threads : u # t => pre'[u] = pre[u]
  BY Zenon, <1>1, <1>3 DEF TypeOK
<1>6. TypeOK'
  BY Zenon, <1>1, <1>3, <1>4, <1>5 DEF TypeOK
<1>7. WhereInv'
  <2>1. ASSUME NEW u \in Threads PROVE Where(u)'
    <3>1. CASE u = t
      BY Zenon, <1>1, <1>2, <1>4, <3>1 DEF Where
    <3>2. CASE u # t
      BY Zenon, <1>1, <1>2, <1>4, <3>2 DEF IInv, WhereInv, Where
    <3> QED
      BY Zenon, <3>1, <3>2
  <2> QED
    BY Zenon, <2>1 DEF WhereInv
<1>8. RefInv'
  <2>1. Holders' = Holders
    BY Zenon, <1>1, <1>4 DEF Holders
  <2> QED
    BY Zenon, <1>1, <2>1, RefKept
<1>9. "idle" \notin LockPc /\ "gp_lock" \notin LockPc /\ "gp_lock" \notin WalkPc
  BY Zenon DEF LockPc, WalkPc, ForkPc
<1>10. LockInv' /\ ListInv'
  BY Zenon, <1>1, <1>2, <1>4, <1>9, OutsideInv
<1>11. GraceInv'
  <2> SUFFICES ASSUME NEW u \in Threads
               PROVE  /\ \A q \in pre'[u] : InCS(q)'
                      /\ pc'[u] \in WalkPc => \A q \in pre'[u] : Tracked(tls[q])'
                      /\ pc'[u] = "out" => pre'[u] = {}
    BY Zenon DEF GraceInv
  <2>1. CASE u = t
    BY Zenon, <1>2, <1>4, <1>5, <1>9, <2>1
  <2>2. CASE u # t
    <3>1. \A q \in pre'[u] : q \in pre[u] /\ q \in Threads
      BY Zenon, <1>3, <1>5, <2>2 DEF TypeOK
    <3>2. \A q \in Threads : Tracked(tls[q]) => Tracked(tls[q])'
      BY Zenon, <1>1, <1>2 DEF Tracked
    <3> QED
      BY Zenon, <1>2, <1>4, <1>5, <2>2, <3>1, <3>2 DEF IInv, GraceInv
  <2> QED
    BY Zenon, <2>1, <2>2
<1> QED
  BY Zenon, <1>2, <1>6, <1>7, <1>8, <1>10, <1>11 DEF IInv

(* add_thread() *)
LEMMA JoinStep ==
  ASSUME IInv, BpAssumption, NEW t \in Threads, NEW s \in Nat \X Nat, Joined(s, t),
         tls[t] = NULL, gp.reg = NULL, NEW l \in {"register", "idle"},
         pc[t] \notin LockPc, pc' = [pc EXCEPT ![t] = l],
         gp' = gp, gctr' = gctr, pre' = pre, lib' \in LibRecord, RefInv'
  PROVE  IInv'
<1>1. /\ ArenaInv' /\ OwnerInv' /\ tls' \in [Threads -> (Nat \X Nat) \cup {NULL}]
      /\ tls'[t] = s /\ s # NULL
      /\ \A u \in Threads : u # t => tls'[u] = tls[u]
      /\ \A u \in Threads : u # t /\ tls[u] # NULL => At(tls[u])' = At(tls[u])
  BY Zenon, JoinedOwned
<1>2. l \in Pcs /\ l \notin LockPc
  BY Zenon DEF Pcs, LockPc, WalkPc, ForkPc
<1>3. /\ pc' \in [Threads -> Pcs] /\ pc'[t] = l
      /\ \A u \in Threads : u # t => pc'[u] = pc[u]
  BY Zenon, <1>2 DEF IInv, TypeOK
<1>4. TypeOK'
  BY Zenon, <1>1, <1>3 DEF IInv, TypeOK, Joined
<1>5. ~InCS(t)'
  <2>1. Nest(t)' = 0
    BY Zenon, <1>1 DEF Nest, Joined
  <2> QED
    BY <2>1 DEF InCS
<1>6. ASSUME NEW u \in Threads, u # t PROVE InCS(u)' <=> InCS(u)
  BY Zenon, <1>1, <1>6 DEF InCS, Nest
<1>7. WhereInv'
  <2>1. Where(t)'
    BY Zenon, <1>1, <1>3, <1>5 DEF Where
  <2>2. ASSUME NEW u \in Threads, u # t PROVE Where(u)'
    BY Zenon, <1>1, <1>3, <1>6, <2>2 DEF IInv, WhereInv, Where
  <2> QED
    BY Zenon, <2>1, <2>2 DEF WhereInv
<1>8. LockInv' /\ ListInv'
  <2>1. ASSUME NEW q \in Slots'
        PROVE  \/ At(q)'.list \in {"none", "registry"}
               \/ q \in Slots /\ At(q)'.list = At(q).list
    <3>1. CASE q = s
      BY Zenon, <3>1 DEF Joined
    <3>2. CASE q # s /\ q \in Slots
      BY Zenon, <3>2 DEF Joined
    <3>3. CASE q # s /\ q \notin Slots
      BY Zenon, <3>3, ReaderFree DEF Joined
    <3> QED
      BY Zenon, <3>1, <3>2, <3>3
  <2> QED
    BY Zenon, <1>2, <1>3, <2>1, OutsideInv
<1>9. GraceInv'
  <2>1. \A u \in Threads : /\ pc'[u] \in WalkPc => pc[u] \in WalkPc
                           /\ pc'[u] = "out" => pc[u] = "out"
    BY Zenon, <1>2, <1>3 DEF LockPc
  <2>2. ASSUME NEW u \in Threads, NEW q \in pre'[u]
        PROVE  /\ q \in pre[u] /\ InCS(q)' /\ tls'[q] = tls[q]
               /\ At(tls[q])'.list = At(tls[q]).list
               /\ At(tls[q])'.phase = At(tls[q]).phase
    <3>1. q \in pre[u] /\ q \in Threads /\ InCS(q)
      BY Zenon DEF IInv, TypeOK, GraceInv
    <3>2. tls[q] # NULL
      <4>1. ~(0 > 0)
        OBVIOUS
      <4> QED
        BY Zenon, <3>1, <4>1 DEF InCS, Nest
    <3>3. q # t
      BY Zenon, <3>2
    <3> QED
      BY Zenon, <1>1, <1>6, <3>1, <3>2, <3>3
  <2> QED
    BY ZenonT(30), <2>1, <2>2, GraceKept
<1> QED
  BY Zenon, <1>1, <1>4, <1>7, <1>8, <1>9 DEF IInv

(* A thread is added, by a signal handler or by urcu_bp_register(). *)
LEMMA AddInv ==
  ASSUME IInv, BpAssumption, NEW t \in Threads, Signal(t) \/ Add(t) PROVE IInv'
<1>0. /\ AddThread(t) /\ gp.reg = NULL /\ gp' = gp /\ gctr' = gctr /\ pre' = pre
      /\ tls[t] = NULL
  BY Zenon DEF Signal, Add, IInv, WhereInv, Where
<1>1. PICK s \in Nat \X Nat : Joined(s, t)
  BY Zenon, <1>0, AddThreadJoins DEF IInv
<1>2. /\ tls'[t] = s /\ s # NULL
      /\ \A u \in Threads : u # t => tls'[u] = tls[u]
  BY Zenon, <1>0, <1>1, JoinedOwned
<1>t. pc \in [Threads -> Pcs] /\ lib \in LibRecord
  BY Zenon DEF IInv, TypeOK
<1>l. "register" \notin LockPc /\ "add" \notin LockPc
  BY Zenon DEF LockPc, WalkPc, ForkPc
<1>3. CASE Signal(t)
  <2>1. pc[t] = "register" /\ pc' = pc /\ lib' = [lib EXCEPT !.refcount = @ + 1]
    BY Zenon, <1>3 DEF Signal
  <2>2. pc' = [pc EXCEPT ![t] = "register"]
    BY Zenon, <1>t, <2>1
  <2>3. Holders' = Holders \cup {t}
    BY Zenon, <1>2, <2>1 DEF Holders
  <2>4. RefInv' /\ lib' \in LibRecord
    BY Zenon, <2>1, <2>3, RefUp
  <2> QED
    BY Zenon, <1>0, <1>1, <1>l, <2>1, <2>2, <2>4, JoinStep
<1>4. CASE Add(t)
  <2>1. pc[t] = "add" /\ pc' = [pc EXCEPT ![t] = "idle"] /\ lib' = lib
    BY Zenon, <1>4 DEF Add, Goto
  <2>2. \A u \in Threads : u # t => pc'[u] = pc[u]
    BY Zenon, <1>t, <2>1
  <2>3. Holders' = Holders
    BY Zenon, <1>2, <2>1, <2>2 DEF Holders
  <2>4. RefInv' /\ lib' \in LibRecord
    BY Zenon, <1>t, <2>1, <2>3, RefKept
  <2> QED
    BY Zenon, <1>0, <1>1, <1>l, <2>1, <2>4, JoinStep
<1> QED
  BY Zenon, <1>3, <1>4

(* urcu_bp_unregister() *)
LEMMA UnregisterInv ==
  ASSUME IInv, BpAssumption, NEW t \in Threads, Unregister(t) PROVE IInv'
<1>0. /\ pc[t] = "idle" /\ tls[t] # NULL /\ ~InCS(t) /\ gp.reg = NULL
      /\ Cleanup({tls[t]}) /\ tls' = [tls EXCEPT ![t] = NULL]
      /\ pc' = [pc EXCEPT ![t] = "exit"]
      /\ lib' = lib /\ gp' = gp /\ gctr' = gctr /\ pre' = pre
  BY Zenon DEF Unregister, Goto
<1>1. tls[t] \in Slots /\ At(tls[t]).alloc /\ At(tls[t]).tid = t
  BY Zenon, <1>0 DEF IInv, OwnerInv, Owns
<1>2. Left({tls[t]})
  BY Zenon, <1>0, <1>1, CleanupLeaves DEF IInv
<1>3. /\ ArenaInv' /\ OwnerInv' /\ tls'[t] = NULL
      /\ \A u \in Threads : u # t => tls'[u] = tls[u]
      /\ \A u \in Threads : u # t /\ tls[u] # NULL => At(tls[u])' = At(tls[u])
  <2>1. tls' = [u \in Threads |-> IF u \in {t} THEN NULL ELSE tls[u]]
    BY Zenon, <1>0 DEF IInv, TypeOK
  <2>2. ASSUME NEW q \in Slots, At(q).alloc PROVE q \in {tls[t]} <=> At(q).tid \in {t}
    BY Zenon, <1>1, <2>2 DEF IInv, ArenaInv, Slot
  <2>3. {t} \in SUBSET Threads
    BY Zenon
  <2> QED
    BY Zenon, <1>2, <2>1, <2>2, <2>3, LeftOwned
<1>4. "exit" \in Pcs /\ "exit" \notin LockPc /\ "idle" \notin LockPc
  BY Zenon DEF Pcs, LockPc, WalkPc, ForkPc
<1>5. /\ pc' \in [Threads -> Pcs] /\ pc'[t] = "exit"
      /\ \A u \in Threads : u # t => pc'[u] = pc[u]
  BY Zenon, <1>0, <1>4 DEF IInv, TypeOK
<1>6. TypeOK'
  <2>1. tls' \in [Threads -> (Nat \X Nat) \cup {NULL}]
    BY Zenon, <1>0 DEF IInv, TypeOK
  <2> QED
    BY Zenon, <1>0, <1>2, <1>5, <2>1 DEF IInv, TypeOK, Left
<1>7. ASSUME NEW u \in Threads, u # t PROVE InCS(u)' <=> InCS(u)
  BY Zenon, <1>3, <1>7 DEF InCS, Nest
<1>8. WhereInv'
  <2>1. ~InCS(t)'
    <3>1. Nest(t)' = 0
      BY Zenon, <1>3 DEF Nest
    <3> QED
      BY <3>1 DEF InCS
  <2>2. Where(t)'
    BY Zenon, <1>3, <1>5, <2>1 DEF Where
  <2>3. ASSUME NEW u \in Threads, u # t PROVE Where(u)'
    BY Zenon, <1>3, <1>5, <1>7, <2>3 DEF IInv, WhereInv, Where
  <2> QED
    BY Zenon, <2>2, <2>3 DEF WhereInv
<1>9. RefInv'
  <2>1. Holders' = Holders
    BY Zenon, <1>0, <1>3, <1>5 DEF Holders
  <2> QED
    BY Zenon, <1>0, <2>1, RefKept
<1>10. LockInv' /\ ListInv'
  <2>1. ASSUME NEW q \in Slots'
        PROVE  \/ At(q)'.list \in {"none", "registry"}
               \/ q \in Slots /\ At(q)'.list = At(q).list
    BY Zenon, <1>2, ReaderFree DEF Left
  <2> QED
    BY Zenon, <1>0, <1>4, <1>5, <2>1, OutsideInv
<1>11. GraceInv'
  <2>1. \A u \in Threads : /\ pc'[u] \in WalkPc => pc[u] \in WalkPc
                           /\ pc'[u] = "out" => pc[u] = "out"
    BY Zenon, <1>4, <1>5 DEF LockPc
  <2>2. ASSUME NEW u \in Threads, NEW q \in pre'[u]
        PROVE  /\ q \in pre[u] /\ InCS(q)' /\ tls'[q] = tls[q]
               /\ At(tls[q])'.list = At(tls[q]).list
               /\ At(tls[q])'.phase = At(tls[q]).phase
    <3>1. q \in pre[u] /\ q \in Threads /\ InCS(q)
      BY Zenon, <1>0 DEF IInv, TypeOK, GraceInv
    <3>2. q # t
      BY Zenon, <1>0, <3>1
    <3>3. tls[q] # NULL
      <4>1. ~(0 > 0)
        OBVIOUS
      <4> QED
        BY Zenon, <3>1, <4>1 DEF InCS, Nest
    <3> QED
      BY Zenon, <1>3, <1>7, <3>1, <3>2, <3>3
  <2> QED
    BY Zenon, <1>0, <2>1, <2>2, GraceKept
<1> QED
  BY Zenon, <1>3, <1>6, <1>8, <1>9, <1>10, <1>11 DEF IInv

(* A reader stores to its own slot. *)
LEMMA OwnStep ==
  ASSUME IInv, BpAssumption, NEW t \in Threads, tls[t] # NULL,
         NEW r \in ReaderRecord, arena' = Put(tls[t], r),
         r.alloc, r.tid = t, r.list = At(tls[t]).list,
         pc[t] \in {"idle", "lock_store"}, pc' = [pc EXCEPT ![t] = "idle"],
         tls' = tls, lib' = lib, gp' = gp, gctr' = gctr,
         pre' \in [Threads -> SUBSET Threads],
         \A u \in Threads : pre'[u] \subseteq pre[u],
         \A u \in Threads : t \in pre'[u] => r.nest > 0 /\ r.phase = At(tls[t]).phase
  PROVE  IInv'
<1>1. PICK s : s = tls[t]
  BY Zenon
<1>2. s \in Slots /\ At(s).alloc /\ At(s).tid = t /\ At(s).list # "none"
  BY Zenon, <1>1 DEF IInv, OwnerInv, Owns, ArenaInv, Slot
<1>3. Wrote(s, r)
  <2>1. r.alloc = At(s).alloc
    <3>1. At(s) \in ReaderRecord
      BY Zenon, <1>2, StateSlots, SlotType DEF IInv, TypeOK
    <3> QED
      BY Zenon, <1>2, <3>1 DEF ReaderRecord
  <2> QED
    BY Zenon, <1>1, <1>2, <2>1, PutWrites DEF IInv
<1>4. ArenaInv' /\ OwnerInv'
  BY Zenon, <1>1, <1>2, <1>3, WroteOwned
<1>5. ASSUME NEW u \in Threads, u # t, tls[u] # NULL PROVE At(tls[u])' = At(tls[u])
  <2>1. tls[u] \in Slots /\ tls[u] # s /\ tls'[u] = tls[u]
    BY Zenon, <1>2, <1>5 DEF IInv, OwnerInv, Owns
  <2> QED
    BY Zenon, <1>3, <2>1 DEF Wrote
<1>6. At(tls[t])' = r /\ Slots' = Slots
  BY Zenon, <1>1, <1>3 DEF Wrote
<1>7. "idle" \in Pcs /\ {"idle", "lock_store"} \cap LockPc = {}
  BY Zenon DEF Pcs, LockPc, WalkPc, ForkPc
<1>8. /\ pc' \in [Threads -> Pcs] /\ pc'[t] = "idle"
      /\ \A u \in Threads : u # t => pc'[u] = pc[u]
  BY Zenon, <1>7 DEF IInv, TypeOK
<1>9. TypeOK'
  BY Zenon, <1>3, <1>8 DEF IInv, TypeOK, Wrote
<1>10. ASSUME NEW u \in Threads, u # t PROVE InCS(u)' <=> InCS(u)
  BY Zenon, <1>5, <1>10 DEF InCS, Nest
<1>11. WhereInv'
  <2>1. Where(t)'
    BY Zenon, <1>8 DEF Where
  <2>2. ASSUME NEW u \in Threads, u # t PROVE Where(u)'
    BY Zenon, <1>8, <1>10, <2>2 DEF IInv, WhereInv, Where
  <2> QED
    BY Zenon, <2>1, <2>2 DEF WhereInv
<1>12. RefInv'
  <2>1. Holders' = Holders
    BY Zenon, <1>8 DEF Holders
  <2> QED
    BY Zenon, <2>1, RefKept
<1>13. LockInv' /\ ListInv'
  <2>1. \A q \in Slots : At(q)'.list = At(q).list
    BY Zenon, <1>1, <1>3 DEF Wrote
  <2> QED
    BY Zenon, <1>6, <1>7, <1>8, <2>1, OutsideInv
<1>14. GraceInv'
  <2>1. \A u \in Threads : /\ pc'[u] \in WalkPc => pc[u] \in WalkPc
                           /\ pc'[u] = "out" => pc[u] = "out"
    BY Zenon, <1>7, <1>8 DEF LockPc
  <2>2. ASSUME NEW u \in Threads, NEW q \in pre'[u]
        PROVE  /\ q \in pre[u] /\ InCS(q)' /\ tls'[q] = tls[q]
               /\ At(tls[q])'.list = At(tls[q]).list
               /\ At(tls[q])'.phase = At(tls[q]).phase
    <3>1. q \in pre[u] /\ q \in Threads /\ InCS(q)
      BY Zenon DEF IInv, TypeOK, GraceInv
    <3>2. CASE q = t
      <4>1. Nest(t)' = r.nest
        BY Zenon, <1>6 DEF Nest
      <4>2. InCS(t)'
        BY Zenon, <2>2, <3>2, <4>1 DEF InCS
      <4> QED
        BY Zenon, <1>6, <2>2, <3>1, <3>2, <4>2
    <3>3. CASE q # t
      <4>1. tls[q] # NULL
        <5>1. ~(0 > 0)
          OBVIOUS
        <5> QED
          BY Zenon, <3>1, <5>1 DEF InCS, Nest
      <4> QED
        BY Zenon, <1>5, <1>10, <3>1, <3>3, <4>1
    <3> QED
      BY Zenon, <3>2, <3>3
  <2> QED
    BY ZenonT(30), <2>1, <2>2, GraceKept
<1> QED
  BY Zenon, <1>4, <1>9, <1>11, <1>12, <1>13, <1>14 DEF IInv

(* Read-side sections *)
LEMMA ReadInv ==
  ASSUME IInv, BpAssumption, NEW t \in Threads,
         ReadLock(t) \/ ReadLockStore(t) \/ ReadUnlock(t)
  PROVE  IInv'
<1>t. /\ pc \in [Threads -> Pcs] /\ gctr \in [Threads -> {0, 1}] /\ lib \in LibRecord
      /\ pre \in [Threads -> SUBSET Threads]
  BY Zenon DEF IInv, TypeOK
<1>s. tls[t] # NULL
  <2>1. ~(0 > 0)
    OBVIOUS
  <2> QED
    BY Zenon, <2>1 DEF ReadLock, ReadLockStore, ReadUnlock, InCS, Nest, IInv, WhereInv, Where
<1>o. /\ At(tls[t]) \in ReaderRecord /\ At(tls[t]).alloc /\ At(tls[t]).tid = t
      /\ Nest(t) = At(tls[t]).nest
  <2>1. tls[t] \in Slots /\ At(tls[t]).alloc /\ At(tls[t]).tid = t
    BY Zenon, <1>s DEF IInv, OwnerInv, Owns
  <2> QED
    BY Zenon, <1>s, <2>1, StateSlots, SlotType DEF IInv, TypeOK, Nest
<1>1. CASE ReadLock(t) /\ Nest(t) = 0
  <2>1. /\ pc[t] = "idle" /\ pc' = [pc EXCEPT ![t] = "lock_store"]
        /\ gctr' = [gctr EXCEPT ![t] = gp.ctr]
        /\ arena' = arena /\ tls' = tls /\ lib' = lib /\ gp' = gp /\ pre' = pre
    <3>1. Nest(t) \notin 1..(MaxNest - 1)
      BY <1>1
    <3> QED
      BY Zenon, <1>1, <3>1 DEF ReadLock, Goto
  <2>2. gctr' \in [Threads -> {0, 1}]
    <3>1. gp.ctr \in {0, 1}
      BY Zenon DEF IInv, TypeOK, GpRecord
    <3> QED
      BY Zenon, <1>t, <2>1, <3>1
  <2>3. pc'[t] = "lock_store" /\ \A u \in Threads : u # t => pc'[u] = pc[u]
    BY Zenon, <1>t, <2>1
  <2>4. ~InCS(t)
    BY <1>1 DEF InCS
  <2>5. InCS(t)' <=> InCS(t)
    BY Zenon, <2>1, StillOwned
  <2>6. Where(t)'
    BY Zenon, <1>s, <2>1, <2>3, <2>4, <2>5 DEF Where
  <2>7. Holders' = Holders
    BY Zenon, <2>1, <2>3 DEF Holders
  <2>8. RefInv'
    BY Zenon, <2>1, <2>7, RefKept
  <2>9. "idle" \notin LockPc /\ "lock_store" \notin LockPc /\ "lock_store" \in Pcs
    BY Zenon DEF LockPc, WalkPc, ForkPc, Pcs
  <2> QED
    BY Zenon, <1>t, <2>1, <2>2, <2>6, <2>8, <2>9, StillStep
<1>2. CASE ReadLock(t) /\ Nest(t) # 0
  <2>1. PICK r : r = [At(tls[t]) EXCEPT !.nest = At(tls[t]).nest + 1]
    BY Zenon
  <2>2. /\ pc[t] = "idle" /\ pc' = pc /\ arena' = Put(tls[t], r)
        /\ gctr' = gctr /\ tls' = tls /\ lib' = lib /\ gp' = gp /\ pre' = pre
    BY Zenon, <1>2, <2>1 DEF ReadLock
  <2>3. pc' = [pc EXCEPT ![t] = "idle"]
    BY Zenon, <1>t, <2>2
  <2>4. /\ r \in ReaderRecord /\ r.alloc /\ r.tid = t /\ r.list = At(tls[t]).list
        /\ r.nest > 0 /\ r.phase = At(tls[t]).phase
    <3>1. PICK n \in Nat : n = At(tls[t]).nest
      BY Zenon, <1>o DEF ReaderRecord
    <3>2. n + 1 \in Nat /\ n + 1 > 0
      BY <3>1
    <3> QED
      BY Zenon, <1>o, <2>1, <3>1, <3>2 DEF ReaderRecord
  <2> QED
    BY Zenon, <1>t, <1>s, <2>2, <2>3, <2>4, OwnStep
<1>3. CASE ReadLockStore(t)
  <2>1. PICK r : r = [At(tls[t]) EXCEPT !.nest = 1, !.phase = gctr[t]]
    BY Zenon
  <2>2. /\ pc[t] = "lock_store" /\ pc' = [pc EXCEPT ![t] = "idle"]
        /\ arena' = Put(tls[t], r)
        /\ gctr' = gctr /\ tls' = tls /\ lib' = lib /\ gp' = gp /\ pre' = pre
    BY Zenon, <1>3, <2>1 DEF ReadLockStore, Goto
  <2>3. r \in ReaderRecord /\ r.alloc /\ r.tid = t /\ r.list = At(tls[t]).list
    <3>1. 1 \in Nat
      OBVIOUS
    <3> QED
      BY Zenon, <1>t, <1>o, <2>1, <3>1 DEF ReaderRecord
  <2>4. \A u \in Threads : t \notin pre'[u]
    <3>1. ~InCS(t)
      BY Zenon, <2>2 DEF IInv, WhereInv, Where, ForkPc
    <3> QED
      BY Zenon, <2>2, <3>1 DEF IInv, GraceInv
  <2> QED
    BY Zenon, <1>t, <1>s, <2>2, <2>3, <2>4, OwnStep
<1>4. CASE ReadUnlock(t)
  <2>1. PICK r : r = [At(tls[t]) EXCEPT !.nest = At(tls[t]).nest - 1]
    BY Zenon
  <2>2. /\ pc[t] = "idle" /\ pc' = pc /\ arena' = Put(tls[t], r) /\ InCS(t)
        /\ gctr' = gctr /\ tls' = tls /\ lib' = lib /\ gp' = gp
    BY Zenon, <1>4, <2>1 DEF ReadUnlock
  <2>3. pc' = [pc EXCEPT ![t] = "idle"]
    BY Zenon, <1>t, <2>2
  <2>4. /\ r \in ReaderRecord /\ r.alloc /\ r.tid = t /\ r.list = At(tls[t]).list
        /\ Nest(t) # 1 => r.nest > 0
        /\ r.phase = At(tls[t]).phase
    <3>1. PICK n \in Nat : n = At(tls[t]).nest
      BY Zenon, <1>o DEF ReaderRecord
    <3>2. n > 0 /\ n = Nest(t)
      BY Zenon, <1>o, <2>2, <3>1 DEF InCS
    <3>3. n - 1 \in Nat /\ (n # 1 => n - 1 > 0)
      BY <3>2
    <3> QED
      BY Zenon, <1>o, <2>1, <3>1, <3>2, <3>3 DEF ReaderRecord
  <2>5. /\ pre' \in [Threads -> SUBSET Threads]
        /\ \A u \in Threads : pre'[u] \subseteq pre[u]
        /\ \A u \in Threads : t \in pre'[u] => Nest(t) # 1
    <3>1. CASE Nest(t) = 1
      <4>1. pre' = [u \in Threads |-> pre[u] \ {t}]
        BY Zenon, <1>4, <3>1 DEF ReadUnlock
      <4> QED
        BY Zenon, <1>t, <4>1
    <3>2. CASE Nest(t) # 1
      <4>1. pre' = pre
        BY Zenon, <1>4, <3>2 DEF ReadUnlock
      <4> QED
        BY Zenon, <1>t, <3>2, <4>1
    <3> QED
      BY Zenon, <3>1, <3>2
  <2> QED
    BY Zenon, <1>s, <2>2, <2>3, <2>4, <2>5, OwnStep
<1> QED
  BY Zenon, <1>1, <1>2, <1>3, <1>4

-----------------------------------------------------------------------------
(* Grace periods *)

(* A mutex is free, or held by the thread whose control point says so. *)
LEMMA Mutexes ==
  ASSUME IInv, BpAssumption, NEW u \in Threads, NEW l \in Pcs,
         pc' = [pc EXCEPT ![u] = l],
         \/ gp'.lock = gp.lock /\ (l \in LockPc <=> pc[u] \in LockPc)
         \/ gp.lock = NULL /\ gp'.lock = u /\ l \in LockPc
         \/ gp.lock = u /\ gp'.lock = NULL /\ l \notin LockPc,
         \/ gp'.reg = gp.reg /\ (l \in RegPc <=> pc[u] \in RegPc)
         \/ gp.reg = NULL /\ gp'.reg = u /\ l \in RegPc
         \/ gp.reg = u /\ gp'.reg = NULL /\ l \notin RegPc
  PROVE  LockInv'
<1>1. pc'[u] = l /\ \A v \in Threads : v # u => pc'[v] = pc[v]
  BY Zenon DEF IInv, TypeOK
<1>2. \A v \in Threads : v # NULL
  BY Zenon DEF BpAssumption
<1>3. /\ \A v \in Threads : gp.lock = v <=> pc[v] \in LockPc
      /\ \A v \in Threads : gp.reg = v <=> pc[v] \in RegPc
  BY Zenon DEF IInv, LockInv
<1>4. ASSUME NEW v \in Threads PROVE gp'.lock = v <=> pc'[v] \in LockPc
  <2>1. CASE v = u
    BY ZenonT(30), <1>1, <1>2, <1>3, <2>1
  <2>2. CASE v # u
    BY ZenonT(30), <1>1, <1>2, <1>3, <2>2
  <2> QED
    BY Zenon, <2>1, <2>2
<1>5. ASSUME NEW v \in Threads PROVE gp'.reg = v <=> pc'[v] \in RegPc
  <2>1. CASE v = u
    BY ZenonT(30), <1>1, <1>2, <1>3, <2>1
  <2>2. CASE v # u
    BY ZenonT(30), <1>1, <1>2, <1>3, <2>2
  <2> QED
    BY Zenon, <2>1, <2>2
<1> QED
  BY Zenon, <1>4, <1>5 DEF LockInv

(* The gp mutex has one holder. *)
LEMMA OneHolder ==
  ASSUME IInv, BpAssumption, NEW u \in Threads, pc[u] \in LockPc \/ gp.lock = NULL
  PROVE  /\ \A v \in Threads : v # u => pc[v] \notin LockPc
         /\ pc[u] \in LockPc => gp.lock = u
         /\ pc[u] \in RegPc => gp.reg = u
  BY Zenon DEF IInv, LockInv, BpAssumption

(* The lists and the sections after a step of the only holder. *)
LEMMA HolderInv ==
  ASSUME IInv, NEW u \in Threads, NEW l, pc'[u] = l,
         \A v \in Threads : v # u => pc[v] \notin LockPc /\ pc'[v] = pc[v],
         \A v \in Threads : pre'[v] \subseteq pre[v],
         \A v \in Threads : \A q \in pre'[v] : InCS(q)',
         l \notin WalkPc => Whole', l = "passed" => Input' = {},
         l = "scan" => gp'.todo \subseteq Input',
         l \in WalkPc => \A q \in pre'[u] : Tracked(tls[q])',
         l = "out" => pre'[u] = {}
  PROVE  ListInv' /\ GraceInv'
<1>1. \A v \in Threads : v # u => /\ pc'[v] \notin WalkPc /\ pc'[v] # "out"
                                  /\ pc'[v] # "passed" /\ pc'[v] # "scan"
  BY Zenon DEF LockPc, WalkPc
<1>2. ListInv'
  BY Zenon, <1>1 DEF ListInv
<1>3. GraceInv'
  <2> SUFFICES ASSUME NEW v \in Threads
               PROVE  /\ \A q \in pre'[v] : InCS(q)'
                      /\ pc'[v] \in WalkPc => \A q \in pre'[v] : Tracked(tls[q])'
                      /\ pc'[v] = "out" => pre'[v] = {}
    BY Zenon DEF GraceInv
  <2>1. CASE v = u
    BY Zenon, <2>1
  <2>2. CASE v # u
    BY Zenon, <1>1, <2>2
  <2> QED
    BY Zenon, <2>1, <2>2
<1> QED
  BY Zenon, <1>2, <1>3

(* A step of the only holder that changes no slot. *)
LEMMA HoldStep ==
  ASSUME IInv, BpAssumption, NEW u \in Threads, NEW l \in Pcs,
         pc' = [pc EXCEPT ![u] = l],
         \A v \in Threads : v # u => pc[v] \notin LockPc,
         arena' = arena, tls' = tls, lib' = lib, gctr' = gctr,
         gp' \in GpRecord, pre' \in [Threads -> SUBSET Threads],
         \A v \in Threads : pre'[v] \subseteq pre[v],
         pc[u] \notin {"add", "exit"},
         l \in {"idle"} \cup ForkPc \/ (l \in SyncPc /\ pc[u] \notin {"idle"} \cup ForkPc),
         LockInv', l \notin WalkPc => Whole, l = "passed" => Input' = {},
         l = "scan" => gp'.todo \subseteq Input',
         l \in WalkPc => \A q \in pre'[u] : Tracked(tls[q])',
         l = "out" => pre'[u] = {}
  PROVE  IInv'
<1>1. /\ pc' \in [Threads -> Pcs] /\ pc'[u] = l
      /\ \A v \in Threads : v # u => pc'[v] = pc[v]
  BY Zenon DEF IInv, TypeOK
<1>2. /\ ArenaInv' /\ OwnerInv' /\ Slots' = Slots /\ \A s : At(s)' = At(s)
      /\ \A v \in Threads : InCS(v)' <=> InCS(v)
  BY Zenon, StillOwned
<1>3. TypeOK'
  BY Zenon, <1>1 DEF IInv, TypeOK
<1>4. l \notin {"add", "exit", "lock_store"}
  BY Zenon DEF ForkPc, SyncPc, WalkPc
<1>5. WhereInv'
  <2>1. Where(u)'
    BY Zenon, <1>1, <1>2, <1>4 DEF IInv, WhereInv, Where
  <2>2. ASSUME NEW v \in Threads, v # u PROVE Where(v)'
    BY Zenon, <1>1, <1>2, <2>2 DEF IInv, WhereInv, Where
  <2> QED
    BY Zenon, <2>1, <2>2 DEF WhereInv
<1>6. RefInv'
  <2>1. Holders' = Holders
    BY Zenon, <1>1, <1>4 DEF Holders
  <2> QED
    BY Zenon, <2>1, RefKept
<1>7. ListInv' /\ GraceInv'
  <2>1. Whole => Whole'
    BY Zenon, <1>2 DEF Whole
  <2>2. ASSUME NEW v \in Threads, NEW q \in pre'[v] PROVE InCS(q)'
    <3>1. q \in pre[v] /\ q \in Threads
      BY Zenon DEF IInv, TypeOK
    <3> QED
      BY Zenon, <1>2, <3>1 DEF IInv, GraceInv
  <2> QED
    BY Zenon, <1>1, <2>1, <2>2, HolderInv
<1> QED
  BY Zenon, <1>2, <1>3, <1>5, <1>6, <1>7 DEF IInv

(* The slot of a section. *)
LEMMA SectionSlot ==
  ASSUME IInv, NEW q \in Threads, InCS(q)
  PROVE  /\ tls[q] # NULL /\ tls[q] \in Slots /\ At(tls[q]).list # "none"
         /\ At(tls[q]).nest # 0 /\ At(tls[q]).phase \in {0, 1}
<1>1. ~(0 > 0)
  OBVIOUS
<1>2. tls[q] # NULL /\ At(tls[q]).nest # 0
  BY Zenon, <1>1 DEF InCS, Nest
<1>3. tls[q] \in Slots /\ At(tls[q]).alloc
  BY Zenon, <1>2 DEF IInv, OwnerInv, Owns
<1>4. At(tls[q]) \in ReaderRecord
  BY Zenon, <1>3, StateSlots, SlotType DEF IInv, TypeOK
<1>5. At(tls[q]).list # "none" /\ At(tls[q]).phase \in {0, 1}
  BY Zenon, <1>3, <1>4 DEF IInv, ArenaInv, Slot, ReaderRecord
<1> QED
  BY Zenon, <1>2, <1>3, <1>5

(* Control points *)
LEMMA PcFacts ==
  /\ {"reg_lock", "scan", "relock", "passed", "out", "fork", "forked"} \subseteq LockPc
  /\ {"idle", "gp_lock"} \cap LockPc = {}
  /\ {"scan", "passed", "out", "forked"} \subseteq RegPc
  /\ {"idle", "gp_lock", "reg_lock", "relock", "fork"} \cap RegPc = {}
  /\ {"scan", "relock", "passed"} \subseteq WalkPc
  /\ {"idle", "reg_lock", "out", "fork", "forked"} \cap WalkPc = {}
  /\ {"gp_lock", "reg_lock", "out", "scan", "relock", "passed"} \subseteq SyncPc
  /\ {"gp_lock", "reg_lock", "out", "scan", "relock", "passed"} \cap ForkPc = {}
  /\ {"fork", "forked"} \subseteq ForkPc
  /\ {"idle", "reg_lock", "scan", "relock", "passed", "out", "fork", "forked"} \subseteq Pcs
  BY Zenon DEF LockPc, RegPc, WalkPc, SyncPc, ForkPc, Pcs

(* The lists are whole when nobody walks over them. *)
LEMMA WholeNow ==
  ASSUME IInv, NEW u \in Threads, \A v \in Threads : v # u => pc[v] \notin LockPc,
         pc[u] \notin WalkPc
  PROVE  Whole
  BY Zenon DEF IInv, ListInv, LockPc

(* The gp mutex is taken, for a grace period or a fork. *)
LEMMA GpLockInv ==
  ASSUME IInv, BpAssumption, NEW u \in Threads, GpLock(u) \/ BeforeFork(u) PROVE IInv'
<1>t. gp \in GpRecord /\ pre \in [Threads -> SUBSET Threads]
  BY Zenon DEF IInv, TypeOK
<1>1. /\ gp.lock = NULL /\ gp' = [gp EXCEPT !.lock = u]
      /\ arena' = arena /\ tls' = tls /\ lib' = lib /\ gctr' = gctr /\ pre' = pre
  BY Zenon DEF GpLock, BeforeFork
<1>2. PICK l \in {"reg_lock", "fork"} :
        /\ pc' = [pc EXCEPT ![u] = l]
        /\ pc[u] = IF l = "fork" THEN "idle" ELSE "gp_lock"
  BY Zenon DEF GpLock, BeforeFork, Goto
<1>3. gp' \in GpRecord /\ gp'.lock = u /\ gp'.reg = gp.reg
  BY Zenon, <1>t, <1>1 DEF GpRecord
<1>4. pc[u] \in {"idle", "gp_lock"}
  BY Zenon, <1>2
<1>5. \A v \in Threads : v # u => pc[v] \notin LockPc
  BY Zenon, <1>1, OneHolder
<1>6. LockInv'
  <2>1. l \in Pcs /\ l \in LockPc /\ l \notin RegPc /\ pc[u] \notin RegPc
    BY Zenon, <1>2, <1>4, PcFacts
  <2> QED
    BY Zenon, <1>1, <1>2, <1>3, <2>1, Mutexes
<1>7. Whole
  <2>1. pc[u] \notin WalkPc
    BY Zenon, <1>4 DEF WalkPc
  <2> QED
    BY Zenon, <1>5, <2>1, WholeNow
<1>8. /\ l \in Pcs /\ l \notin WalkPc /\ l # "passed" /\ l # "scan" /\ l # "out"
      /\ pc[u] \notin {"add", "exit"}
      /\ l \in {"idle"} \cup ForkPc \/ (l \in SyncPc /\ pc[u] \notin {"idle"} \cup ForkPc)
  BY Zenon, <1>2, PcFacts
<1> QED
  BY Zenon, <1>t, <1>1, <1>2, <1>3, <1>5, <1>6, <1>7, <1>8, HoldStep

(* The registry mutex is taken for a fork, and both are released in the    *)
(* parent, as at the end of a grace period.                                *)
LEMMA ForkOutInv ==
  ASSUME IInv, BpAssumption, NEW u \in Threads,
         BeforeForkReg(u) \/ AfterForkParent(u) \/ Out(u)
  PROVE  IInv'
<1>t. gp \in GpRecord /\ pre \in [Threads -> SUBSET Threads] /\ {} \in SUBSET Threads
  BY Zenon DEF IInv, TypeOK
<1>0. arena' = arena /\ tls' = tls /\ lib' = lib /\ gctr' = gctr
  BY Zenon DEF BeforeForkReg, AfterForkParent, Out
<1>1. CASE BeforeForkReg(u)
  <2>1. /\ pc[u] = "fork" /\ gp.reg = NULL /\ gp' = [gp EXCEPT !.reg = u]
        /\ pc' = [pc EXCEPT ![u] = "forked"] /\ pre' = pre
    BY Zenon, <1>1 DEF BeforeForkReg, Goto
  <2>2. gp' \in GpRecord /\ gp'.lock = gp.lock /\ gp'.reg = u
    BY Zenon, <1>t, <2>1 DEF GpRecord
  <2>3. \A v \in Threads : v # u => pc[v] \notin LockPc
    BY Zenon, <2>1, OneHolder, PcFacts
  <2>4. LockInv'
    BY Zenon, <2>1, <2>2, Mutexes, PcFacts
  <2>5. Whole
    BY Zenon, <2>1, <2>3, WholeNow, PcFacts
  <2> QED
    BY Zenon, <1>0, <1>t, <2>1, <2>2, <2>3, <2>4, <2>5, HoldStep, PcFacts
<1>2. CASE AfterForkParent(u)
  <2>1. /\ pc[u] = "forked" /\ gp' = [gp EXCEPT !.lock = NULL, !.reg = NULL]
        /\ pc' = [pc EXCEPT ![u] = "idle"] /\ pre' = pre
    BY Zenon, <1>2 DEF AfterForkParent, Goto
  <2>2. gp' \in GpRecord /\ gp'.lock = NULL /\ gp'.reg = NULL
    BY Zenon, <1>t, <2>1 DEF GpRecord
  <2>3. /\ \A v \in Threads : v # u => pc[v] \notin LockPc
        /\ gp.lock = u /\ gp.reg = u
    BY Zenon, <2>1, OneHolder, PcFacts
  <2>4. LockInv'
    BY Zenon, <2>1, <2>2, <2>3, Mutexes, PcFacts
  <2>5. Whole
    BY Zenon, <2>1, <2>3, WholeNow, PcFacts
  <2> QED
    BY Zenon, <1>0, <1>t, <2>1, <2>2, <2>3, <2>4, <2>5, HoldStep, PcFacts
<1>3. CASE Out(u)
  <2>1. /\ pc[u] = "out" /\ gp' = [gp EXCEPT !.lock = NULL, !.reg = NULL, !.todo = {}]
        /\ pc' = [pc EXCEPT ![u] = "idle"] /\ pre' = [pre EXCEPT ![u] = {}]
    BY Zenon, <1>3 DEF Out, Goto
  <2>2. gp' \in GpRecord /\ gp'.lock = NULL /\ gp'.reg = NULL
    <3>1. {} \in SUBSET (Nat \X Nat)
      BY Zenon
    <3> QED
      BY Zenon, <1>t, <2>1, <3>1 DEF GpRecord
  <2>3. /\ \A v \in Threads : v # u => pc[v] \notin LockPc
        /\ gp.lock = u /\ gp.reg = u
    BY Zenon, <2>1, OneHolder, PcFacts
  <2>4. LockInv'
    BY Zenon, <2>1, <2>2, <2>3, Mutexes, PcFacts
  <2>5. Whole
    BY Zenon, <2>1, <2>3, WholeNow, PcFacts
  <2>6. /\ pre' \in [Threads -> SUBSET Threads]
        /\ \A v \in Threads : pre'[v] \subseteq pre[v]
    BY Zenon, <1>t, <2>1
  <2> QED
    BY Zenon, <1>0, <2>1, <2>2, <2>3, <2>4, <2>5, <2>6, HoldStep, PcFacts
<1> QED
  BY Zenon, <1>1, <1>2, <1>3

(* The registry mutex is taken at the start of the walk, and every section *)
(* that the call must outlast is on the registry.                          *)
LEMMA RegLockInv ==
  ASSUME IInv, BpAssumption, NEW u \in Threads, RegLock(u) PROVE IInv'
<1>t. gp \in GpRecord /\ pre \in [Threads -> SUBSET Threads] /\ Slots \subseteq Nat \X Nat
  BY Zenon, StateSlots, SlotType DEF IInv, TypeOK
<1>1. PICK l \in {"out", "scan"} :
        /\ l = "out" <=> OnList("registry") = {}
        /\ pc' = [pc EXCEPT ![u] = l]
  BY Zenon DEF RegLock, Goto
<1>2. /\ pc[u] = "reg_lock" /\ gp.reg = NULL
      /\ gp' = [gp EXCEPT !.reg = u, !.pass = 1, !.todo = OnList("registry")]
      /\ arena' = arena /\ tls' = tls /\ lib' = lib /\ gctr' = gctr /\ pre' = pre
  BY Zenon DEF RegLock
<1>3. /\ gp' \in GpRecord /\ gp'.lock = gp.lock /\ gp'.reg = u /\ gp'.pass = 1
      /\ gp'.todo = OnList("registry")
  <2>1. OnList("registry") \in SUBSET (Nat \X Nat)
    BY Zenon, <1>t DEF OnList
  <2> QED
    BY Zenon, <1>t, <1>2, <2>1 DEF GpRecord
<1>4. \A v \in Threads : v # u => pc[v] \notin LockPc
  BY Zenon, <1>2, OneHolder, PcFacts
<1>5. LockInv'
  <2>1. l \in LockPc /\ l \in RegPc /\ l \in Pcs
    BY Zenon, PcFacts
  <2> QED
    BY Zenon, <1>1, <1>2, <1>3, <2>1, Mutexes, PcFacts
<1>6. Whole
  BY Zenon, <1>2, <1>4, WholeNow, PcFacts
<1>7. Slots' = Slots /\ \A s : At(s)' = At(s)
  BY Zenon, <1>2, StillOwned
<1>8. Input' = OnList("registry")
  BY Zenon, <1>3, <1>7 DEF Input, OnList
<1>9. ASSUME NEW q \in pre[u] PROVE tls[q] \in OnList("registry")
  <2>1. q \in Threads /\ InCS(q)
    BY Zenon, <1>t DEF IInv, GraceInv
  <2>2. tls[q] \in Slots /\ At(tls[q]).list # "none"
    BY Zenon, <2>1, SectionSlot
  <2> QED
    BY Zenon, <1>6, <2>2 DEF Whole, OnList
<1>10. \A q \in pre'[u] : Tracked(tls[q])'
  BY Zenon, <1>2, <1>3, <1>7, <1>9 DEF Tracked, OnList
<1>11. l = "out" => pre'[u] = {}
  BY Zenon, <1>1, <1>2, <1>9
<1>12. /\ l \in Pcs /\ l # "passed" /\ pc[u] \notin {"add", "exit"}
       /\ l \in SyncPc /\ pc[u] \notin {"idle"} \cup ForkPc
  BY Zenon, <1>2, PcFacts
<1> QED
  BY Zenon, <1>t, <1>1, <1>2, <1>3, <1>4, <1>5, <1>6, <1>8, <1>10, <1>11, <1>12, HoldStep

(* wait_for_readers() waits, and goes on. *)
LEMMA WaitInv ==
  ASSUME IInv, BpAssumption, NEW u \in Threads,
         \/ Relock(u)
         \/ Scan(u) /\ gp.todo = {} /\ arena' = arena
  PROVE  IInv'
<1>t. gp \in GpRecord /\ pre \in [Threads -> SUBSET Threads] /\ Slots \subseteq Nat \X Nat
  BY Zenon, StateSlots, SlotType DEF IInv, TypeOK
<1>0. /\ arena' = arena /\ tls' = tls /\ lib' = lib /\ gctr' = gctr /\ pre' = pre
  BY Zenon DEF Relock, Scan
<1>1. pc[u] \in {"relock", "scan"}
  BY Zenon DEF Relock, Scan
<1>2. /\ \A v \in Threads : v # u => pc[v] \notin LockPc
      /\ pc[u] \in RegPc => gp.reg = u
  BY Zenon, <1>1, OneHolder, PcFacts
<1>3. Slots' = Slots /\ \A s : At(s)' = At(s)
  BY Zenon, <1>0, StillOwned
<1>4. ASSUME gp'.pass = gp.pass, gp'.ctr = gp.ctr
      PROVE  Input' = Input /\ \A q \in pre'[u] : Tracked(tls[q])'
  <2>1. Input' = Input
    BY Zenon, <1>3, <1>4 DEF Input, OnList
  <2>2. \A q \in pre[u] : Tracked(tls[q])
    BY Zenon, <1>1 DEF IInv, GraceInv, WalkPc
  <2>3. \A q \in pre'[u] : Tracked(tls[q])'
    BY Zenon, <1>0, <1>3, <1>4, <2>2 DEF Tracked
  <2> QED
    BY Zenon, <2>1, <2>3
<1>5. /\ pc[u] \notin {"add", "exit"} /\ pc[u] \notin {"idle"} \cup ForkPc
      /\ {"scan", "passed", "relock"} \subseteq SyncPc
      /\ {"scan", "passed", "relock"} \subseteq WalkPc
      /\ {"scan", "passed", "relock"} \subseteq Pcs
      /\ \A v \in Threads : pre'[v] \subseteq pre[v]
  BY Zenon, <1>0, <1>1, PcFacts
<1>6. CASE Relock(u)
  <2>1. /\ pc[u] = "relock" /\ gp.reg = NULL
        /\ gp' = [gp EXCEPT !.reg = u, !.todo = Input] /\ pc' = [pc EXCEPT ![u] = "scan"]
    BY Zenon, <1>6 DEF Relock, Goto
  <2>2. /\ gp' \in GpRecord /\ gp'.lock = gp.lock /\ gp'.reg = u /\ gp'.pass = gp.pass
        /\ gp'.ctr = gp.ctr /\ gp'.todo = Input
    <3>1. Input \in SUBSET (Nat \X Nat)
      BY Zenon, <1>t DEF Input, OnList
    <3> QED
      BY Zenon, <1>t, <2>1, <3>1 DEF GpRecord
  <2>3. LockInv'
    BY Zenon, <2>1, <2>2, Mutexes, PcFacts
  <2>4. /\ "scan" \in WalkPc /\ "scan" # "passed" /\ "scan" # "out"
        /\ gp'.todo \subseteq Input' /\ \A q \in pre'[u] : Tracked(tls[q])'
    BY Zenon, <1>4, <1>5, <2>2
  <2> QED
    BY Zenon, <1>t, <1>0, <1>2, <1>5, <2>1, <2>2, <2>3, <2>4, HoldStep
<1>7. CASE Scan(u) /\ gp.todo = {} /\ Input = {}
  <2>1. pc[u] = "scan" /\ gp' = gp /\ pc' = [pc EXCEPT ![u] = "passed"]
    BY Zenon, <1>7 DEF Scan, Goto
  <2>2. LockInv'
    BY Zenon, <2>1, Mutexes, PcFacts
  <2>3. /\ "passed" \in WalkPc /\ "passed" # "scan" /\ "passed" # "out"
        /\ Input' = {} /\ \A q \in pre'[u] : Tracked(tls[q])'
    BY Zenon, <1>4, <1>5, <1>7, <2>1
  <2> QED
    BY Zenon, <1>t, <1>0, <1>2, <1>5, <2>1, <2>2, <2>3, HoldStep
<1>8. CASE Scan(u) /\ gp.todo = {} /\ Input # {}
  <2>1. /\ pc[u] = "scan" /\ gp' = [gp EXCEPT !.reg = NULL]
        /\ pc' = [pc EXCEPT ![u] = "relock"]
    BY Zenon, <1>8 DEF Scan, Goto
  <2>2. /\ gp' \in GpRecord /\ gp'.lock = gp.lock /\ gp'.reg = NULL /\ gp'.pass = gp.pass
        /\ gp'.ctr = gp.ctr
    BY Zenon, <1>t, <2>1 DEF GpRecord
  <2>3. LockInv'
    BY Zenon, <1>2, <2>1, <2>2, Mutexes, PcFacts
  <2>4. /\ "relock" \in WalkPc /\ "relock" # "scan" /\ "relock" # "passed"
        /\ "relock" # "out" /\ \A q \in pre'[u] : Tracked(tls[q])'
    BY Zenon, <1>4, <1>5, <2>2
  <2> QED
    BY Zenon, <1>t, <1>0, <1>2, <1>5, <2>1, <2>2, <2>3, <2>4, HoldStep
<1> QED
  BY Zenon, <1>6, <1>7, <1>8

(* wait_for_readers() sorts one reader. *)
LEMMA VisitInv ==
  ASSUME IInv, BpAssumption, NEW u \in Threads, pc[u] = "scan", NEW s \in gp.todo,
         arena' = Put(s, [At(s) EXCEPT !.list = ScanTo(s)]),
         gp' = [gp EXCEPT !.todo = @ \ {s}],
         pc' = pc, tls' = tls, lib' = lib, gctr' = gctr, pre' = pre
  PROVE  IInv'
<1>t. gp \in GpRecord /\ pre \in [Threads -> SUBSET Threads] /\ pc \in [Threads -> Pcs]
  BY Zenon DEF IInv, TypeOK
<1>1. s \in Input
  BY Zenon DEF IInv, ListInv
<1>2. /\ s \in Slots /\ At(s) \in ReaderRecord
      /\ gp.pass = 1 => At(s).list = "registry"
      /\ gp.pass # 1 => At(s).list = "cur_snap"
      /\ At(s).list # "none"
  <2>1. s \in Slots /\ At(s).list = IF gp.pass = 1 THEN "registry" ELSE "cur_snap"
    BY Zenon, <1>1 DEF Input, OnList
  <2>2. At(s) \in ReaderRecord
    BY Zenon, <2>1, StateSlots, SlotType DEF IInv, TypeOK
  <2> QED
    BY Zenon, <2>1, <2>2
<1>3. At(s).alloc
  BY Zenon, <1>2, ReaderFree DEF IInv, ArenaInv, Slot
<1>4. /\ ScanTo(s) \in Lists \ {"none"}
      /\ At(s).nest # 0 =>
           IF At(s).phase = gp.ctr
           THEN gp.pass = 1 => ScanTo(s) = "cur_snap"
           ELSE ScanTo(s) = At(s).list
  BY Zenon, <1>2 DEF ScanTo, Lists
<1>5. PICK r : r = [At(s) EXCEPT !.list = ScanTo(s)]
  BY Zenon
<1>6. /\ r \in ReaderRecord /\ r.alloc /\ r.alloc = At(s).alloc /\ r.tid = At(s).tid
      /\ r.nest = At(s).nest /\ r.phase = At(s).phase /\ r.list = ScanTo(s)
  BY Zenon, <1>2, <1>3, <1>4, <1>5 DEF ReaderRecord
<1>7. Wrote(s, r)
  BY Zenon, <1>2, <1>5, <1>6, PutWrites DEF IInv
<1>8. ArenaInv' /\ OwnerInv'
  BY Zenon, <1>2, <1>3, <1>4, <1>6, <1>7, WroteOwned
<1>9. /\ gp' \in GpRecord /\ gp'.lock = gp.lock /\ gp'.reg = gp.reg /\ gp'.pass = gp.pass
      /\ gp'.ctr = gp.ctr /\ gp'.todo = gp.todo \ {s}
  BY Zenon, <1>t DEF GpRecord
<1>10. TypeOK'
  BY Zenon, <1>7, <1>9 DEF IInv, TypeOK, Wrote
<1>11. ASSUME NEW v \in Threads PROVE InCS(v)' <=> InCS(v)
  <2>1. Nest(v)' = Nest(v)
    <3>1. CASE tls[v] = NULL
      BY Zenon, <3>1 DEF Nest
    <3>2. CASE tls[v] # NULL
      <4>1. tls[v] \in Slots /\ tls'[v] = tls[v]
        BY Zenon, <3>2 DEF IInv, OwnerInv, Owns
      <4>2. At(tls[v])'.nest = At(tls[v]).nest
        BY Zenon, <1>6, <1>7, <4>1 DEF Wrote
      <4> QED
        BY Zenon, <3>2, <4>2 DEF Nest
    <3> QED
      BY Zenon, <3>1, <3>2
  <2> QED
    BY Zenon, <2>1 DEF InCS
<1>12. WhereInv' /\ RefInv' /\ LockInv'
  <2>1. WhereInv'
    BY Zenon, <1>11 DEF IInv, WhereInv, Where
  <2>2. Holders' = Holders
    BY Zenon DEF Holders
  <2>3. RefInv'
    BY Zenon, <2>2, RefKept
  <2>4. LockInv'
    BY Zenon, <1>9 DEF IInv, LockInv
  <2> QED
    BY Zenon, <2>1, <2>3, <2>4
<1>13. \A v \in Threads : v # u => pc[v] \notin LockPc /\ pc'[v] = pc[v]
  BY Zenon, OneHolder, PcFacts
<1>14. gp'.todo \subseteq Input'
  <2>1. ASSUME NEW q \in gp.todo, q # s PROVE q \in Input'
    <3>1. q \in Input
      BY Zenon DEF IInv, ListInv
    <3>2. q \in Slots /\ At(q)' = At(q) /\ Slots' = Slots
      BY Zenon, <1>7, <2>1, <3>1 DEF Input, OnList, Wrote
    <3> QED
      BY Zenon, <1>9, <3>1, <3>2 DEF Input, OnList
  <2> QED
    BY Zenon, <1>9, <2>1
<1>15. ASSUME NEW q \in pre[u] PROVE Tracked(tls[q])'
  <2>1. q \in Threads /\ InCS(q) /\ Tracked(tls[q])
    BY Zenon, <1>t DEF IInv, GraceInv, WalkPc
  <2>2. tls[q] \in Slots /\ At(tls[q]).nest # 0 /\ tls'[q] = tls[q]
    BY Zenon, <2>1, SectionSlot
  <2>3. CASE tls[q] # s
    <3>1. At(tls[q])' = At(tls[q])
      BY Zenon, <1>7, <2>2, <2>3 DEF Wrote
    <3> QED
      BY Zenon, <1>9, <2>1, <2>2, <3>1 DEF Tracked
  <2>4. CASE tls[q] = s
    <3>1. /\ At(tls[q])'.list = ScanTo(s) /\ At(tls[q])'.phase = At(s).phase
      BY Zenon, <1>6, <1>7, <2>2, <2>4 DEF Wrote
    <3>2. CASE gp.pass = 1
      BY Zenon, <1>2, <1>4, <1>9, <2>2, <2>4, <3>1, <3>2 DEF Tracked
    <3>3. CASE gp.pass # 1
      <4>1. gp.pass = 2 /\ At(s).list = "cur_snap" /\ At(s).phase # gp.ctr
        BY Zenon, <2>1, <2>4, <3>3 DEF Tracked
      <4> QED
        BY Zenon, <1>4, <1>9, <2>2, <2>4, <3>1, <4>1 DEF Tracked
    <3> QED
      BY Zenon, <3>2, <3>3
  <2> QED
    BY Zenon, <2>3, <2>4
<1>16. ListInv' /\ GraceInv'
  <2>1. /\ pc'[u] = "scan" /\ "scan" \in WalkPc /\ "scan" # "passed" /\ "scan" # "out"
        /\ \A v \in Threads : pre'[v] \subseteq pre[v]
    BY Zenon, PcFacts
  <2>2. ASSUME NEW v \in Threads, NEW q \in pre'[v] PROVE InCS(q)'
    <3>1. q \in pre[v] /\ q \in Threads
      BY Zenon, <1>t
    <3> QED
      BY Zenon, <1>11, <3>1 DEF IInv, GraceInv
  <2> QED
    BY Zenon, <1>13, <1>14, <1>15, <2>1, <2>2, HolderInv
<1> QED
  BY Zenon, <1>8, <1>10, <1>12, <1>16 DEF IInv

(* wait_for_readers() *)
LEMMA ScanInv ==
  ASSUME IInv, BpAssumption, NEW u \in Threads, Scan(u) PROVE IInv'
<1>1. CASE gp.todo = {} /\ arena' = arena
  BY Zenon, <1>1, WaitInv
<1>2. ASSUME NEW s \in gp.todo,
             arena' = Put(s, [At(s) EXCEPT !.list = ScanTo(s)]),
             gp' = [gp EXCEPT !.todo = @ \ {s}], pc' = pc
      PROVE  IInv'
  BY Zenon, <1>2, VisitInv DEF Scan
<1> QED
  BY Zenon, <1>1, <1>2 DEF Scan

(* The parity switch between the passes: a section that the first pass     *)
(* found in the current phase is in the old one from here on.              *)
LEMMA FlipInv ==
  ASSUME IInv, BpAssumption, NEW u \in Threads, pc[u] = "passed", gp.pass = 1,
         gp' = [gp EXCEPT !.ctr = 1 - @, !.pass = 2, !.todo = OnList("cur_snap")],
         pc' = [pc EXCEPT ![u] = "scan"], arena' = arena, tls' = tls,
         lib' = lib, gctr' = gctr, pre' = pre
  PROVE  IInv'
<1>t. /\ gp \in GpRecord /\ gp.ctr \in {0, 1} /\ pre \in [Threads -> SUBSET Threads]
      /\ Slots \subseteq Nat \X Nat
  BY Zenon, StateSlots, SlotType DEF IInv, TypeOK, GpRecord
<1>1. 1 - gp.ctr \in {0, 1} /\ 1 - gp.ctr # gp.ctr /\ 2 # 1
  BY <1>t
<1>2. /\ gp' \in GpRecord /\ gp'.lock = gp.lock /\ gp'.reg = gp.reg /\ gp'.pass = 2
      /\ gp'.ctr = 1 - gp.ctr /\ gp'.todo = OnList("cur_snap")
  <2>1. OnList("cur_snap") \in SUBSET (Nat \X Nat)
    BY Zenon, <1>t DEF OnList
  <2> QED
    BY Zenon, <1>t, <1>1, <2>1 DEF GpRecord
<1>3. Slots' = Slots /\ \A s : At(s)' = At(s)
  BY Zenon, StillOwned
<1>4. Input' = OnList("cur_snap")
  BY Zenon, <1>1, <1>2, <1>3 DEF Input, OnList
<1>5. ASSUME NEW q \in pre'[u] PROVE Tracked(tls[q])'
  <2>1. q \in Threads /\ InCS(q) /\ Tracked(tls[q])
    BY Zenon, <1>t DEF IInv, GraceInv, WalkPc
  <2>2. tls[q] \in Slots
    BY Zenon, <2>1, SectionSlot
  <2>3. At(tls[q]).list # "registry"
    BY Zenon, <2>2 DEF IInv, ListInv, Input, OnList
  <2>4. At(tls[q]).list = "cur_snap" /\ At(tls[q]).phase = gp.ctr
    BY Zenon, <1>1, <2>1, <2>3 DEF Tracked
  <2>5. /\ tls'[q] = tls[q] /\ At(tls[q])'.list = "cur_snap"
        /\ At(tls[q])'.phase # gp'.ctr
    BY Zenon, <1>1, <1>2, <1>3, <2>4
  <2> QED
    BY Zenon, <1>2, <2>5 DEF Tracked
<1>6. \A v \in Threads : v # u => pc[v] \notin LockPc
  BY Zenon, OneHolder, PcFacts
<1>7. LockInv'
  BY Zenon, <1>2, Mutexes, PcFacts
<1>8. /\ "scan" \in Pcs /\ "scan" \in WalkPc /\ "scan" # "passed" /\ "scan" # "out"
      /\ pc[u] \notin {"add", "exit"} /\ "scan" \in SyncPc
      /\ pc[u] \notin {"idle"} \cup ForkPc /\ gp'.todo \subseteq Input'
  BY Zenon, <1>2, <1>4, PcFacts
<1> QED
  BY Zenon, <1>t, <1>2, <1>5, <1>6, <1>7, <1>8, HoldStep

(* The splice after the second pass: no section is left to wait for. *)
LEMMA SpliceInv ==
  ASSUME IInv, BpAssumption, NEW u \in Threads, pc[u] = "passed", gp.pass = 2,
         Splice, gp' = gp, pc' = [pc EXCEPT ![u] = "out"], tls' = tls,
         lib' = lib, gctr' = gctr, pre' = pre
  PROVE  IInv'
<1>t. /\ gp \in GpRecord /\ pre \in [Threads -> SUBSET Threads] /\ pc \in [Threads -> Pcs]
      /\ \A s \in Slots : At(s) \in ReaderRecord
  BY Zenon, StateSlots, SlotType DEF IInv, TypeOK
<1>0. 2 # 1
  OBVIOUS
<1>1. Sorted
  BY Zenon, SpliceSorts DEF IInv
<1>2. ArenaInv' /\ OwnerInv'
  BY Zenon, <1>1, SortedOwned
<1>3. \A s \in Slots : At(s).list # "cur_snap"
  BY Zenon, <1>0 DEF IInv, ListInv, Input, OnList
<1>4. ASSUME NEW s \in Slots
      PROVE  At(s)'.nest = At(s).nest /\ At(s)'.list \in {"none", "registry"}
  <2>1. At(s) \in ReaderRecord /\ At(s).list # "cur_snap"
    BY Zenon, <1>t, <1>3
  <2>2. CASE At(s).list = "qs"
    <3>1. At(s)' = [At(s) EXCEPT !.list = "registry"]
      BY Zenon, <1>1, <2>2 DEF Sorted
    <3> QED
      BY Zenon, <2>1, <3>1 DEF ReaderRecord
  <2>3. CASE At(s).list # "qs"
    <3>1. At(s)' = At(s)
      BY Zenon, <1>1, <2>3 DEF Sorted
    <3> QED
      BY Zenon, <2>1, <2>3, <3>1 DEF ReaderRecord, Lists
  <2> QED
    BY Zenon, <2>2, <2>3
<1>5. Whole'
  BY Zenon, <1>1, <1>4 DEF Whole, Sorted
<1>6. /\ pc' \in [Threads -> Pcs] /\ pc'[u] = "out"
      /\ \A v \in Threads : v # u => pc'[v] = pc[v]
  BY Zenon, <1>t, PcFacts
<1>7. pre'[u] = {}
  <2>1. ASSUME NEW q \in pre[u] PROVE FALSE
    <3>1. q \in Threads /\ InCS(q) /\ Tracked(tls[q])
      BY Zenon, <1>t DEF IInv, GraceInv, WalkPc
    <3>2. tls[q] \in Slots
      BY Zenon, <3>1, SectionSlot
    <3> QED
      BY Zenon, <1>0, <1>3, <3>1, <3>2 DEF Tracked
  <2> QED
    BY Zenon, <2>1
<1>8. TypeOK'
  BY Zenon, <1>1, <1>6 DEF IInv, TypeOK, Sorted
<1>9. ASSUME NEW v \in Threads PROVE InCS(v)' <=> InCS(v)
  <2>1. Nest(v)' = Nest(v)
    <3>1. CASE tls[v] = NULL
      BY Zenon, <3>1 DEF Nest
    <3>2. CASE tls[v] # NULL
      <4>1. tls[v] \in Slots /\ tls'[v] = tls[v]
        BY Zenon, <3>2 DEF IInv, OwnerInv, Owns
      <4>2. At(tls[v])'.nest = At(tls[v]).nest
        BY Zenon, <1>4, <4>1
      <4> QED
        BY Zenon, <3>2, <4>2 DEF Nest
    <3> QED
      BY Zenon, <3>1, <3>2
  <2> QED
    BY Zenon, <2>1 DEF InCS
<1>10. WhereInv' /\ RefInv'
  <2>1. Where(u)'
    <3>1. ~InCS(u)
      BY Zenon DEF IInv, WhereInv, Where, ForkPc
    <3> QED
      BY Zenon, <1>6, <1>9, <3>1 DEF Where
  <2>2. ASSUME NEW v \in Threads, v # u PROVE Where(v)'
    BY Zenon, <1>6, <1>9, <2>2 DEF IInv, WhereInv, Where
  <2>3. Holders' = Holders
    BY Zenon, <1>6 DEF Holders
  <2> QED
    BY Zenon, <2>1, <2>2, <2>3, RefKept DEF WhereInv
<1>11. LockInv'
  BY Zenon, Mutexes, PcFacts
<1>12. ListInv' /\ GraceInv'
  <2>0. pc[u] \in LockPc
    BY Zenon, PcFacts
  <2>1. \A v \in Threads : v # u => pc[v] \notin LockPc /\ pc'[v] = pc[v]
    BY Zenon, <1>6, <2>0, OneHolder
  <2>2. ASSUME NEW v \in Threads, NEW q \in pre'[v] PROVE InCS(q)'
    <3>1. q \in pre[v] /\ q \in Threads
      BY Zenon, <1>t
    <3> QED
      BY Zenon, <1>9, <3>1 DEF IInv, GraceInv
  <2>3. /\ "out" \notin WalkPc /\ "out" # "passed" /\ "out" # "scan"
        /\ \A v \in Threads : pre'[v] \subseteq pre[v]
    BY Zenon, PcFacts
  <2> QED
    BY Zenon, <1>5, <1>6, <1>7, <2>1, <2>2, <2>3, HolderInv
<1> QED
  BY Zenon, <1>2, <1>8, <1>10, <1>11, <1>12 DEF IInv

(* The end of a pass *)
LEMMA PassedInv ==
  ASSUME IInv, BpAssumption, NEW u \in Threads, Passed(u) PROVE IInv'
<1>1. /\ pc[u] = "passed" /\ tls' = tls /\ lib' = lib /\ gctr' = gctr /\ pre' = pre
  BY Zenon DEF Passed
<1>2. CASE /\ gp.pass = 1 /\ arena' = arena /\ pc' = [pc EXCEPT ![u] = "scan"]
           /\ gp' = [gp EXCEPT !.ctr = 1 - @, !.pass = 2, !.todo = OnList("cur_snap")]
  BY Zenon, <1>1, <1>2, FlipInv
<1>3. CASE gp.pass = 2 /\ Splice /\ gp' = gp /\ pc' = [pc EXCEPT ![u] = "out"]
  BY Zenon, <1>1, <1>3, SpliceInv
<1> QED
  BY Zenon, <1>2, <1>3 DEF Passed, Goto

-----------------------------------------------------------------------------
(* The child of a fork: urcu_bp_prune_registry() frees the slots of all    *)
(* other threads.                                                          *)
LEMMA ChildInv ==
  ASSUME IInv, BpAssumption, NEW t \in Threads, AfterForkChild(t) PROVE IInv'
<1> DEFINE ss == {s \in Slots : At(s).alloc /\ At(s).tid # t}
<1> DEFINE gone == Threads \ {t}
<1>t. gp \in GpRecord /\ pc[t] = "forked" /\ TypeOK /\ ArenaInv
  BY Zenon DEF AfterForkChild, IInv, TypeOK
<1>1. Left(ss)
  <2>1. Cleanup(ss) /\ \A q \in ss : q \in Slots /\ At(q).alloc
    BY Zenon DEF AfterForkChild
  <2> HIDE DEF ss
  <2> QED
    BY Zenon, <1>t, <2>1, CleanupLeaves
<1>2. /\ gone \in SUBSET Threads
      /\ tls' = [u \in Threads |-> IF u \in gone THEN NULL ELSE tls[u]]
      /\ \A q \in Slots : At(q).alloc => (q \in ss <=> At(q).tid \in gone)
  <2>1. tls' = [u \in Threads |-> IF u \in gone THEN NULL ELSE tls[u]]
    BY Zenon DEF AfterForkChild
  <2>2. \A q \in Slots : At(q).alloc => At(q).tid \in Threads
    BY Zenon, <1>t DEF ArenaInv, Slot
  <2> QED
    BY Zenon, <2>1, <2>2
<1>3. /\ ArenaInv' /\ OwnerInv' /\ arena' \in Arenas
      /\ \A u \in Threads : u # t => tls'[u] = NULL
      /\ tls'[t] = tls[t]
  <2>1. (\A u \in Threads : u # t => u \in gone) /\ t \notin gone
    BY Zenon
  <2> HIDE DEF ss, gone
  <2> QED
    BY Zenon, <1>1, <1>2, <2>1, LeftOwned DEF Left
<1>4. /\ gp' = [gp EXCEPT !.lock = NULL, !.reg = NULL]
      /\ gctr' = [u \in Threads |-> 0] /\ pc' = [u \in Threads |-> "idle"]
      /\ pre' = [u \in Threads |-> {}] /\ lib' = lib
      /\ tls' = [u \in Threads |-> IF u = t THEN tls[t] ELSE NULL]
  BY Zenon DEF AfterForkChild
<1>5. /\ gp' \in GpRecord /\ gp'.lock = NULL /\ gp'.reg = NULL
  BY Zenon, <1>t, <1>4 DEF GpRecord
<1>6. /\ \A u \in Threads : pc'[u] = "idle" /\ pre'[u] = {}
  BY Zenon, <1>4
<1>7. TypeOK'
  <2>1. tls' \in [Threads -> (Nat \X Nat) \cup {NULL}]
    BY Zenon, <1>t, <1>4 DEF TypeOK
  <2>2. gctr' \in [Threads -> {0, 1}] /\ pre' \in [Threads -> SUBSET Threads]
    BY Zenon, <1>4
  <2>3. pc' \in [Threads -> Pcs]
    BY Zenon, <1>4, PcFacts
  <2> QED
    BY Zenon, <1>t, <1>3, <1>4, <1>5, <2>1, <2>2, <2>3 DEF TypeOK
<1>8. WhereInv' /\ GraceInv'
  <2>1. WhereInv'
    BY Zenon, <1>6 DEF WhereInv, Where
  <2>2. "idle" \notin WalkPc
    BY Zenon, PcFacts
  <2> QED
    BY Zenon, <1>6, <2>1, <2>2 DEF GraceInv
<1>9. RefInv'
  <2>1. ASSUME NEW u \in Holders' PROVE u \in Holders
    <3>1. u \in Threads /\ (tls'[u] # NULL \/ pc'[u] \in {"add", "exit"})
      BY Zenon DEF Holders
    <3>2. u = t /\ tls[t] # NULL
      BY Zenon, <1>3, <1>6, <3>1
    <3> QED
      BY Zenon, <3>2 DEF Holders
  <2> QED
    BY Zenon, <1>4, <2>1, RefLess
<1>10. LockInv'
  <2>1. "idle" \notin LockPc /\ "idle" \notin RegPc
    BY Zenon, PcFacts
  <2> QED
    BY Zenon, <1>5, <1>6, <2>1 DEF LockInv, BpAssumption
<1>11. ListInv'
  <2>1. Whole
    <3>1. pc[t] \in LockPc /\ pc[t] \notin WalkPc
      BY Zenon, <1>t, PcFacts
    <3> QED
      BY Zenon, <3>1, OneHolder, WholeNow
  <2>2. ASSUME NEW q \in Slots' PROVE At(q)'.list \in {"none", "registry"}
    <3>1. q \in Slots /\ (q \in ss => At(q)' = Reader) /\ (q \notin ss => At(q)' = At(q))
      BY Zenon, <1>1 DEF Left
    <3> HIDE DEF ss
    <3> QED
      BY Zenon, <2>1, <3>1, ReaderFree DEF Whole
  <2>3. Whole'
    BY Zenon, <2>2 DEF Whole
  <2> QED
    BY Zenon, <1>6, <2>3 DEF ListInv
<1> QED
  BY Zenon, <1>3, <1>7, <1>8, <1>9, <1>10, <1>11 DEF IInv

-----------------------------------------------------------------------------
(* The invariant *)

(* It holds at the start. *)
LEMMA InitInv == ASSUME Init, BpAssumption PROVE IInv
<1>1. TypeOK
  <2>1. arena \in Arenas
    BY DEF Init, Arenas
  <2>2. gp \in GpRecord
    BY Zenon DEF Init, GpRecord
  <2>3. /\ tls \in [Threads -> (Nat \X Nat) \cup {NULL}]
        /\ gctr \in [Threads -> {0, 1}] /\ pre \in [Threads -> SUBSET Threads]
    BY Zenon DEF Init
  <2>4. lib \in LibRecord
    BY DEF Init, LibRecord
  <2>5. pc \in [Threads -> Pcs]
    BY Zenon, PcFacts DEF Init
  <2> QED
    BY Zenon, <2>1, <2>2, <2>3, <2>4, <2>5 DEF TypeOK
<1>2. Slots = {} /\ DOMAIN arena = {}
  <2>1. DOMAIN arena = {}
    BY DEF Init
  <2> QED
    BY Zenon, <2>1 DEF Slots
<1>3. ArenaInv
  BY Zenon, <1>2 DEF ArenaInv, Counted
<1>4. \A t \in Threads : tls[t] = NULL /\ pc[t] = "idle" /\ pre[t] = {}
  BY Zenon DEF Init
<1>5. OwnerInv /\ WhereInv
  BY Zenon, <1>4 DEF OwnerInv, Owns, WhereInv, Where
<1>6. RefInv
  <2>1. Holders = {}
    BY Zenon, <1>4 DEF Holders
  <2>2. IsFiniteSet({}) /\ Cardinality({}) = 0
    BY Zenon, FS_EmptySet
  <2>3. lib.refcount = 0 /\ OwnRef = 0 /\ 0 + 0 <= 0
    BY DEF Init, OwnRef
  <2> QED
    BY Zenon, <2>1, <2>2, <2>3 DEF RefInv
<1>7. LockInv /\ ListInv /\ GraceInv
  <2>1. "idle" \notin LockPc /\ "idle" \notin RegPc /\ "idle" \notin WalkPc
    BY Zenon, PcFacts
  <2>2. gp.lock = NULL /\ gp.reg = NULL
    BY Zenon DEF Init
  <2>3. LockInv
    BY Zenon, <1>4, <2>1, <2>2 DEF LockInv, BpAssumption
  <2>4. ListInv
    BY Zenon, <1>2, <1>4 DEF ListInv, Whole
  <2>5. GraceInv
    BY Zenon, <1>4, <2>1 DEF GraceInv
  <2> QED
    BY Zenon, <2>3, <2>4, <2>5
<1> QED
  BY Zenon, <1>1, <1>3, <1>5, <1>6, <1>7 DEF IInv

(* A step that changes the library's reference only. *)
LEMMA LibInv ==
  ASSUME IInv, arena' = arena, tls' = tls, gp' = gp, gctr' = gctr, pc' = pc, pre' = pre,
         lib' \in LibRecord, RefInv'
  PROVE  IInv'
<1>2. /\ ArenaInv' /\ OwnerInv' /\ Slots' = Slots /\ \A s : At(s)' = At(s)
      /\ \A t \in Threads : InCS(t)' <=> InCS(t)
  BY Zenon, StillOwned
<1>3. TypeOK' /\ LockInv'
  BY Zenon DEF IInv, TypeOK, LockInv
<1>4. WhereInv'
  BY Zenon, <1>2 DEF IInv, WhereInv, Where
<1>5. ListInv'
  BY Zenon, <1>2 DEF IInv, ListInv, Whole, Input, OnList
<1>6. GraceInv'
  <2>1. ASSUME NEW u \in Threads, NEW q \in pre'[u] PROVE q \in pre[u] /\ InCS(q)'
    <3>1. q \in pre[u] /\ q \in Threads
      BY Zenon DEF IInv, TypeOK
    <3> QED
      BY Zenon, <1>2, <3>1 DEF IInv, GraceInv
  <2> QED
    BY Zenon, <1>2, <2>1, GraceKept
<1> QED
  BY Zenon, <1>2, <1>3, <1>4, <1>5, <1>6 DEF IInv

(* A stuttering step keeps it. *)
LEMMA StutterInv == ASSUME IInv, UNCHANGED vars PROVE IInv'
<1>1. /\ arena' = arena /\ tls' = tls /\ lib' = lib /\ gp' = gp
      /\ gctr' = gctr /\ pc' = pc /\ pre' = pre
  BY Zenon DEF vars
<1>2. RefInv' /\ lib' \in LibRecord
  BY Zenon, <1>1 DEF IInv, TypeOK, RefInv, OwnRef, Holders
<1> QED
  BY Zenon, <1>1, <1>2, LibInv

(* _urcu_bp_init() as constructor takes a reference. *)
LEMMA ConstructorInv == ASSUME IInv, Constructor PROVE IInv'
<1>1. /\ arena' = arena /\ tls' = tls /\ gp' = gp /\ gctr' = gctr /\ pc' = pc /\ pre' = pre
      /\ lib' = [refcount |-> lib.refcount + 1, state |-> "loaded"]
  BY Zenon DEF Constructor
<1>2. PICK n \in Nat, o \in {0, 1}, m \in Int :
        /\ n = Cardinality(Holders) /\ o = OwnRef /\ m = lib.refcount /\ n + o <= m
        /\ IsFiniteSet(Holders)
  BY Zenon, RefNumbers
<1>3. m + 1 \in Int /\ 1 \in {0, 1} /\ n + 1 <= m + 1
  BY <1>2
<1>4. lib' \in LibRecord /\ lib'.refcount = m + 1 /\ OwnRef' = 1
  BY <1>1, <1>2 DEF LibRecord, OwnRef
<1>5. Holders' = Holders
  BY Zenon, <1>1 DEF Holders
<1>6. RefInv'
  BY Zenon, <1>2, <1>3, <1>4, <1>5, RefFits
<1> QED
  BY Zenon, <1>1, <1>4, <1>6, LibInv

(* urcu_bp_exit_destructor() gives it back; it is the last one only if no  *)
(* thread holds any.                                                       *)
LEMMA DestructorRef ==
  ASSUME IInv, Destructor
  PROVE  /\ RefInv' /\ lib' \in LibRecord /\ lib'.state = "unloaded"
         /\ Holders' = Holders /\ (arena' = arena \/ (arena' = <<>> /\ Holders' = {}))
<1>1. /\ tls' = tls /\ pc' = pc /\ lib.state = "loaded"
      /\ lib' = [refcount |-> lib.refcount - 1, state |-> "unloaded"]
      /\ arena' = IF lib.refcount = 1 THEN <<>> ELSE arena
  BY Zenon DEF Destructor, UnmapIfLast
<1>2. PICK n \in Nat, o \in {0, 1}, m \in Int :
        /\ n = Cardinality(Holders) /\ o = OwnRef /\ m = lib.refcount /\ n + o <= m
        /\ IsFiniteSet(Holders)
  BY Zenon, RefNumbers
<1>3. o = 1
  BY Zenon, <1>1, <1>2 DEF OwnRef
<1>4. m - 1 \in Int /\ 0 \in {0, 1} /\ n + 0 <= m - 1 /\ (m = 1 => n = 0)
  BY <1>2, <1>3
<1>5. lib' \in LibRecord /\ lib'.refcount = m - 1 /\ OwnRef' = 0 /\ lib'.state = "unloaded"
  BY <1>1, <1>2 DEF LibRecord, OwnRef
<1>6. Holders' = Holders
  BY Zenon, <1>1 DEF Holders
<1>7. RefInv'
  BY Zenon, <1>2, <1>4, <1>5, <1>6, RefFits
<1>8. m = 1 => Holders = {}
  BY Zenon, <1>2, <1>4, FS_EmptySet
<1> QED
  BY Zenon, <1>1, <1>2, <1>5, <1>6, <1>7, <1>8

(* The destructor keeps the invariant. *)
LEMMA DestructorInv == ASSUME IInv, BpAssumption, Destructor PROVE IInv'
<1>1. /\ tls' = tls /\ gp' = gp /\ gctr' = gctr /\ pc' = pc /\ pre' = pre
  BY Zenon DEF Destructor
<1>2. /\ RefInv' /\ lib' \in LibRecord
      /\ arena' = arena \/ (arena' = <<>> /\ Holders' = {})
  BY Zenon, DestructorRef
<1>3. CASE arena' = arena
  BY Zenon, <1>1, <1>2, <1>3, LibInv
<1>4. CASE arena' = <<>> /\ Holders' = {}
  <2>1. pc' \in [Threads -> Pcs]
    BY Zenon, <1>1 DEF IInv, TypeOK
  <2> QED
    BY Zenon, <1>1, <1>2, <1>4, <2>1, UnmapInv
<1> QED
  BY Zenon, <1>2, <1>3, <1>4

(* Every step of a thread keeps it. *)
LEMMA ThreadInv ==
  ASSUME IInv, BpAssumption, NEW t \in Threads, ThreadStep(t) PROVE IInv'
<1>2. CASE NeedsRegister(t) \/ Register(t)
  BY Zenon, <1>2, RegisterInv
<1>3. CASE Signal(t) \/ Add(t)
  BY Zenon, <1>3, AddInv
<1>4. CASE Unregister(t)
  BY Zenon, <1>4, UnregisterInv
<1>5. CASE Exit(t)
  BY Zenon, <1>5, ExitInv
<1>6. CASE ReadLock(t) \/ ReadLockStore(t) \/ ReadUnlock(t)
  BY Zenon, <1>6, ReadInv
<1>7. CASE Sync(t)
  BY Zenon, <1>7, SyncInv
<1>8. CASE GpLock(t) \/ BeforeFork(t)
  BY Zenon, <1>8, GpLockInv
<1>9. CASE BeforeForkReg(t) \/ AfterForkParent(t)
  BY Zenon, <1>9, ForkOutInv
<1>10. CASE AfterForkChild(t)
  BY Zenon, <1>10, ChildInv
<1>11. CASE GpStep(t)
  <2>1. CASE RegLock(t)
    BY Zenon, <2>1, RegLockInv
  <2>2. CASE Scan(t)
    BY Zenon, <2>2, ScanInv
  <2>3. CASE Relock(t)
    BY Zenon, <2>3, WaitInv
  <2>4. CASE Passed(t)
    BY Zenon, <2>4, PassedInv
  <2>5. CASE Out(t)
    BY Zenon, <2>5, ForkOutInv
  <2> QED
    BY Zenon, <1>11, <2>1, <2>2, <2>3, <2>4, <2>5 DEF GpStep
<1> QED
  BY Zenon, <1>2, <1>3, <1>4, <1>5, <1>6, <1>7, <1>8, <1>9, <1>10, <1>11 DEF ThreadStep

(* Every step keeps it. *)
LEMMA NextInv == ASSUME IInv, BpAssumption, Next PROVE IInv'
  BY Zenon, ConstructorInv, DestructorInv, ThreadInv DEF Next

(* The invariant holds in every reachable state of UrcuBp: registration,   *)
(* exit, read-side sections, grace periods and fork() in src/urcu-bp.c.    *)
THEOREM Invariance == ASSUME BpAssumption PROVE Spec => []IInv
<1>1. Init => IInv
  BY Zenon, InitInv
<1>2. IInv /\ [Next]_vars => IInv'
  BY Zenon, NextInv, StutterInv
<1> QED
  BY <1>1, <1>2, PTL DEF Spec

-----------------------------------------------------------------------------
(* What follows *)

(* urcu_bp_synchronize_rcu() returns only after the sections that were in  *)
(* progress at its call, whichever threads register, exit or fork in       *)
(* between.                                                                *)
THEOREM GracePeriodHolds == ASSUME BpAssumption PROVE Spec => []GracePeriodGuarantee
<1>1. IInv => GracePeriodGuarantee
  BY Zenon DEF IInv, GraceInv, GracePeriodGuarantee
<1> QED
  BY <1>1, Invariance, PTL

(* add_thread(), cleanup_thread() and urcu_bp_prune_registry() keep the     *)
(* slots in use and the registered threads one to one, however it grows.   *)
THEOREM SlotsOwnedHolds == ASSUME BpAssumption PROVE Spec => []SlotsOwned
<1>1. IInv => SlotsOwned
  BY Zenon DEF IInv, OwnerInv, Owns, ArenaInv, Slot, SlotsOwned
<1> QED
  BY <1>1, Invariance, PTL

(* A slot is on a list exactly while it is in use, a free one has a zero   *)
(* counter, and the used field of a chunk counts the slots in use.         *)
THEOREM ArenaConsistentHolds == ASSUME BpAssumption PROVE Spec => []ArenaConsistent
<1>1. ASSUME IInv PROVE ArenaConsistent
  <2>1. ASSUME NEW s \in Slots
        PROVE  /\ At(s).alloc <=> At(s).list # "none"
               /\ ~At(s).alloc => At(s).nest = 0
    <3>1. Slot(s)
      BY Zenon, <1>1 DEF IInv, ArenaInv
    <3>2. CASE At(s).alloc
      BY Zenon, <3>1, <3>2 DEF Slot
    <3>3. CASE ~At(s).alloc
      BY Zenon, <3>1, <3>3, ReaderFree DEF Slot
    <3> QED
      BY Zenon, <3>2, <3>3
  <2>2. \A c \in DOMAIN arena :
          arena[c].used = Cardinality({i \in DOMAIN arena[c].readers :
                                         arena[c].readers[i].alloc})
    BY Zenon, <1>1 DEF IInv, ArenaInv, Counted, InUse
  <2> QED
    BY Zenon, <2>1, <2>2 DEF ArenaConsistent
<1> QED
  BY <1>1, Invariance, PTL

(* Between grace periods, and in the child of a fork, every registered     *)
(* reader is on the registry.                                              *)
THEOREM ListsRestoredHolds == ASSUME BpAssumption PROVE Spec => []ListsRestored
<1>1. ASSUME IInv PROVE ListsRestored
  <2>1. gp.lock = NULL => \A t \in Threads : pc[t] \notin LockPc
    BY Zenon, <1>1 DEF IInv, LockInv, BpAssumption
  <2> QED
    BY Zenon, <1>1, <2>1 DEF IInv, ListInv, Whole, LockPc, ListsRestored
<1> QED
  BY <1>1, Invariance, PTL

-----------------------------------------------------------------------------
(* The arena only grows *)

(* A store to a slot leaves the chunks as they are. *)
LEMMA PutKeeps ==
  ASSUME TypeOK, NEW s, NEW r, arena' = Put(s, r) PROVE Slots' = Slots
<1>1. PICK a \in Arenas : a = arena
  BY Zenon DEF TypeOK
<1>2. PICK b : b = arena'
  BY Zenon
<1>3. DOMAIN b = DOMAIN a
  BY Zenon, <1>1, <1>2 DEF Put
<1>4. ASSUME NEW c \in DOMAIN a PROVE DOMAIN b[c].readers = DOMAIN a[c].readers
  <2>1. a[c] \in ChunkRecord
    BY <1>1 DEF Arenas
  <2>2. b = [a EXCEPT ![s[1]].readers[s[2]] = r]
    BY Zenon, <1>1, <1>2 DEF Put
  <2>3. CASE c # s[1]
    BY Zenon, <2>2, <2>3
  <2>4. CASE c = s[1]
    <3>1. b[c] = [a[c] EXCEPT !.readers = [a[c].readers EXCEPT ![s[2]] = r]]
      BY Zenon, <2>2, <2>4
    <3>2. b[c].readers = [a[c].readers EXCEPT ![s[2]] = r]
      BY <2>1, <3>1 DEF ChunkRecord
    <3> QED
      BY Zenon, <3>2
  <2> QED
    BY Zenon, <2>3, <2>4
<1>5. SameShape(arena, arena')
  BY Zenon, <1>1, <1>2, <1>3, <1>4 DEF SameShape
<1> QED
  BY Zenon, <1>5, SameSlots, StateSlots, NextSlots

(* So do cleanup_thread() and the splice. *)
LEMMA MapKeeps ==
  ASSUME Splice \/ \E ss : Cleanup(ss) PROVE Slots' = Slots
<1>1. DOMAIN arena' = DOMAIN arena
  BY Zenon DEF Splice, Cleanup
<1>2. ASSUME NEW c \in DOMAIN arena
      PROVE  DOMAIN arena'[c].readers = DOMAIN arena[c].readers
  <2>1. CASE Splice
    BY <1>2, <2>1 DEF Splice
  <2>2. ASSUME NEW ss, Cleanup(ss)
        PROVE  DOMAIN arena'[c].readers = DOMAIN arena[c].readers
    BY <1>2, <2>2 DEF Cleanup
  <2> QED
    BY Zenon, <2>1, <2>2
<1>3. SameShape(arena, arena')
  BY Zenon, <1>1, <1>2 DEF SameShape
<1> QED
  BY Zenon, <1>3, SameSlots, StateSlots, NextSlots

(* The library is loaded, or a thread needs its slot. *)
ArenaNeeded == \/ lib.state = "loaded" /\ lib'.state = "loaded"
               \/ \E t \in Threads : tls[t] # NULL \/ pc[t] = "add"

(* Every step of a thread keeps the slots. *)
LEMMA ThreadKeeps ==
  ASSUME IInv, BpAssumption, ArenaNeeded, NEW t \in Threads, ThreadStep(t)
  PROVE  Slots \subseteq Slots'
<1>2. TypeOK /\ ArenaInv
  BY Zenon DEF IInv
<1>3. CASE arena' = arena
  BY Zenon, <1>3, StateSlots, NextSlots
<1>4. CASE AddThread(t)
  BY Zenon, <1>2, <1>4, AddThreadJoins DEF Joined
<1>5. CASE Splice \/ \E ss : Cleanup(ss)
  BY Zenon, <1>5, MapKeeps
<1>6. CASE \E s, r : arena' = Put(s, r)
  BY Zenon, <1>2, <1>6, PutKeeps
<1>7. Signal(t) \/ Add(t) => AddThread(t)
  BY Zenon DEF Signal, Add
<1>8. Unregister(t) \/ AfterForkChild(t) => \E ss : Cleanup(ss)
  BY Zenon DEF Unregister, AfterForkChild
<1>9. ASSUME Exit(t) PROVE arena' = arena
  <2>1. \/ arena' = arena
        \/ Holders' = {} /\ lib.state # "loaded"
    BY Zenon, <1>9, ExitRef
  <2>2. ASSUME NEW u \in Threads, tls[u] # NULL \/ pc[u] = "add" PROVE u \in Holders'
    <3>1. tls' = tls /\ pc[t] = "exit" /\ pc' = [pc EXCEPT ![t] = "idle"]
      BY Zenon, <1>9 DEF Exit, Goto
    <3>2. pc[u] = "add" => pc'[u] = "add"
      BY Zenon, <3>1 DEF IInv, TypeOK
    <3> QED
      BY Zenon, <2>2, <3>1, <3>2 DEF Holders
  <2> QED
    BY Zenon, <2>1, <2>2 DEF ArenaNeeded
<1>10. ReadLock(t) \/ ReadLockStore(t) \/ ReadUnlock(t) =>
         arena' = arena \/ \E s, r : arena' = Put(s, r)
  BY Zenon DEF ReadLock, ReadLockStore, ReadUnlock
<1>11. GpStep(t) => arena' = arena \/ Splice \/ \E s, r : arena' = Put(s, r)
  BY Zenon DEF GpStep, RegLock, Scan, Relock, Passed, Out
<1>12. NeedsRegister(t) \/ Register(t) \/ Sync(t) \/ GpLock(t) => arena' = arena
  BY Zenon DEF NeedsRegister, Register, Sync, GpLock
<1>13. BeforeFork(t) \/ BeforeForkReg(t) \/ AfterForkParent(t) => arena' = arena
  BY Zenon DEF BeforeFork, BeforeForkReg, AfterForkParent
<1> QED
  BY Zenon, <1>3, <1>4, <1>5, <1>6, <1>7, <1>8, <1>9, <1>10, <1>11, <1>12, <1>13
     DEF ThreadStep

(* So does every other step. *)
LEMMA NextKeeps ==
  ASSUME IInv, BpAssumption, Next, ArenaNeeded PROVE Slots \subseteq Slots'
<1>1. ASSUME Constructor PROVE arena' = arena
  BY Zenon, <1>1 DEF Constructor
<1>2. ASSUME Destructor PROVE arena' = arena
  <2>1. /\ lib'.state = "unloaded" /\ Holders' = Holders
        /\ arena' = arena \/ Holders' = {}
    BY Zenon, <1>2, DestructorRef
  <2>2. \A t \in Threads : tls[t] # NULL \/ pc[t] = "add" => t \in Holders
    BY Zenon DEF Holders
  <2> QED
    BY Zenon, <2>1, <2>2 DEF ArenaNeeded
<1>3. arena' = arena => Slots \subseteq Slots'
  BY Zenon, StateSlots, NextSlots
<1> QED
  BY Zenon, <1>1, <1>2, <1>3, ThreadKeeps DEF Next

(* The arena of urcu-bp.c unmaps or moves no slot while the library is     *)
(* loaded or a thread is registered or about to be, whatever threads       *)
(* register, exit and fork and whenever the constructor and the destructor *)
(* run: references are counted, and expand_arena() leaves the chunks it    *)
(* has where they are.                                                     *)
THEOREM ArenaStaysHolds == ASSUME BpAssumption PROVE Spec => ArenaStays
<1>1. IInv /\ [Next]_vars => [ArenaNeeded => Slots \subseteq Slots']_vars
  BY Zenon, NextKeeps
<1> QED
  BY <1>1, Invariance, PTL DEF Spec, ArenaStays, ArenaNeeded
=============================================================================
