------------------------------ MODULE JournalProofs ------------------------------
(***************************************************************************)
(* Proofs about the file behind the dispatch journal: what a running        *)
(* controller holds of an entry is at least what put reported durable.      *)
(***************************************************************************)
EXTENDS Journal, FiniteSetTheorems, SequenceTheorems, WellFoundedInduction, TLAPS

--------------------------------------------------------------------------------
(* The last line of an entry.                                                *)

Lines == [id : Ids, n : 0..Finished] \cup {Torn}

(* merge after the first k lines. *)
LoadedAt(s, k, id) ==
  LET ns == {j \in 1..k : s[j].id = id}
  IN IF ns = {} THEN 0 ELSE s[Max(ns)].n

(* A set of naturals that is not empty has a least element. *)
LEMMA LeastNatural ==
  ASSUME NEW T \in SUBSET Nat, T # {}
  PROVE  \E x \in T : \A y \in T : x <= y
<1> DEFINE R == OpToRel(<, Nat)
<1>1. IsWellFoundedOn(R, Nat)
  BY NatLessThanWellFounded
<1>2. \A x, y \in Nat : y < x => <<y, x>> \in R
  BY DEF OpToRel
<1> HIDE DEF R
<1>3. PICK x \in T : \A y \in T : ~(<<y, x>> \in R)
  BY <1>1, WFMin
<1>4. \A y \in T : x \in Nat /\ y \in Nat /\ ~(y < x)
  BY <1>2, <1>3
<1> QED
  BY <1>3, <1>4

(* The greatest element of a set of positions is one of them. *)
LEMMA MaxIn ==
  ASSUME NEW k \in Nat, NEW ns \in SUBSET (1..k), ns # {}
  PROVE  Max(ns) \in ns /\ \A j \in ns : Max(ns) >= j
<1> DEFINE T == {x \in Nat : \E j \in ns : x = k - j}
<1>1. T \in SUBSET Nat /\ T # {}
  <2>1. PICK j \in ns : TRUE
    OBVIOUS
  <2>2. k - j \in Nat
    BY <2>1
  <2> QED
    BY <2>1, <2>2
<1>2. PICK x \in T : \A y \in T : x <= y
  BY <1>1, LeastNatural
<1>3. PICK m \in ns : x = k - m
  BY <1>2
<1>4. \A j \in ns : m >= j
  <2> TAKE j \in ns
  <2>1. k - j \in T
    OBVIOUS
  <2>2. k - m <= k - j /\ j \in Nat /\ m \in Nat
    BY <1>2, <1>3, <2>1
  <2> QED
    BY <2>2
<1> QED
  BY <1>3, <1>4 DEF Max

(* What a load gives for an entry is a phase. *)
LEMMA LoadedType ==
  ASSUME NEW s \in Seq(Lines), NEW k \in 0..Len(s), NEW id
  PROVE  LoadedAt(s, k, id) \in 0..Finished
<1> DEFINE ns == {j \in 1..k : s[j].id = id}
<1>1. CASE ns = {}
  BY <1>1, JournalAssumption DEF LoadedAt
<1>2. CASE ns # {}
  <2>0. k \in Nat /\ ns \in SUBSET (1..k)
    OBVIOUS
  <2>1. Max(ns) \in ns
    BY <1>2, <2>0, MaxIn
  <2>2. s[Max(ns)] \in Lines
    BY <2>1
  <2>3. s[Max(ns)].n \in 0..Finished
    BY <2>2, JournalAssumption DEF Lines, Torn
  <2> QED
    BY <1>2, <2>3 DEF LoadedAt
<1> QED
  BY <1>1, <1>2

(* One more line counts for its own entry alone. *)
LEMMA LoadedNext ==
  ASSUME NEW s \in Seq(Lines), NEW k \in 1..Len(s), NEW id
  PROVE  LoadedAt(s, k, id) = IF s[k].id = id THEN s[k].n ELSE LoadedAt(s, k - 1, id)
<1> DEFINE ns == {j \in 1..k : s[j].id = id}
           ms == {j \in 1..(k - 1) : s[j].id = id}
<1>1. CASE s[k].id = id
  <2>0. k \in Nat /\ ns \in SUBSET (1..k)
    OBVIOUS
  <2>1. k \in ns
    BY <1>1
  <2>2. Max(ns) \in ns /\ Max(ns) >= k
    BY <2>0, <2>1, MaxIn
  <2>3. Max(ns) = k
    BY <2>0, <2>2
  <2> QED
    BY <1>1, <2>1, <2>3 DEF LoadedAt
<1>2. CASE s[k].id # id
  <2>1. ns = ms
    BY <1>2
  <2> QED
    BY <1>2, <2>1 DEF LoadedAt
<1> QED
  BY <1>1, <1>2

(* Only the first k lines count. *)
LEMMA LoadedAgree ==
  ASSUME NEW s \in Seq(Lines), NEW t \in Seq(Lines), NEW k \in Nat, k <= Len(s), k <= Len(t),
         \A j \in 1..k : s[j] = t[j], NEW id
  PROVE  LoadedAt(s, k, id) = LoadedAt(t, k, id)
<1> DEFINE ns == {j \in 1..k : s[j].id = id}
           ms == {j \in 1..k : t[j].id = id}
<1>1. ns = ms
  OBVIOUS
<1>2. CASE ns = {}
  BY <1>1, <1>2 DEF LoadedAt
<1>3. CASE ns # {}
  <2>1. Max(ns) \in ns
    BY <1>3, MaxIn
  <2>2. s[Max(ns)] = t[Max(ns)]
    BY <2>1
  <2> QED
    BY <1>1, <1>3, <2>2 DEF LoadedAt
<1> QED
  BY <1>2, <1>3

(* Loading a file is loading its longest prefix. *)
LEMMA LoadedAll ==
  ASSUME NEW s \in Seq(Lines), NEW id
  PROVE  Loaded(s, id) = LoadedAt(s, Len(s), id)
BY DEF Loaded, LoadedAt

(* An empty prefix gives nothing. *)
LEMMA LoadedNone ==
  ASSUME NEW s, NEW id
  PROVE  LoadedAt(s, 0, id) = 0
BY DEF LoadedAt

(* A line appended to a file. *)
LEMMA LoadedAppend ==
  ASSUME NEW s \in Seq(Lines), NEW x \in Lines, NEW id
  PROVE  LET t == Append(s, x)
         IN /\ t \in Seq(Lines) /\ Len(t) = Len(s) + 1
            /\ \A k \in 0..Len(s) : LoadedAt(t, k, id) = LoadedAt(s, k, id)
            /\ LoadedAt(t, Len(t), id) = IF x.id = id THEN x.n ELSE LoadedAt(s, Len(s), id)
<1> DEFINE t == Append(s, x)
<1>1. /\ t \in Seq(Lines) /\ Len(t) = Len(s) + 1 /\ t[Len(s) + 1] = x
      /\ \A j \in 1..Len(s) : t[j] = s[j]
  BY AppendProperties
<1> HIDE DEF t
<1>2. \A k \in 0..Len(s) : LoadedAt(t, k, id) = LoadedAt(s, k, id)
  <2> TAKE k \in 0..Len(s)
  <2>1. k \in Nat /\ k <= Len(s) /\ k <= Len(t) /\ \A j \in 1..k : s[j] = t[j]
    BY <1>1, LenProperties
  <2> QED
    BY <1>1, <2>1, LoadedAgree
<1>3. Len(s) \in Nat
  BY LenProperties
<1>4. LoadedAt(t, Len(t), id) = IF t[Len(t)].id = id THEN t[Len(t)].n ELSE LoadedAt(t, Len(t) - 1, id)
  BY <1>1, <1>3, LoadedNext
<1>5. Len(t) - 1 = Len(s) /\ Len(s) \in 0..Len(s)
  BY <1>1, <1>3
<1>6. LoadedAt(t, Len(t), id) = IF x.id = id THEN x.n ELSE LoadedAt(s, Len(s), id)
  BY <1>1, <1>2, <1>4, <1>5
<1> QED
  BY <1>1, <1>2, <1>6 DEF t

(* The first lines of a file. *)
LEMMA LoadedPrefix ==
  ASSUME NEW s \in Seq(Lines), NEW k \in 0..Len(s), NEW id
  PROVE  LET t == SubSeq(s, 1, k)
         IN /\ t \in Seq(Lines) /\ Len(t) = k
            /\ \A j \in 0..k : LoadedAt(t, j, id) = LoadedAt(s, j, id)
<1> DEFINE t == SubSeq(s, 1, k)
<1>1. t \in Seq(Lines) /\ Len(t) = k /\ \A j \in 1..k : t[j] = s[j]
  BY SubSeqProperties, LenProperties
<1> HIDE DEF t
<1>2. ASSUME NEW j \in 0..k
      PROVE  LoadedAt(t, j, id) = LoadedAt(s, j, id)
  <2>1. j \in Nat /\ j <= Len(s) /\ j <= Len(t) /\ \A i \in 1..j : s[i] = t[i]
    BY <1>1, LenProperties
  <2> QED
    BY <1>1, <2>1, LoadedAgree
<1> QED
  BY <1>1, <1>2 DEF t

--------------------------------------------------------------------------------
(* The file a compaction writes.                                             *)

(* A torn line is a line of no entry. *)
LEMMA TornLine == Torn \in Lines /\ \A id \in Ids : Torn.id # id
BY JournalAssumption DEF Torn, Lines

(* The line put writes. *)
LEMMA LineFields ==
  ASSUME NEW id \in Ids, NEW n \in 0..Finished
  PROVE  Line(id, n) \in Lines /\ Line(id, n).id = id /\ Line(id, n).n = n
BY DEF Line, Lines

(* SetToSeq lists a finite set, each element once. *)
LEMMA ListOfSet ==
  ASSUME NEW S, IsFiniteSet(S)
  PROVE  LET f == SetToSeq(S)
         IN /\ f \in Seq(S)
            /\ \A x \in S : \E k \in 1..Len(f) : f[k] = x
<1> DEFINE c == Cardinality(S)
           f == SetToSeq(S)
<1>1. c \in Nat /\ ExistsBijection(1..c, S)
  BY FS_CardinalityType
<1> HIDE DEF c
<1>2. \E g \in [1..c -> S] : IsInjective(g)
  BY <1>1 DEF ExistsBijection, Bijection, Injection
<1>3. f \in [1..c -> S] /\ IsInjective(f)
  BY <1>2 DEF SetToSeq, c
<1> HIDE DEF f
<1>4. f \in Injection(1..c, S)
  BY <1>3 DEF Injection
<1>5. Cardinality(1..c) = c
  <2>1. 1 \in Int /\ c \in Int
    BY <1>1
  <2>2. Cardinality(1..c) = IF 1 > c THEN 0 ELSE c - 1 + 1
    BY <2>1, FS_Interval
  <2> QED
    BY <1>1, <2>2
<1>6. f \in Surjection(1..c, S)
  BY <1>4, <1>5, FS_Injection DEF c
<1>7. f \in Seq(S) /\ Len(f) = c
  BY <1>1, <1>3
<1>8. \A x \in S : \E k \in 1..Len(f) : f[k] = x
  BY <1>6, <1>7 DEF Surjection
<1> QED
  BY <1>7, <1>8 DEF f

(* compact: the new file holds the open entries as they were. *)
LEMMA RewrittenFacts ==
  ASSUME mem \in [Ids -> 0..Finished]
  PROVE  /\ Rewritten \in Seq(Lines)
         /\ \A id \in Ids : LoadedAt(Rewritten, Len(Rewritten), id) = IF id \in Kept THEN mem[id] ELSE 0
<1> DEFINE S == {Line(id, mem[id]) : id \in Kept}
           f == SetToSeq(S)
<1>1. IsFiniteSet(S)
  <2> DEFINE g == [id \in Kept |-> Line(id, mem[id])]
  <2>1. g \in Surjection(Kept, S)
    BY DEF Surjection
  <2>2. Kept \in SUBSET Ids
    BY DEF Kept
  <2>3. IsFiniteSet(Kept)
    BY <2>2, FS_Subset, JournalAssumption
  <2> QED
    BY <2>1, <2>3, FS_Surjection
<1>2. \A x \in S : x \in Lines /\ x.id \in Kept /\ x.n = mem[x.id]
  <2> SUFFICES ASSUME NEW id \in Kept
               PROVE  LET x == Line(id, mem[id]) IN x \in Lines /\ x.id \in Kept /\ x.n = mem[x.id]
    OBVIOUS
  <2>1. id \in Ids /\ mem[id] \in 0..Finished
    BY DEF Kept
  <2> QED
    BY <2>1, LineFields
<1>3. \A id \in Kept : \E x \in S : x.id = id
  BY LineFields DEF Kept
<1> HIDE DEF S
<1>4. f \in Seq(S) /\ \A x \in S : \E k \in 1..Len(f) : f[k] = x
  BY <1>1, ListOfSet
<1>5. Rewritten = f
  BY DEF Rewritten, S
<1> HIDE DEF f
<1>6. /\ f \in Seq(Lines) /\ Len(f) \in Nat
      /\ \A k \in 1..Len(f) : f[k] \in S
  BY <1>2, <1>4, ElementOfSeq, LenProperties, SeqMonotonic
<1>7. ASSUME NEW id \in Ids
      PROVE  LoadedAt(f, Len(f), id) = IF id \in Kept THEN mem[id] ELSE 0
  <2> DEFINE ns == {k \in 1..Len(f) : f[k].id = id}
  <2>1. CASE id \notin Kept
    <3>1. ns = {}
      BY <1>2, <1>6, <2>1
    <3> QED
      BY <2>1, <3>1 DEF LoadedAt
  <2>2. CASE id \in Kept
    <3>1. ns # {}
      BY <1>3, <1>4, <2>2
    <3>2. ns \in SUBSET (1..Len(f))
      OBVIOUS
    <3>3. Max(ns) \in ns
      BY <1>6, <3>1, <3>2, MaxIn
    <3>4. f[Max(ns)].id = id /\ f[Max(ns)] \in S
      BY <1>6, <3>3
    <3>5. f[Max(ns)].n = mem[id]
      BY <1>2, <3>4
    <3> QED
      BY <2>2, <3>1, <3>5 DEF LoadedAt
  <2> QED
    BY <2>1, <2>2
<1> QED
  BY <1>5, <1>6, <1>7

--------------------------------------------------------------------------------
(* The inductive invariant.                                                  *)

JTypes ==
  /\ file \in [Inodes -> Seq(Lines)]
  /\ synced \in [Inodes -> Nat]
  /\ \A i \in Inodes : synced[i] <= Len(file[i])
  /\ used \in Inodes
  /\ name \in 1..used
  /\ linked \in 1..used
  /\ fd \in 0..used
  /\ mem \in [Ids -> 0..Finished]
  /\ acked \in [Ids -> 0..Finished]
  /\ over \in SUBSET Ids
  /\ stray \in SUBSET Ids
  /\ faults \in Nat

(* What may be held of an entry, its last durable phase being p. *)
Enough(m, p, done) == m >= p \/ (m = 0 /\ done)

(* Every prefix of a file s that may be loaded again, d lines of it being    *)
(* durable, holds enough of the entries outside S.                           *)
Holds(s, d, S, a, o) ==
  \A id \in Ids \ S : \A k \in d..Len(s) : Enough(LoadedAt(s, k, id), a[id], id \in o)

FileHolds(i) == Holds(file[i], synced[i], stray, acked, over)

(* The file the journal's name leads to holds enough, now and after a power  *)
(* loss; a controller's memory does too, and it counts what is finished; and *)
(* a journal that writes to the file of its name has that name durably.      *)
JInv ==
  /\ JTypes
  /\ FileHolds(name)
  /\ FileHolds(linked)
  /\ fd # 0 => \A id \in Ids : mem[id] = Finished => id \in over
  /\ fd = name => linked = name
  /\ NothingForgotten

--------------------------------------------------------------------------------
(* What the steps do to a file that holds enough.                            *)

(* A file that holds something holds what is less. *)
LEMMA HoldsWeaker ==
  ASSUME NEW s, NEW d, NEW S, NEW a, NEW o, Holds(s, d, S, a, o),
         NEW S2, NEW a2, NEW o2, S \subseteq S2, o \subseteq o2,
         \A id \in Ids \ S2 : a2[id] = a[id]
  PROVE  Holds(s, d, S2, a2, o2)
BY DEF Holds, Enough

(* put: the line is durable with all before it. *)
LEMMA HoldsPut ==
  ASSUME NEW s \in Seq(Lines), NEW d \in 0..Len(s), NEW S, NEW a, NEW o, Holds(s, d, S, a, o),
         NEW x \in Lines, x.id \in Ids,
         NEW S2, NEW a2, NEW o2, S \subseteq S2, o \subseteq o2,
         \A id \in Ids \ S2 : IF id = x.id THEN a2[id] = x.n ELSE a2[id] = a[id]
  PROVE  Holds(Append(s, x), Len(s) + 1, S2, a2, o2)
<1> DEFINE t == Append(s, x)
<1> SUFFICES ASSUME NEW id \in Ids \ S2, NEW k \in (Len(s) + 1)..Len(t)
             PROVE  Enough(LoadedAt(t, k, id), a2[id], id \in o2)
  BY DEF Holds
<1>1. /\ Len(t) = Len(s) + 1
      /\ LoadedAt(t, Len(t), id) = IF x.id = id THEN x.n ELSE LoadedAt(s, Len(s), id)
  BY LoadedAppend
<1>2. k = Len(t) /\ Len(s) \in d..Len(s)
  BY <1>1, LenProperties
<1>3. CASE id = x.id
  <2>1. a2[id] = x.n /\ LoadedAt(t, k, id) = x.n /\ x.n \in Nat
    BY <1>1, <1>2, <1>3 DEF Lines, Torn
  <2> QED
    BY <2>1 DEF Enough
<1>4. CASE id # x.id
  <2>1. a2[id] = a[id] /\ LoadedAt(t, k, id) = LoadedAt(s, Len(s), id)
    BY <1>1, <1>2, <1>4
  <2>2. Enough(LoadedAt(s, Len(s), id), a[id], id \in o)
    BY <1>2 DEF Holds
  <2> QED
    BY <2>1, <2>2 DEF Enough
<1> QED
  BY <1>3, <1>4

(* put that fails: a line that is not durable, not older than what was held. *)
LEMMA HoldsTail ==
  ASSUME NEW s \in Seq(Lines), NEW d \in 0..Len(s), NEW S, NEW a, NEW o, Holds(s, d, S, a, o),
         NEW x \in Lines, \A id \in Ids \ S : x.id = id => x.n >= a[id]
  PROVE  Holds(Append(s, x), d, S, a, o)
<1> DEFINE t == Append(s, x)
<1> SUFFICES ASSUME NEW id \in Ids \ S, NEW k \in d..Len(t)
             PROVE  Enough(LoadedAt(t, k, id), a[id], id \in o)
  BY DEF Holds
<1>1. /\ Len(t) = Len(s) + 1 /\ Len(s) \in Nat
      /\ \A j \in 0..Len(s) : LoadedAt(t, j, id) = LoadedAt(s, j, id)
      /\ LoadedAt(t, Len(t), id) = IF x.id = id THEN x.n ELSE LoadedAt(s, Len(s), id)
  BY LoadedAppend, LenProperties
<1>2. \A j \in d..Len(s) : Enough(LoadedAt(s, j, id), a[id], id \in o)
  BY DEF Holds
<1>3. CASE k \in d..Len(s)
  BY <1>1, <1>2, <1>3
<1>4. CASE k = Len(t) /\ x.id = id
  BY <1>1, <1>4 DEF Enough
<1>5. CASE k = Len(t) /\ x.id # id
  <2>1. Len(s) \in d..Len(s)
    BY <1>1
  <2> QED
    BY <1>1, <1>2, <1>5, <2>1
<1>6. k \in d..Len(s) \/ k = Len(t)
  BY <1>1
<1> QED
  BY <1>3, <1>4, <1>5, <1>6

(* Power loss: a prefix with at least the durable lines, perhaps with a torn *)
(* line after it.                                                            *)
LEMMA HoldsCut ==
  ASSUME NEW s \in Seq(Lines), NEW d \in 0..Len(s), NEW S, NEW a, NEW o, Holds(s, d, S, a, o),
         NEW n \in d..Len(s)
  PROVE  LET t == SubSeq(s, 1, n)
         IN /\ t \in Seq(Lines) /\ Append(t, Torn) \in Seq(Lines)
            /\ Holds(t, Len(t), S, a, o)
            /\ Holds(Append(t, Torn), Len(Append(t, Torn)), S, a, o)
<1> DEFINE t == SubSeq(s, 1, n)
<1>1. /\ n \in 0..Len(s) /\ n \in Nat
      /\ t \in Seq(Lines) /\ Len(t) = n
      /\ \A id : LoadedAt(t, n, id) = LoadedAt(s, n, id)
  <2>1. n \in 0..Len(s) /\ n \in Nat
    BY LenProperties
  <2> QED
    BY <2>1, LoadedPrefix
<1> HIDE DEF t
<1>2. \A id \in Ids \ S : Enough(LoadedAt(t, n, id), a[id], id \in o)
  BY <1>1 DEF Holds
<1>3. Holds(t, Len(t), S, a, o)
  <2> SUFFICES ASSUME NEW id \in Ids \ S, NEW k \in Len(t)..Len(t)
               PROVE  Enough(LoadedAt(t, k, id), a[id], id \in o)
    BY DEF Holds
  <2>1. k = n
    BY <1>1
  <2> QED
    BY <1>2, <2>1
<1>4. Append(t, Torn) \in Seq(Lines) /\ Len(Append(t, Torn)) = n + 1
  BY <1>1, TornLine, AppendProperties
<1>5. Holds(Append(t, Torn), Len(Append(t, Torn)), S, a, o)
  <2> DEFINE u == Append(t, Torn)
  <2> SUFFICES ASSUME NEW id \in Ids \ S, NEW k \in Len(u)..Len(u)
               PROVE  Enough(LoadedAt(u, k, id), a[id], id \in o)
    BY DEF Holds
  <2>1. k = Len(u)
    BY <1>1, <1>4
  <2>2. LoadedAt(u, Len(u), id) = LoadedAt(t, n, id)
    BY <1>1, TornLine, LoadedAppend
  <2> QED
    BY <1>2, <2>1, <2>2
<1> QED
  BY <1>1, <1>3, <1>4, <1>5 DEF t

(* openJournal: cutting a torn line off loses nothing. *)
LEMMA HoldsWhole ==
  ASSUME NEW s \in Seq(Lines), NEW d \in 0..Len(s), NEW S, NEW a, NEW o, Holds(s, d, S, a, o)
  PROVE  LET t == Whole(s)
         IN /\ t \in Seq(Lines) /\ CutAt(t, d) \in 0..Len(t)
            /\ Holds(t, CutAt(t, d), S, a, o)
            /\ \A id \in Ids : Loaded(t, id) \in 0..Finished
            /\ \A id \in Ids \ S : Enough(Loaded(t, id), a[id], id \in o)
<1> DEFINE t == Whole(s)
           c == CutAt(t, d)
           l == Len(s)
<1>0. l \in Nat
  BY LenProperties
<1>1. /\ t \in Seq(Lines) /\ c \in 0..Len(t)
      /\ \A id \in Ids \ S : \A k \in c..Len(t) : Enough(LoadedAt(t, k, id), a[id], id \in o)
  <2>1. CASE s # <<>> /\ s[Len(s)] = Torn
    <3>1. l - 1 \in 0..l /\ t = SubSeq(s, 1, l - 1)
      BY <1>0, <2>1, EmptySeq, LenProperties DEF Whole
    <3>2. /\ t \in Seq(Lines) /\ Len(t) = l - 1
          /\ \A id : \A j \in 0..(l - 1) : LoadedAt(t, j, id) = LoadedAt(s, j, id)
      BY <3>1, LoadedPrefix
    <3> HIDE DEF t
    <3>3. c \in 0..Len(t) /\ (c = d \/ (d = l /\ c = l - 1))
      BY <1>0, <3>1, <3>2 DEF CutAt
    <3>4. ASSUME NEW id \in Ids \ S
          PROVE  LoadedAt(s, l, id) = LoadedAt(s, l - 1, id)
      <4>1. l \in 1..Len(s) /\ s[l].id # id
        BY <1>0, <2>1, <3>1, TornLine
      <4> QED
        BY <4>1, LoadedNext
    <3>5. ASSUME NEW id \in Ids \ S, NEW k \in c..Len(t)
          PROVE  Enough(LoadedAt(t, k, id), a[id], id \in o)
      <4>1. k \in 0..(l - 1) /\ LoadedAt(t, k, id) = LoadedAt(s, k, id)
        BY <1>0, <3>2, <3>3
      <4>2. CASE c = d
        <5>1. k \in d..Len(s)
          BY <1>0, <3>2, <3>3, <4>2
        <5> QED
          BY <4>1, <5>1 DEF Holds
      <4>3. CASE d = l /\ c = l - 1
        <5>1. k = l - 1 /\ l \in d..Len(s)
          BY <1>0, <3>2, <3>3, <4>3
        <5>2. Enough(LoadedAt(s, l, id), a[id], id \in o)
          BY <5>1 DEF Holds
        <5> QED
          BY <3>4, <4>1, <5>1, <5>2
      <4> QED
        BY <3>3, <4>2, <4>3
    <3> QED
      BY <3>2, <3>3, <3>5
  <2>2. CASE ~(s # <<>> /\ s[Len(s)] = Torn)
    <3>1. t = s
      BY <2>2 DEF Whole
    <3>2. c = d
      BY <1>0, <3>1 DEF CutAt
    <3> QED
      BY <1>0, <3>1, <3>2 DEF Holds
  <2> QED
    BY <2>1, <2>2
<1> HIDE DEF t, c
<1>2. Len(t) \in 0..Len(t) /\ Len(t) \in c..Len(t)
  BY <1>1, LenProperties
<1>3. \A id \in Ids : Loaded(t, id) = LoadedAt(t, Len(t), id)
  BY <1>1, LoadedAll
<1>4. \A id \in Ids : Loaded(t, id) \in 0..Finished
  BY <1>1, <1>2, <1>3, LoadedType
<1>5. \A id \in Ids \ S : Enough(Loaded(t, id), a[id], id \in o)
  BY <1>1, <1>2, <1>3
<1>6. Holds(t, c, S, a, o)
  BY <1>1 DEF Holds
<1> QED
  BY <1>1, <1>4, <1>5, <1>6 DEF t, c

--------------------------------------------------------------------------------
(* The invariant is inductive.                                               *)

(* The types of a single file. *)
LEMMA JInvFiles ==
  ASSUME JTypes
  PROVE  \A i \in Inodes : /\ file[i] \in Seq(Lines) /\ Len(file[i]) \in Nat
                           /\ synced[i] \in 0..Len(file[i])
<1> TAKE i \in Inodes
<1>1. file[i] \in Seq(Lines) /\ synced[i] \in Nat /\ synced[i] <= Len(file[i])
  BY DEF JTypes
<1> QED
  BY <1>1, LenProperties

(* A fresh inode is none of those in use. *)
LEMMA JInvInodes ==
  ASSUME JTypes
  PROVE  /\ used \in Nat /\ used \in 1..MaxInodes /\ name \in Inodes /\ linked \in Inodes
         /\ fd # 0 => fd \in Inodes
         /\ used < MaxInodes => /\ used + 1 \in Inodes /\ used + 1 \in 1..(used + 1)
                                /\ name # used + 1 /\ linked # used + 1 /\ fd # used + 1
                                /\ name \in 1..(used + 1) /\ linked \in 1..(used + 1)
                                /\ fd \in 0..(used + 1)
BY JournalAssumption DEF JTypes, Inodes

(* The invariant holds initially. *)
LEMMA InitJ == JInit => JInv
<1> SUFFICES ASSUME JInit PROVE JInv
  OBVIOUS
<1>1. <<>> \in Seq(Lines) /\ Len(<<>>) = 0
  BY EmptySeq
<1>2. JTypes
  <2>1. 1 \in Inodes /\ 0 \in 0..Finished
    BY JournalAssumption DEF Inodes
  <2> QED
    BY <1>1, <2>1 DEF JInit, JTypes
<1>3. FileHolds(1)
  <2>1. file[1] = <<>> /\ synced[1] = 0
    BY JournalAssumption DEF JInit, Inodes
  <2>2. \A id \in Ids \ stray : \A k \in 0..0 : LoadedAt(<<>>, k, id) = 0 /\ acked[id] = 0
    BY LoadedNone DEF JInit
  <2> QED
    BY <1>1, <2>1, <2>2 DEF FileHolds, Holds, Enough
<1>4. NothingForgotten /\ \A id \in Ids : mem[id] # Finished
  BY JournalAssumption DEF JInit, NothingForgotten, Remembered
<1> QED
  BY <1>2, <1>3, <1>4 DEF JInit, JInv

(* put that returns: the line is synced in the named file. *)
LEMMA PutJ ==
  ASSUME JInv, NEW id \in Ids, NEW n \in 1..Finished, Put(id, n)
  PROVE  JInv'
<1>1. JTypes /\ fd # 0 /\ fd \in Inodes /\ id \in Ids /\ n \in 0..Finished /\ n \in Nat
  BY JInvInodes DEF JInv, Put, Puttable
<1> DEFINE s == file[fd]
           x == Line(id, n)
<1>2. s \in Seq(Lines) /\ synced[fd] \in 0..Len(s) /\ Len(s) \in Nat
  BY <1>1, JInvFiles
<1>3. x \in Lines /\ x.id = id /\ x.n = n
  BY <1>1, LineFields
<1>4. /\ Append(s, x) \in Seq(Lines) /\ Len(Append(s, x)) = Len(s) + 1
  BY <1>2, <1>3, AppendProperties
<1>5. /\ file' = [file EXCEPT ![fd] = Append(s, x)]
      /\ synced' = [synced EXCEPT ![fd] = Len(s) + 1]
      /\ mem' = [mem EXCEPT ![id] = n]
      /\ acked' = [acked EXCEPT ![id] = n]
      /\ over' = IF n = Finished THEN over \cup {id} ELSE over
      /\ stray' = IF fd # name THEN stray \cup {id} ELSE stray
      /\ UNCHANGED <<used, name, linked, fd, faults>>
  BY DEF Put, SyncedAfter
<1> HIDE DEF x
<1>6. JTypes'
  <2>1. file' \in [Inodes -> Seq(Lines)] /\ synced' \in [Inodes -> Nat]
    BY <1>1, <1>2, <1>4, <1>5 DEF JTypes
  <2>2. ASSUME NEW i \in Inodes
        PROVE  synced'[i] <= Len(file'[i])
    <3>1. CASE i = fd
      <4>1. synced'[i] = Len(s) + 1 /\ file'[i] = Append(s, x)
        BY <1>1, <1>5, <3>1 DEF JTypes
      <4> QED
        BY <1>2, <1>4, <4>1
    <3>2. CASE i # fd
      <4>1. synced'[i] = synced[i] /\ file'[i] = file[i]
        BY <1>1, <1>5, <3>2 DEF JTypes
      <4> QED
        BY <1>1, <4>1 DEF JTypes
    <3> QED
      BY <3>1, <3>2
  <2>3. /\ mem' \in [Ids -> 0..Finished] /\ acked' \in [Ids -> 0..Finished]
        /\ over' \in SUBSET Ids /\ stray' \in SUBSET Ids
    BY <1>1, <1>5 DEF JTypes
  <2> QED
    BY <1>1, <1>5, <2>1, <2>2, <2>3 DEF JTypes
<1>7. /\ stray \subseteq stray' /\ over \subseteq over'
      /\ \A k \in Ids : k # id => acked'[k] = acked[k] /\ mem'[k] = mem[k]
      /\ acked'[id] = n /\ mem'[id] = n
  BY <1>1, <1>5 DEF JTypes
<1>8. ASSUME NEW i \in {name, linked}
      PROVE  Holds(file'[i], synced'[i], stray', acked', over')
  <2>0. i \in Inodes /\ Holds(file[i], synced[i], stray, acked, over)
    BY <1>1, JInvInodes DEF JInv, FileHolds
  <2>1. CASE i = fd
    <3>1. file'[i] = Append(s, x) /\ synced'[i] = Len(s) + 1
      BY <1>1, <1>5, <2>1 DEF JTypes
    <3>2. Holds(s, synced[fd], stray, acked, over)
      BY <2>0, <2>1
    <3>3. \A k \in Ids \ stray' : IF k = x.id THEN acked'[k] = x.n ELSE acked'[k] = acked[k]
      BY <1>3, <1>7
    <3>4. x.id \in Ids /\ stray \subseteq stray' /\ over \subseteq over'
      BY <1>1, <1>3, <1>7
    <3>5. Holds(Append(s, x), Len(s) + 1, stray', acked', over')
      <4>1. x \in Lines /\ s \in Seq(Lines) /\ synced[fd] \in 0..Len(s)
        BY <1>2, <1>3
      <4> HIDE DEF s
      <4> QED
        BY <3>2, <3>3, <3>4, <4>1, HoldsPut
    <3> QED
      BY <3>1, <3>5
  <2>2. CASE i # fd
    <3>1. fd # name
      BY <2>2 DEF JInv
    <3>2. id \in stray'
      BY <1>5, <3>1
    <3>3. file'[i] = file[i] /\ synced'[i] = synced[i]
      BY <1>1, <1>5, <2>0, <2>2 DEF JTypes
    <3>4. \A k \in Ids \ stray' : acked'[k] = acked[k]
      BY <1>7, <3>2
    <3> QED
      BY <1>7, <2>0, <3>3, <3>4, HoldsWeaker
  <2> QED
    BY <2>1, <2>2
<1>9. FileHolds(name)' /\ FileHolds(linked)'
  BY <1>5, <1>8 DEF FileHolds
<1>10. \A k \in Ids : mem'[k] = Finished => k \in over'
  BY <1>1, <1>5, <1>7 DEF JInv
<1>11. \A k \in Ids \ stray' : mem'[k] >= acked'[k] \/ (mem'[k] = 0 /\ k \in over')
  BY <1>1, <1>7 DEF JInv, NothingForgotten, Remembered
<1> QED
  BY <1>1, <1>5, <1>6, <1>9, <1>10, <1>11 DEF JInv, NothingForgotten, Remembered

(* put that fails: some of the line may be written. *)
LEMMA PutFailsJ ==
  ASSUME JInv, NEW id \in Ids, NEW n \in 1..Finished, PutFails(id, n)
  PROVE  JInv'
<1>1. JTypes /\ fd # 0 /\ fd \in Inodes /\ n \in 0..Finished /\ n \in Nat
  BY JInvInodes DEF JInv, PutFails, Puttable
<1>2. PICK x \in {Line(id, n), Torn} : file' = [file EXCEPT ![fd] = Append(file[fd], x)]
  BY DEF PutFails
<1> DEFINE s == file[fd]
<1>3. s \in Seq(Lines) /\ synced[fd] \in 0..Len(s) /\ Len(s) \in Nat
  BY <1>1, JInvFiles
<1>4. x \in Lines /\ \A k \in Ids : x.id = k => k = id /\ x.n = n
  BY <1>1, <1>2, LineFields, TornLine
<1>5. Append(s, x) \in Seq(Lines) /\ Len(Append(s, x)) = Len(s) + 1
  BY <1>3, <1>4, AppendProperties
<1>6. /\ UNCHANGED <<synced, used, name, linked, fd, mem, acked, over, stray>>
      /\ faults' \in Nat
  BY <1>1 DEF PutFails, Fault, JTypes
<1>7. JTypes'
  <2>1. file' \in [Inodes -> Seq(Lines)]
    BY <1>1, <1>2, <1>5 DEF JTypes
  <2>2. ASSUME NEW i \in Inodes
        PROVE  synced'[i] <= Len(file'[i])
    <3>1. CASE i = fd
      <4>1. synced'[i] = synced[fd] /\ file'[i] = Append(s, x)
        BY <1>1, <1>2, <1>6, <3>1 DEF JTypes
      <4> QED
        BY <1>3, <1>5, <4>1
    <3>2. CASE i # fd
      <4>1. synced'[i] = synced[i] /\ file'[i] = file[i]
        BY <1>1, <1>2, <1>6, <3>2 DEF JTypes
      <4> QED
        BY <1>1, <4>1 DEF JTypes
    <3> QED
      BY <3>1, <3>2
  <2> QED
    BY <1>1, <1>6, <2>1, <2>2 DEF JTypes
<1>8. \A k \in Ids \ stray : x.id = k => x.n >= acked[k]
  <2> SUFFICES ASSUME id \notin stray PROVE n >= acked[id]
    BY <1>4
  <2>1. Remembered(id) /\ n \in (mem[id] + 1)..Finished /\ (mem[id] = 0 => acked[id] = 0)
    BY <1>1 DEF JInv, NothingForgotten, PutFails, Puttable
  <2>2. mem[id] \in Nat /\ acked[id] \in Nat
    BY <1>1 DEF JTypes
  <2> QED
    BY <1>1, <2>1, <2>2 DEF Remembered
<1>9. ASSUME NEW i \in {name, linked}
      PROVE  Holds(file'[i], synced[i], stray, acked, over)
  <2>0. i \in Inodes /\ Holds(file[i], synced[i], stray, acked, over)
    BY <1>1, JInvInodes DEF JInv, FileHolds
  <2>1. CASE i = fd
    <3>1. file'[i] = Append(s, x) /\ Holds(s, synced[i], stray, acked, over)
      BY <1>1, <1>2, <2>0, <2>1 DEF JTypes
    <3> QED
      BY <1>3, <1>4, <1>8, <2>1, <3>1, HoldsTail
  <2>2. CASE i # fd
    <3>1. file'[i] = file[i]
      BY <1>1, <1>2, <2>0, <2>2 DEF JTypes
    <3> QED
      BY <2>0, <3>1
  <2> QED
    BY <2>1, <2>2
<1>10. FileHolds(name)' /\ FileHolds(linked)'
  BY <1>6, <1>9 DEF FileHolds
<1> QED
  BY <1>6, <1>7, <1>10 DEF JInv, NothingForgotten, Remembered

(* compact up to its rename: the new file holds enough, and the files the    *)
(* journal had are as they were.                                             *)
LEMMA RenamedFacts ==
  ASSUME JInv, Renamed
  PROVE  /\ used < MaxInodes /\ fd # 0 /\ used' = used + 1 /\ name' = used + 1
         /\ file' \in [Inodes -> Seq(Lines)] /\ synced' \in [Inodes -> Nat]
         /\ \A i \in Inodes : synced'[i] <= Len(file'[i])
         /\ \A i \in Inodes : i # used + 1 => file'[i] = file[i] /\ synced'[i] = synced[i]
         /\ Holds(file'[used + 1], synced'[used + 1], stray, acked, over)
<1>1. /\ JTypes /\ fd # 0 /\ used < MaxInodes /\ used' = used + 1 /\ name' = used + 1
      /\ file' = [file EXCEPT ![used + 1] = Rewritten]
      /\ synced' = [synced EXCEPT ![used + 1] = Len(Rewritten)]
  BY DEF JInv, Renamed
<1>2. used + 1 \in Inodes
  BY <1>1, JInvInodes
<1>3. /\ Rewritten \in Seq(Lines) /\ Len(Rewritten) \in Nat
      /\ \A id \in Ids : LoadedAt(Rewritten, Len(Rewritten), id) = IF id \in Kept THEN mem[id] ELSE 0
  BY <1>1, RewrittenFacts, LenProperties DEF JTypes
<1>4. /\ file' \in [Inodes -> Seq(Lines)] /\ synced' \in [Inodes -> Nat]
      /\ file'[used + 1] = Rewritten /\ synced'[used + 1] = Len(Rewritten)
      /\ \A i \in Inodes : i # used + 1 => file'[i] = file[i] /\ synced'[i] = synced[i]
  BY <1>1, <1>2, <1>3 DEF JTypes
<1>5. \A i \in Inodes : synced'[i] <= Len(file'[i])
  BY <1>1, <1>3, <1>4 DEF JTypes
<1>6. Holds(Rewritten, Len(Rewritten), stray, acked, over)
  <2> SUFFICES ASSUME NEW id \in Ids \ stray, NEW k \in Len(Rewritten)..Len(Rewritten)
               PROVE  Enough(LoadedAt(Rewritten, k, id), acked[id], id \in over)
    BY DEF Holds
  <2>1. k = Len(Rewritten)
    BY <1>3
  <2>2. LoadedAt(Rewritten, k, id) = IF id \in Kept THEN mem[id] ELSE 0
    BY <1>3, <2>1
  <2>3. Remembered(id) /\ (mem[id] = Finished => id \in over)
    BY <1>1 DEF JInv, NothingForgotten
  <2>4. id \notin Kept => mem[id] = 0 \/ mem[id] = Finished
    BY DEF Kept
  <2>5. mem[id] \in Nat /\ acked[id] \in Nat
    BY <1>1 DEF JTypes
  <2> QED
    BY <2>2, <2>3, <2>4, <2>5 DEF Remembered, Enough
<1> QED
  BY <1>1, <1>4, <1>5, <1>6

(* compact that returns: the new file holds the last line of each open entry. *)
LEMMA CompactJ ==
  ASSUME JInv, Compact
  PROVE  JInv'
<1>1. /\ used < MaxInodes /\ fd # 0 /\ used' = used + 1 /\ name' = used + 1
      /\ file' \in [Inodes -> Seq(Lines)] /\ synced' \in [Inodes -> Nat]
      /\ \A i \in Inodes : synced'[i] <= Len(file'[i])
      /\ Holds(file'[used + 1], synced'[used + 1], stray, acked, over)
  BY RenamedFacts DEF Compact
<1>2. /\ linked' = used + 1 /\ fd' = used + 1
      /\ mem' = [id \in Ids |-> IF id \in Kept THEN mem[id] ELSE 0]
      /\ UNCHANGED <<acked, over, stray, faults>>
  BY <1>1 DEF Compact
<1>3. JTypes /\ used + 1 \in Inodes /\ used + 1 \in 1..(used + 1) /\ used + 1 \in 0..(used + 1)
  BY <1>1, JInvInodes DEF JInv
<1>4. ASSUME NEW id \in Ids
      PROVE  /\ mem'[id] \in 0..Finished /\ mem'[id] # Finished
             /\ id \notin stray => mem'[id] >= acked[id] \/ (mem'[id] = 0 /\ id \in over)
  <2>1. mem'[id] = IF id \in Kept THEN mem[id] ELSE 0
    BY <1>2
  <2>2. /\ id \notin stray => Remembered(id)
        /\ mem[id] = Finished => id \in over
    BY <1>1 DEF JInv, NothingForgotten
  <2>3. id \in Kept <=> ~(mem[id] = 0 \/ mem[id] = Finished)
    BY DEF Kept
  <2>4. mem[id] \in 0..Finished /\ acked[id] \in Nat
    BY <1>3 DEF JTypes
  <2> QED
    BY <2>1, <2>2, <2>3, <2>4, JournalAssumption DEF Remembered
<1>5. mem' \in [Ids -> 0..Finished]
  BY <1>2, <1>4
<1>6. JTypes'
  BY <1>1, <1>2, <1>3, <1>5 DEF JTypes
<1>7. FileHolds(name)' /\ FileHolds(linked)'
  BY <1>1, <1>2 DEF FileHolds
<1> QED
  BY <1>1, <1>2, <1>4, <1>6, <1>7 DEF JInv, NothingForgotten, Remembered

(* compact that fails before or after its rename. *)
LEMMA CompactFailsJ ==
  ASSUME JInv, CompactFails
  PROVE  JInv'
<1>1. /\ used < MaxInodes /\ fd # 0 /\ used' = used + 1 /\ name' = used + 1
      /\ file' \in [Inodes -> Seq(Lines)] /\ synced' \in [Inodes -> Nat]
      /\ \A i \in Inodes : synced'[i] <= Len(file'[i])
      /\ \A i \in Inodes : i # used + 1 => file'[i] = file[i] /\ synced'[i] = synced[i]
      /\ Holds(file'[used + 1], synced'[used + 1], stray, acked, over)
  BY RenamedFacts DEF CompactFails
<1>2. /\ linked' \in {linked, used + 1}
      /\ UNCHANGED <<fd, mem, acked, over, stray>>
      /\ faults' \in Nat
  BY <1>1 DEF CompactFails, Fault, JInv, JTypes
<1>3. /\ JTypes /\ used + 1 \in Inodes /\ used + 1 \in 1..(used + 1)
      /\ linked \in Inodes /\ linked # used + 1 /\ fd # used + 1
      /\ linked \in 1..(used + 1) /\ fd \in 0..(used + 1)
  BY <1>1, JInvInodes DEF JInv
<1>4. JTypes'
  <2>1. used' \in Inodes /\ name' \in 1..used' /\ linked' \in 1..used' /\ fd' \in 0..used'
    BY <1>1, <1>2, <1>3
  <2> QED
    BY <1>1, <1>2, <1>3, <2>1 DEF JTypes
<1>5. Holds(file'[linked], synced'[linked], stray, acked, over)
  BY <1>1, <1>3 DEF JInv, FileHolds
<1>6. FileHolds(name)' /\ FileHolds(linked)'
  BY <1>1, <1>2, <1>5 DEF FileHolds
<1> QED
  BY <1>1, <1>2, <1>3, <1>4, <1>6 DEF JInv, NothingForgotten, Remembered

(* The process ends; what was written stays. *)
LEMMA KillJ ==
  ASSUME JInv, Kill
  PROVE  JInv'
<1>1. /\ fd' = 0 /\ mem' = [id \in Ids |-> 0]
      /\ UNCHANGED <<file, synced, used, name, linked, acked, over, stray, faults>>
  BY DEF Kill
<1>2. JTypes' /\ fd' # name'
  BY <1>1, JournalAssumption DEF JInv, JTypes, Inodes
<1> QED
  BY <1>1, <1>2 DEF JInv, FileHolds, NothingForgotten

(* Power is lost: any tail that was not synced, and the last rename, may be too. *)
LEMMA PowerLossJ ==
  ASSUME JInv, PowerLoss
  PROVE  JInv'
<1>1. PICK i \in {name, linked} : \E s \in Survivors(i) :
        /\ name' = i
        /\ linked' = i
        /\ file' = [file EXCEPT ![i] = s]
        /\ synced' = [synced EXCEPT ![i] = Len(s)]
  BY DEF PowerLoss
<1>2. PICK s \in Survivors(i) :
        /\ name' = i
        /\ linked' = i
        /\ file' = [file EXCEPT ![i] = s]
        /\ synced' = [synced EXCEPT ![i] = Len(s)]
  BY <1>1
<1>3. /\ fd' = 0 /\ mem' = [id \in Ids |-> 0]
      /\ UNCHANGED <<used, acked, over, stray, faults>>
  BY DEF PowerLoss
<1>4. /\ JTypes /\ i \in Inodes /\ i \in 1..used
      /\ file[i] \in Seq(Lines) /\ synced[i] \in 0..Len(file[i])
      /\ Holds(file[i], synced[i], stray, acked, over)
  BY JInvInodes, JInvFiles DEF JInv, JTypes, FileHolds
<1>5. PICK n \in synced[i]..Len(file[i]) :
        s \in {SubSeq(file[i], 1, n), Append(SubSeq(file[i], 1, n), Torn)}
  BY DEF Survivors
<1>6. s \in Seq(Lines) /\ Holds(s, Len(s), stray, acked, over)
  BY <1>4, <1>5, HoldsCut
<1>7. Len(s) \in Nat
  BY <1>6, LenProperties
<1>8. /\ file' \in [Inodes -> Seq(Lines)] /\ synced' \in [Inodes -> Nat]
      /\ file'[i] = s /\ synced'[i] = Len(s)
      /\ \A j \in Inodes : j # i => file'[j] = file[j] /\ synced'[j] = synced[j]
  BY <1>2, <1>4, <1>6, <1>7 DEF JTypes
<1>9. \A j \in Inodes : synced'[j] <= Len(file'[j])
  BY <1>4, <1>7, <1>8 DEF JTypes
<1>10. JTypes' /\ fd' # name'
  BY <1>2, <1>3, <1>4, <1>8, <1>9, JournalAssumption DEF JTypes, Inodes
<1>11. FileHolds(name)' /\ FileHolds(linked)'
  BY <1>2, <1>3, <1>6, <1>8 DEF FileHolds
<1> QED
  BY <1>3, <1>10, <1>11 DEF JInv, NothingForgotten

(* The next controller loads what it finds. *)
LEMMA LoadJ ==
  ASSUME JInv, Load
  PROVE  JInv'
<1> DEFINE s == file[name]
           t == Whole(s)
           c == CutAt(t, synced[name])
<1>1. /\ file' = [file EXCEPT ![name] = t]
      /\ synced' = [synced EXCEPT ![name] = c]
      /\ fd' = name /\ linked' = name
      /\ mem' = [id \in Ids |-> Loaded(t, id)]
      /\ over' = over \cup {id \in Ids : mem'[id] = Finished}
      /\ UNCHANGED <<used, name, acked, stray, faults>>
  BY DEF Load
<1>2. /\ JTypes /\ name \in Inodes /\ name \in 1..used /\ name \in 0..used
      /\ s \in Seq(Lines) /\ synced[name] \in 0..Len(s)
      /\ Holds(s, synced[name], stray, acked, over)
  BY JInvInodes, JInvFiles, SMTT(30) DEF JInv, JTypes, FileHolds
<1>3. /\ t \in Seq(Lines) /\ c \in 0..Len(t)
      /\ Holds(t, c, stray, acked, over)
      /\ \A id \in Ids : Loaded(t, id) \in 0..Finished
      /\ \A id \in Ids \ stray : Enough(Loaded(t, id), acked[id], id \in over)
  BY <1>2, HoldsWhole
<1>4. Len(t) \in Nat /\ c \in Nat /\ c <= Len(t)
  BY <1>3, LenProperties
<1> HIDE DEF t, c
<1>5. /\ file' \in [Inodes -> Seq(Lines)] /\ synced' \in [Inodes -> Nat]
      /\ file'[name] = t /\ synced'[name] = c
      /\ \A j \in Inodes : j # name => file'[j] = file[j] /\ synced'[j] = synced[j]
  BY <1>1, <1>2, <1>3, <1>4 DEF JTypes
<1>6. \A j \in Inodes : synced'[j] <= Len(file'[j])
  BY <1>2, <1>4, <1>5 DEF JTypes
<1>7. mem' \in [Ids -> 0..Finished] /\ over' \in SUBSET Ids
  BY <1>1, <1>2, <1>3 DEF JTypes
<1>8. JTypes'
  BY <1>1, <1>2, <1>5, <1>6, <1>7 DEF JTypes
<1>9. Holds(t, c, stray', acked', over')
  <2>1. stray \subseteq stray' /\ over \subseteq over' /\ \A id \in Ids \ stray' : acked'[id] = acked[id]
    BY <1>1
  <2> QED
    BY <1>3, <2>1, HoldsWeaker
<1>10. FileHolds(name)' /\ FileHolds(linked)'
  BY <1>1, <1>5, <1>9 DEF FileHolds
<1>11. \A id \in Ids \ stray' : mem'[id] >= acked'[id] \/ (mem'[id] = 0 /\ id \in over')
  BY <1>1, <1>3 DEF Enough
<1>12. \A id \in Ids : mem'[id] = Finished => id \in over'
  BY <1>1
<1> QED
  BY <1>1, <1>8, <1>10, <1>11, <1>12 DEF JInv, NothingForgotten, Remembered

(* Every step keeps the invariant. *)
LEMMA NextJ == JInv /\ [JNext]_jvars => JInv'
<1> SUFFICES ASSUME JInv, [JNext]_jvars PROVE JInv'
  OBVIOUS
<1>1. CASE UNCHANGED jvars
  <2>1. JTypes'
    BY <1>1 DEF jvars, JInv, JTypes
  <2> QED
    BY <1>1, <2>1 DEF jvars, JInv, FileHolds, NothingForgotten, Remembered
<1>2. CASE \E id \in Ids, n \in 1..Finished : Put(id, n) \/ PutFails(id, n)
  BY <1>2, PutJ, PutFailsJ
<1>3. CASE Compact
  BY <1>3, CompactJ
<1>4. CASE CompactFails
  BY <1>4, CompactFailsJ
<1>5. CASE Kill
  BY <1>5, KillJ
<1>6. CASE PowerLoss
  BY <1>6, PowerLossJ
<1>7. CASE Load
  BY <1>7, LoadJ
<1>8. CASE LoadRefuses
  BY <1>1, <1>8 DEF LoadRefuses
<1> QED
  BY <1>1, <1>2, <1>3, <1>4, <1>5, <1>6, <1>7, <1>8 DEF JNext

(* put, compact, openJournal: whatever processes die, power fails, writes    *)
(* stop early and compactions fail half way, a running controller holds of   *)
(* every entry at least the last phase put reported durable, and no entry    *)
(* reported finished is open again, outside the lines that went to a file a  *)
(* failed compaction had unlinked; for any entries, phases, compactions and  *)
(* faults.                                                                   *)
THEOREM PhasesSurvive == JSpec => []NothingForgotten
<1>1. JInv => NothingForgotten
  BY DEF JInv
<1> QED
  BY InitJ, NextJ, <1>1, PTL DEF JSpec

(* The lines of every file, the counters and the directory keep their types, *)
(* and no more lines are durable than written.                               *)
THEOREM JournalTypes == JSpec => []JTypeOK
<1>1. JInv => JTypeOK
  <2> SUFFICES ASSUME JInv PROVE JTypeOK
    OBVIOUS
  <2>1. ASSUME NEW i \in Inodes
        PROVE  /\ \A k \in 1..Len(file[i]) : file[i][k] = Torn \/ file[i][k].id \in Ids
               /\ synced[i] \in 0..Len(file[i])
    <3>1. file[i] \in Seq(Lines) /\ synced[i] \in 0..Len(file[i])
      BY JInvFiles DEF JInv
    <3>2. \A k \in 1..Len(file[i]) : file[i][k] \in Lines
      BY <3>1, ElementOfSeq
    <3> QED
      BY <3>1, <3>2 DEF Lines
  <2> QED
    BY <2>1 DEF JInv, JTypes, JTypeOK
<1> QED
  BY InitJ, NextJ, <1>1, PTL DEF JSpec

================================================================================
