---------------------------- MODULE IndexSync_proofs ----------------------------
(***************************************************************************)
(* Proofs about the in-memory collections and the syncs of their indexes,  *)
(* for any documents, indexes, stores, syncs and writes.                   *)
(***************************************************************************)
EXTENDS IndexSyncInvariants, FiniteSetTheorems, SequenceTheorems, TLAPS

-----------------------------------------------------------------------------
(* The keys of one index *)

OneIdEach(documents) == \A d, e \in documents : d.id = e.id => d = e

\* a document with an id of its own enters
LEMMA KeysEnter ==
  ASSUME NEW index, IsIndex(index), NEW documents, Exact(index, documents), NEW document,
         \A d \in documents : d.id # document.id, AssertCanWrite(index, document)
  PROVE  LET next == WriteEntries(index, {}, {document})
         IN  IsIndex(next) /\ next.info = index.info /\ Exact(next, documents \cup {document})
<1> DEFINE next == WriteEntries(index, {}, {document})
           E(d) == ListEntries(index.info, d)
<1>1. CASE ~index.info.unique
  BY <1>1 DEF WriteEntries, Exact
<1>2. CASE index.info.unique
  <2>1. next = [index EXCEPT !.owners =
                  [e \in DOMAIN @ \cup E(document) |-> IF e \in E(document) THEN document.id ELSE @[e]]]
    <3>1. UNION {E(d) : d \in {document}} = E(document)
      OBVIOUS
    <3>2. (CHOOSE i \in {d.id : d \in {} \cup {document}} : TRUE) = document.id
      OBVIOUS
    <3> QED
      BY <1>2, <3>1, <3>2, Zenon DEF WriteEntries
  <2>2. /\ IsIndex(next) /\ next.info = index.info
        /\ next.owners = [e \in DOMAIN index.owners \cup E(document) |->
                            IF e \in E(document) THEN document.id ELSE index.owners[e]]
    BY <2>1 DEF IsIndex
  <2>3. ASSUME NEW d \in documents, NEW e \in E(d)
        PROVE  e \notin E(document)
    BY <1>2, <2>3 DEF Exact, AssertCanWrite
  <2>4. DOMAIN next.owners = UNION {E(d) : d \in documents \cup {document}}
    BY <1>2, <2>2 DEF Exact
  <2>5. ASSUME NEW d \in documents \cup {document}, NEW e \in E(d)
        PROVE  next.owners[e] = d.id
    BY <1>2, <2>2, <2>3 DEF Exact
  <2> DEFINE all == documents \cup {document}
  <2>6. /\ DOMAIN next.owners = UNION {E(d) : d \in all}
        /\ \A d \in all : \A e \in E(d) : next.owners[e] = d.id
    BY <2>4, <2>5
  <2> HIDE DEF next, all
  <2>7. next.info = index.info
    BY <2>2
  <2>8. Exact(next, all)
    BY <2>6, <2>7 DEF Exact
  <2> QED
    BY <2>2, <2>8 DEF next, all
<1> QED
  BY <1>1, <1>2

\* a document takes the place of one with its id
LEMMA KeysMove ==
  ASSUME NEW index, IsIndex(index), NEW documents, Exact(index, documents), OneIdEach(documents),
         NEW previous \in documents, NEW document, document.id = previous.id,
         AssertCanWrite(index, document)
  PROVE  LET next == WriteEntries(index, {previous}, {document})
         IN  /\ IsIndex(next) /\ next.info = index.info
             /\ Exact(next, (documents \ {previous}) \cup {document})
<1> DEFINE next == WriteEntries(index, {previous}, {document})
           E(d) == ListEntries(index.info, d)
           others == documents \ {previous}
<1>1. CASE ~index.info.unique
  BY <1>1 DEF WriteEntries, Exact
<1>2. CASE index.info.unique
  <2>1. next = [index EXCEPT !.owners =
                  [e \in (DOMAIN @ \ E(previous)) \cup E(document) |->
                      IF e \in E(document) THEN document.id ELSE @[e]]]
    <3>1. UNION {E(d) : d \in {document}} = E(document)
      OBVIOUS
    <3>2. (CHOOSE i \in {d.id : d \in {previous} \cup {document}} : TRUE) = document.id
      OBVIOUS
    <3>3. UNION {{e \in E(d) \cap DOMAIN index.owners : index.owners[e] = d.id} : d \in {previous}}
            = E(previous)
      BY <1>2 DEF Exact
    <3> QED
      BY <1>2, <3>1, <3>2, <3>3, Zenon DEF WriteEntries
  <2>2. /\ IsIndex(next) /\ next.info = index.info
        /\ next.owners = [e \in (DOMAIN index.owners \ E(previous)) \cup E(document) |->
                            IF e \in E(document) THEN document.id ELSE index.owners[e]]
    BY <2>1 DEF IsIndex
  <2>3. ASSUME NEW d \in others, NEW e \in E(d)
        PROVE  e \notin E(document) /\ e \notin E(previous)
    BY <1>2, <2>3 DEF Exact, AssertCanWrite, OneIdEach
  <2>4. DOMAIN next.owners = UNION {E(d) : d \in others \cup {document}}
    <3>1. DOMAIN index.owners = UNION {E(d) : d \in documents}
      BY <1>2 DEF Exact
    <3>2. ASSUME NEW e
          PROVE  e \in DOMAIN index.owners \ E(previous) <=> \E d \in others : e \in E(d)
      BY <2>3, <3>1
    <3> QED
      BY <2>2, <3>2
  <2>5. ASSUME NEW d \in others \cup {document}, NEW e \in E(d)
        PROVE  next.owners[e] = d.id
    BY <1>2, <2>2, <2>3 DEF Exact
  <2> DEFINE all == others \cup {document}
  <2>6. /\ DOMAIN next.owners = UNION {E(d) : d \in all}
        /\ \A d \in all : \A e \in E(d) : next.owners[e] = d.id
    BY <2>4, <2>5
  <2> HIDE DEF next, all
  <2>7. next.info = index.info
    BY <2>2
  <2>8. Exact(next, all)
    BY <2>6, <2>7 DEF Exact
  <2> QED
    BY <2>2, <2>8 DEF next, all
<1> QED
  BY <1>1, <1>2

\* a document leaves
LEMMA KeysLeave ==
  ASSUME NEW index, IsIndex(index), NEW documents, Exact(index, documents), OneIdEach(documents),
         NEW previous \in documents
  PROVE  LET next == WriteEntries(index, {previous}, {})
         IN  /\ IsIndex(next) /\ next.info = index.info
             /\ Exact(next, documents \ {previous})
<1> DEFINE next == WriteEntries(index, {previous}, {})
           E(d) == ListEntries(index.info, d)
           others == documents \ {previous}
<1>1. CASE ~index.info.unique
  BY <1>1 DEF WriteEntries, Exact
<1>2. CASE index.info.unique
  <2>1. next = [index EXCEPT !.owners = [e \in DOMAIN @ \ E(previous) |-> @[e]]]
    <3>1. UNION {E(d) : d \in {}} = {}
      OBVIOUS
    <3>2. UNION {{e \in E(d) \cap DOMAIN index.owners : index.owners[e] = d.id} : d \in {previous}}
            = E(previous)
      BY <1>2 DEF Exact
    <3> DEFINE owner == CHOOSE i \in {d.id : d \in {previous} \cup {}} : TRUE
    <3>3. [e \in (DOMAIN index.owners \ E(previous)) \cup {} |-> IF e \in {} THEN owner ELSE index.owners[e]]
            = [e \in DOMAIN index.owners \ E(previous) |-> index.owners[e]]
      OBVIOUS
    <3> QED
      BY <1>2, <3>1, <3>2, <3>3, Zenon DEF WriteEntries
  <2>2. /\ IsIndex(next) /\ next.info = index.info
        /\ next.owners = [e \in DOMAIN index.owners \ E(previous) |-> index.owners[e]]
    BY <2>1 DEF IsIndex
  <2>3. ASSUME NEW d \in others, NEW e \in E(d)
        PROVE  e \notin E(previous)
    BY <1>2, <2>3 DEF Exact, OneIdEach
  <2>4. DOMAIN next.owners = UNION {E(d) : d \in others}
    <3>1. DOMAIN index.owners = UNION {E(d) : d \in documents}
      BY <1>2 DEF Exact
    <3>2. ASSUME NEW e
          PROVE  e \in DOMAIN index.owners \ E(previous) <=> \E d \in others : e \in E(d)
      BY <2>3, <3>1
    <3> QED
      BY <2>2, <3>2
  <2>5. ASSUME NEW d \in others, NEW e \in E(d)
        PROVE  next.owners[e] = d.id
    BY <1>2, <2>2, <2>3 DEF Exact
  <2> HIDE DEF next
  <2>6. Exact(next, others)
    BY <2>2, <2>4, <2>5 DEF Exact
  <2> QED
    BY <2>2, <2>6 DEF next
<1> QED
  BY <1>1, <1>2

-----------------------------------------------------------------------------
(* Sequences, and what stands at some of their positions *)

\* a set of numbers with 0 and the successor of each of its numbers has them all
LEMMA CountsUp ==
  ASSUME NEW K, 0 \in K, \A n \in Nat : n \in K => n + 1 \in K
  PROVE  Nat \subseteq K
<1> SUFFICES ASSUME Nat \ K # {} PROVE FALSE
  OBVIOUS
<1> DEFINE N == Nat \ K
           Below(j) == {i \in Nat : i < j}
           T == {Below(j) : j \in N}
<1>1. \A j \in Nat : IsFiniteSet(Below(j))
  <2> SUFFICES ASSUME NEW j \in Nat PROVE IsFiniteSet(Below(j))
    OBVIOUS
  <2>1. Below(j) \in SUBSET (0 .. j)
    OBVIOUS
  <2>2. IsFiniteSet(0 .. j)
    BY FS_Interval
  <2> HIDE DEF Below
  <2> QED
    BY <2>1, <2>2, FS_Subset
<1>2. T # {} /\ T \subseteq FiniteSubsetsOf(Nat)
  BY <1>1 DEF FiniteSubsetsOf
<1>3. PICK U \in T : \A V \in T : ~(<<V, U>> \in StrictSubsetOrdering(Nat))
  <2>1. IsWellFoundedOn(StrictSubsetOrdering(Nat), FiniteSubsetsOf(Nat))
    BY FS_StrictSubsetOrderingWellFounded
  <2> HIDE DEF T
  <2> QED
    BY <1>2, <2>1, WFMin
<1>4. PICK m \in N : U = Below(m)
  BY <1>3
<1>5. m # 0 /\ m - 1 \in N
  BY <1>4
<1>6. /\ Below(m - 1) \subseteq Below(m) /\ m - 1 \in Below(m) /\ m - 1 \notin Below(m - 1)
      /\ Below(m) \in SUBSET Nat /\ Below(m - 1) \in SUBSET Nat
  BY <1>5
<1>7. <<Below(m - 1), Below(m)>> \in StrictSubsetOrdering(Nat)
  <2> HIDE DEF Below
  <2> QED
    BY <1>6 DEF StrictSubsetOrdering
<1> QED
  BY <1>3, <1>4, <1>5, <1>7

\* the n-th numbers of a finite set are all of them, in order
LEMMA NthIsRank ==
  ASSUME NEW S \in SUBSET Nat, IsFiniteSet(S)
  PROVE  /\ Cardinality(S) \in Nat
         /\ \A n \in 1 .. Cardinality(S) : Nth(S, n) \in S
         /\ \A m, n \in 1 .. Cardinality(S) : m < n => Nth(S, m) < Nth(S, n)
         /\ \A x \in S : \E n \in 1 .. Cardinality(S) : Nth(S, n) = x
<1> DEFINE Under(x) == {y \in S : y < x}
           size == Cardinality(S)
           rank == [x \in S |-> Cardinality(Under(x))]
<1>0. \A x \in S : x \in Nat
  OBVIOUS
<1>1. size \in Nat
  BY FS_CardinalityType
<1>2. \A x \in S : IsFiniteSet(Under(x)) /\ rank[x] \in Nat /\ rank[x] < size
  <2> SUFFICES ASSUME NEW x \in S
               PROVE  IsFiniteSet(Under(x)) /\ rank[x] \in Nat /\ rank[x] < size
    OBVIOUS
  <2>1. Under(x) \in SUBSET S /\ S # Under(x) /\ rank[x] = Cardinality(Under(x))
    OBVIOUS
  <2> HIDE DEF Under, rank
  <2>2. IsFiniteSet(Under(x)) /\ Cardinality(Under(x)) <= size /\ size # Cardinality(Under(x))
    BY <2>1, FS_Subset
  <2>3. Cardinality(Under(x)) \in Nat
    BY <2>2, FS_CardinalityType
  <2> QED
    BY <1>1, <2>1, <2>2, <2>3
<1>3. ASSUME NEW x \in S, NEW z \in S, x < z PROVE rank[x] < rank[z]
  <2>1. Under(x) \in SUBSET Under(z) /\ Under(z) # Under(x)
    <3>1. x \in Under(z) /\ x \notin Under(x)
      BY <1>0, <1>3
    <3>2. ASSUME NEW y \in S, y < x PROVE y < z
      BY <1>0, <1>3, <3>2
    <3> QED
      BY <3>1, <3>2
  <2>2. rank[x] = Cardinality(Under(x)) /\ rank[z] = Cardinality(Under(z))
    OBVIOUS
  <2> HIDE DEF Under, rank
  <2>3. Cardinality(Under(x)) <= Cardinality(Under(z)) /\ Cardinality(Under(z)) # Cardinality(Under(x))
    BY <1>2, <2>1, FS_Subset
  <2> QED
    BY <1>2, <2>2, <2>3
<1>4. ASSUME NEW n \in 1 .. size PROVE \E x \in S : rank[x] = n - 1
  <2> SUFFICES ASSUME \A x \in S : rank[x] # n - 1 PROVE FALSE
    OBVIOUS
  <2> DEFINE T == (0 .. size - 1) \ {n - 1}
  <2>1. IsFiniteSet(T) /\ Cardinality(T) < size
    <3>1. IsFiniteSet(0 .. size - 1) /\ Cardinality(0 .. size - 1) = size
      <4>1. 0 \in Int /\ size - 1 \in Int /\ ~(0 > size - 1) /\ size - 1 - 0 + 1 = size
        BY <1>1
      <4> DEFINE last == size - 1
      <4> HIDE DEF last
      <4>2. IsFiniteSet(0 .. last) /\ Cardinality(0 .. last) = IF 0 > last THEN 0 ELSE last - 0 + 1
        BY <4>1, FS_Interval DEF last
      <4> QED
        BY <4>1, <4>2 DEF last
    <3>2. n - 1 \in 0 .. size - 1
      BY <1>1
    <3> DEFINE all == 0 .. size - 1
               one == n - 1
    <3>3. IsFiniteSet(all) /\ one \in all
      BY <3>1, <3>2
    <3> HIDE DEF all, one
    <3>4. IsFiniteSet(all \ {one}) /\ Cardinality(all \ {one}) = Cardinality(all) - 1
      BY <3>3, FS_RemoveElement
    <3> QED
      BY <1>1, <3>1, <3>4 DEF all, one
  <2>2. rank \in [S -> T]
    BY <1>1, <1>2
  <2> HIDE DEF T, rank
  <2>3. PICK x, y \in S : x # y /\ rank[x] = rank[y]
    BY <2>1, <2>2, FS_PigeonHole
  <2>4. x < y \/ y < x
    BY <1>0, <2>3
  <2>5. rank[x] \in Nat
    BY <1>2
  <2> QED
    BY <1>3, <2>3, <2>4, <2>5
<1>5. \A n \in 1 .. size : Nth(S, n) \in S /\ rank[Nth(S, n)] = n - 1
  BY <1>4 DEF Nth
<1> HIDE DEF rank
<1>6. \A m, n \in 1 .. size : m < n => Nth(S, m) < Nth(S, n)
  <2> SUFFICES ASSUME NEW m \in 1 .. size, NEW n \in 1 .. size, m < n, ~(Nth(S, m) < Nth(S, n))
               PROVE  FALSE
    OBVIOUS
  <2>1. /\ rank[Nth(S, m)] = m - 1 /\ rank[Nth(S, n)] = n - 1
        /\ Nth(S, m) \in S /\ Nth(S, n) \in S
    BY <1>5
  <2>2. Nth(S, m) = Nth(S, n) \/ Nth(S, n) < Nth(S, m)
    <3>1. Nth(S, m) \in Nat /\ Nth(S, n) \in Nat
      BY <1>0, <2>1
    <3> QED
      BY <3>1
  <2>3. m - 1 < n - 1 /\ ~(n - 1 < m - 1) /\ m - 1 # n - 1
    BY <1>1
  <2> QED
    BY <1>3, <2>1, <2>2, <2>3
<1>7. ASSUME NEW x \in S PROVE \E n \in 1 .. size : Nth(S, n) = x
  <2>1. rank[x] \in Nat /\ rank[x] < size
    BY <1>2
  <2>2. PICK k \in 1 .. size : k - 1 = rank[x]
    <3>1. rank[x] + 1 \in 1 .. size /\ rank[x] + 1 - 1 = rank[x]
      BY <1>1, <2>1
    <3> QED
      BY <2>1, <3>1
  <2>3. Nth(S, k) \in S /\ rank[Nth(S, k)] = rank[x]
    BY <1>5, <2>2
  <2>4. ~(rank[x] < rank[x])
    BY <2>1
  <2>5. Nth(S, k) = x \/ Nth(S, k) < x \/ x < Nth(S, k)
    <3>1. Nth(S, k) \in Nat /\ x \in Nat
      BY <1>0, <2>3
    <3> QED
      BY <3>1
  <2> QED
    BY <1>3, <2>3, <2>4, <2>5
<1> QED
  BY <1>1, <1>5, <1>6, <1>7

LEMMA ListHas ==
  ASSUME NEW s, IsList(s)
  PROVE  /\ Len(s) \in Nat /\ DOMAIN s = 1 .. Len(s)
         /\ s = [i \in 1 .. Len(s) |-> s[i]]
<1>1. PICK T : s \in Seq(T)
  BY DEF IsList
<1> QED
  BY <1>1, LenProperties

LEMMA ListOf ==
  ASSUME NEW n \in Nat, NEW s, s = [i \in 1 .. n |-> s[i]]
  PROVE  IsList(s) /\ Len(s) = n /\ DOMAIN s = 1 .. n
<1> DEFINE T == {s[i] : i \in 1 .. n}
<1>1. s \in [1 .. n -> T]
  <2>1. \A i \in 1 .. n : s[i] \in T
    OBVIOUS
  <2> HIDE DEF T
  <2> QED
    BY <2>1
<1>2. s \in Seq(T)
  <2> HIDE DEF T
  <2> QED
    BY <1>1, SeqDef
<1>3. Len(s) \in Nat /\ DOMAIN s = 1 .. Len(s) /\ DOMAIN s = 1 .. n
  <2> HIDE DEF T
  <2> QED
    BY <1>1, <1>2, LenProperties
<1>4. Len(s) = n
  BY <1>3
<1> QED
  BY <1>2, <1>3, <1>4 DEF IsList

LEMMA ListAppends ==
  ASSUME NEW s, IsList(s), NEW x
  PROVE  LET t == Append(s, x)
         IN  /\ IsList(t) /\ Len(t) = Len(s) + 1 /\ DOMAIN t = 1 .. Len(s) + 1 /\ t # <<>>
             /\ \A i \in DOMAIN s : t[i] = s[i]
             /\ t[Len(s) + 1] = x
<1>1. PICK T : s \in Seq(T)
  BY DEF IsList
<1> DEFINE U == T \cup {x}
           t == Append(s, x)
<1>2. s \in Seq(U) /\ x \in U
  <2>1. T \subseteq U
    OBVIOUS
  <2> HIDE DEF U
  <2> QED
    BY <1>1, <2>1, SeqMonotonic DEF U
<1> HIDE DEF U
<1>3. /\ t \in Seq(U) /\ t # <<>> /\ Len(t) = Len(s) + 1
      /\ \A i \in 1 .. Len(s) : t[i] = s[i]
      /\ t[Len(s) + 1] = x
  BY <1>2, AppendProperties
<1>4. Len(s) \in Nat /\ DOMAIN s = 1 .. Len(s) /\ DOMAIN t = 1 .. Len(t)
  BY <1>2, <1>3, LenProperties
<1> QED
  BY <1>3, <1>4 DEF IsList

LEMMA ListReplaces ==
  ASSUME NEW s, IsList(s), NEW i \in DOMAIN s, NEW x
  PROVE  LET t == [s EXCEPT ![i] = x]
         IN  /\ IsList(t) /\ Len(t) = Len(s) /\ DOMAIN t = DOMAIN s /\ t[i] = x
             /\ \A j \in DOMAIN s : j # i => t[j] = s[j]
<1> DEFINE t == [s EXCEPT ![i] = x]
<1>1. /\ Len(s) \in Nat /\ DOMAIN s = 1 .. Len(s)
  BY ListHas
<1>2. t = [j \in 1 .. Len(s) |-> t[j]] /\ t[i] = x /\ \A j \in DOMAIN s : j # i => t[j] = s[j]
  BY <1>1
<1> HIDE DEF t
<1>3. IsList(t) /\ Len(t) = Len(s) /\ DOMAIN t = 1 .. Len(s)
  BY <1>1, <1>2, ListOf
<1> QED
  BY <1>1, <1>2, <1>3 DEF t

LEMMA EmptyList == IsList(<<>>) /\ Len(<<>>) = 0 /\ DOMAIN <<>> = {}
<1>1. <<>> \in Seq({}) /\ Len(<<>>) = 0
  BY EmptySeq
<1>2. DOMAIN <<>> = 1 .. Len(<<>>)
  BY <1>1, LenProperties
<1> QED
  BY <1>1, <1>2 DEF IsList

\* what stands at a set of positions: each of them once, in order
LEMMA AtPositions ==
  ASSUME NEW s, IsList(s), NEW positions \in SUBSET (DOMAIN s)
  PROVE  LET t == At(s, positions)
         IN  /\ IsList(t) /\ Len(t) = Cardinality(positions)
             /\ \A n \in DOMAIN t : Nth(positions, n) \in positions /\ t[n] = s[Nth(positions, n)]
             /\ \A m, n \in DOMAIN t : Nth(positions, m) = Nth(positions, n) => m = n
             /\ \A i \in positions : \E n \in DOMAIN t : Nth(positions, n) = i
<1> DEFINE t == At(s, positions)
           size == Cardinality(positions)
<1>1. Len(s) \in Nat /\ DOMAIN s = 1 .. Len(s)
  BY ListHas
<1>2. positions \in SUBSET Nat /\ IsFiniteSet(positions)
  <2>1. IsFiniteSet(1 .. Len(s))
    BY <1>1, FS_Interval
  <2> QED
    BY <1>1, <2>1, FS_Subset
<1>3. /\ size \in Nat
      /\ \A n \in 1 .. size : Nth(positions, n) \in positions
      /\ \A m, n \in 1 .. size : m < n => Nth(positions, m) < Nth(positions, n)
      /\ \A x \in positions : \E n \in 1 .. size : Nth(positions, n) = x
  BY <1>2, NthIsRank
<1>4. t = [n \in 1 .. size |-> t[n]] /\ \A n \in 1 .. size : t[n] = s[Nth(positions, n)]
  BY DEF At
<1> HIDE DEF t, size
<1>5. IsList(t) /\ Len(t) = size /\ DOMAIN t = 1 .. size
  BY <1>3, <1>4, ListOf
<1>6. ASSUME NEW m \in 1 .. size, NEW n \in 1 .. size, Nth(positions, m) = Nth(positions, n)
      PROVE  m = n
  <2>1. Nth(positions, m) \in Nat /\ Nth(positions, n) \in Nat
    BY <1>2, <1>3
  <2>2. ~(Nth(positions, m) < Nth(positions, n)) /\ ~(Nth(positions, n) < Nth(positions, m))
    BY <1>6, <2>1
  <2>3. m = n \/ m < n \/ n < m
    BY <1>3
  <2> QED
    BY <1>3, <2>2, <2>3
<1> QED
  BY <1>3, <1>4, <1>5, <1>6 DEF t, size

-----------------------------------------------------------------------------
(* The folds of the commands: a run of results, one for each step *)

InsertAll(base, documents) == FoldLeft(InsertStored, base, documents)

UpdateAll(base, documents, update) ==
    FoldLeft(LAMBDA result, d : UpdateStored(result, d, update), base, documents)

RemoveAll(base, documents) == FoldLeft(RemoveStored, base, documents)

EnterAll(base, documents) == FoldLeft(EnterDocument, base, documents)

BuildAll(base, descriptions, documents) ==
    FoldLeft(LAMBDA r, d : BuildIndex(r, CreateIndexInfo(d), documents), base, descriptions)

LEMMA MaxOf ==
  ASSUME NEW n \in Nat, NEW T \in SUBSET (1 .. n), T # {}
  PROVE  Max(T) \in T /\ \A x \in T : x <= Max(T)
<1>1. IsFiniteSet(T) /\ T \in SUBSET Nat
  <2>1. IsFiniteSet(1 .. n)
    BY FS_Interval
  <2>2. IsFiniteSet(T)
    BY <2>1, FS_Subset
  <2> QED
    BY <2>2
<1> DEFINE size == Cardinality(T)
<1>2. size \in Nat /\ size # 0
  BY <1>1, FS_CardinalityType, FS_EmptySet
<1>3. /\ \A m \in 1 .. size : Nth(T, m) \in T
      /\ \A m, k \in 1 .. size : m < k => Nth(T, m) < Nth(T, k)
      /\ \A x \in T : \E m \in 1 .. size : Nth(T, m) = x
  BY <1>1, NthIsRank
<1> HIDE DEF size
<1>4. size \in 1 .. size
  BY <1>2
<1>5. Nth(T, size) \in T
  BY <1>3, <1>4
<1>6. ASSUME NEW x \in T PROVE x <= Nth(T, size)
  <2>1. PICK m \in 1 .. size : Nth(T, m) = x
    BY <1>3
  <2>2. m = size \/ m < size
    BY <1>2
  <2>3. Nth(T, m) = Nth(T, size) \/ Nth(T, m) < Nth(T, size)
    BY <1>3, <1>4, <2>2
  <2>4. x \in Nat /\ Nth(T, size) \in Nat
    BY <1>1, <1>5
  <2> QED
    BY <2>1, <2>3, <2>4
<1>7. \E x \in T : \A y \in T : x >= y
  <2>1. \A x \in T : x \in Nat
    BY <1>1
  <2>2. Nth(T, size) \in T /\ \A y \in T : Nth(T, size) >= y
    BY <1>5, <1>6, <2>1
  <2> QED
    BY <2>2
<1>8. Max(T) \in T /\ \A y \in T : Max(T) >= y
  BY <1>7 DEF Max
<1>9. \A x \in T : x \in Nat
  BY <1>1
<1> QED
  BY <1>8, <1>9

\* one step of a command
Applied(result, step) ==
    IF step.command = "insert" THEN InsertStored(result, step.document)
    ELSE IF step.command = "update" THEN UpdateStored(result, step.document, step.update)
    ELSE IF step.command = "remove" THEN RemoveStored(result, step.document)
    ELSE IF step.command = "enter" THEN EnterDocument(result, step.document)
    ELSE BuildIndex(result, step.info, step.documents)

\* the function by which MapThenFoldSet folds these steps
IsFold(fold, base, steps, n) ==
    fold = [T \in SUBSET (1 .. n) |->
              IF T = {} THEN base ELSE Applied(fold[T \ {Max(T)}], steps[Max(T)])]

LEMMA FoldExists ==
  ASSUME NEW base, NEW steps, NEW n \in Nat
  PROVE  \E fold : IsFold(fold, base, steps, n)
<1> DEFINE K == {k \in Nat : \E fold : IsFold(fold, base, steps, k)}
<1>1. 0 \in K
  <2> DEFINE g == [T \in SUBSET (1 .. 0) |-> base]
  <2>1. 1 .. 0 = {}
    OBVIOUS
  <2>2. IsFold(g, base, steps, 0)
    BY <2>1 DEF IsFold
  <2> QED
    BY <2>2
<1>2. ASSUME NEW k \in Nat, k \in K PROVE k + 1 \in K
  <2>1. PICK g : IsFold(g, base, steps, k)
    BY <1>2
  <2> DEFINE S == SUBSET (1 .. k)
             R == SUBSET (1 .. k + 1)
             h == [T \in R |-> IF T \in S THEN g[T] ELSE Applied(g[T \ {k + 1}], steps[k + 1])]
  <2>2. ASSUME NEW T \in R
        PROVE  h[T] = IF T = {} THEN base ELSE Applied(h[T \ {Max(T)}], steps[Max(T)])
    <3>1. T \ {Max(T)} \in R
      OBVIOUS
    <3>2. CASE T \in S
      <4>1. h[T] = g[T]
        BY <3>2
      <4>2. g[T] = IF T = {} THEN base ELSE Applied(g[T \ {Max(T)}], steps[Max(T)])
        BY <2>1, <3>2 DEF IsFold
      <4>3. h[T \ {Max(T)}] = g[T \ {Max(T)}]
        BY <3>1, <3>2
      <4> QED
        BY <4>1, <4>2, <4>3
    <3>3. CASE T \notin S
      <4>1. k + 1 \in T
        BY <3>3
      <4>2. Max(T) = k + 1
        <5>1. k + 1 \in Nat
          OBVIOUS
        <5>2. Max(T) \in T /\ k + 1 <= Max(T)
          BY <4>1, <5>1, MaxOf
        <5>3. Max(T) \in 1 .. k + 1
          BY <5>2
        <5> QED
          BY <5>2, <5>3
      <4>3. T \ {k + 1} \in S
        OBVIOUS
      <4>4. h[T \ {Max(T)}] = g[T \ {k + 1}]
        BY <3>1, <4>2, <4>3
      <4>5. h[T] = Applied(g[T \ {k + 1}], steps[k + 1])
        BY <3>3
      <4> QED
        BY <4>1, <4>2, <4>4, <4>5
    <3> QED
      BY <3>2, <3>3
  <2>3. h = [T \in R |-> h[T]]
    OBVIOUS
  <2> HIDE DEF h
  <2>4. IsFold(h, base, steps, k + 1)
    BY <2>2, <2>3 DEF IsFold
  <2> QED
    BY <2>4
<1>3. Nat \subseteq K
  <2> HIDE DEF K
  <2> QED
    BY <1>1, <1>2, CountsUp
<1> QED
  BY <1>3

\* the results of such a fold, one after the other
IsRun(run, base, steps, n) ==
    /\ run[0] = base
    /\ \A k \in 1 .. n : run[k] = Applied(run[k - 1], steps[k])

LEMMA FoldRuns ==
  ASSUME NEW base, NEW steps, NEW n \in Nat, NEW fold, IsFold(fold, base, steps, n)
  PROVE  \E run : IsRun(run, base, steps, n) /\ fold[1 .. n] = run[n]
<1> DEFINE run == [k \in 0 .. n |-> fold[1 .. k]]
<1>1. run[0] = base
  <2>1. 1 .. 0 = {} /\ {} \in SUBSET (1 .. n)
    OBVIOUS
  <2>2. fold[{}] = base
    BY <2>1 DEF IsFold
  <2> QED
    BY <2>1, <2>2
<1>2. ASSUME NEW k \in 1 .. n PROVE run[k] = Applied(run[k - 1], steps[k])
  <2>1. 1 .. k \in SUBSET (1 .. n) /\ 1 .. k # {} /\ k \in 1 .. k
    OBVIOUS
  <2>2. Max(1 .. k) = k
    <3>1. Max(1 .. k) \in 1 .. k /\ k <= Max(1 .. k)
      BY <2>1, MaxOf
    <3> QED
      BY <3>1
  <2>3. (1 .. k) \ {k} = 1 .. k - 1
    OBVIOUS
  <2>4. fold[1 .. k] = Applied(fold[1 .. k - 1], steps[k])
    BY <2>1, <2>2, <2>3 DEF IsFold
  <2> QED
    BY <2>4
<1>3. run[n] = fold[1 .. n]
  OBVIOUS
<1> HIDE DEF run
<1> QED
  BY <1>1, <1>2, <1>3 DEF IsRun

LEMMA InsertRuns ==
  ASSUME NEW base, NEW seq, IsList(seq)
  PROVE  \E run : /\ run[0] = base
                  /\ \A k \in 1 .. Len(seq) : run[k] = InsertStored(run[k - 1], seq[k])
                  /\ InsertAll(base, seq) = run[Len(seq)]
<1> DEFINE n == Len(seq)
           steps == [i \in 1 .. n |-> [command |-> "insert", document |-> seq[i]]]
<1>1. n \in Nat /\ DOMAIN seq = 1 .. n
  BY ListHas
<1>2. \A k \in 1 .. n : \A r : Applied(r, steps[k]) = InsertStored(r, seq[k])
  BY DEF Applied
<1> HIDE DEF steps, n
<1> DEFINE IsIt(f) == f = [T \in SUBSET (1 .. n) |->
                            IF T = {} THEN base ELSE InsertStored(f[T \ {Max(T)}], seq[Max(T)])]
<1>3. \A f : IsFold(f, base, steps, n) <=> IsIt(f)
  <2>1. \A T \in SUBSET (1 .. n) : T # {} => Max(T) \in 1 .. n
    BY <1>1, MaxOf
  <2> QED
    BY <1>2, <2>1 DEF IsFold
<1>4. PICK g : IsFold(g, base, steps, n)
  BY <1>1, FoldExists
<1> DEFINE fold == CHOOSE f : IsIt(f)
<1>5. IsFold(fold, base, steps, n)
  BY <1>3, <1>4
<1>6. InsertAll(base, seq) = fold[1 .. n]
  BY <1>1 DEF InsertAll, FoldLeft, MapThenFoldSet
<1> HIDE DEF fold
<1>7. PICK run : IsRun(run, base, steps, n) /\ fold[1 .. n] = run[n]
  BY <1>1, <1>5, FoldRuns
<1> HIDE DEF IsIt
<1> QED
  BY <1>2, <1>6, <1>7 DEF IsRun, n

UpdatesRun(run, base, seq, update) ==
    /\ run[0] = base
    /\ \A k \in 1 .. Len(seq) : run[k] = UpdateStored(run[k - 1], seq[k], update)
    /\ UpdateAll(base, seq, update) = run[Len(seq)]

LEMMA UpdateRuns ==
  ASSUME NEW base, NEW seq, IsList(seq), NEW update
  PROVE  \E run : UpdatesRun(run, base, seq, update)
<1> DEFINE n == Len(seq)
           steps == [i \in 1 .. n |-> [command |-> "update", document |-> seq[i], update |-> update]]
<1>1. n \in Nat /\ DOMAIN seq = 1 .. n
  BY ListHas
<1>2. \A k \in 1 .. n : \A r : Applied(r, steps[k]) = UpdateStored(r, seq[k], update)
  BY DEF Applied
<1> HIDE DEF steps, n
<1> DEFINE IsIt(f) == f = [T \in SUBSET (1 .. n) |->
                            IF T = {} THEN base ELSE UpdateStored(f[T \ {Max(T)}], seq[Max(T)], update)]
<1>3. \A f : IsFold(f, base, steps, n) <=> IsIt(f)
  <2>1. \A T \in SUBSET (1 .. n) : T # {} => Max(T) \in 1 .. n
    BY <1>1, MaxOf
  <2> QED
    BY <1>2, <2>1 DEF IsFold
<1>4. PICK g : IsFold(g, base, steps, n)
  BY <1>1, FoldExists
<1> DEFINE fold == CHOOSE f : IsIt(f)
<1>5. IsFold(fold, base, steps, n)
  BY <1>3, <1>4
<1>6. UpdateAll(base, seq, update) = fold[1 .. n]
  BY <1>1 DEF UpdateAll, FoldLeft, MapThenFoldSet
<1> HIDE DEF fold
<1>7. PICK run : IsRun(run, base, steps, n) /\ fold[1 .. n] = run[n]
  BY <1>1, <1>5, FoldRuns
<1> HIDE DEF IsIt
<1> QED
  BY <1>2, <1>6, <1>7 DEF IsRun, n, UpdatesRun

LEMMA RemoveRuns ==
  ASSUME NEW base, NEW seq, IsList(seq)
  PROVE  \E run : /\ run[0] = base
                  /\ \A k \in 1 .. Len(seq) : run[k] = RemoveStored(run[k - 1], seq[k])
                  /\ RemoveAll(base, seq) = run[Len(seq)]
<1> DEFINE n == Len(seq)
           steps == [i \in 1 .. n |-> [command |-> "remove", document |-> seq[i]]]
<1>1. n \in Nat /\ DOMAIN seq = 1 .. n
  BY ListHas
<1>2. \A k \in 1 .. n : \A r : Applied(r, steps[k]) = RemoveStored(r, seq[k])
  BY DEF Applied
<1> HIDE DEF steps, n
<1> DEFINE IsIt(f) == f = [T \in SUBSET (1 .. n) |->
                            IF T = {} THEN base ELSE RemoveStored(f[T \ {Max(T)}], seq[Max(T)])]
<1>3. \A f : IsFold(f, base, steps, n) <=> IsIt(f)
  <2>1. \A T \in SUBSET (1 .. n) : T # {} => Max(T) \in 1 .. n
    BY <1>1, MaxOf
  <2> QED
    BY <1>2, <2>1 DEF IsFold
<1>4. PICK g : IsFold(g, base, steps, n)
  BY <1>1, FoldExists
<1> DEFINE fold == CHOOSE f : IsIt(f)
<1>5. IsFold(fold, base, steps, n)
  BY <1>3, <1>4
<1>6. RemoveAll(base, seq) = fold[1 .. n]
  BY <1>1 DEF RemoveAll, FoldLeft, MapThenFoldSet
<1> HIDE DEF fold
<1>7. PICK run : IsRun(run, base, steps, n) /\ fold[1 .. n] = run[n]
  BY <1>1, <1>5, FoldRuns
<1> HIDE DEF IsIt
<1> QED
  BY <1>2, <1>6, <1>7 DEF IsRun, n

LEMMA EnterRuns ==
  ASSUME NEW base, NEW seq, IsList(seq)
  PROVE  \E run : /\ run[0] = base
                  /\ \A k \in 1 .. Len(seq) : run[k] = EnterDocument(run[k - 1], seq[k])
                  /\ EnterAll(base, seq) = run[Len(seq)]
<1> DEFINE n == Len(seq)
           steps == [i \in 1 .. n |-> [command |-> "enter", document |-> seq[i]]]
<1>1. n \in Nat /\ DOMAIN seq = 1 .. n
  BY ListHas
<1>2. \A k \in 1 .. n : \A r : Applied(r, steps[k]) = EnterDocument(r, seq[k])
  BY DEF Applied
<1> HIDE DEF steps, n
<1> DEFINE IsIt(f) == f = [T \in SUBSET (1 .. n) |->
                            IF T = {} THEN base ELSE EnterDocument(f[T \ {Max(T)}], seq[Max(T)])]
<1>3. \A f : IsFold(f, base, steps, n) <=> IsIt(f)
  <2>1. \A T \in SUBSET (1 .. n) : T # {} => Max(T) \in 1 .. n
    BY <1>1, MaxOf
  <2> QED
    BY <1>2, <2>1 DEF IsFold
<1>4. PICK g : IsFold(g, base, steps, n)
  BY <1>1, FoldExists
<1> DEFINE fold == CHOOSE f : IsIt(f)
<1>5. IsFold(fold, base, steps, n)
  BY <1>3, <1>4
<1>6. EnterAll(base, seq) = fold[1 .. n]
  BY <1>1 DEF EnterAll, FoldLeft, MapThenFoldSet
<1> HIDE DEF fold
<1>7. PICK run : IsRun(run, base, steps, n) /\ fold[1 .. n] = run[n]
  BY <1>1, <1>5, FoldRuns
<1> HIDE DEF IsIt
<1> QED
  BY <1>2, <1>6, <1>7 DEF IsRun, n

LEMMA BuildRuns ==
  ASSUME NEW base, NEW seq, IsList(seq), NEW documents
  PROVE  \E run : /\ run[0] = base
                  /\ \A k \in 1 .. Len(seq) : run[k] = BuildIndex(run[k - 1], CreateIndexInfo(seq[k]), documents)
                  /\ BuildAll(base, seq, documents) = run[Len(seq)]
<1> DEFINE n == Len(seq)
           steps == [i \in 1 .. n |-> [command |-> "build", info |-> CreateIndexInfo(seq[i]), documents |-> documents]]
<1>1. n \in Nat /\ DOMAIN seq = 1 .. n
  BY ListHas
<1>2. \A k \in 1 .. n : \A r : Applied(r, steps[k]) = BuildIndex(r, CreateIndexInfo(seq[k]), documents)
  BY DEF Applied
<1> HIDE DEF steps, n
<1> DEFINE IsIt(f) == f = [T \in SUBSET (1 .. n) |->
                            IF T = {} THEN base ELSE BuildIndex(f[T \ {Max(T)}], CreateIndexInfo(seq[Max(T)]), documents)]
<1>3. \A f : IsFold(f, base, steps, n) <=> IsIt(f)
  <2>1. \A T \in SUBSET (1 .. n) : T # {} => Max(T) \in 1 .. n
    BY <1>1, MaxOf
  <2> QED
    BY <1>2, <2>1 DEF IsFold
<1>4. PICK g : IsFold(g, base, steps, n)
  BY <1>1, FoldExists
<1> DEFINE fold == CHOOSE f : IsIt(f)
<1>5. IsFold(fold, base, steps, n)
  BY <1>3, <1>4
<1>6. BuildAll(base, seq, documents) = fold[1 .. n]
  BY <1>1 DEF BuildAll, FoldLeft, MapThenFoldSet
<1> HIDE DEF fold
<1>7. PICK run : IsRun(run, base, steps, n) /\ fold[1 .. n] = run[n]
  BY <1>1, <1>5, FoldRuns
<1> HIDE DEF IsIt
<1> QED
  BY <1>2, <1>6, <1>7 DEF IsRun, n

-----------------------------------------------------------------------------
(* Collections *)

LEMMA GoodOf ==
  ASSUME NEW documents, NEW indexes, NEW exists \in BOOLEAN, documents # <<>> => exists,
         GoodDocuments(documents), GoodIndexes(indexes, ToSet(documents))
  PROVE  GoodCollection([documents |-> documents, indexes |-> indexes, exists |-> exists])
BY DEF GoodCollection

LEMMA ExistsOf ==
  ASSUME NEW c, GoodCollection(c)
  PROVE  [c EXCEPT !.exists = TRUE] = [documents |-> c.documents, indexes |-> c.indexes, exists |-> TRUE]
<1>1. c = [documents |-> c.documents, indexes |-> c.indexes, exists |-> c.exists]
  BY DEF GoodCollection
<1>2. ASSUME NEW t
      PROVE  [c EXCEPT !.exists = t] = [documents |-> c.documents, indexes |-> c.indexes, exists |-> t]
  BY <1>1
<1> QED
  BY <1>2, Zenon

LEMMA IdsOfDocuments ==
  ASSUME NEW documents, GoodDocuments(documents)
  PROVE  OneIdEach(ToSet(documents))
BY DEF GoodDocuments, OneIdEach, ToSet

LEMMA DocumentEnters ==
  ASSUME NEW documents, GoodDocuments(documents), NEW document, document.id \in Ids,
         \A i \in DOMAIN documents : documents[i].id # document.id
  PROVE  LET next == Append(documents, document)
         IN  /\ GoodDocuments(next) /\ next # <<>>
             /\ ToSet(next) = ToSet(documents) \cup {document}
<1> DEFINE next == Append(documents, document)
           n == Len(documents)
<1>1. IsList(documents)
  BY DEF GoodDocuments
<1>2. n \in Nat /\ DOMAIN documents = 1 .. n
  BY <1>1, ListHas
<1>3. /\ IsList(next) /\ DOMAIN next = 1 .. n + 1 /\ next # <<>>
      /\ \A i \in DOMAIN documents : next[i] = documents[i]
      /\ next[n + 1] = document
  BY <1>1, ListAppends
<1> HIDE DEF next, n
<1>4. DOMAIN next = DOMAIN documents \cup {n + 1} /\ n + 1 \notin DOMAIN documents
  BY <1>2, <1>3
<1>5. GoodDocuments(next)
  BY <1>3, <1>4 DEF GoodDocuments
<1>6. ToSet(next) = ToSet(documents) \cup {document}
  <2>1. ToSet(next) = {next[i] : i \in DOMAIN documents \cup {n + 1}}
    BY <1>4 DEF ToSet
  <2>2. {next[i] : i \in DOMAIN documents} = ToSet(documents)
    BY <1>3 DEF ToSet
  <2> QED
    BY <1>3, <2>1, <2>2
<1> QED
  BY <1>3, <1>5, <1>6 DEF next

LEMMA DocumentMoves ==
  ASSUME NEW documents, GoodDocuments(documents), NEW previous \in ToSet(documents),
         NEW document, document.id = previous.id
  PROVE  LET next == [documents EXCEPT ![PositionOf(documents, document.id)] = document]
         IN  /\ GoodDocuments(next)
             /\ documents # <<>>
             /\ ToSet(next) = (ToSet(documents) \ {previous}) \cup {document}
<1>1. PICK at \in DOMAIN documents : documents[at] = previous
  BY DEF ToSet
<1>2. PositionOf(documents, document.id) = at
  BY <1>1 DEF PositionOf, GoodDocuments
<1> DEFINE next == [documents EXCEPT ![at] = document]
<1>3. IsList(documents)
  BY DEF GoodDocuments
<1>4. /\ IsList(next) /\ DOMAIN next = DOMAIN documents /\ next[at] = document
      /\ \A j \in DOMAIN documents : j # at => next[j] = documents[j]
  BY <1>3, ListReplaces
<1> HIDE DEF next
<1>5. \A i \in DOMAIN documents : next[i].id = documents[i].id
  BY <1>1, <1>4
<1>6. GoodDocuments(next)
  BY <1>4, <1>5 DEF GoodDocuments
<1>7. ToSet(next) = (ToSet(documents) \ {previous}) \cup {document}
  <2>1. \A j \in DOMAIN documents : documents[j] = previous => j = at
    BY <1>1 DEF GoodDocuments
  <2>2. ASSUME NEW d \in ToSet(next) PROVE d \in (ToSet(documents) \ {previous}) \cup {document}
    BY <1>4, <2>1, <2>2 DEF ToSet
  <2>3. ASSUME NEW d \in (ToSet(documents) \ {previous}) \cup {document} PROVE d \in ToSet(next)
    BY <1>1, <1>4, <2>3 DEF ToSet
  <2> QED
    BY <2>2, <2>3
<1>8. documents # <<>>
  BY EmptyList, <1>1
<1> QED
  BY <1>2, <1>6, <1>7, <1>8 DEF next

LEMMA DocumentLeaves ==
  ASSUME NEW documents, GoodDocuments(documents), NEW document \in ToSet(documents)
  PROVE  LET next == At(documents, {i \in DOMAIN documents : documents[i].id # document.id})
         IN  GoodDocuments(next) /\ ToSet(next) = ToSet(documents) \ {document} /\ documents # <<>>
<1> DEFINE positions == {i \in DOMAIN documents : documents[i].id # document.id}
           next == At(documents, positions)
<1>1. IsList(documents)
  BY DEF GoodDocuments
<1>2. positions \in SUBSET (DOMAIN documents)
  OBVIOUS
<1>3. \A i \in DOMAIN documents : i \in positions <=> documents[i].id # document.id
  OBVIOUS
<1> HIDE DEF positions
<1>4. /\ IsList(next)
      /\ \A n \in DOMAIN next : Nth(positions, n) \in positions /\ next[n] = documents[Nth(positions, n)]
      /\ \A m, n \in DOMAIN next : Nth(positions, m) = Nth(positions, n) => m = n
      /\ \A i \in positions : \E n \in DOMAIN next : Nth(positions, n) = i
  BY <1>1, <1>2, AtPositions
<1> HIDE DEF next
<1>5. \A n \in DOMAIN next : next[n].id \in Ids
  BY <1>2, <1>4 DEF GoodDocuments
<1>6. \A m, n \in DOMAIN next : next[m].id = next[n].id => m = n
  BY <1>2, <1>4 DEF GoodDocuments
<1>7. GoodDocuments(next)
  BY <1>4, <1>5, <1>6 DEF GoodDocuments
<1>8. ToSet(next) = ToSet(documents) \ {document}
  <2>1. \A i \in DOMAIN documents : i \in positions <=> documents[i] # document
    BY <1>3 DEF ToSet, GoodDocuments
  <2>2. ASSUME NEW d \in ToSet(next) PROVE d \in ToSet(documents) \ {document}
    BY <1>2, <1>4, <2>1, <2>2 DEF ToSet
  <2>3. ASSUME NEW d \in ToSet(documents) \ {document} PROVE d \in ToSet(next)
    BY <1>4, <2>1, <2>3 DEF ToSet
  <2> QED
    BY <2>2, <2>3
<1>9. documents # <<>>
  BY EmptyList DEF ToSet
<1> QED
  BY <1>7, <1>8, <1>9 DEF next, positions

\* the indexes, when each of them took the same write
LEMMA IndexesMove ==
  ASSUME NEW indexes, NEW documents, GoodIndexes(indexes, documents), NEW previous, NEW next, NEW left,
         \A i \in DOMAIN indexes :
            /\ IsIndex(WriteEntries(indexes[i], previous, next))
            /\ WriteEntries(indexes[i], previous, next).info = indexes[i].info
            /\ Exact(WriteEntries(indexes[i], previous, next), left)
  PROVE  GoodIndexes(MoveKeys(indexes, previous, next), left)
<1> DEFINE moved == MoveKeys(indexes, previous, next)
<1>1. IsList(indexes)
  BY DEF GoodIndexes
<1>2. Len(indexes) \in Nat /\ DOMAIN indexes = 1 .. Len(indexes)
  BY <1>1, ListHas
<1>3. moved = [i \in 1 .. Len(indexes) |-> moved[i]]
  BY <1>2 DEF MoveKeys
<1>4. \A i \in DOMAIN indexes : moved[i] = WriteEntries(indexes[i], previous, next)
  BY DEF MoveKeys
<1> HIDE DEF moved
<1>5. IsList(moved) /\ DOMAIN moved = DOMAIN indexes
  BY <1>2, <1>3, ListOf
<1>6. \A i \in DOMAIN moved : GoodIndex(moved[i], left) /\ moved[i].info = indexes[i].info
  BY <1>4, <1>5 DEF GoodIndexes, GoodIndex
<1>7. GoodIndexes(moved, left)
  BY <1>5, <1>6 DEF GoodIndexes
<1> QED
  BY <1>7 DEF moved

LEMMA InsertKeepsGood ==
  ASSUME NEW r, GoodCollection(r.collection), NEW document, document.id \in Ids
  PROVE  GoodCollection(InsertStored(r, document).collection)
<1> DEFINE c == r.collection
           next == Append(c.documents, document)
           moved == MoveKeys(c.indexes, {}, {document})
<1>1. CASE InsertStored(r, document).collection = c
  BY <1>1
<1>2. CASE /\ \A i \in DOMAIN c.documents : c.documents[i].id # document.id
           /\ CanWriteAll(c, document)
           /\ InsertStored(r, document).collection =
                [documents |-> next, indexes |-> moved, exists |-> TRUE]
  <2>1. /\ GoodDocuments(next) /\ next # <<>>
        /\ ToSet(next) = ToSet(c.documents) \cup {document}
    BY <1>2, DocumentEnters DEF GoodCollection
  <2>2. \A d \in ToSet(c.documents) : d.id # document.id
    BY <1>2 DEF ToSet
  <2> DEFINE all == ToSet(c.documents) \cup {document}
  <2>3. ASSUME NEW i \in DOMAIN c.indexes
        PROVE  LET x == WriteEntries(c.indexes[i], {}, {document})
               IN  IsIndex(x) /\ x.info = c.indexes[i].info /\ Exact(x, all)
    <3>1. /\ IsIndex(c.indexes[i]) /\ Exact(c.indexes[i], ToSet(c.documents))
          /\ AssertCanWrite(c.indexes[i], document)
      BY <1>2 DEF GoodCollection, GoodIndexes, GoodIndex, CanWriteAll
    <3> QED
      BY <2>2, <3>1, KeysEnter
  <2>4. GoodIndexes(moved, all)
    <3>1. GoodIndexes(c.indexes, ToSet(c.documents))
      BY DEF GoodCollection
    <3> HIDE DEF all
    <3> QED
      BY <2>3, <3>1, IndexesMove
  <2>5. GoodIndexes(moved, ToSet(next))
    BY <2>1, <2>4
  <2> HIDE DEF next, moved
  <2>6. GoodCollection([documents |-> next, indexes |-> moved, exists |-> TRUE])
    BY <2>1, <2>5, GoodOf
  <2> QED
    BY <1>2, <2>6
<1> QED
  BY <1>1, <1>2 DEF InsertStored, Begun, Refused

LEMMA RemoveKeepsGood ==
  ASSUME NEW r, GoodCollection(r.collection), NEW document \in ToSet(r.collection.documents)
  PROVE  LET next == RemoveStored(r, document).collection
         IN  GoodCollection(next) /\ ToSet(next.documents) = ToSet(r.collection.documents) \ {document}
<1> DEFINE c == r.collection
           left == At(c.documents, {i \in DOMAIN c.documents : c.documents[i].id # document.id})
           moved == MoveKeys(c.indexes, {document}, {})
           others == ToSet(c.documents) \ {document}
<1>1. RemoveStored(r, document).collection =
        [documents |-> left, indexes |-> moved, exists |-> c.exists]
  BY DEF RemoveStored, Begun, GoodCollection
<1>2. GoodDocuments(left) /\ ToSet(left) = others /\ c.documents # <<>>
  BY DocumentLeaves DEF GoodCollection
<1>3. ASSUME NEW i \in DOMAIN c.indexes
      PROVE  LET x == WriteEntries(c.indexes[i], {document}, {})
             IN  IsIndex(x) /\ x.info = c.indexes[i].info /\ Exact(x, others)
  <2>1. /\ IsIndex(c.indexes[i]) /\ Exact(c.indexes[i], ToSet(c.documents))
        /\ OneIdEach(ToSet(c.documents))
    BY IdsOfDocuments DEF GoodCollection, GoodIndexes, GoodIndex
  <2> QED
    BY <2>1, KeysLeave
<1>4. GoodIndexes(moved, others)
  <2>1. GoodIndexes(c.indexes, ToSet(c.documents))
    BY DEF GoodCollection
  <2> HIDE DEF others
  <2> QED
    BY <1>3, <2>1, IndexesMove
<1>5. GoodIndexes(moved, ToSet(left)) /\ c.exists \in BOOLEAN /\ c.exists
  BY <1>2, <1>4 DEF GoodCollection
<1> HIDE DEF left, moved
<1>6. GoodCollection([documents |-> left, indexes |-> moved, exists |-> c.exists])
  BY <1>2, <1>5, GoodOf
<1> QED
  BY <1>1, <1>2, <1>6

LEMMA ReplaceKeepsGood ==
  ASSUME NEW c, GoodCollection(c), NEW previous \in ToSet(c.documents), NEW document
  PROVE  LET next == ReplaceStored(c, previous, document).collection
         IN  /\ GoodCollection(next)
             /\ \A d \in ToSet(c.documents) : d = previous \/ d \in ToSet(next.documents)
<1> DEFINE moved == MoveKeys(c.indexes, {previous}, {document})
           replaced == [c.documents EXCEPT ![PositionOf(c.documents, document.id)] = document]
           all == (ToSet(c.documents) \ {previous}) \cup {document}
<1>1. CASE ReplaceStored(c, previous, document).collection = c
  BY <1>1
<1>2. CASE document.id = previous.id /\ CanWriteAll(c, document)
  <2>1. ReplaceStored(c, previous, document).collection =
          [documents |-> replaced, indexes |-> moved, exists |-> c.exists]
    BY <1>2 DEF ReplaceStored, Begun, GoodCollection
  <2>2. GoodDocuments(replaced) /\ ToSet(replaced) = all /\ c.documents # <<>>
    BY <1>2, DocumentMoves DEF GoodCollection
  <2>3. ASSUME NEW i \in DOMAIN c.indexes
        PROVE  LET x == WriteEntries(c.indexes[i], {previous}, {document})
               IN  IsIndex(x) /\ x.info = c.indexes[i].info /\ Exact(x, all)
    <3>1. /\ IsIndex(c.indexes[i]) /\ Exact(c.indexes[i], ToSet(c.documents))
          /\ OneIdEach(ToSet(c.documents)) /\ AssertCanWrite(c.indexes[i], document)
      BY <1>2, IdsOfDocuments DEF GoodCollection, GoodIndexes, GoodIndex, CanWriteAll
    <3> QED
      BY <1>2, <3>1, KeysMove
  <2>4. GoodIndexes(moved, all)
    <3>1. GoodIndexes(c.indexes, ToSet(c.documents))
      BY DEF GoodCollection
    <3> HIDE DEF all
    <3> QED
      BY <2>3, <3>1, IndexesMove
  <2>5. GoodIndexes(moved, ToSet(replaced)) /\ c.exists \in BOOLEAN /\ c.exists
    BY <2>2, <2>4 DEF GoodCollection
  <2> HIDE DEF replaced, moved
  <2>6. GoodCollection([documents |-> replaced, indexes |-> moved, exists |-> c.exists])
    BY <2>2, <2>5, GoodOf
  <2>7. \A d \in ToSet(c.documents) : d = previous \/ d \in ToSet(replaced)
    BY <2>2
  <2> QED
    BY <2>1, <2>6, <2>7
<1>3. CASE document.id # previous.id \/ ~CanWriteAll(c, document)
  BY <1>1, <1>3 DEF ReplaceStored, Refused
<1> QED
  BY <1>2, <1>3

LEMMA UpdateKeepsGood ==
  ASSUME NEW r, GoodCollection(r.collection), NEW previous \in ToSet(r.collection.documents), NEW update
  PROVE  LET next == UpdateStored(r, previous, update).collection
         IN  /\ GoodCollection(next)
             /\ \A d \in ToSet(r.collection.documents) : d = previous \/ d \in ToSet(next.documents)
<1> DEFINE next == ApplyUpdate(previous, update, FALSE)
<1> HIDE DEF next
<1>1. /\ GoodCollection(ReplaceStored(r.collection, previous, next).collection)
      /\ \A d \in ToSet(r.collection.documents) :
            d = previous \/ d \in ToSet(ReplaceStored(r.collection, previous, next).collection.documents)
  BY ReplaceKeepsGood
<1>2. UpdateStored(r, previous, update) \in {r, ReplaceStored(r.collection, previous, next)}
  BY DEF UpdateStored, next
<1> QED
  BY <1>1, <1>2

-----------------------------------------------------------------------------
(* What a filter finds: documents of the collection, each once *)

Finds(found, documents) ==
    /\ IsList(found)
    /\ \A i \in DOMAIN found : found[i] \in ToSet(documents)
    /\ \A i, j \in DOMAIN found : found[i].id = found[j].id => i = j

LEMMA IdsCounted ==
  ASSUME NEW found, IsList(found), \A i, j \in DOMAIN found : found[i].id = found[j].id => i = j
  PROVE  LET ids == {found[i].id : i \in DOMAIN found}
         IN  IsFiniteSet(ids) /\ Cardinality(ids) = Len(found)
<1> DEFINE ids == {found[i].id : i \in DOMAIN found}
           n == Len(found)
           f == [i \in 1 .. n |-> found[i].id]
<1>1. n \in Nat /\ DOMAIN found = 1 .. n
  BY ListHas
<1>2. f \in Bijection(1 .. n, ids)
  BY <1>1 DEF Bijection, Injection, Surjection, IsInjective
<1>3. IsFiniteSet(1 .. n) /\ Cardinality(1 .. n) = n
  <2>1. IsFiniteSet(1 .. n) /\ Cardinality(1 .. n) = IF 1 > n THEN 0 ELSE n - 1 + 1
    <3>1. 1 \in Int /\ n \in Int
      BY <1>1
    <3> HIDE DEF n
    <3> QED
      BY <3>1, FS_Interval
  <2> QED
    BY <1>1, <2>1
<1> HIDE DEF f, n, ids
<1>4. ExistsBijection(1 .. n, ids)
  BY <1>2 DEF ExistsBijection
<1>5. IsFiniteSet(ids) /\ Cardinality(ids) = Cardinality(1 .. n)
  BY <1>3, <1>4, FS_Bijection
<1> QED
  BY <1>3, <1>5 DEF ids, n

LEMMA SortedFinds ==
  ASSUME NEW documents, GoodDocuments(documents), NEW found, Finds(found, documents), NEW sort
  PROVE  Finds(NormalizeSort(found, sort), documents)
<1> DEFINE ids == {found[i].id : i \in DOMAIN found}
           n == Len(found)
           ByRank(k) == found[PositionOf(found, Nth(ids, k))]
<1>1. n \in Nat /\ DOMAIN found = 1 .. n
  BY ListHas DEF Finds
<1>2. ids \in SUBSET Nat /\ IsFiniteSet(ids) /\ Cardinality(ids) = n
  <2>1. IsFiniteSet(ids) /\ Cardinality(ids) = n
    BY IdsCounted DEF Finds
  <2>2. ASSUME NEW i \in DOMAIN found PROVE found[i].id \in Nat
    BY IdsAssumption DEF Finds, GoodDocuments, ToSet
  <2> QED
    BY <2>1, <2>2
<1> HIDE DEF ids, n
<1>3. /\ \A k \in 1 .. n : Nth(ids, k) \in ids
      /\ \A k, m \in 1 .. n : k < m => Nth(ids, k) < Nth(ids, m)
  BY <1>2, NthIsRank
<1>4. ASSUME NEW k \in 1 .. n
      PROVE  ByRank(k) \in ToSet(documents) /\ ByRank(k).id = Nth(ids, k)
  <2>1. PICK i \in DOMAIN found : found[i].id = Nth(ids, k)
    BY <1>3 DEF ids
  <2>2. PositionOf(found, Nth(ids, k)) \in DOMAIN found /\ ByRank(k).id = Nth(ids, k)
    BY <2>1 DEF PositionOf
  <2> QED
    BY <2>2 DEF Finds
<1>5. ASSUME NEW k \in 1 .. n, NEW m \in 1 .. n, ByRank(k).id = ByRank(m).id PROVE k = m
  <2>1. Nth(ids, k) = Nth(ids, m) /\ Nth(ids, k) \in Nat
    BY <1>2, <1>3, <1>4, <1>5
  <2>2. ~(Nth(ids, k) < Nth(ids, m)) /\ ~(Nth(ids, m) < Nth(ids, k))
    BY <2>1
  <2>3. k = m \/ k < m \/ m < k
    BY <1>1
  <2> QED
    BY <1>3, <2>2, <2>3
<1> DEFINE up == [k \in 1 .. n |-> ByRank(k)]
           down == [k \in 1 .. n |-> ByRank(n + 1 - k)]
<1>6. NormalizeSort(found, sort) \in {found, up, down}
  BY DEF NormalizeSort, ids, n
<1>7. Finds(up, documents)
  <2>1. up = [k \in 1 .. n |-> up[k]] /\ \A k \in 1 .. n : up[k] = ByRank(k)
    OBVIOUS
  <2> HIDE DEF up, ByRank
  <2>2. IsList(up) /\ DOMAIN up = 1 .. n
    BY <1>1, <2>1, ListOf
  <2> QED
    BY <1>4, <1>5, <2>1, <2>2 DEF Finds
<1>8. Finds(down, documents)
  <2>1. down = [k \in 1 .. n |-> down[k]] /\ \A k \in 1 .. n : down[k] = ByRank(n + 1 - k)
    OBVIOUS
  <2> HIDE DEF down, ByRank
  <2>2. IsList(down) /\ DOMAIN down = 1 .. n
    BY <1>1, <2>1, ListOf
  <2>3. \A k \in 1 .. n : n + 1 - k \in 1 .. n
    BY <1>1
  <2>4. \A k \in DOMAIN down : down[k] \in ToSet(documents)
    BY <1>4, <2>1, <2>2, <2>3
  <2>5. ASSUME NEW k \in 1 .. n, NEW m \in 1 .. n, down[k].id = down[m].id PROVE k = m
    <3>1. n + 1 - k = n + 1 - m
      BY <1>5, <2>1, <2>3, <2>5
    <3> QED
      BY <1>1, <3>1
  <2> QED
    BY <2>2, <2>4, <2>5 DEF Finds
<1> QED
  BY <1>6, <1>7, <1>8

LEMMA FoundStored ==
  ASSUME NEW c, GoodDocuments(c.documents), NEW filter, NEW sort, NEW limit \in Nat
  PROVE  Finds(FindStored(c, filter, sort, limit), c.documents)
<1> DEFINE documents == c.documents
           matching == {i \in DOMAIN documents : Matches(filter, documents[i])}
           all == At(documents, matching)
           found == NormalizeSort(all, sort)
<1>1. IsList(documents) /\ matching \in SUBSET (DOMAIN documents)
  BY DEF GoodDocuments
<1> HIDE DEF matching
<1>2. /\ IsList(all)
      /\ \A n \in DOMAIN all : Nth(matching, n) \in matching /\ all[n] = documents[Nth(matching, n)]
      /\ \A m, n \in DOMAIN all : Nth(matching, m) = Nth(matching, n) => m = n
  <2> HIDE DEF documents
  <2> QED
    BY <1>1, AtPositions
<1> HIDE DEF all
<1>3. Finds(all, documents)
  <2>1. \A n \in DOMAIN all : all[n] \in ToSet(documents)
    BY <1>1, <1>2 DEF ToSet
  <2>2. \A m, n \in DOMAIN all : all[m].id = all[n].id => m = n
    BY <1>1, <1>2 DEF GoodDocuments
  <2> QED
    BY <1>2, <2>1, <2>2 DEF Finds
<1>4. Finds(found, documents)
  BY <1>3, SortedFinds
<1> HIDE DEF found
<1>5. CASE limit = 0 \/ Len(found) <= limit
  BY <1>4, <1>5 DEF FindStored, found, all, matching
<1>6. CASE ~(limit = 0 \/ Len(found) <= limit)
  <2>1. IsList(found) /\ Len(found) \in Nat /\ DOMAIN found = 1 .. Len(found)
    BY <1>4, ListHas DEF Finds
  <2>2. limit \in 0 .. Len(found)
    BY <1>6, <2>1
  <2> DEFINE first == SubSeq(found, 1, limit)
  <2>3. first = [i \in 1 .. limit |-> found[i]]
    BY <2>1, <2>2
  <2>4. first = [i \in 1 .. limit |-> first[i]] /\ \A i \in 1 .. limit : first[i] = found[i]
    BY <2>3
  <2> HIDE DEF first
  <2>5. IsList(first) /\ DOMAIN first = 1 .. limit
    BY <2>4, ListOf
  <2>6. \A i \in 1 .. limit : i \in DOMAIN found
    BY <2>1, <2>2
  <2>7. Finds(first, documents)
    BY <1>4, <2>4, <2>5, <2>6 DEF Finds
  <2> QED
    BY <1>6, <2>7 DEF FindStored, first, found, all, matching
<1> QED
  BY <1>5, <1>6

-----------------------------------------------------------------------------
(* The commands on documents *)

LEMMA InsertManyKeepsGood ==
  ASSUME NEW c, GoodCollection(c), NEW documents, IsList(documents),
         \A i \in DOMAIN documents : documents[i].id \in Ids
  PROVE  GoodCollection(InsertManyInto(c, documents).collection)
<1> DEFINE n == Len(documents)
<1>1. n \in Nat /\ DOMAIN documents = 1 .. n
  BY ListHas
<1>2. PICK run : /\ run[0] = Begun(c)
                 /\ \A k \in 1 .. n : run[k] = InsertStored(run[k - 1], documents[k])
                 /\ InsertManyInto(c, documents) = run[n]
  <2>1. InsertManyInto(c, documents) = InsertAll(Begun(c), documents)
    BY DEF InsertManyInto, InsertAll
  <2> QED
    BY <2>1, InsertRuns
<1> HIDE DEF n
<1> DEFINE K == {k \in Nat : k <= n => GoodCollection(run[k].collection)}
<1>3. 0 \in K
  BY <1>2 DEF Begun
<1>4. ASSUME NEW k \in Nat, k \in K PROVE k + 1 \in K
  <2> SUFFICES ASSUME k + 1 <= n PROVE GoodCollection(run[k + 1].collection)
    OBVIOUS
  <2>1. k + 1 \in 1 .. n /\ k + 1 - 1 = k /\ k <= n
    BY <1>1
  <2>2. GoodCollection(run[k].collection)
    BY <1>4, <2>1
  <2>3. run[k + 1] = InsertStored(run[k], documents[k + 1]) /\ documents[k + 1].id \in Ids
    <3> DEFINE m == k + 1
    <3>1. m \in 1 .. n /\ m - 1 = k /\ documents[m].id \in Ids
      BY <1>1, <2>1
    <3>2. run[m] = InsertStored(run[m - 1], documents[m])
      BY <1>2, <3>1
    <3> HIDE DEF m
    <3>3. run[m] = InsertStored(run[k], documents[m])
      BY <3>1, <3>2
    <3> QED
      BY <3>1, <3>3 DEF m
  <2> QED
    BY <2>2, <2>3, InsertKeepsGood
<1>5. Nat \subseteq K
  <2> HIDE DEF K
  <2> QED
    BY <1>3, <1>4, CountsUp
<1> QED
  BY <1>1, <1>2, <1>5

\* the documents found are removed one by one: those not reached yet are still there
LEMMA DeleteKeepsGood ==
  ASSUME NEW c, GoodCollection(c), NEW write, write.limit \in Nat
  PROVE  GoodCollection(DeleteMatching(c, write).collection)
<1> DEFINE found == FindStored(c, write.filter, write.sort, write.limit)
           n == Len(found)
<1>1. Finds(found, c.documents)
  BY FoundStored DEF GoodCollection
<1>2. DeleteMatching(c, write) = RemoveAll(Begun(c), found)
  BY DEF DeleteMatching, RemoveAll
<1> HIDE DEF found
<1>3. n \in Nat /\ DOMAIN found = 1 .. n
  BY <1>1, ListHas DEF Finds
<1>4. PICK run : /\ run[0] = Begun(c)
                 /\ \A k \in 1 .. n : run[k] = RemoveStored(run[k - 1], found[k])
                 /\ DeleteMatching(c, write) = run[n]
  BY <1>1, <1>2, RemoveRuns DEF Finds
<1> HIDE DEF n
<1> DEFINE Done(k) == /\ GoodCollection(run[k].collection)
                      /\ \A j \in k + 1 .. n : found[j] \in ToSet(run[k].collection.documents)
           K == {k \in Nat : k <= n => Done(k)}
<1>5. 0 \in K
  BY <1>1, <1>3, <1>4 DEF Begun, Finds
<1>6. ASSUME NEW k \in Nat, k \in K PROVE k + 1 \in K
  <2> SUFFICES ASSUME k + 1 <= n PROVE Done(k + 1)
    OBVIOUS
  <2>1. k + 1 \in 1 .. n /\ k + 1 - 1 = k /\ k <= n
    BY <1>3
  <2>2. Done(k) /\ run[k + 1] = RemoveStored(run[k], found[k + 1])
    BY <1>4, <1>6, <2>1
  <2>3. found[k + 1] \in ToSet(run[k].collection.documents)
    BY <2>1, <2>2
  <2>4. /\ GoodCollection(run[k + 1].collection)
        /\ ToSet(run[k + 1].collection.documents) = ToSet(run[k].collection.documents) \ {found[k + 1]}
    BY <2>2, <2>3, RemoveKeepsGood
  <2>5. ASSUME NEW j \in k + 1 + 1 .. n
        PROVE  found[j] \in ToSet(run[k].collection.documents) /\ found[j] # found[k + 1]
    <3>1. j \in k + 1 .. n /\ j \in 1 .. n /\ j # k + 1
      BY <1>3
    <3> QED
      BY <1>1, <1>3, <2>1, <2>2, <3>1 DEF Finds
  <2> QED
    BY <2>4, <2>5
<1>7. Nat \subseteq K
  <2> HIDE DEF K
  <2> QED
    BY <1>5, <1>6, CountsUp
<1>8. Done(n)
  BY <1>3, <1>7
<1> QED
  BY <1>4, <1>8

\* the documents found are updated one by one, until one is refused
LEMMA UpdateAllKeepsGood ==
  ASSUME NEW c, GoodCollection(c), NEW found, Finds(found, c.documents), NEW update
  PROVE  GoodCollection(UpdateAll(Begun(c), found, update).collection)
<1> DEFINE n == Len(found)
<1>2. IsList(found)
  BY DEF Finds
<1>3. n \in Nat /\ DOMAIN found = 1 .. n
  BY <1>2, ListHas
<1>4. PICK run : /\ run[0] = Begun(c)
                 /\ \A k \in 1 .. n : run[k] = UpdateStored(run[k - 1], found[k], update)
                 /\ UpdateAll(Begun(c), found, update) = run[n]
  <2>1. \E run : UpdatesRun(run, Begun(c), found, update)
    BY <1>2, UpdateRuns
  <2> QED
    BY <2>1 DEF UpdatesRun
<1> HIDE DEF n
<1> DEFINE Done(k) == /\ GoodCollection(run[k].collection)
                      /\ \A j \in k + 1 .. n : found[j] \in ToSet(run[k].collection.documents)
           K == {k \in Nat : k <= n => Done(k)}
<1>5. 0 \in K
  BY <1>3, <1>4 DEF Begun, Finds
<1>6. ASSUME NEW k \in Nat, k \in K PROVE k + 1 \in K
  <2> SUFFICES ASSUME k + 1 <= n PROVE Done(k + 1)
    OBVIOUS
  <2>1. k + 1 \in 1 .. n /\ k + 1 - 1 = k /\ k <= n
    BY <1>3
  <2>2. Done(k) /\ run[k + 1] = UpdateStored(run[k], found[k + 1], update)
    BY <1>4, <1>6, <2>1
  <2>3. found[k + 1] \in ToSet(run[k].collection.documents)
    BY <2>1, <2>2
  <2>4. /\ GoodCollection(run[k + 1].collection)
        /\ \A d \in ToSet(run[k].collection.documents) :
              d = found[k + 1] \/ d \in ToSet(run[k + 1].collection.documents)
    BY <2>2, <2>3, UpdateKeepsGood
  <2>5. ASSUME NEW j \in k + 1 + 1 .. n
        PROVE  found[j] \in ToSet(run[k].collection.documents) /\ found[j] # found[k + 1]
    <3>1. j \in k + 1 .. n /\ j \in 1 .. n /\ j # k + 1
      BY <1>3
    <3> QED
      BY <1>3, <2>1, <2>2, <3>1 DEF Finds
  <2> QED
    BY <2>4, <2>5
<1>7. Nat \subseteq K
  <2> HIDE DEF K
  <2> QED
    BY <1>5, <1>6, CountsUp
<1>8. Done(n)
  BY <1>3, <1>7
<1> QED
  BY <1>4, <1>8

\* the id an upsert inserts: the one named, or one no document has
LEMMA AssignedId ==
  ASSUME NEW c, GoodDocuments(c.documents), NEW filter, NEW update,
         {filter.id, update.id} \subseteq Ids \cup {NoId},
         filter.id # NoId \/ update.id # NoId \/ ~IsFiniteSet(Ids)
  PROVE  AssignId(ApplyUpdate(CreateUpsertBase(filter), update, TRUE), c).id \in Ids
<1> DEFINE document == ApplyUpdate(CreateUpsertBase(filter), update, TRUE)
           taken == {c.documents[i].id : i \in DOMAIN c.documents}
<1>1. document.id = IF update.id # NoId THEN update.id ELSE filter.id
  BY DEF ApplyUpdate, CreateUpsertBase
<1>2. document = [document EXCEPT !.id = document.id] /\ "id" \in DOMAIN document
  BY DEF ApplyUpdate, CreateUpsertBase
<1> SUFFICES AssignId(document, c).id \in Ids
  OBVIOUS
<1> HIDE DEF document
<1>3. CASE document.id # NoId
  BY <1>1, <1>3 DEF AssignId
<1>4. CASE document.id = NoId
  <2>1. ~IsFiniteSet(Ids)
    BY <1>1, <1>4
  <2>2. IsFiniteSet(taken)
    BY IdsCounted DEF GoodDocuments
  <2>3. \E i \in Ids : i \notin taken
    <3> HIDE DEF taken
    <3>1. ~(Ids \in SUBSET taken)
      BY <2>1, <2>2, FS_Subset
    <3> QED
      BY <3>1
  <2>4. \E i \in Ids : \A j \in DOMAIN c.documents : c.documents[j].id # i
    BY <2>3
  <2> DEFINE new == CHOOSE i \in Ids : \A j \in DOMAIN c.documents : c.documents[j].id # i
  <2>5. new \in Ids
    BY <2>4
  <2>6. AssignId(document, c) = [document EXCEPT !.id = new]
    BY <1>4 DEF AssignId
  <2> HIDE DEF new
  <2> QED
    BY <1>2, <2>5, <2>6
<1> QED
  BY <1>3, <1>4

LEMMA UpdateMatchingKeepsGood ==
  ASSUME NEW c, GoodCollection(c), NEW write \in Updates
  PROVE  GoodCollection(UpdateMatching(c, write).collection)
<1> DEFINE found == FindStored(c, write.filter, write.sort, write.limit)
<1>1. /\ write.limit \in Nat
      /\ {write.filter.id, write.update.id} \subseteq Ids \cup {NoId}
      /\ write.upsert => write.filter.id # NoId \/ write.update.id # NoId \/ ~IsFiniteSet(Ids)
  BY WritesAssumption
<1>2. Finds(found, c.documents)
  BY <1>1, FoundStored DEF GoodCollection
<1> HIDE DEF found
<1>3. CASE found # <<>>
  <2>1. UpdateMatching(c, write) = UpdateAll(Begun(c), found, write.update)
    BY <1>3 DEF UpdateMatching, UpdateAll, found
  <2> QED
    BY <1>2, <2>1, UpdateAllKeepsGood
<1>4. CASE found = <<>> /\ write.upsert
  <2> DEFINE document == AssignId(ApplyUpdate(CreateUpsertBase(write.filter), write.update, TRUE), c)
  <2>1. document.id \in Ids
    BY <1>1, <1>4, AssignedId DEF GoodCollection
  <2>2. UpdateMatching(c, write) = InsertStored(Begun(c), document)
    BY <1>4 DEF UpdateMatching, UpsertStored, found, Begun
  <2>3. Begun(c).collection = c
    BY DEF Begun
  <2> HIDE DEF document
  <2> QED
    BY <2>1, <2>2, <2>3, InsertKeepsGood
<1>5. CASE found = <<>> /\ ~write.upsert
  BY <1>5 DEF UpdateMatching, found, Begun
<1> QED
  BY <1>3, <1>4, <1>5

LEMMA EmptyIsGood == GoodCollection(Empty)
BY EmptyList DEF Empty, GoodCollection, GoodDocuments, GoodIndexes

LEMMA ClearKeepsGood ==
  ASSUME NEW c, GoodCollection(c)
  PROVE  GoodCollection(Cleared(c))
<1> DEFINE cleared == [i \in DOMAIN c.indexes |-> [c.indexes[i] EXCEPT !.owners = <<>>]]
<1>1. Cleared(c) = [documents |-> <<>>, indexes |-> cleared, exists |-> c.exists]
  <2>1. c = [documents |-> c.documents, indexes |-> c.indexes, exists |-> c.exists]
    BY DEF GoodCollection
  <2>2. Cleared(c) = [c EXCEPT !.documents = <<>>, !.indexes = cleared]
    BY DEF Cleared
  <2> HIDE DEF cleared
  <2> QED
    BY <2>1, <2>2
<1>2. IsList(c.indexes) /\ Len(c.indexes) \in Nat /\ DOMAIN c.indexes = 1 .. Len(c.indexes)
  BY ListHas DEF GoodCollection, GoodIndexes
<1>3. ToSet(<<>>) = {}
  BY EmptyList DEF ToSet
<1>4. ASSUME NEW i \in DOMAIN c.indexes
      PROVE  GoodIndex(cleared[i], {}) /\ cleared[i].info = c.indexes[i].info
  <2>1. /\ IsIndex(c.indexes[i])
        /\ ComparedFields \cup {"name", "key"} \subseteq DOMAIN c.indexes[i].info
    BY DEF GoodCollection, GoodIndexes, GoodIndex
  <2> DEFINE x == cleared[i]
  <2>2. x = [info |-> c.indexes[i].info, owners |-> <<>>]
    BY <2>1 DEF IsIndex
  <2> HIDE DEF x
  <2>3. IsIndex(x) /\ x.info = c.indexes[i].info /\ x.owners = <<>>
    BY <2>2 DEF IsIndex
  <2>4. Exact(x, {})
    BY <2>3, EmptyList DEF Exact
  <2>5. GoodIndex(x, {})
    BY <2>1, <2>3, <2>4 DEF GoodIndex
  <2> QED
    BY <2>3, <2>5 DEF x
<1>5. cleared = [i \in 1 .. Len(c.indexes) |-> cleared[i]]
  BY <1>2
<1> HIDE DEF cleared
<1>6. IsList(cleared) /\ DOMAIN cleared = DOMAIN c.indexes
  BY <1>2, <1>5, ListOf
<1>7. GoodIndexes(cleared, {})
  BY <1>4, <1>6 DEF GoodIndexes, GoodCollection
<1>8. GoodDocuments(<<>>)
  BY EmptyList DEF GoodDocuments
<1> QED
  BY <1>1, <1>3, <1>7, <1>8 DEF GoodCollection

-----------------------------------------------------------------------------
(* The commands on indexes *)

\* the documents stored enter a new index one by one, or one of them is refused
IsNewIndex(base, info) == base = [index |-> [info |-> info, owners |-> <<>>], error |-> Succeeded]

LEMMA EntersAll ==
  ASSUME NEW documents, GoodDocuments(documents), NEW info,
         NEW base, IsNewIndex(base, info)
  PROVE  LET built == EnterAll(base, documents)
         IN  built.error = Succeeded =>
               /\ IsIndex(built.index) /\ built.index.info = info
               /\ Exact(built.index, ToSet(documents))
<1> DEFINE n == Len(documents)
           First(k) == {documents[i] : i \in 1 .. k}
<1>1. IsList(documents) /\ n \in Nat /\ DOMAIN documents = 1 .. n
  BY ListHas DEF GoodDocuments
<1> HIDE DEF n
<1>2. PICK run : /\ run[0] = base
                 /\ \A k \in 1 .. n : run[k] = EnterDocument(run[k - 1], documents[k])
                 /\ EnterAll(base, documents) = run[n]
  BY <1>1, EnterRuns DEF n
<1> DEFINE Holds1(r, k) == r.error = Succeeded =>
                              /\ IsIndex(r.index) /\ r.index.info = info
                              /\ Exact(r.index, First(k))
           K == {k \in Nat : k <= n => Holds1(run[k], k)}
<1>3. 0 \in K
  <2>1. First(0) = {}
    OBVIOUS
  <2>2. run[0].index = [info |-> info, owners |-> <<>>]
    BY <1>2 DEF IsNewIndex
  <2>3. Exact(run[0].index, {})
    BY <2>2, EmptyList DEF Exact
  <2>4. IsIndex(run[0].index) /\ run[0].index.info = info
    BY <2>2 DEF IsIndex
  <2> HIDE DEF First
  <2> QED
    BY <2>1, <2>3, <2>4
<1>4. ASSUME NEW k \in Nat, k \in K PROVE k + 1 \in K
  <2> SUFFICES ASSUME k + 1 <= n PROVE Holds1(run[k + 1], k + 1)
    OBVIOUS
  <2> DEFINE r == run[k]
             document == documents[k + 1]
  <2>1. k + 1 \in 1 .. n /\ k + 1 - 1 = k /\ k <= n
    BY <1>1
  <2>2. Holds1(r, k) /\ run[k + 1] = EnterDocument(r, document)
    BY <1>2, <1>4, <2>1
  <2>3. \A d \in First(k) : d.id # document.id
    <3>1. \A i \in 1 .. k : i \in DOMAIN documents /\ i # k + 1 /\ k + 1 \in DOMAIN documents
      BY <1>1, <2>1
    <3> QED
      BY <3>1 DEF GoodDocuments
  <2>4. First(k + 1) = First(k) \cup {document}
    <3>1. \A i : i \in 1 .. k + 1 <=> i \in 1 .. k \/ i = k + 1
      BY <1>1
    <3> QED
      BY <3>1
  <2> HIDE DEF First, r, document
  <2> SUFFICES ASSUME EnterDocument(r, document).error = Succeeded
               PROVE  /\ IsIndex(EnterDocument(r, document).index)
                      /\ EnterDocument(r, document).index.info = info
                      /\ Exact(EnterDocument(r, document).index, First(k) \cup {document})
    BY <2>2, <2>4
  <2>5. /\ r.error = Succeeded /\ AssertCanWrite(r.index, document)
        /\ EnterDocument(r, document).index = WriteEntries(r.index, {}, {document})
    BY DEF EnterDocument, DuplicateKey, Succeeded
  <2>6. IsIndex(r.index) /\ r.index.info = info /\ Exact(r.index, First(k))
    BY <2>2, <2>5
  <2> DEFINE x == WriteEntries(r.index, {}, {document})
  <2>7. IsIndex(x) /\ x.info = r.index.info /\ Exact(x, First(k) \cup {document})
    BY <2>3, <2>5, <2>6, KeysEnter
  <2> HIDE DEF x
  <2> QED
    BY <2>5, <2>6, <2>7 DEF x
<1>5. Nat \subseteq K
  <2> HIDE DEF K
  <2> QED
    BY <1>3, <1>4, CountsUp
<1>6. Holds1(run[n], n)
  <2> HIDE DEF Holds1
  <2> QED
    BY <1>1, <1>5
<1>7. First(n) = ToSet(documents)
  BY <1>1 DEF ToSet
<1> QED
  BY <1>2, <1>6, <1>7

\* the result with an index more than those of r, unless it is an error
IsBuiltOn(next, r, info) ==
    next.error = Succeeded =>
        /\ r.error = Succeeded
        /\ GoodCollection(next.collection)
        /\ next.collection.documents = r.collection.documents
        /\ \A i \in DOMAIN next.collection.indexes :
              \/ next.collection.indexes[i].info.name = info.name
              \/ \E j \in DOMAIN r.collection.indexes :
                    next.collection.indexes[i].info.name = r.collection.indexes[j].info.name

LEMMA BuildKeepsGood ==
  ASSUME NEW r, GoodCollection(r.collection), NEW info, HasOptions(info),
         \A i \in DOMAIN r.collection.indexes : r.collection.indexes[i].info.name # info.name
  PROVE  IsBuiltOn(BuildIndex(r, info, r.collection.documents), r, info)
<1> DEFINE c == r.collection
           base == [index |-> [info |-> info, owners |-> <<>>], error |-> Succeeded]
           built == EnterAll(base, c.documents)
           next == BuildIndex(r, info, c.documents)
           indexes == Append(c.indexes, built.index)
<1> SUFFICES ASSUME next.error = Succeeded
             PROVE  /\ r.error = Succeeded
                    /\ GoodCollection(next.collection)
                    /\ next.collection.documents = r.collection.documents
                    /\ \A i \in DOMAIN next.collection.indexes :
                         \/ next.collection.indexes[i].info.name = info.name
                         \/ \E j \in DOMAIN r.collection.indexes :
                               next.collection.indexes[i].info.name = r.collection.indexes[j].info.name
  BY DEF IsBuiltOn
<1>1. built.error = Succeeded =>
        /\ IsIndex(built.index) /\ built.index.info = info
        /\ Exact(built.index, ToSet(c.documents))
  BY EntersAll DEF GoodCollection, IsNewIndex
<1> HIDE DEF built
<1>2. r.error = Succeeded /\ built.error = Succeeded
  BY DEF BuildIndex, EnterAll, Refused, built
<1>3. next.collection = [documents |-> c.documents, indexes |-> indexes, exists |-> c.exists]
  BY <1>2 DEF BuildIndex, EnterAll, Begun, GoodCollection, built
<1> HIDE DEF next
<1>4. IsList(c.indexes) /\ Len(c.indexes) \in Nat /\ DOMAIN c.indexes = 1 .. Len(c.indexes)
  BY ListHas DEF GoodCollection, GoodIndexes
<1>5. /\ IsList(indexes) /\ DOMAIN indexes = 1 .. Len(c.indexes) + 1
      /\ \A i \in DOMAIN c.indexes : indexes[i] = c.indexes[i]
      /\ indexes[Len(c.indexes) + 1] = built.index
  BY <1>4, ListAppends
<1> HIDE DEF indexes
<1>6. \A i \in DOMAIN indexes : i \in DOMAIN c.indexes \/ (indexes[i] = built.index /\ i = Len(c.indexes) + 1)
  BY <1>4, <1>5
<1>7. GoodIndex(built.index, ToSet(c.documents))
  BY <1>1, <1>2 DEF GoodIndex, HasOptions
<1>8. GoodIndexes(indexes, ToSet(c.documents))
  <2>1. \A i \in DOMAIN indexes : GoodIndex(indexes[i], ToSet(c.documents))
    BY <1>5, <1>6, <1>7 DEF GoodCollection, GoodIndexes
  <2>2. \A i, j \in DOMAIN indexes : indexes[i].info.name = indexes[j].info.name => i = j
    BY <1>1, <1>2, <1>5, <1>6 DEF GoodCollection, GoodIndexes
  <2> QED
    BY <1>5, <2>1, <2>2 DEF GoodIndexes
<1>9. GoodCollection(next.collection)
  BY <1>3, <1>8 DEF GoodCollection
<1>10. \A i \in DOMAIN indexes :
          \/ indexes[i].info.name = info.name
          \/ \E j \in DOMAIN c.indexes : indexes[i].info.name = c.indexes[j].info.name
  BY <1>1, <1>2, <1>5, <1>6
<1> QED
  BY <1>2, <1>3, <1>9, <1>10

LEMMA ListedInfos ==
  ASSUME NEW c, IsList(c.indexes)
  PROVE  /\ IsList(ListInfos(c))
         /\ ToSet(ListInfos(c)) = {IdIndexInfo} \cup {c.indexes[i].info : i \in DOMAIN c.indexes}
<1> DEFINE n == Len(c.indexes)
           infos == [i \in DOMAIN c.indexes |-> c.indexes[i].info]
           T == {IdIndexInfo} \cup {c.indexes[i].info : i \in DOMAIN c.indexes}
           all == ListInfos(c)
<1>1. n \in Nat /\ DOMAIN c.indexes = 1 .. n
  BY ListHas
<1>2. infos \in Seq(T) /\ Len(infos) = n
  <2>1. \A i \in 1 .. n : infos[i] \in T
    BY <1>1
  <2>2. infos = [i \in 1 .. n |-> infos[i]]
    BY <1>1
  <2> HIDE DEF infos, T, n
  <2>3. infos \in [1 .. n -> T]
    BY <2>1, <2>2
  <2>4. infos \in Seq(T)
    BY <1>1, <2>3, SeqDef
  <2> QED
    BY <1>1, <2>2, <2>4, ListOf
<1>3. <<IdIndexInfo>> \in Seq(T) /\ Len(<<IdIndexInfo>>) = 1 /\ <<IdIndexInfo>>[1] = IdIndexInfo
  <2>1. IdIndexInfo \in T
    OBVIOUS
  <2> HIDE DEF T
  <2> QED
    BY <2>1
<1>4. all = <<IdIndexInfo>> \o infos
  BY DEF ListInfos
<1>5. \A i \in DOMAIN c.indexes : infos[i] = c.indexes[i].info
  OBVIOUS
<1>6. T = {IdIndexInfo} \cup {c.indexes[i].info : i \in DOMAIN c.indexes}
  OBVIOUS
<1> HIDE DEF all, infos, T, n
<1>7. /\ all \in Seq(T) /\ Len(all) = 1 + n
      /\ \A i \in 1 .. 1 + n : all[i] = IF i <= 1 THEN <<IdIndexInfo>>[i] ELSE infos[i - 1]
  BY <1>2, <1>3, <1>4, ConcatProperties
<1>8. DOMAIN all = 1 .. 1 + n
  BY <1>7, LenProperties
<1>9. ASSUME NEW x \in ToSet(all) PROVE x \in T
  BY <1>7, <1>9, ElementOfSeq, <1>8 DEF ToSet
<1>10. ASSUME NEW x \in T PROVE x \in ToSet(all)
  <2>1. CASE x = IdIndexInfo
    <3>1. 1 \in DOMAIN all /\ all[1] = IdIndexInfo
      BY <1>1, <1>3, <1>7, <1>8
    <3> QED
      BY <2>1, <3>1 DEF ToSet
  <2>2. CASE x # IdIndexInfo
    <3>1. PICK i \in DOMAIN c.indexes : x = infos[i]
      BY <1>5, <1>6, <2>2
    <3>2. i + 1 \in 1 .. 1 + n /\ ~(i + 1 <= 1) /\ i + 1 - 1 = i
      BY <1>1
    <3> DEFINE k == i + 1
    <3>3. all[k] = IF k <= 1 THEN <<IdIndexInfo>>[k] ELSE infos[k - 1]
      <4>1. k \in 1 .. 1 + n
        BY <3>2
      <4>2. \A j \in 1 .. 1 + n : all[j] = IF j <= 1 THEN <<IdIndexInfo>>[j] ELSE infos[j - 1]
        BY <1>7
      <4> HIDE DEF k
      <4> QED
        BY <4>1, <4>2, Zenon
    <3>4. all[k] = x
      <4>1. ~(k <= 1) /\ k - 1 = i
        BY <1>1
      <4> HIDE DEF k
      <4> QED
        BY <3>1, <3>3, <4>1, Zenon
    <3>5. k \in DOMAIN all
      BY <1>8, <3>2
    <3> QED
      BY <3>4, <3>5 DEF ToSet
  <2> QED
    BY <2>1, <2>2
<1>11. IsList(all)
  BY <1>7 DEF IsList
<1> QED
  BY <1>6, <1>9, <1>10, <1>11 DEF all

LEMMA InfoOfDescription ==
  ASSUME NEW description, HasOptions(description)
  PROVE  HasOptions(CreateIndexInfo(description)) /\ CreateIndexInfo(description).name = NameOf(description)
BY DEF HasOptions, CreateIndexInfo, NameOf

\* an index that is to be built has the name of none there is
LEMMA BuiltNameIsFree ==
  ASSUME NEW c, IsList(c.indexes), NEW info, IsAlreadyCreated(c, info) = Succeeded,
         NEW i \in DOMAIN c.indexes
  PROVE  c.indexes[i].info.name # info.name
<1> DEFINE infos == ToSet(ListInfos(c))
           sameName == {x \in infos : x.name = info.name}
<1>1. c.indexes[i].info \in infos
  BY ListedInfos
<1> HIDE DEF infos
<1>2. sameName = {}
  <2> HIDE DEF sameName
  <2>1. CASE info \in sameName
    BY <2>1 DEF IsAlreadyCreated, AlreadyCreated, Succeeded, infos, sameName
  <2>2. CASE info \notin sameName /\ sameName # {}
    BY <2>2 DEF IsAlreadyCreated, KeySpecsConflict, Succeeded, infos, sameName
  <2> QED
    BY <2>1, <2>2
<1> QED
  BY <1>1, <1>2

LEMMA CreateKeepsGood ==
  ASSUME NEW c, GoodCollection(c), NEW descriptions, IsList(descriptions),
         \A i \in DOMAIN descriptions : HasOptions(descriptions[i]), DistinctNames(descriptions)
  PROVE  GoodCollection(CreateIndexesIn(c, descriptions).collection)
<1> DEFINE checks == [i \in DOMAIN descriptions |-> IsAlreadyCreated(c, CreateIndexInfo(descriptions[i]))]
           positions == {i \in DOMAIN checks : checks[i] = Succeeded}
           missing == At(descriptions, positions)
           built == BuildAll(Begun(c), missing, c.documents)
           n == Len(missing)
<1>1. positions \in SUBSET (DOMAIN descriptions)
  OBVIOUS
<1>2. IsList(c.indexes)
  BY DEF GoodCollection, GoodIndexes
<1>3. ASSUME NEW i \in positions, NEW j \in DOMAIN c.indexes
      PROVE  c.indexes[j].info.name # NameOf(descriptions[i])
  <2>1. IsAlreadyCreated(c, CreateIndexInfo(descriptions[i])) = Succeeded
    OBVIOUS
  <2>2. CreateIndexInfo(descriptions[i]).name = NameOf(descriptions[i])
    BY <1>1, InfoOfDescription
  <2> QED
    BY <1>2, <2>1, <2>2, BuiltNameIsFree
<1>4. CASE CreateIndexesIn(c, descriptions).collection = c
  BY <1>4
<1>5. CASE /\ built.error = Succeeded
           /\ CreateIndexesIn(c, descriptions).collection = [built.collection EXCEPT !.exists = TRUE]
  <2> HIDE DEF positions, built
  <2>1. /\ IsList(missing)
        /\ \A k \in DOMAIN missing : Nth(positions, k) \in positions /\ missing[k] = descriptions[Nth(positions, k)]
        /\ \A m, k \in DOMAIN missing : Nth(positions, m) = Nth(positions, k) => m = k
    BY <1>1, AtPositions
  <2> HIDE DEF missing
  <2>2. n \in Nat /\ DOMAIN missing = 1 .. n
    BY <2>1, ListHas
  <2>3. PICK run : /\ run[0] = Begun(c)
                   /\ \A k \in 1 .. n : run[k] = BuildIndex(run[k - 1], CreateIndexInfo(missing[k]), c.documents)
                   /\ built = run[n]
    BY <2>1, BuildRuns DEF built
  <2> HIDE DEF n
  <2>4. ASSUME NEW k \in 1 .. n
        PROVE  /\ HasOptions(missing[k])
               /\ \A j \in DOMAIN c.indexes : c.indexes[j].info.name # NameOf(missing[k])
               /\ \A m \in 1 .. n : NameOf(missing[m]) = NameOf(missing[k]) => m = k
    BY <1>1, <1>3, <2>1, <2>2 DEF DistinctNames
  <2> DEFINE Built(r, k) ==
               r.error = Succeeded =>
                 /\ GoodCollection(r.collection)
                 /\ r.collection.documents = c.documents
                 /\ \A i \in DOMAIN r.collection.indexes :
                      \/ \E j \in DOMAIN c.indexes : r.collection.indexes[i].info.name = c.indexes[j].info.name
                      \/ \E m \in 1 .. k : r.collection.indexes[i].info.name = NameOf(missing[m])
             K == {k \in Nat : k <= n => Built(run[k], k)}
  <2>5. 0 \in K
    <3>1. run[0].collection = c
      BY <2>3 DEF Begun
    <3> QED
      BY <3>1
  <2>6. ASSUME NEW k \in Nat, k \in K PROVE k + 1 \in K
    <3> SUFFICES ASSUME k + 1 <= n PROVE Built(run[k + 1], k + 1)
      OBVIOUS
    <3> DEFINE r == run[k]
               next == run[k + 1]
               info == CreateIndexInfo(missing[k + 1])
    <3>1. k + 1 \in 1 .. n /\ k + 1 - 1 = k /\ k <= n /\ \A m \in 1 .. k : m \in 1 .. n /\ m # k + 1
      BY <2>2
    <3>2. Built(r, k) /\ next = BuildIndex(r, info, c.documents)
      BY <2>3, <2>6, <3>1
    <3>3. HasOptions(info) /\ info.name = NameOf(missing[k + 1])
      BY <2>4, <3>1, InfoOfDescription
    <3> SUFFICES ASSUME next.error = Succeeded
                 PROVE  /\ GoodCollection(next.collection)
                        /\ next.collection.documents = c.documents
                        /\ \A i \in DOMAIN next.collection.indexes :
                             \/ \E j \in DOMAIN c.indexes :
                                   next.collection.indexes[i].info.name = c.indexes[j].info.name
                             \/ \E m \in 1 .. k + 1 :
                                   next.collection.indexes[i].info.name = NameOf(missing[m])
      OBVIOUS
    <3> HIDE DEF r, next, info
    <3>4. r.error = Succeeded
      BY <3>2 DEF BuildIndex
    <3>5. /\ GoodCollection(r.collection)
          /\ r.collection.documents = c.documents
          /\ \A i \in DOMAIN r.collection.indexes :
                \/ \E j \in DOMAIN c.indexes : r.collection.indexes[i].info.name = c.indexes[j].info.name
                \/ \E m \in 1 .. k : r.collection.indexes[i].info.name = NameOf(missing[m])
      BY <3>2, <3>4
    <3>6. \A i \in DOMAIN r.collection.indexes : r.collection.indexes[i].info.name # info.name
      <4>1. \A j \in DOMAIN c.indexes : c.indexes[j].info.name # info.name
        BY <2>4, <3>1, <3>3
      <4>2. \A m \in 1 .. k : NameOf(missing[m]) # info.name
        BY <2>4, <3>1, <3>3
      <4> QED
        BY <3>5, <4>1, <4>2
    <3>7. next = BuildIndex(r, info, r.collection.documents)
      BY <3>2, <3>5
    <3>7a. IsBuiltOn(next, r, info)
      BY <3>3, <3>5, <3>6, <3>7, BuildKeepsGood
    <3>8. /\ GoodCollection(next.collection)
          /\ next.collection.documents = r.collection.documents
          /\ \A i \in DOMAIN next.collection.indexes :
                \/ next.collection.indexes[i].info.name = info.name
                \/ \E j \in DOMAIN r.collection.indexes :
                      next.collection.indexes[i].info.name = r.collection.indexes[j].info.name
      BY <3>7a DEF IsBuiltOn
    <3>9. ASSUME NEW i \in DOMAIN next.collection.indexes
          PROVE  \/ \E j \in DOMAIN c.indexes :
                       next.collection.indexes[i].info.name = c.indexes[j].info.name
                 \/ \E m \in 1 .. k + 1 :
                       next.collection.indexes[i].info.name = NameOf(missing[m])
      <4>1. k + 1 \in 1 .. k + 1 /\ \A m \in 1 .. k : m \in 1 .. k + 1
        BY <3>1
      <4>2. CASE next.collection.indexes[i].info.name = info.name
        BY <3>3, <4>1, <4>2
      <4>3. CASE \E j \in DOMAIN r.collection.indexes :
                   next.collection.indexes[i].info.name = r.collection.indexes[j].info.name
        BY <3>5, <4>1, <4>3
      <4> QED
        BY <3>8, <4>2, <4>3
    <3> QED
      BY <3>5, <3>8, <3>9
  <2>7. Nat \subseteq K
    <3> HIDE DEF K
    <3> QED
      BY <2>5, <2>6, CountsUp
  <2>8. Built(run[n], n)
    <3> HIDE DEF Built
    <3> QED
      BY <2>2, <2>7
  <2>9. GoodCollection(built.collection)
    BY <1>5, <2>3, <2>8
  <2> DEFINE b == built.collection
  <2> HIDE DEF b
  <2>10. [b EXCEPT !.exists = TRUE] = [documents |-> b.documents, indexes |-> b.indexes, exists |-> TRUE]
    <3>1. GoodCollection(b)
      BY <2>9 DEF b
    <3> QED
      BY <3>1, ExistsOf
  <2>11. GoodCollection([documents |-> b.documents, indexes |-> b.indexes, exists |-> TRUE])
    BY <2>9, GoodOf DEF GoodCollection, b
  <2> QED
    BY <1>5, <2>10, <2>11 DEF b
<1> QED
  <2>1. \/ CreateIndexesIn(c, descriptions).collection = c
        \/ /\ built.error = Succeeded
           /\ CreateIndexesIn(c, descriptions).collection = [built.collection EXCEPT !.exists = TRUE]
    BY DEF CreateIndexesIn, BuildAll, Begun, Refused
  <2> QED
    BY <1>4, <1>5, <2>1

LEMMA DropKeepsGood ==
  ASSUME NEW c, GoodCollection(c), NEW name
  PROVE  GoodCollection(DropIndexFrom(c, name).collection)
<1> DEFINE positions == {i \in DOMAIN c.indexes : c.indexes[i].info.name # name}
           left == At(c.indexes, positions)
<1>1. IsList(c.indexes) /\ positions \in SUBSET (DOMAIN c.indexes)
  BY DEF GoodCollection, GoodIndexes
<1> HIDE DEF positions
<1>2. /\ IsList(left)
      /\ \A k \in DOMAIN left : Nth(positions, k) \in positions /\ left[k] = c.indexes[Nth(positions, k)]
      /\ \A m, k \in DOMAIN left : Nth(positions, m) = Nth(positions, k) => m = k
  BY <1>1, AtPositions
<1> HIDE DEF left
<1>3. GoodIndexes(left, ToSet(c.documents))
  <2>1. \A k \in DOMAIN left : GoodIndex(left[k], ToSet(c.documents))
    BY <1>1, <1>2 DEF GoodCollection, GoodIndexes
  <2>2. \A k, m \in DOMAIN left : left[k].info.name = left[m].info.name => k = m
    BY <1>1, <1>2 DEF GoodCollection, GoodIndexes
  <2> QED
    BY <1>2, <2>1, <2>2 DEF GoodIndexes
<1>4. GoodCollection([documents |-> c.documents, indexes |-> left, exists |-> c.exists])
  BY <1>3, GoodOf DEF GoodCollection
<1>5. c = [documents |-> c.documents, indexes |-> c.indexes, exists |-> c.exists]
  BY DEF GoodCollection
<1>6. [c EXCEPT !.indexes = left] = [documents |-> c.documents, indexes |-> left, exists |-> c.exists]
  BY <1>5
<1>7. DropIndexFrom(c, name).collection \in {c, [c EXCEPT !.indexes = left]}
  BY DEF DropIndexFrom, Begun, Refused, left, positions
<1> QED
  BY <1>4, <1>6, <1>7

\* collMod changes neither the name of an index nor what its keys are made of
LEMMA ModifyKeepsGood ==
  ASSUME NEW c, GoodCollection(c), NEW name, NEW changes,
         DOMAIN changes \subseteq {"hidden", "expireAfterSeconds"}
  PROVE  GoodCollection(ModifyIndexOf(c, name, changes).collection)
<1> DEFINE at == {i \in DOMAIN c.indexes : c.indexes[i].info.name = name}
           Modified(x) == [x EXCEPT !.info = Over(changes, @)]
           changed == [i \in DOMAIN c.indexes |-> IF i \in at THEN Modified(c.indexes[i]) ELSE c.indexes[i]]
<1>1. IsList(c.indexes) /\ Len(c.indexes) \in Nat /\ DOMAIN c.indexes = 1 .. Len(c.indexes)
  BY ListHas DEF GoodCollection, GoodIndexes
<1>2. ASSUME NEW x, GoodIndex(x, ToSet(c.documents))
      PROVE  GoodIndex(Modified(x), ToSet(c.documents)) /\ Modified(x).info.name = x.info.name
  <2> DEFINE info == Over(changes, x.info)
             y == [info |-> info, owners |-> x.owners]
  <2>1. Modified(x) = y
    BY <1>2 DEF GoodIndex, IsIndex
  <2>2. /\ \A f \in DOMAIN x.info : f \notin DOMAIN changes => info[f] = x.info[f]
        /\ DOMAIN info = DOMAIN changes \cup DOMAIN x.info
    BY DEF Over
  <2> HIDE DEF info
  <2>3. /\ info.name = x.info.name /\ info.key = x.info.key /\ info.unique = x.info.unique
        /\ info.sparse = x.info.sparse /\ info.collation = x.info.collation
        /\ info.partialFilterExpression = x.info.partialFilterExpression
        /\ ComparedFields \cup {"name", "key"} \subseteq DOMAIN info
    BY <1>2, <2>2 DEF GoodIndex, ComparedFields
  <2>4. \A d : ListEntries(info, d) = ListEntries(x.info, d)
    BY <2>3 DEF ListEntries, SerializeValue
  <2>5. IsIndex(y) /\ y.info = info /\ y.owners = x.owners
    BY DEF IsIndex
  <2> HIDE DEF y
  <2>6. Exact(y, ToSet(c.documents))
    BY <1>2, <2>3, <2>4, <2>5 DEF GoodIndex, Exact
  <2> QED
    BY <2>1, <2>3, <2>5, <2>6 DEF GoodIndex
<1>3. changed = [i \in 1 .. Len(c.indexes) |-> changed[i]]
  BY <1>1
<1>4. ASSUME NEW i \in DOMAIN c.indexes
      PROVE  GoodIndex(changed[i], ToSet(c.documents)) /\ changed[i].info.name = c.indexes[i].info.name
  <2>1. GoodIndex(c.indexes[i], ToSet(c.documents))
    BY DEF GoodCollection, GoodIndexes
  <2>2. changed[i] = Modified(c.indexes[i]) \/ changed[i] = c.indexes[i]
    OBVIOUS
  <2> HIDE DEF Modified, changed
  <2> QED
    BY <1>2, <2>1, <2>2
<1>10. ModifyIndexOf(c, name, changes) \in
          {Refused(c, NamespaceNotFound), Refused(c, IndexNotFound), Begun([c EXCEPT !.indexes = changed])}
  <2> DEFINE next == [c EXCEPT !.indexes =
                       [i \in DOMAIN @ |-> IF i \in at THEN Modified(@[i]) ELSE @[i]]]
  <2>1. \/ ModifyIndexOf(c, name, changes) = Refused(c, NamespaceNotFound)
        \/ ModifyIndexOf(c, name, changes) = Refused(c, IndexNotFound)
        \/ ModifyIndexOf(c, name, changes) = Begun(next)
    <3>1. CASE ~c.exists
      BY <3>1 DEF ModifyIndexOf
    <3>2. CASE c.exists /\ at = {}
      BY <3>2 DEF ModifyIndexOf
    <3>3. CASE c.exists /\ at # {}
      <4>1. ModifyIndexOf(c, name, changes) = Begun(next)
        BY <3>3 DEF ModifyIndexOf
      <4> QED
        BY <4>1
    <3> QED
      BY <3>1, <3>2, <3>3
  <2>2. next = [c EXCEPT !.indexes = changed]
    OBVIOUS
  <2> QED
    BY <2>1, <2>2
<1> HIDE DEF changed
<1>11. ModifyIndexOf(c, name, changes).collection \in {c, [c EXCEPT !.indexes = changed]}
  BY <1>10 DEF Begun, Refused
<1>5. IsList(changed) /\ DOMAIN changed = DOMAIN c.indexes
  BY <1>1, <1>3, ListOf
<1>6. GoodIndexes(changed, ToSet(c.documents))
  BY <1>4, <1>5 DEF GoodIndexes, GoodCollection
<1>7. GoodCollection([documents |-> c.documents, indexes |-> changed, exists |-> c.exists])
  BY <1>6, GoodOf DEF GoodCollection
<1>8. c = [documents |-> c.documents, indexes |-> c.indexes, exists |-> c.exists]
  BY DEF GoodCollection
<1>9. [c EXCEPT !.indexes = changed] = [documents |-> c.documents, indexes |-> changed, exists |-> c.exists]
  BY <1>8
<1> QED
  BY <1>7, <1>9, <1>11

-----------------------------------------------------------------------------
(* What is declared, and the plan *)

LEMMA DeclaredList ==
  ASSUME NEW indexes, IsDeclaration(indexes)
  PROVE  /\ IsList(indexes) /\ DistinctNames(indexes)
         /\ \A i \in DOMAIN indexes : HasOptions(indexes[i])
BY DEF IsDeclaration, IsDescription, ValidDeclaration, IsList, DistinctNames, HasOptions

LEMMA DescriptionNamed ==
  ASSUME NEW index, HasOptions(index)
  PROVE  HasOptions(BuildDescription(index)) /\ NameOf(BuildDescription(index)) = NameOf(index)
<1> DEFINE b == BuildDescription(index)
<1>1. HasOptions(b) /\ b.name = NameOf(index) /\ b.key = index.key
  BY DEF BuildDescription, HasOptions
<1> HIDE DEF b
<1>2. NameOf(b) = IF NameOf(index) = <<>> THEN BuildIndexName(index.key) ELSE NameOf(index)
  BY <1>1 DEF NameOf
<1>3. NameOf(index) = <<>> => BuildIndexName(index.key) = NameOf(index)
  BY DEF NameOf
<1> QED
  BY <1>1, <1>2, <1>3 DEF b

Described(descriptions) == [i \in DOMAIN descriptions |-> BuildDescription(descriptions[i])]

LEMMA DescribedAt ==
  ASSUME NEW indexes, IsDeclaration(indexes), NEW positions \in SUBSET (DOMAIN indexes)
  PROVE  LET d == Described(At(indexes, positions))
         IN  /\ IsList(d) /\ DistinctNames(d)
             /\ \A i \in DOMAIN d : HasOptions(d[i])
             /\ \A i \in DOMAIN d : \E j \in positions : NameOf(d[i]) = NameOf(indexes[j])
<1> DEFINE t == At(indexes, positions)
           d == Described(t)
<1>1. /\ IsList(indexes) /\ DistinctNames(indexes)
      /\ \A i \in DOMAIN indexes : HasOptions(indexes[i])
  BY DeclaredList
<1>2. /\ IsList(t)
      /\ \A n \in DOMAIN t : Nth(positions, n) \in positions /\ t[n] = indexes[Nth(positions, n)]
      /\ \A m, n \in DOMAIN t : Nth(positions, m) = Nth(positions, n) => m = n
  BY <1>1, AtPositions
<1> HIDE DEF t
<1>3. Len(t) \in Nat /\ DOMAIN t = 1 .. Len(t)
  BY <1>2, ListHas
<1>4. d = [i \in 1 .. Len(t) |-> d[i]] /\ \A i \in DOMAIN t : d[i] = BuildDescription(t[i])
  BY <1>3 DEF Described
<1> HIDE DEF d
<1>5. IsList(d) /\ DOMAIN d = DOMAIN t
  BY <1>3, <1>4, ListOf
<1>6. \A n \in DOMAIN d : HasOptions(d[n]) /\ NameOf(d[n]) = NameOf(indexes[Nth(positions, n)])
  BY <1>1, <1>2, <1>4, <1>5, DescriptionNamed
<1>7. DistinctNames(d)
  BY <1>1, <1>2, <1>5, <1>6 DEF DistinctNames
<1> QED
  BY <1>2, <1>5, <1>6, <1>7 DEF d, t

LEMMA NoPlanGood == GoodPlan(NoPlan)
BY EmptyList DEF NoPlan, GoodPlan, DistinctNames

LEMMA DiffGood ==
  ASSUME NEW indexes, IsDeclaration(indexes), NEW infos, IsList(infos), NEW dropping
  PROVE  GoodPlan(DiffIndexes(indexes, infos, dropping))
<1> DEFINE plan == DiffIndexes(indexes, infos, dropping)
           existing == {NormalizeExistingIndex(i) : i \in ToSet(infos)}
           Declared(x) == NormalizeDeclaredIndex(x)
           Existing(x) == CHOOSE e \in existing : e.name = NameOf(x)
           IsMissing(x) == \A e \in existing : e.name # NameOf(x)
           IsSame(x) == ~IsMissing(x) /\ IsSameKey(Declared(x), Existing(x))
           IsKept(x) == IsSame(x) /\ DiffOptions(Declared(x), Existing(x)) = {}
           IsMod(x) == IsSame(x) /\ IsCollModApplicable(Declared(x), Existing(x))
           IsRemade(x) == ~IsMissing(x) /\ ~IsKept(x) /\ ~IsMod(x)
           create == {i \in DOMAIN indexes : IsMissing(indexes[i])}
           recreate == {i \in DOMAIN indexes : IsRemade(indexes[i])}
           modify == {i \in DOMAIN indexes : IsMod(indexes[i])}
           modified == At(indexes, modify)
           mods == [i \in DOMAIN modified |->
                      [name    |-> NameOf(modified[i]),
                       changes |-> BuildCollModChanges(Declared(modified[i]), Existing(modified[i]))]]
           undeclared == Undeclared(indexes, infos)
           drops == IF dropping THEN [i \in DOMAIN undeclared |-> undeclared[i].name] ELSE <<>>
<1>1. plan = [toCreate |-> Described(At(indexes, create)), toRecreate |-> Described(At(indexes, recreate)),
              toCollMod |-> mods, toDrop |-> drops]
  BY DEF DiffIndexes, Described
<1>2. create \cap recreate = {}
  OBVIOUS
<1>3. create \in SUBSET (DOMAIN indexes) /\ recreate \in SUBSET (DOMAIN indexes) /\ modify \in SUBSET (DOMAIN indexes)
  OBVIOUS
<1> DEFINE Diff(x) == DiffOptions(Declared(x), Existing(x))
<1>4. \A j \in modify : Diff(indexes[j]) \subseteq {"hidden", "expireAfterSeconds"}
  BY DEF IsCollModApplicable
<1>5. IsList(indexes) /\ DistinctNames(indexes)
  BY DeclaredList
<1>6. /\ IsList(modified)
      /\ \A n \in DOMAIN modified : Nth(modify, n) \in modify /\ modified[n] = indexes[Nth(modify, n)]
  <2> HIDE DEF modify
  <2> QED
    BY <1>3, <1>5, AtPositions
<1>7. IsList(mods) /\ \A i \in DOMAIN mods : IsChange(mods[i])
  <2> HIDE DEF modify
  <2> HIDE DEF modified
  <2> HIDE DEF existing
  <2>1. Len(modified) \in Nat /\ DOMAIN modified = 1 .. Len(modified)
    BY <1>6, ListHas
  <2>2. mods = [i \in 1 .. Len(modified) |-> mods[i]]
    BY <2>1
  <2>3. \A i \in DOMAIN modified :
          DOMAIN mods[i].changes = Diff(modified[i])
    BY DEF BuildCollModChanges
  <2> HIDE DEF Diff, mods
  <2>4. \A i \in DOMAIN modified : IsChange(mods[i])
    BY <1>4, <1>6, <2>3 DEF IsChange
  <2>5. IsList(mods) /\ DOMAIN mods = DOMAIN modified
    BY <2>1, <2>2, ListOf
  <2> QED
    BY <2>4, <2>5
<1>8. IsList(drops)
  <2> DEFINE gone == {i \in DOMAIN infos :
                        infos[i].name \notin {NameOf(indexes[j]) : j \in DOMAIN indexes} \cup {idIndexName}}
             names == [i \in DOMAIN undeclared |-> undeclared[i].name]
  <2>1. undeclared = At(infos, gone) /\ gone \in SUBSET (DOMAIN infos)
    BY DEF Undeclared
  <2> HIDE DEF gone, undeclared
  <2>2. IsList(undeclared)
    BY <2>1, AtPositions
  <2>3. Len(undeclared) \in Nat /\ DOMAIN undeclared = 1 .. Len(undeclared)
    BY <2>2, ListHas
  <2>4. names = [i \in 1 .. Len(undeclared) |-> names[i]]
    BY <2>3
  <2> HIDE DEF names
  <2>5. IsList(names)
    BY <2>3, <2>4, ListOf
  <2> QED
    BY <2>5, EmptyList DEF names
<1> HIDE DEF create, recreate, mods, drops, plan
<1> DEFINE c == Described(At(indexes, create))
           r == Described(At(indexes, recreate))
<1>9. /\ IsList(c) /\ DistinctNames(c) /\ \A i \in DOMAIN c : HasOptions(c[i])
      /\ \A i \in DOMAIN c : \E j \in create : NameOf(c[i]) = NameOf(indexes[j])
  BY <1>3, DescribedAt
<1>10. /\ IsList(r) /\ DistinctNames(r) /\ \A i \in DOMAIN r : HasOptions(r[i])
       /\ \A i \in DOMAIN r : \E j \in recreate : NameOf(r[i]) = NameOf(indexes[j])
  BY <1>3, DescribedAt
<1> HIDE DEF c, r
<1>11. \A i \in DOMAIN c : \A j \in DOMAIN r : NameOf(c[i]) # NameOf(r[j])
  BY <1>2, <1>3, <1>5, <1>9, <1>10 DEF DistinctNames
<1>12. plan.toCreate = c /\ plan.toRecreate = r /\ plan.toCollMod = mods /\ plan.toDrop = drops
  BY <1>1 DEF c, r
<1> QED
  BY <1>7, <1>8, <1>9, <1>10, <1>11, <1>12 DEF GoodPlan, plan

-----------------------------------------------------------------------------
(* A sync *)

LEMMA StoresListed ==
  /\ Len(Stores) \in Nat /\ DOMAIN Stores = 1 .. Len(Stores)
  /\ \A i \in DOMAIN Stores : IsDeclaration(Stores[i].indexes) /\ Stores[i].collection \in Collections
<1>1. IsList(Stores)
  BY StoresAssumption DEF IsList
<1> QED
  BY <1>1, ListHas, StoresAssumption

LEMMA QuietPending == \A phase \in {"idle", "listing", "over"} : GoodPending(phase, <<>>)
BY EmptyList DEF GoodPending, Looping

LEMMA IdleGood == GoodSync(Idle)
<1>1. 0 \in 0 .. Len(Stores)
  BY StoresListed
<1> QED
  BY <1>1, NoPlanGood, QuietPending DEF Idle, GoodSync, IsSync, Looping

LEMMA SyncOf ==
  ASSUME NEW phase \in Looping \cup {"idle", "listing", "over"}, NEW at \in 0 .. Len(Stores),
         phase \notin {"idle", "over"} => at > 0, NEW plan, GoodPlan(plan),
         phase \in {"idle", "listing", "over"} => plan = NoPlan,
         NEW pending, GoodPending(phase, pending), NEW conflict, NEW failed
  PROVE  GoodSync([phase |-> phase, at |-> at, plan |-> plan, pending |-> pending,
                   conflict |-> conflict, failed |-> failed])
BY DEF GoodSync, IsSync

LEMMA NextStoreGood ==
  ASSUME NEW s, IsSync(s)
  PROVE  GoodSync(NextStore(s))
<1> DEFINE n == Len(Stores)
<1>1. n \in Nat /\ s.at \in 0 .. n
  BY StoresListed DEF IsSync
<1>2. s = [phase |-> s.phase, at |-> s.at, plan |-> s.plan, pending |-> s.pending,
           conflict |-> s.conflict, failed |-> s.failed]
  BY DEF IsSync
<1>3. CASE s.at < n
  <2>1. NextStore(s) = [phase |-> "listing", at |-> s.at + 1, plan |-> NoPlan, pending |-> <<>>,
                        conflict |-> Succeeded, failed |-> s.failed]
    BY <1>2, <1>3 DEF NextStore
  <2>2. s.at + 1 \in 0 .. n /\ s.at + 1 > 0
    BY <1>1, <1>3
  <2>3. GoodPending("listing", <<>>)
    BY QuietPending
  <2> QED
    BY <2>1, <2>2, <2>3, NoPlanGood, SyncOf
<1>4. CASE ~(s.at < n)
  <2>1. NextStore(s) = [phase |-> "over", at |-> s.at, plan |-> NoPlan, pending |-> <<>>,
                        conflict |-> Succeeded, failed |-> s.failed]
    BY <1>2, <1>4 DEF NextStore
  <2>3. GoodPending("over", <<>>)
    BY QuietPending
  <2> QED
    BY <1>1, <2>1, <2>3, NoPlanGood, SyncOf
<1> QED
  BY <1>3, <1>4

LEMMA FailedGood ==
  ASSUME NEW s, IsSync(s), NEW code
  PROVE  GoodSync(Failed(s, code))
<1> DEFINE t == [s EXCEPT !.failed = @ \cup {<<StoreOf(s).collection, code>>}]
<1>1. s = [phase |-> s.phase, at |-> s.at, plan |-> s.plan, pending |-> s.pending,
           conflict |-> s.conflict, failed |-> s.failed]
  BY DEF IsSync
<1>2. t = [phase |-> s.phase, at |-> s.at, plan |-> s.plan, pending |-> s.pending,
           conflict |-> s.conflict, failed |-> s.failed \cup {<<StoreOf(s).collection, code>>}]
  BY <1>1
<1>3. Failed(s, code) = NextStore(t)
  BY DEF Failed
<1> HIDE DEF t
<1>4. IsSync(t)
  BY <1>2 DEF IsSync
<1> QED
  BY <1>3, <1>4, NextStoreGood

\* another phase of the same store
InPhase(s, phase, pending, conflict) ==
    [s EXCEPT !.phase = phase, !.pending = pending, !.conflict = conflict]

LEMMA PhaseIs ==
  ASSUME NEW s, IsSync(s), NEW phase, NEW pending, NEW conflict
  PROVE  InPhase(s, phase, pending, conflict) =
            [phase |-> phase, at |-> s.at, plan |-> s.plan, pending |-> pending,
             conflict |-> conflict, failed |-> s.failed]
<1> DEFINE t == [phase |-> phase, at |-> s.at, plan |-> s.plan, pending |-> pending,
                 conflict |-> conflict, failed |-> s.failed]
<1>1. s = [phase |-> s.phase, at |-> s.at, plan |-> s.plan, pending |-> s.pending,
           conflict |-> s.conflict, failed |-> s.failed]
  BY DEF IsSync
<1>2. InPhase(s, phase, pending, conflict) = t
  <2> DEFINE u == InPhase(s, phase, pending, conflict)
  <2>1. DOMAIN s = {"phase", "at", "plan", "pending", "conflict", "failed"}
    BY <1>1
  <2>2. /\ DOMAIN u = {"phase", "at", "plan", "pending", "conflict", "failed"}
        /\ u = [f \in DOMAIN u |-> u[f]]
        /\ u.phase = phase /\ u.pending = pending /\ u.conflict = conflict
        /\ u.at = s.at /\ u.plan = s.plan /\ u.failed = s.failed
    BY <2>1 DEF InPhase
  <2> HIDE DEF u
  <2>3. u = t
    BY <2>2
  <2> QED
    BY <2>3 DEF u
<1> QED
  BY <1>2

LEMMA PhaseGood ==
  ASSUME NEW s, IsSync(s), s.at > 0, GoodPlan(s.plan),
         NEW phase \in Looping, NEW pending, GoodPending(phase, pending), NEW conflict
  PROVE  GoodSync(InPhase(s, phase, pending, conflict))
<1> DEFINE t == [phase |-> phase, at |-> s.at, plan |-> s.plan, pending |-> pending,
                 conflict |-> conflict, failed |-> s.failed]
<1>1. InPhase(s, phase, pending, conflict) = t
  BY PhaseIs
<1>2. phase \notin {"idle", "listing", "over"} /\ phase \in Looping \cup {"idle", "listing", "over"}
  BY DEF Looping
<1>3. s.at \in 0 .. Len(Stores)
  BY DEF IsSync
<1>4. GoodSync(t)
  BY <1>2, <1>3, SyncOf
<1> HIDE DEF t
<1> QED
  BY <1>1, <1>4

\* the updates of a sync that leave some of these as they are
LEMMA SameStep ==
  ASSUME NEW s, IsSync(s), NEW phase, NEW conflict
  PROVE  [s EXCEPT !.phase = phase, !.conflict = conflict] = InPhase(s, phase, s.pending, conflict)
<1>1. s = [phase |-> s.phase, at |-> s.at, plan |-> s.plan, pending |-> s.pending,
           conflict |-> s.conflict, failed |-> s.failed]
  BY DEF IsSync
<1> QED
  BY <1>1 DEF InPhase

LEMMA SamePhase ==
  ASSUME NEW s, IsSync(s)
  PROVE  /\ \A phase, pending :
              [s EXCEPT !.phase = phase, !.pending = pending] = InPhase(s, phase, pending, s.conflict)
         /\ \A phase, conflict :
              [s EXCEPT !.phase = phase, !.conflict = conflict] = InPhase(s, phase, s.pending, conflict)
         /\ \A phase : [s EXCEPT !.phase = phase] = InPhase(s, phase, s.pending, s.conflict)
         /\ \A pending : [s EXCEPT !.pending = pending] = InPhase(s, s.phase, pending, s.conflict)
<1>1. s = [phase |-> s.phase, at |-> s.at, plan |-> s.plan, pending |-> s.pending,
           conflict |-> s.conflict, failed |-> s.failed]
  BY DEF IsSync
<1>2. ASSUME NEW phase, NEW pending
      PROVE  [s EXCEPT !.phase = phase, !.pending = pending] = InPhase(s, phase, pending, s.conflict)
  BY <1>1 DEF InPhase
<1>3. ASSUME NEW phase, NEW conflict
      PROVE  [s EXCEPT !.phase = phase, !.conflict = conflict] = InPhase(s, phase, s.pending, conflict)
  BY SameStep
<1>4. ASSUME NEW phase
      PROVE  [s EXCEPT !.phase = phase] = InPhase(s, phase, s.pending, s.conflict)
  BY <1>1 DEF InPhase
<1>5. ASSUME NEW pending
      PROVE  [s EXCEPT !.pending = pending] = InPhase(s, s.phase, pending, s.conflict)
  BY <1>1 DEF InPhase
<1> QED
  BY <1>2, <1>3, <1>4, <1>5

LEMMA ListsJoin ==
  ASSUME NEW s, IsList(s), NEW t, IsList(t)
  PROVE  LET u == s \o t
         IN  /\ IsList(u) /\ Len(u) = Len(s) + Len(t) /\ DOMAIN u = 1 .. Len(s) + Len(t)
             /\ \A i \in DOMAIN s : u[i] = s[i]
             /\ \A i \in DOMAIN u : i \in DOMAIN s \/ (i - Len(s) \in DOMAIN t /\ u[i] = t[i - Len(s)])
<1>1. PICK S, T : s \in Seq(S) /\ t \in Seq(T)
  BY DEF IsList
<1> DEFINE U == S \cup T
           u == s \o t
<1>2. s \in Seq(U) /\ t \in Seq(U)
  <2>1. S \subseteq U /\ T \subseteq U
    OBVIOUS
  <2> HIDE DEF U
  <2> QED
    BY <1>1, <2>1, SeqMonotonic
<1> HIDE DEF U
<1>3. /\ u \in Seq(U) /\ Len(u) = Len(s) + Len(t)
      /\ \A i \in 1 .. Len(s) + Len(t) : u[i] = IF i <= Len(s) THEN s[i] ELSE t[i - Len(s)]
  BY <1>2, ConcatProperties
<1>4. /\ Len(s) \in Nat /\ DOMAIN s = 1 .. Len(s)
      /\ Len(t) \in Nat /\ DOMAIN t = 1 .. Len(t)
      /\ DOMAIN u = 1 .. Len(u)
  BY <1>2, <1>3, LenProperties
<1> HIDE DEF u
<1>5. \A i \in DOMAIN s : u[i] = s[i]
  BY <1>3, <1>4
<1>6. ASSUME NEW i \in DOMAIN u, i \notin DOMAIN s
      PROVE  i - Len(s) \in DOMAIN t /\ u[i] = t[i - Len(s)]
  <2>1. i \in 1 .. Len(s) + Len(t) /\ ~(i <= Len(s)) /\ i - Len(s) \in 1 .. Len(t)
    BY <1>3, <1>4, <1>6
  <2> QED
    BY <1>3, <1>4, <2>1
<1>7. IsList(u)
  BY <1>3 DEF IsList
<1> QED
  BY <1>3, <1>4, <1>5, <1>6, <1>7 DEF u

LEMMA CreatingGood ==
  ASSUME NEW s, IsSync(s), s.at > 0, GoodPlan(s.plan)
  PROVE  GoodSync(BeginCreating(s))
<1> DEFINE a == s.plan.toCreate
           b == s.plan.toRecreate
           u == a \o b
<1>1. CASE u = <<>>
  BY <1>1, NextStoreGood DEF BeginCreating
<1>2. CASE u # <<>>
  <2>1. /\ IsList(u) /\ DOMAIN u = 1 .. Len(a) + Len(b)
        /\ \A i \in DOMAIN a : u[i] = a[i]
        /\ \A i \in DOMAIN u : i \in DOMAIN a \/ (i - Len(a) \in DOMAIN b /\ u[i] = b[i - Len(a)])
        /\ Len(a) \in Nat /\ Len(b) \in Nat
    <3>1. IsList(a) /\ IsList(b)
      BY DEF GoodPlan
    <3> HIDE DEF a, b
    <3>2. Len(a) \in Nat /\ Len(b) \in Nat
      BY <3>1, ListHas
    <3> QED
      BY <3>1, <3>2, ListsJoin
  <2> DEFINE at(i) == i - Len(a)
  <2>2. \A i, j \in DOMAIN u : at(i) = at(j) => i = j
    BY <2>1
  <2>3. \A i \in DOMAIN u : i \in DOMAIN a \/ (at(i) \in DOMAIN b /\ u[i] = b[at(i)])
    BY <2>1
  <2> HIDE DEF u, at
  <2>4. \A i \in DOMAIN u : HasOptions(u[i])
    BY <2>1, <2>3 DEF GoodPlan
  <2>5. DistinctNames(u)
    <3> SUFFICES ASSUME NEW i \in DOMAIN u, NEW j \in DOMAIN u, NameOf(u[i]) = NameOf(u[j])
                 PROVE  i = j
      BY DEF DistinctNames
    <3>1. CASE i \in DOMAIN a /\ j \in DOMAIN a
      BY <2>1, <3>1 DEF GoodPlan, DistinctNames
    <3>2. CASE i \in DOMAIN a /\ j \notin DOMAIN a
      BY <2>1, <2>3, <3>2 DEF GoodPlan
    <3>3. CASE i \notin DOMAIN a /\ j \in DOMAIN a
      BY <2>1, <2>3, <3>3 DEF GoodPlan
    <3>4. CASE i \notin DOMAIN a /\ j \notin DOMAIN a
      BY <2>2, <2>3, <3>4 DEF GoodPlan, DistinctNames
    <3> QED
      BY <3>1, <3>2, <3>3, <3>4
  <2>6. GoodPending("creating", u)
    BY <1>2, <2>1, <2>4, <2>5 DEF GoodPending, Looping
  <2>7. BeginCreating(s) = InPhase(s, "creating", u, s.conflict)
    BY <1>2, SamePhase DEF BeginCreating, u
  <2>8. "creating" \in Looping
    BY DEF Looping
  <2> QED
    BY <2>6, <2>7, <2>8, PhaseGood
<1> QED
  BY <1>1, <1>2

LEMMA ModifyingGood ==
  ASSUME NEW s, IsSync(s), s.at > 0, GoodPlan(s.plan)
  PROVE  GoodSync(BeginModifying(s))
<1>1. CASE s.plan.toCollMod = <<>>
  BY <1>1, CreatingGood DEF BeginModifying
<1>2. CASE s.plan.toCollMod # <<>>
  <2>1. GoodPending("modifying", s.plan.toCollMod) /\ "modifying" \in Looping
    BY <1>2 DEF GoodPending, GoodPlan, Looping
  <2>2. BeginModifying(s) = InPhase(s, "modifying", s.plan.toCollMod, s.conflict)
    BY <1>2, SamePhase DEF BeginModifying
  <2> QED
    BY <2>1, <2>2, PhaseGood
<1> QED
  BY <1>1, <1>2

LEMMA DroppingGood ==
  ASSUME NEW s, IsSync(s), s.at > 0, GoodPlan(s.plan)
  PROVE  GoodSync(BeginDropping(s))
<1> DEFINE remade == [i \in DOMAIN s.plan.toRecreate |-> s.plan.toRecreate[i].name]
           u == s.plan.toDrop \o remade
<1>1. CASE u = <<>>
  BY <1>1, ModifyingGood DEF BeginDropping
<1>2. CASE u # <<>>
  <2>1. IsList(s.plan.toDrop) /\ IsList(s.plan.toRecreate)
    BY DEF GoodPlan
  <2>2. IsList(remade)
    <3> DEFINE n == Len(s.plan.toRecreate)
    <3>1. n \in Nat /\ DOMAIN s.plan.toRecreate = 1 .. n
      BY <2>1, ListHas
    <3>2. remade = [i \in 1 .. n |-> remade[i]]
      BY <3>1
    <3> HIDE DEF remade, n
    <3> QED
      BY <3>1, <3>2, ListOf
  <2> HIDE DEF remade
  <2>3. IsList(u)
    BY <2>1, <2>2, ListsJoin
  <2> HIDE DEF u
  <2>4. GoodPending("dropping", u) /\ "dropping" \in Looping
    BY <1>2, <2>3 DEF GoodPending, Looping
  <2>5. BeginDropping(s) = InPhase(s, "dropping", u, s.conflict)
    BY <1>2, SamePhase DEF BeginDropping, u, remade
  <2> QED
    BY <2>4, <2>5, PhaseGood
<1> QED
  BY <1>1, <1>2

\* the next turn of a loop that is not at its last
LEMMA RestOfList ==
  ASSUME NEW s, IsList(s), s # <<>>
  PROVE  LET t == Tail(s)
         IN  /\ IsList(t) /\ Head(s) = s[1] /\ 1 \in DOMAIN s
             /\ \A i \in DOMAIN t : i + 1 \in DOMAIN s \ {1} /\ t[i] = s[i + 1]
             /\ Len(s) # 1 => t # <<>>
             /\ Len(t) = Len(s) - 1
<1>1. PICK T : s \in Seq(T)
  BY DEF IsList
<1> DEFINE t == Tail(s)
<1>2. /\ t \in Seq(T) /\ Len(t) = Len(s) - 1
      /\ \A i \in 1 .. Len(t) : t[i] = s[i + 1]
  BY <1>1, HeadTailProperties
<1>3. /\ Len(s) \in Nat /\ DOMAIN s = 1 .. Len(s) /\ Len(t) \in Nat /\ DOMAIN t = 1 .. Len(t)
  BY <1>1, <1>2, LenProperties
<1>4. Len(s) # 0
  BY <1>1, EmptySeq
<1>5. Len(s) # 1 => t # <<>>
  <2>1. Len(s) # 1 => Len(t) # 0
    BY <1>2, <1>3
  <2> HIDE DEF t
  <2> QED
    BY <2>1, EmptyList
<1>6. Head(s) = s[1]
  BY <1>1, <1>4
<1> HIDE DEF t
<1>7. ASSUME NEW i \in DOMAIN t PROVE i + 1 \in DOMAIN s \ {1} /\ t[i] = s[i + 1]
  BY <1>2, <1>3
<1>8. IsList(t) /\ 1 \in DOMAIN s
  BY <1>2, <1>3, <1>4 DEF IsList
<1> QED
  BY <1>2, <1>5, <1>6, <1>7, <1>8 DEF t

LEMMA RestOfLong ==
  ASSUME NEW s, IsList(s), s # <<>>, Len(s) > 1
  PROVE  /\ IsList(Tail(s)) /\ Tail(s) # <<>>
         /\ \A i \in DOMAIN Tail(s) : i + 1 \in DOMAIN s \ {1} /\ Tail(s)[i] = s[i + 1]
<1>1. Len(s) \in Nat
  BY ListHas
<1>2. \A n \in Nat : n > 1 => n # 1
  OBVIOUS
<1>3. Len(s) # 1
  BY <1>1, <1>2, Zenon
<1> QED
  BY <1>3, RestOfList

LEMMA OptionsPending ==
  ASSUME NEW pending, IsList(pending), pending # <<>>, \A i \in DOMAIN pending : HasOptions(pending[i]),
         NEW phase \in {"retrying", "recovering", "recreating"}
  PROVE  GoodPending(phase, pending) /\ phase \in Looping
BY DEF GoodPending, Looping

LEMMA TailGood ==
  ASSUME NEW s, GoodSync(s), s.phase \in {"dropping", "modifying", "retrying"}, Len(s.pending) # 1
  PROVE  GoodSync([s EXCEPT !.pending = Tail(@)])
<1> DEFINE t == Tail(s.pending)
<1>1. s.phase \in Looping /\ GoodPending(s.phase, s.pending) /\ IsSync(s) /\ GoodPlan(s.plan) /\ s.at > 0
  BY DEF GoodSync, Looping
<1>2. IsList(s.pending) /\ s.pending # <<>>
  BY <1>1 DEF GoodPending
<1>3. /\ IsList(t) /\ t # <<>>
      /\ \A i \in DOMAIN t : i + 1 \in DOMAIN s.pending /\ t[i] = s.pending[i + 1]
  BY <1>2, RestOfList
<1> HIDE DEF t
<1>4. GoodPending(s.phase, t)
  <2>1. s.phase # "creating" /\ s.phase # "clearing"
    OBVIOUS
  <2> QED
    BY <1>1, <1>3, <2>1 DEF GoodPending
<1>5. GoodSync(InPhase(s, s.phase, t, s.conflict))
  BY <1>1, <1>4, PhaseGood
<1>6. InPhase(s, s.phase, t, s.conflict) = [s EXCEPT !.pending = Tail(@)]
  BY <1>1, SamePhase DEF t
<1> QED
  BY <1>5, <1>6

-----------------------------------------------------------------------------
(* The steps *)

LEMMA BecomesGood ==
  ASSUME SyncsGood, NEW p \in Syncs, NEW s, GoodSync(s), Becomes(p, s)
  PROVE  SyncsGood'
<1>1. sync' = [sync EXCEPT ![p] = s]
  BY DEF Becomes
<1>2. DOMAIN sync' = Syncs
  BY <1>1 DEF SyncsGood
<1>3. ASSUME NEW q \in Syncs PROVE GoodSync(sync'[q])
  BY <1>1 DEF SyncsGood
<1> QED
  BY <1>2, <1>3 DEF SyncsGood

LEMMA HoldsGood ==
  ASSUME CollectionsGood, NEW p, NEW result, GoodCollection(result.collection), Holds(p, result)
  PROVE  CollectionsGood'
<1> DEFINE d == StoreOf(sync[p]).collection
<1>1. collection' = [collection EXCEPT ![d] = result.collection]
  BY DEF Holds
<1> HIDE DEF d
<1>2. DOMAIN collection' = Collections
  BY <1>1 DEF CollectionsGood
<1>3. ASSUME NEW c \in Collections PROVE GoodCollection(collection'[c])
  BY <1>1 DEF CollectionsGood
<1> QED
  BY <1>2, <1>3 DEF CollectionsGood

LEMMA WriteGood ==
  ASSUME CollectionsGood, NEW d, NEW result, GoodCollection(result.collection), Write(d, result)
  PROVE  CollectionsGood'
<1>1. collection' = [collection EXCEPT ![d] = result.collection]
  BY DEF Write
<1>2. DOMAIN collection' = Collections
  BY <1>1 DEF CollectionsGood
<1>3. ASSUME NEW c \in Collections PROVE GoodCollection(collection'[c])
  BY <1>1 DEF CollectionsGood
<1> QED
  BY <1>2, <1>3 DEF CollectionsGood

LEMMA UnchangedGood ==
  ASSUME TRUE
  PROVE  /\ CollectionsGood /\ UNCHANGED collection => CollectionsGood'
         /\ SyncsGood /\ UNCHANGED sync => SyncsGood'
BY DEF CollectionsGood, SyncsGood

\* where a sync under way is
LEMMA AtStore ==
  ASSUME CollectionsGood, SyncsGood, NEW p \in Syncs, sync[p].phase \notin {"idle", "over"}
  PROVE  LET s == sync[p]
             c == collection[StoreOf(s).collection]
         IN  /\ GoodSync(s) /\ IsSync(s) /\ s.at > 0 /\ GoodPlan(s.plan)
             /\ IsDeclaration(StoreOf(s).indexes)
             /\ GoodCollection(c)
             /\ s.phase \in Looping =>
                  /\ IsList(s.pending) /\ s.pending # <<>>
                  /\ Len(s.pending) \in Nat
<1> DEFINE s == sync[p]
<1>1. GoodSync(s)
  BY DEF SyncsGood
<1> HIDE DEF s
<1>2. s.phase \notin {"idle", "over"}
  BY DEF s
<1>3. IsSync(s) /\ s.at > 0 /\ GoodPlan(s.plan) /\ GoodPending(s.phase, s.pending)
  BY <1>1, <1>2 DEF GoodSync
<1>4. s.at \in DOMAIN Stores
  BY <1>3, StoresListed DEF IsSync
<1>5. IsDeclaration(StoreOf(s).indexes) /\ StoreOf(s).collection \in Collections
  BY <1>4, StoresListed DEF StoreOf
<1>6. s.phase \in Looping => IsList(s.pending) /\ s.pending # <<>> /\ Len(s.pending) \in Nat
  BY <1>3, ListHas DEF GoodPending
<1> QED
  BY <1>1, <1>3, <1>5, <1>6 DEF s, CollectionsGood

LEMMA OneDescription ==
  ASSUME NEW d, HasOptions(d)
  PROVE  /\ IsList(<<d>>) /\ DistinctNames(<<d>>)
         /\ \A i \in DOMAIN <<d>> : HasOptions(<<d>>[i])
<1>1. <<d>> \in Seq({d}) /\ Len(<<d>>) = 1 /\ <<d>>[1] = d
  OBVIOUS
<1>2. IsList(<<d>>)
  BY <1>1 DEF IsList
<1>3. DOMAIN <<d>> = 1 .. 1
  BY <1>1, <1>2, ListHas
<1> QED
  BY <1>1, <1>2, <1>3 DEF DistinctNames

LEMMA BeginGood ==
  ASSUME CollectionsGood, SyncsGood, NEW p \in Syncs, Begin(p)
  PROVE  CollectionsGood' /\ SyncsGood'
<1>1. GoodSync(NextStore(sync[p]))
  BY NextStoreGood DEF SyncsGood, GoodSync
<1> QED
  BY <1>1, BecomesGood, UnchangedGood DEF Begin

\* a sync that has its plan is as it was but for the plan
LEMMA PlanSet ==
  ASSUME NEW s, IsSync(s), NEW plan
  PROVE  LET t == [s EXCEPT !.plan = plan]
         IN  IsSync(t) /\ t.at = s.at /\ t.plan = plan /\ t.failed = s.failed
<1> DEFINE t == [s EXCEPT !.plan = plan]
<1>1. s = [phase |-> s.phase, at |-> s.at, plan |-> s.plan, pending |-> s.pending,
           conflict |-> s.conflict, failed |-> s.failed]
  BY DEF IsSync
<1>2. t = [phase |-> s.phase, at |-> s.at, plan |-> plan, pending |-> s.pending,
           conflict |-> s.conflict, failed |-> s.failed]
  BY <1>1
<1> HIDE DEF t
<1>3. IsSync(t) /\ t.at = s.at /\ t.plan = plan /\ t.failed = s.failed
  BY <1>2 DEF IsSync
<1> QED
  BY <1>3 DEF t

LEMMA ListGood ==
  ASSUME CollectionsGood, SyncsGood, NEW p \in Syncs, List(p)
  PROVE  CollectionsGood' /\ SyncsGood'
<1> DEFINE s == sync[p]
           c == collection[StoreOf(s).collection]
           infos == IF c.exists THEN ListInfos(c) ELSE <<>>
           plan == DiffIndexes(StoreOf(s).indexes, infos, p \notin Keeping)
           t == [s EXCEPT !.plan = plan]
<1>1. s.phase = "listing"
  BY DEF List
<1>2. GoodSync(s) /\ IsSync(s) /\ s.at > 0 /\ IsDeclaration(StoreOf(s).indexes) /\ GoodCollection(c)
  BY <1>1, AtStore
<1>3. IsList(infos)
  BY <1>2, EmptyList, ListedInfos DEF GoodCollection, GoodIndexes
<1>4. GoodPlan(plan)
  <2> HIDE DEF infos
  <2> QED
    BY <1>2, <1>3, DiffGood
<1>5. IsSync(t) /\ t.at > 0 /\ t.plan = plan
  <2> HIDE DEF plan, s
  <2> QED
    BY <1>2, PlanSet
<1>6. GoodSync(BeginDropping(t)) /\ GoodSync(NextStore(s))
  <2> HIDE DEF plan, t
  <2> QED
    BY <1>2, <1>4, <1>5, DroppingGood, NextStoreGood
<1>7. Becomes(p, IF p \in DryRuns THEN NextStore(s) ELSE BeginDropping(t))
  BY DEF List
<1> HIDE DEF t
<1>8. SyncsGood'
  BY <1>6, <1>7, BecomesGood
<1> QED
  BY <1>8, UnchangedGood DEF List

LEMMA DropIndexGood ==
  ASSUME CollectionsGood, SyncsGood, NEW p \in Syncs, DropIndex(p)
  PROVE  CollectionsGood' /\ SyncsGood'
<1> DEFINE s == sync[p]
           c == collection[StoreOf(s).collection]
           result == DropIndexFrom(c, Head(s.pending))
<1>1. s.phase = "dropping" /\ Holds(p, result)
  BY DEF DropIndex
<1>2. GoodSync(s) /\ IsSync(s) /\ s.at > 0 /\ GoodPlan(s.plan) /\ GoodCollection(c)
  BY <1>1, AtStore
<1>3. GoodCollection(result.collection)
  BY <1>2, DropKeepsGood
<1> HIDE DEF result
<1>4. Becomes(p, IF result.error \in {Succeeded, IndexNotFound}
                 THEN IF Len(s.pending) = 1 THEN BeginModifying(s) ELSE [s EXCEPT !.pending = Tail(@)]
                 ELSE Failed(s, result.error))
  BY DEF DropIndex, Rest, result
<1>5. /\ GoodSync(BeginModifying(s)) /\ GoodSync(Failed(s, result.error))
      /\ Len(s.pending) # 1 => GoodSync([s EXCEPT !.pending = Tail(@)])
  BY <1>1, <1>2, ModifyingGood, FailedGood, TailGood
<1>6. SyncsGood'
  <2> HIDE DEF s
  <2> QED
    BY <1>4, <1>5, BecomesGood
<1> QED
  BY <1>1, <1>3, <1>6, HoldsGood

LEMMA CollModGood ==
  ASSUME CollectionsGood, SyncsGood, NEW p \in Syncs, CollMod(p)
  PROVE  CollectionsGood' /\ SyncsGood'
<1> DEFINE s == sync[p]
           c == collection[StoreOf(s).collection]
           mod == Head(s.pending)
           result == ModifyIndexOf(c, mod.name, mod.changes)
<1>1. s.phase = "modifying" /\ Holds(p, result)
  BY DEF CollMod
<1>2. /\ GoodSync(s) /\ IsSync(s) /\ s.at > 0 /\ GoodPlan(s.plan) /\ GoodCollection(c)
      /\ IsList(s.pending) /\ s.pending # <<>>
  BY <1>1, AtStore DEF Looping
<1>3. IsChange(mod)
  BY <1>1, <1>2, RestOfList DEF GoodSync, GoodPending
<1>4. GoodCollection(result.collection)
  <2> HIDE DEF mod
  <2> QED
    BY <1>2, <1>3, ModifyKeepsGood DEF IsChange
<1> HIDE DEF result
<1>5. Becomes(p, IF result.error = Succeeded
                 THEN IF Len(s.pending) = 1 THEN BeginCreating(s) ELSE [s EXCEPT !.pending = Tail(@)]
                 ELSE Failed(s, result.error))
  BY DEF CollMod, Rest, result
<1>6. /\ GoodSync(BeginCreating(s)) /\ GoodSync(Failed(s, result.error))
      /\ Len(s.pending) # 1 => GoodSync([s EXCEPT !.pending = Tail(@)])
  BY <1>1, <1>2, CreatingGood, FailedGood, TailGood
<1>7. SyncsGood'
  <2> HIDE DEF s
  <2> QED
    BY <1>5, <1>6, BecomesGood
<1> QED
  BY <1>1, <1>4, <1>7, HoldsGood

LEMMA CreateIndexesGood ==
  ASSUME CollectionsGood, SyncsGood, NEW p \in Syncs, CreateIndexes(p)
  PROVE  CollectionsGood' /\ SyncsGood'
<1> DEFINE s == sync[p]
           c == collection[StoreOf(s).collection]
           result == CreateIndexesIn(c, s.pending)
<1>1. s.phase = "creating" /\ Holds(p, result)
  BY DEF CreateIndexes
<1>2. /\ GoodSync(s) /\ IsSync(s) /\ s.at > 0 /\ GoodPlan(s.plan) /\ GoodCollection(c)
      /\ IsList(s.pending) /\ s.pending # <<>>
  BY <1>1, AtStore DEF Looping
<1>3. DistinctNames(s.pending) /\ \A i \in DOMAIN s.pending : HasOptions(s.pending[i])
  BY <1>1, <1>2 DEF GoodSync, GoodPending
<1>4. GoodCollection(result.collection)
  <2> HIDE DEF s, c
  <2> QED
    BY <1>2, <1>3, CreateKeepsGood
<1>5. GoodPending("retrying", s.pending) /\ "retrying" \in Looping
  BY <1>2, <1>3 DEF GoodPending, Looping
<1>6. GoodSync([s EXCEPT !.phase = "retrying"]) /\ GoodSync(NextStore(s))
  <2>1. [s EXCEPT !.phase = "retrying"] = InPhase(s, "retrying", s.pending, s.conflict)
    BY <1>2, SamePhase
  <2> HIDE DEF s
  <2> QED
    BY <1>2, <1>5, <2>1, PhaseGood, NextStoreGood
<1> HIDE DEF result
<1>7. Becomes(p, IF result.error = Succeeded THEN NextStore(s) ELSE [s EXCEPT !.phase = "retrying"])
  BY DEF CreateIndexes, result
<1>8. SyncsGood'
  <2> HIDE DEF s
  <2> QED
    BY <1>6, <1>7, BecomesGood
<1> QED
  BY <1>1, <1>4, <1>8, HoldsGood

\* the creation of the one description a loop is at
LEMMA CreatedOne ==
  ASSUME CollectionsGood, SyncsGood, NEW p \in Syncs, sync[p].phase \in {"retrying", "recreating"}
  PROVE  LET s == sync[p]
         IN  GoodCollection(CreateIndexesIn(collection[StoreOf(s).collection], <<Head(s.pending)>>).collection)
<1> DEFINE s == sync[p]
           c == collection[StoreOf(s).collection]
           d == Head(s.pending)
<1>1. /\ GoodSync(s) /\ GoodCollection(c)
      /\ IsList(s.pending) /\ s.pending # <<>>
  BY AtStore DEF Looping
<1>2. HasOptions(d)
  BY <1>1, RestOfList DEF GoodSync, GoodPending
<1> HIDE DEF d, c
<1>3. /\ IsList(<<d>>) /\ DistinctNames(<<d>>)
      /\ \A i \in DOMAIN <<d>> : HasOptions(<<d>>[i])
  BY <1>2, OneDescription
<1>4. GoodCollection(CreateIndexesIn(c, <<d>>).collection)
  BY <1>1, <1>3, CreateKeepsGood
<1> QED
  BY <1>4 DEF c, d

LEMMA CreateOneByOneGood ==
  ASSUME CollectionsGood, SyncsGood, NEW p \in Syncs, CreateOneByOne(p)
  PROVE  CollectionsGood' /\ SyncsGood'
<1> DEFINE s == sync[p]
           result == CreateIndexesIn(collection[StoreOf(s).collection], <<Head(s.pending)>>)
<1>1. s.phase = "retrying" /\ Holds(p, result)
  BY DEF CreateOneByOne
<1>2. /\ GoodSync(s) /\ IsSync(s) /\ s.at > 0 /\ GoodPlan(s.plan)
      /\ IsList(s.pending) /\ s.pending # <<>>
  BY <1>1, AtStore DEF Looping
<1>3. GoodCollection(result.collection)
  BY <1>1, CreatedOne
<1> HIDE DEF result
<1> DEFINE t == [s EXCEPT !.phase = "recovering", !.conflict = result.error]
           next == CASE result.error = Succeeded            ->
                           IF Len(s.pending) = 1 THEN NextStore(s) ELSE [s EXCEPT !.pending = Tail(@)]
                     [] IsIndexConflictError(result.error)  -> t
                     [] OTHER                               -> Failed(s, result.error)
<1>4. Becomes(p, next)
  BY DEF CreateOneByOne, Rest, result
<1>5. GoodSync(t)
  <2>1. \A i \in DOMAIN s.pending : HasOptions(s.pending[i])
    BY <1>1, <1>2 DEF GoodSync, GoodPending
  <2>2. GoodPending("recovering", s.pending) /\ "recovering" \in Looping
    BY <1>2, <2>1, OptionsPending
  <2> HIDE DEF s
  <2>3. t = InPhase(s, "recovering", s.pending, result.error)
    BY <1>2, SameStep, Zenon
  <2> HIDE DEF t
  <2> QED
    BY <1>2, <2>2, <2>3, PhaseGood
<1>6. /\ GoodSync(NextStore(s)) /\ GoodSync(Failed(s, result.error))
      /\ Len(s.pending) # 1 => GoodSync([s EXCEPT !.pending = Tail(@)])
  BY <1>1, <1>2, NextStoreGood, FailedGood, TailGood
<1> HIDE DEF t, s
<1>7. GoodSync(next)
  <2>1. Succeeded \notin {OptionsConflict, KeySpecsConflict}
    BY DEF Succeeded, OptionsConflict, KeySpecsConflict
  <2> QED
    BY <1>5, <1>6, <2>1 DEF IsIndexConflictError
<1> HIDE DEF next
<1> QED
  BY <1>1, <1>3, <1>4, <1>7, HoldsGood, BecomesGood

LEMMA ListConflictingGood ==
  ASSUME CollectionsGood, SyncsGood, NEW p \in Syncs, ListConflicting(p)
  PROVE  CollectionsGood' /\ SyncsGood'
<1> DEFINE s == sync[p]
           c == collection[StoreOf(s).collection]
           found == FindConflictingIndex(ListInfos(c), Head(s.pending))
           t == [s EXCEPT !.phase = "clearing", !.pending = found \o @]
           next == CASE ~c.exists                  -> Failed(s, NamespaceNotFound)
                     [] c.exists /\ found = <<>>   -> Failed(s, s.conflict)
                     [] OTHER                      -> t
<1>1. s.phase = "recovering" /\ Becomes(p, next)
  BY DEF ListConflicting
<1>2. /\ GoodSync(s) /\ IsSync(s) /\ s.at > 0 /\ GoodPlan(s.plan)
      /\ IsList(s.pending) /\ s.pending # <<>> /\ Len(s.pending) \in Nat
  BY <1>1, AtStore DEF Looping
<1>3. found = <<>> \/ \E name : found = <<name>>
  BY DEF FindConflictingIndex
<1>4. \A i \in DOMAIN s.pending : HasOptions(s.pending[i])
  BY <1>1, <1>2 DEF GoodSync, GoodPending
<1> HIDE DEF found
<1>5. ASSUME found # <<>> PROVE GoodSync(t)
  <2>1. PICK name : found = <<name>>
    BY <1>3, <1>5
  <2> DEFINE u == <<name>> \o s.pending
  <2>2. IsList(<<name>>) /\ Len(<<name>>) = 1 /\ DOMAIN <<name>> = 1 .. 1
    <3>1. <<name>> \in Seq({name}) /\ Len(<<name>>) = 1
      OBVIOUS
    <3>2. IsList(<<name>>)
      BY <3>1 DEF IsList
    <3> QED
      BY <3>1, <3>2, ListHas
  <2> DEFINE q == <<name>>
             r == s.pending
  <2> HIDE DEF q, r
  <2>3. /\ IsList(q \o r) /\ Len(q \o r) = Len(q) + Len(r)
        /\ \A i \in DOMAIN (q \o r) :
              i \in DOMAIN q \/ (i - Len(q) \in DOMAIN r /\ (q \o r)[i] = r[i - Len(q)])
    BY <1>2, <2>2, ListsJoin DEF q, r
  <2>4. Len(r) \in Nat /\ Len(r) # 0
    <3>1. Len(r) \in Nat /\ DOMAIN r = 1 .. Len(r) /\ r = [i \in 1 .. Len(r) |-> r[i]]
      BY <1>2, ListHas DEF r
    <3>2. 1 \in DOMAIN r
      BY <1>2, RestOfList DEF r
    <3> QED
      BY <3>1, <3>2
  <2>5. u = q \o r
    BY DEF q, r
  <2> HIDE DEF u
  <2>6. Len(u) > 1 /\ IsList(u) /\ \A i \in DOMAIN u : i = 1 \/ HasOptions(u[i])
    <3>1. Len(q) = 1 /\ DOMAIN q = 1 .. 1
      BY <2>2 DEF q
    <3>2. \A i \in DOMAIN r : HasOptions(r[i])
      BY <1>4 DEF r
    <3> QED
      BY <2>3, <2>4, <2>5, <3>1, <3>2
  <2>7. u # <<>>
    BY <2>6, EmptyList
  <2>8. GoodPending("clearing", u) /\ "clearing" \in Looping
    BY <2>6, <2>7 DEF GoodPending, Looping
  <2>9. t = InPhase(s, "clearing", u, s.conflict)
    BY <1>2, <2>1, SamePhase DEF u
  <2> HIDE DEF t, s
  <2> QED
    BY <1>2, <2>8, <2>9, PhaseGood
<1>6. GoodSync(Failed(s, NamespaceNotFound)) /\ GoodSync(Failed(s, s.conflict))
  BY <1>2, FailedGood
<1> HIDE DEF t
<1>7. GoodSync(next)
  BY <1>5, <1>6
<1> HIDE DEF next
<1> QED
  BY <1>1, <1>7, BecomesGood, UnchangedGood DEF ListConflicting

LEMMA DropConflictingGood ==
  ASSUME CollectionsGood, SyncsGood, NEW p \in Syncs, DropConflicting(p)
  PROVE  CollectionsGood' /\ SyncsGood'
<1> DEFINE s == sync[p]
           c == collection[StoreOf(s).collection]
           result == DropIndexFrom(c, Head(s.pending))
           t == [s EXCEPT !.phase = "recreating", !.pending = Tail(@)]
           rest == Tail(s.pending)
<1>1. /\ s.phase = "clearing" /\ Holds(p, result)
      /\ Becomes(p, IF result.error = Succeeded THEN t ELSE Failed(s, result.error))
  BY DEF DropConflicting
<1>2. /\ GoodSync(s) /\ IsSync(s) /\ s.at > 0 /\ GoodPlan(s.plan) /\ GoodCollection(c)
      /\ IsList(s.pending) /\ s.pending # <<>> /\ Len(s.pending) \in Nat
  BY <1>1, AtStore DEF Looping
<1>3. GoodCollection(result.collection)
  BY <1>2, DropKeepsGood
<1>4. Len(s.pending) > 1 /\ \A i \in DOMAIN s.pending \ {1} : HasOptions(s.pending[i])
  BY <1>1, <1>2 DEF GoodSync, GoodPending
<1>5. /\ IsList(rest) /\ rest # <<>>
      /\ \A i \in DOMAIN rest : i + 1 \in DOMAIN s.pending \ {1} /\ rest[i] = s.pending[i + 1]
  BY <1>2, <1>4, RestOfLong
<1> HIDE DEF rest
<1>6. GoodPending("recreating", rest) /\ "recreating" \in Looping
  BY <1>4, <1>5 DEF GoodPending, Looping
<1>7. t = InPhase(s, "recreating", rest, s.conflict)
  BY <1>2, SamePhase DEF rest
<1> HIDE DEF s, t, result
<1>8. GoodSync(t) /\ GoodSync(Failed(s, result.error))
  BY <1>2, <1>6, <1>7, PhaseGood, FailedGood
<1> QED
  BY <1>1, <1>3, <1>8, HoldsGood, BecomesGood

LEMMA CreateAgainGood ==
  ASSUME CollectionsGood, SyncsGood, NEW p \in Syncs, CreateAgain(p)
  PROVE  CollectionsGood' /\ SyncsGood'
<1> DEFINE s == sync[p]
           result == CreateIndexesIn(collection[StoreOf(s).collection], <<Head(s.pending)>>)
           t == [s EXCEPT !.phase = "retrying", !.conflict = Succeeded]
<1>1. s.phase = "recreating" /\ Holds(p, result)
  BY DEF CreateAgain
<1>2. /\ GoodSync(s) /\ IsSync(s) /\ s.at > 0 /\ GoodPlan(s.plan)
      /\ IsList(s.pending) /\ s.pending # <<>>
  BY <1>1, AtStore DEF Looping
<1>3. GoodCollection(result.collection)
  BY <1>1, CreatedOne
<1> HIDE DEF result
<1>4. Becomes(p, IF result.error = Succeeded
                 THEN IF Len(t.pending) = 1 THEN NextStore(t) ELSE [t EXCEPT !.pending = Tail(@)]
                 ELSE Failed(s, result.error))
  BY DEF CreateAgain, Rest, result
<1>5. GoodSync(t)
  <2>1. \A i \in DOMAIN s.pending : HasOptions(s.pending[i])
    BY <1>1, <1>2 DEF GoodSync, GoodPending
  <2>2. GoodPending("retrying", s.pending) /\ "retrying" \in Looping
    BY <1>2, <2>1, OptionsPending
  <2> HIDE DEF s
  <2>3. t = InPhase(s, "retrying", s.pending, Succeeded)
    BY <1>2, SameStep, Zenon
  <2> HIDE DEF t
  <2> QED
    BY <1>2, <2>2, <2>3, PhaseGood
<1>6. t.phase = "retrying"
  BY <1>2 DEF IsSync
<1> HIDE DEF t, s
<1>7. /\ GoodSync(NextStore(t)) /\ GoodSync(Failed(s, result.error))
      /\ Len(t.pending) # 1 => GoodSync([t EXCEPT !.pending = Tail(@)])
  <2>1. IsSync(t)
    BY <1>5 DEF GoodSync
  <2> QED
    BY <1>2, <1>5, <1>6, <2>1, NextStoreGood, FailedGood, TailGood
<1>8. SyncsGood'
  BY <1>4, <1>7, BecomesGood
<1> QED
  BY <1>1, <1>3, <1>8, HoldsGood

-----------------------------------------------------------------------------
(* The writes, and every step *)

LEMMA StoredList ==
  ASSUME NEW documents \in Seq(StoredDocument)
  PROVE  IsList(documents) /\ \A i \in DOMAIN documents : documents[i].id \in Ids
<1>1. \A i \in DOMAIN documents : documents[i] \in StoredDocument
  OBVIOUS
<1> QED
  BY <1>1 DEF IsList, StoredDocument

LEMMA InsertGood ==
  ASSUME CollectionsGood, NEW c \in Collections, Insert(c)
  PROVE  CollectionsGood'
<1>1. PICK documents \in Inserts : Write(c, InsertManyInto(collection[c], documents))
  BY DEF Insert
<1>2. documents \in Seq(StoredDocument)
  BY WritesAssumption
<1>3. IsList(documents) /\ \A i \in DOMAIN documents : documents[i].id \in Ids
  BY <1>2, StoredList
<1>4. GoodCollection(collection[c])
  BY DEF CollectionsGood
<1>5. GoodCollection(InsertManyInto(collection[c], documents).collection)
  BY <1>3, <1>4, InsertManyKeepsGood
<1> QED
  BY <1>1, <1>5, WriteGood

LEMMA UpdateGood ==
  ASSUME CollectionsGood, NEW c \in Collections, Update(c)
  PROVE  CollectionsGood'
<1>1. PICK write \in Updates : Write(c, UpdateMatching(collection[c], write))
  BY DEF Update
<1>2. GoodCollection(collection[c])
  BY DEF CollectionsGood
<1>3. GoodCollection(UpdateMatching(collection[c], write).collection)
  BY <1>2, UpdateMatchingKeepsGood
<1> QED
  BY <1>1, <1>3, WriteGood

LEMMA DeleteGood ==
  ASSUME CollectionsGood, NEW c \in Collections, Delete(c)
  PROVE  CollectionsGood'
<1>1. PICK write \in Deletes : Write(c, DeleteMatching(collection[c], write))
  BY DEF Delete
<1>2. GoodCollection(collection[c]) /\ write.limit \in Nat
  BY WritesAssumption DEF CollectionsGood
<1>3. GoodCollection(DeleteMatching(collection[c], write).collection)
  BY <1>2, DeleteKeepsGood
<1> QED
  BY <1>1, <1>3, WriteGood

LEMMA ClearGood ==
  ASSUME CollectionsGood, Clear
  PROVE  CollectionsGood'
<1>1. collection' = [c \in Collections |-> Cleared(collection[c])]
  BY DEF Clear
<1>2. ASSUME NEW c \in Collections PROVE GoodCollection(collection'[c])
  <2>1. GoodCollection(Cleared(collection[c]))
    BY ClearKeepsGood DEF CollectionsGood
  <2> QED
    BY <1>1, <2>1
<1>3. DOMAIN collection' = Collections
  BY <1>1
<1> QED
  BY <1>2, <1>3 DEF CollectionsGood

LEMMA DropGood ==
  ASSUME CollectionsGood, NEW gone, Drop(gone)
  PROVE  CollectionsGood'
<1>1. collection' = [c \in Collections |-> IF c \in gone THEN Empty ELSE collection[c]]
  BY DEF Drop
<1>2. ASSUME NEW c \in Collections PROVE GoodCollection(collection'[c])
  BY <1>1, EmptyIsGood DEF CollectionsGood
<1>3. DOMAIN collection' = Collections
  BY <1>1
<1> QED
  BY <1>2, <1>3 DEF CollectionsGood

LEMMA BeforeGood ==
  ASSUME NEW descriptions, IsDeclaration(descriptions), NEW documents \in Seq(StoredDocument)
  PROVE  GoodCollection(Before(descriptions, documents))
<1> DEFINE indexed == IF descriptions = <<>> THEN Empty ELSE CreateIndexesIn(Empty, descriptions).collection
<1>1. GoodCollection(indexed)
  BY EmptyIsGood, DeclaredList, CreateKeepsGood
<1>2. IsList(documents) /\ \A i \in DOMAIN documents : documents[i].id \in Ids
  BY StoredList
<1>3. Before(descriptions, documents) = InsertManyInto(indexed, documents).collection
  BY DEF Before
<1> HIDE DEF indexed
<1> QED
  BY <1>1, <1>2, <1>3, InsertManyKeepsGood

LEMMA InitGood ==
  ASSUME Init
  PROVE  IndexInv
<1>1. PICK there \in Preexisting : collection = [c \in Collections |-> Before(there[c], Stored[c])]
  BY DEF Init
<1>2. ASSUME NEW c \in Collections PROVE GoodCollection(collection[c])
  BY <1>1, PreexistingAssumption, BeforeGood
<1>3. CollectionsGood
  BY <1>1, <1>2 DEF CollectionsGood
<1>4. SyncsGood
  BY IdleGood DEF Init, SyncsGood
<1> QED
  BY <1>3, <1>4 DEF IndexInv

LEMMA StepGood ==
  ASSUME IndexInv, [Next]_vars
  PROVE  IndexInv'
<1>1. CollectionsGood /\ SyncsGood
  BY DEF IndexInv
<1>2. ASSUME NEW p \in Syncs, SyncStep(p)
      PROVE  CollectionsGood' /\ SyncsGood'
  <2>1. CASE Begin(p)
    BY <1>1, <2>1, BeginGood
  <2>2. CASE List(p)
    BY <1>1, <2>2, ListGood
  <2>3. CASE DropIndex(p)
    BY <1>1, <2>3, DropIndexGood
  <2>4. CASE CollMod(p)
    BY <1>1, <2>4, CollModGood
  <2>5. CASE CreateIndexes(p)
    BY <1>1, <2>5, CreateIndexesGood
  <2>6. CASE CreateOneByOne(p)
    BY <1>1, <2>6, CreateOneByOneGood
  <2>7. CASE ListConflicting(p)
    BY <1>1, <2>7, ListConflictingGood
  <2>8. CASE DropConflicting(p)
    BY <1>1, <2>8, DropConflictingGood
  <2>9. CASE CreateAgain(p)
    BY <1>1, <2>9, CreateAgainGood
  <2> QED
    BY <1>2, <2>1, <2>2, <2>3, <2>4, <2>5, <2>6, <2>7, <2>8, <2>9 DEF SyncStep
<1>3. ASSUME Writing
      PROVE  SyncsGood'
  BY <1>1, <1>3, UnchangedGood DEF Writing
<1>4. ASSUME NEW c \in Collections, Insert(c) \/ Update(c) \/ Delete(c)
      PROVE  CollectionsGood' /\ SyncsGood'
  <2>1. CollectionsGood'
    BY <1>1, <1>4, InsertGood, UpdateGood, DeleteGood
  <2>2. Writing
    BY <1>4 DEF Insert, Update, Delete, Write
  <2> QED
    BY <1>3, <2>1, <2>2
<1>5. ASSUME NEW gone, Drop(gone)
      PROVE  CollectionsGood' /\ SyncsGood'
  <2>1. CollectionsGood'
    BY <1>1, <1>5, DropGood
  <2>2. Writing
    BY <1>5 DEF Drop
  <2> QED
    BY <1>3, <2>1, <2>2
<1>6. ASSUME Clear
      PROVE  CollectionsGood' /\ SyncsGood'
  <2>1. CollectionsGood'
    BY <1>1, <1>6, ClearGood
  <2>2. Writing
    BY <1>6 DEF Clear
  <2> QED
    BY <1>3, <2>1, <2>2
<1>7. ASSUME UNCHANGED vars
      PROVE  CollectionsGood' /\ SyncsGood'
  BY <1>1, <1>7, UnchangedGood DEF vars
<1>8. CollectionsGood' /\ SyncsGood'
  BY <1>2, <1>4, <1>5, <1>6, <1>7 DEF Next
<1> QED
  BY <1>8 DEF IndexInv

-----------------------------------------------------------------------------
(* What the inductive invariant says of the run's invariants *)

LEMMA GoodIsTyped ==
  ASSUME NEW c, GoodCollection(c)
  PROVE  /\ c.exists \in BOOLEAN
         /\ c.documents # <<>> => c.exists
         /\ {c.documents[i].id : i \in DOMAIN c.documents} \subseteq Ids
         /\ \A i, j \in DOMAIN c.documents : c.documents[i].id = c.documents[j].id => i = j
         /\ \A i, j \in DOMAIN c.indexes : c.indexes[i].info.name = c.indexes[j].info.name => i = j
BY DEF GoodCollection, GoodDocuments, GoodIndexes

LEMMA IndexInvTypes ==
  ASSUME IndexInv
  PROVE  SyncTypeOK
<1>1. ASSUME NEW c \in Collections
      PROVE  /\ collection[c].exists \in BOOLEAN
             /\ collection[c].documents # <<>> => collection[c].exists
             /\ {collection[c].documents[i].id : i \in DOMAIN collection[c].documents} \subseteq Ids
             /\ \A i, j \in DOMAIN collection[c].documents :
                   collection[c].documents[i].id = collection[c].documents[j].id => i = j
             /\ \A i, j \in DOMAIN collection[c].indexes :
                   collection[c].indexes[i].info.name = collection[c].indexes[j].info.name => i = j
  <2>1. GoodCollection(collection[c])
    BY DEF IndexInv, CollectionsGood
  <2> QED
    BY <2>1, GoodIsTyped
<1>2. ASSUME NEW p \in Syncs
      PROVE  /\ sync[p].phase \in {"dropping", "modifying", "creating", "retrying", "recovering",
                                   "clearing", "recreating"} <=> sync[p].pending # <<>>
             /\ sync[p].plan # NoPlan => UnderWay(p)
  <2>1. GoodSync(sync[p])
    BY DEF IndexInv, SyncsGood
  <2>2. sync[p].phase \in Looping <=> sync[p].pending # <<>>
    BY <2>1 DEF GoodSync, GoodPending
  <2>3. sync[p].plan # NoPlan => UnderWay(p)
    BY <2>1 DEF GoodSync, UnderWay
  <2> QED
    BY <2>2, <2>3 DEF Looping
<1> QED
  BY <1>1, <1>2 DEF SyncTypeOK

LEMMA IndexInvKeys ==
  ASSUME IndexInv
  PROVE  UniqueKeysOwned
<1> SUFFICES ASSUME NEW c \in Collections, NEW i \in DOMAIN collection[c].indexes,
                    collection[c].indexes[i].info.unique
             PROVE  LET index     == collection[c].indexes[i]
                        documents == ToSet(collection[c].documents)
                    IN  /\ DOMAIN index.owners = UNION {ListEntries(index.info, d) : d \in documents}
                        /\ \A d \in documents : \A e \in ListEntries(index.info, d) : index.owners[e] = d.id
  BY DEF UniqueKeysOwned
<1>1. Exact(collection[c].indexes[i], ToSet(collection[c].documents))
  BY DEF IndexInv, CollectionsGood, GoodCollection, GoodIndexes, GoodIndex
<1> QED
  BY <1>1 DEF Exact

\* every reachable state is good
THEOREM IndexInvHolds == Spec => []IndexInv
<1>1. Init => IndexInv
  BY InitGood
<1>2. IndexInv /\ [Next]_vars => IndexInv'
  BY StepGood
<1> QED
  BY <1>1, <1>2, PTL DEF Spec

(***************************************************************************)
(* The state in which a command of the memory client finds a collection    *)
(* and a sync: documents have one id each and indexes one name each, a     *)
(* loop under way has something left to do, and a unique index holds the   *)
(* keys of the documents there are, each owned by the document that has    *)
(* it.  It is kept by every insert, update, upsert and delete, also one    *)
(* refused half way, by every index built, changed and dropped, and by     *)
(* syncs that run at the same time.                                        *)
(***************************************************************************)
THEOREM KeysStayOwned == Spec => []SyncInv
<1>1. IndexInv => SyncInv
  BY IndexInvTypes, IndexInvKeys DEF SyncInv
<1> QED
  BY <1>1, IndexInvHolds, PTL

-----------------------------------------------------------------------------
(* What the commands do to the indexes that are listed *)

\* what holds of a collection even between the steps of a command
Shaped(c) ==
    /\ c = [documents |-> c.documents, indexes |-> c.indexes, exists |-> c.exists]
    /\ \A i \in DOMAIN c.indexes : IsIndex(c.indexes[i])

\* the same indexes, of a collection that was not dropped
SameInfos(before, after) ==
    /\ Shaped(after)
    /\ Infos(after) = Infos(before)
    /\ before.exists => after.exists

LEMMA GoodShaped ==
  ASSUME NEW c, GoodCollection(c)
  PROVE  Shaped(c)
BY DEF GoodCollection, GoodIndexes, GoodIndex, Shaped

LEMMA WriteKeepsInfo ==
  ASSUME NEW x, IsIndex(x), NEW previous, NEW next
  PROVE  LET y == WriteEntries(x, previous, next)
         IN  IsIndex(y) /\ y.info = x.info
<1>1. x = [info |-> x.info, owners |-> x.owners]
  BY DEF IsIndex
<1>2. \A o : [x EXCEPT !.owners = o] = [info |-> x.info, owners |-> o]
  BY <1>1
<1>3. \E o : WriteEntries(x, previous, next) = [info |-> x.info, owners |-> o]
  BY <1>1, <1>2 DEF WriteEntries
<1> QED
  BY <1>3 DEF IsIndex

LEMMA MoveKeepsInfos ==
  ASSUME NEW c, Shaped(c), NEW documents, NEW previous, NEW next, NEW exists, c.exists => exists
  PROVE  SameInfos(c, [documents |-> documents, indexes |-> MoveKeys(c.indexes, previous, next), exists |-> exists])
<1> DEFINE moved == MoveKeys(c.indexes, previous, next)
<1>1. DOMAIN moved = DOMAIN c.indexes
  BY DEF MoveKeys
<1>2. ASSUME NEW i \in DOMAIN c.indexes
      PROVE  IsIndex(moved[i]) /\ moved[i].info = c.indexes[i].info
  BY WriteKeepsInfo DEF MoveKeys, Shaped
<1> HIDE DEF moved
<1>3. {moved[i].info : i \in DOMAIN moved} = {c.indexes[i].info : i \in DOMAIN c.indexes}
  BY <1>1, <1>2
<1>4. SameInfos(c, [documents |-> documents, indexes |-> moved, exists |-> exists])
  BY <1>1, <1>2, <1>3 DEF SameInfos, Shaped, Infos
<1> QED
  BY <1>4 DEF moved

LEMMA SameItself ==
  ASSUME NEW c, Shaped(c)
  PROVE  SameInfos(c, c)
BY DEF SameInfos

LEMMA InsertKeepsInfos ==
  ASSUME NEW r, Shaped(r.collection), NEW document
  PROVE  SameInfos(r.collection, InsertStored(r, document).collection)
<1> DEFINE c == r.collection
           next == [documents |-> Append(c.documents, document),
                    indexes |-> MoveKeys(c.indexes, {}, {document}), exists |-> TRUE]
<1>1. SameInfos(c, c) /\ SameInfos(c, next)
  BY SameItself, MoveKeepsInfos
<1>2. InsertStored(r, document).collection = c \/ InsertStored(r, document).collection = next
  BY DEF InsertStored, Begun, Refused
<1> HIDE DEF next
<1> QED
  BY <1>1, <1>2

LEMMA UpdateKeepsInfos ==
  ASSUME NEW r, Shaped(r.collection), NEW previous, NEW update
  PROVE  SameInfos(r.collection, UpdateStored(r, previous, update).collection)
<1> DEFINE c == r.collection
           document == ApplyUpdate(previous, update, FALSE)
           changed == [c.documents EXCEPT ![PositionOf(c.documents, document.id)] = document]
           next == [documents |-> changed,
                    indexes |-> MoveKeys(c.indexes, {previous}, {document}), exists |-> c.exists]
<1>1. SameInfos(c, c) /\ SameInfos(c, next)
  <2> HIDE DEF document, changed
  <2> QED
    BY SameItself, MoveKeepsInfos
<1>2. [c EXCEPT !.documents = changed, !.indexes = MoveKeys(c.indexes, {previous}, {document})] = next
  <2>1. ASSUME NEW d, Shaped(d), NEW x, NEW y
        PROVE  [d EXCEPT !.documents = x, !.indexes = y] = [documents |-> x, indexes |-> y, exists |-> d.exists]
    <3> DEFINE u == [d EXCEPT !.documents = x, !.indexes = y]
    <3>1. d = [documents |-> d.documents, indexes |-> d.indexes, exists |-> d.exists]
      BY <2>1 DEF Shaped
    <3>2. DOMAIN d = {"documents", "indexes", "exists"}
      BY <3>1
    <3>3. /\ DOMAIN u = {"documents", "indexes", "exists"}
          /\ u = [f \in DOMAIN u |-> u[f]]
          /\ u.documents = x /\ u.indexes = y /\ u.exists = d.exists
      BY <3>2
    <3> HIDE DEF u
    <3>4. u = [documents |-> x, indexes |-> y, exists |-> d.exists]
      BY <3>3
    <3> QED
      BY <3>4 DEF u
  <2> HIDE DEF document, changed
  <2> QED
    BY <2>1, Zenon
<1>3. UpdateStored(r, previous, update).collection = c \/ UpdateStored(r, previous, update).collection = next
  <2>1. \/ UpdateStored(r, previous, update) = r
        \/ UpdateStored(r, previous, update) = ReplaceStored(c, previous, document)
    BY DEF UpdateStored
  <2>2. \/ ReplaceStored(c, previous, document).collection = c
        \/ ReplaceStored(c, previous, document).collection =
              [c EXCEPT !.documents = changed, !.indexes = MoveKeys(c.indexes, {previous}, {document})]
    <3> HIDE DEF document
    <3> QED
      BY DEF ReplaceStored, Begun, Refused
  <2> HIDE DEF document, changed
  <2> QED
    BY <1>2, <2>1, <2>2
<1> HIDE DEF next
<1> QED
  BY <1>1, <1>3

LEMMA RemoveKeepsInfos ==
  ASSUME NEW r, Shaped(r.collection), NEW document
  PROVE  SameInfos(r.collection, RemoveStored(r, document).collection)
<1> DEFINE c == r.collection
           kept == At(c.documents, {i \in DOMAIN c.documents : c.documents[i].id # document.id})
           next == [documents |-> kept,
                    indexes |-> MoveKeys(c.indexes, {document}, {}), exists |-> c.exists]
<1>1. SameInfos(c, next)
  <2> HIDE DEF kept
  <2> QED
    BY MoveKeepsInfos
<1>2. RemoveStored(r, document).collection = next
  BY DEF RemoveStored, Begun, Shaped
<1> HIDE DEF next
<1> QED
  BY <1>1, <1>2

\* a run of such steps
LEMMA RunKeepsInfos ==
  ASSUME NEW run, NEW n \in Nat, Shaped(run[0].collection),
         \A k \in 1 .. n : Shaped(run[k - 1].collection) => SameInfos(run[k - 1].collection, run[k].collection)
  PROVE  SameInfos(run[0].collection, run[n].collection)
<1> DEFINE K == {k \in Nat : k <= n => SameInfos(run[0].collection, run[k].collection)}
<1>1. 0 \in K
  BY SameItself
<1>2. ASSUME NEW k \in Nat, k \in K PROVE k + 1 \in K
  <2> SUFFICES ASSUME k + 1 <= n PROVE SameInfos(run[0].collection, run[k + 1].collection)
    OBVIOUS
  <2>1. k + 1 \in 1 .. n /\ k + 1 - 1 = k /\ k <= n
    OBVIOUS
  <2>2. SameInfos(run[0].collection, run[k].collection)
    BY <1>2, <2>1
  <2>3. SameInfos(run[k].collection, run[k + 1].collection)
    BY <2>1, <2>2 DEF SameInfos
  <2> QED
    BY <2>2, <2>3 DEF SameInfos
<1>3. Nat \subseteq K
  <2> HIDE DEF K
  <2> QED
    BY <1>1, <1>2, CountsUp
<1> QED
  BY <1>3

LEMMA InsertManyKeepsInfos ==
  ASSUME NEW c, Shaped(c), NEW documents, IsList(documents)
  PROVE  SameInfos(c, InsertManyInto(c, documents).collection)
<1> DEFINE n == Len(documents)
<1>1. n \in Nat
  BY ListHas
<1>2. PICK run : /\ run[0] = Begun(c)
                 /\ \A k \in 1 .. n : run[k] = InsertStored(run[k - 1], documents[k])
                 /\ InsertManyInto(c, documents) = run[n]
  <2>1. InsertManyInto(c, documents) = InsertAll(Begun(c), documents)
    BY DEF InsertManyInto, InsertAll
  <2> QED
    BY <2>1, InsertRuns
<1> HIDE DEF n
<1>3. run[0].collection = c
  BY <1>2 DEF Begun
<1>4. SameInfos(run[0].collection, run[n].collection)
  BY <1>1, <1>2, <1>3, InsertKeepsInfos, RunKeepsInfos
<1> QED
  BY <1>2, <1>3, <1>4

LEMMA DeleteKeepsInfos ==
  ASSUME NEW c, GoodCollection(c), NEW write, write.limit \in Nat
  PROVE  SameInfos(c, DeleteMatching(c, write).collection)
<1> DEFINE found == FindStored(c, write.filter, write.sort, write.limit)
           n == Len(found)
<1>1. IsList(found)
  BY FoundStored DEF GoodCollection, Finds
<1>2. DeleteMatching(c, write) = RemoveAll(Begun(c), found)
  BY DEF DeleteMatching, RemoveAll
<1> HIDE DEF found
<1>3. n \in Nat
  BY <1>1, ListHas
<1>4. PICK run : /\ run[0] = Begun(c)
                 /\ \A k \in 1 .. n : run[k] = RemoveStored(run[k - 1], found[k])
                 /\ DeleteMatching(c, write) = run[n]
  BY <1>1, <1>2, RemoveRuns
<1> HIDE DEF n
<1>5. run[0].collection = c /\ Shaped(c)
  BY <1>4, GoodShaped DEF Begun
<1>6. SameInfos(run[0].collection, run[n].collection)
  BY <1>3, <1>4, <1>5, RemoveKeepsInfos, RunKeepsInfos
<1> QED
  BY <1>4, <1>5, <1>6

LEMMA UpdateMatchingKeepsInfos ==
  ASSUME NEW c, GoodCollection(c), NEW write \in Updates
  PROVE  SameInfos(c, UpdateMatching(c, write).collection)
<1> DEFINE found == FindStored(c, write.filter, write.sort, write.limit)
           n == Len(found)
<1>1. IsList(found)
  BY WritesAssumption, FoundStored DEF GoodCollection, Finds
<1>2. Shaped(c) /\ Begun(c).collection = c
  BY GoodShaped DEF Begun
<1> HIDE DEF found
<1>3. CASE found # <<>>
  <2>1. UpdateMatching(c, write) = UpdateAll(Begun(c), found, write.update)
    BY <1>3 DEF UpdateMatching, UpdateAll, found
  <2>2. n \in Nat
    BY <1>1, ListHas
  <2>3. PICK run : /\ run[0] = Begun(c)
                   /\ \A k \in 1 .. n : run[k] = UpdateStored(run[k - 1], found[k], write.update)
                   /\ UpdateMatching(c, write) = run[n]
    <3>1. \E run : UpdatesRun(run, Begun(c), found, write.update)
      BY <1>1, UpdateRuns
    <3> QED
      BY <2>1, <3>1 DEF UpdatesRun
  <2> HIDE DEF n
  <2>4. SameInfos(run[0].collection, run[n].collection)
    BY <1>2, <2>2, <2>3, UpdateKeepsInfos, RunKeepsInfos
  <2> QED
    BY <1>2, <2>3, <2>4
<1>4. CASE found = <<>> /\ write.upsert
  <2> DEFINE document == AssignId(ApplyUpdate(CreateUpsertBase(write.filter), write.update, TRUE), c)
  <2>1. UpdateMatching(c, write) = InsertStored(Begun(c), document)
    BY <1>4 DEF UpdateMatching, UpsertStored, found, Begun
  <2> HIDE DEF document
  <2> QED
    BY <1>2, <2>1, InsertKeepsInfos
<1>5. CASE found = <<>> /\ ~write.upsert
  <2>1. UpdateMatching(c, write) = Begun(c)
    BY <1>5 DEF UpdateMatching, found
  <2> QED
    BY <1>2, <2>1, SameItself
<1> QED
  BY <1>3, <1>4, <1>5

LEMMA ClearKeepsInfos ==
  ASSUME NEW c, Shaped(c)
  PROVE  SameInfos(c, Cleared(c))
<1> DEFINE cleared == [i \in DOMAIN c.indexes |-> [c.indexes[i] EXCEPT !.owners = <<>>]]
<1>1. Cleared(c) = [documents |-> <<>>, indexes |-> cleared, exists |-> c.exists]
  <2>1. Cleared(c) = [c EXCEPT !.documents = <<>>, !.indexes = cleared]
    BY DEF Cleared
  <2> HIDE DEF cleared
  <2> QED
    BY <2>1 DEF Shaped
<1>2. ASSUME NEW i \in DOMAIN c.indexes
      PROVE  IsIndex(cleared[i]) /\ cleared[i].info = c.indexes[i].info
  <2> DEFINE x == cleared[i]
  <2>1. x = [info |-> c.indexes[i].info, owners |-> <<>>]
    BY DEF Shaped, IsIndex
  <2> HIDE DEF x
  <2> QED
    BY <2>1 DEF x, IsIndex
<1>3. DOMAIN cleared = DOMAIN c.indexes
  OBVIOUS
<1> HIDE DEF cleared
<1>4. {cleared[i].info : i \in DOMAIN cleared} = {c.indexes[i].info : i \in DOMAIN c.indexes}
  BY <1>2, <1>3
<1> QED
  BY <1>1, <1>2, <1>3, <1>4 DEF SameInfos, Shaped, Infos

LEMMA EnteredInfo ==
  ASSUME NEW documents, IsList(documents), NEW info, NEW base, IsNewIndex(base, info)
  PROVE  EnterAll(base, documents).index.info = info
<1> DEFINE n == Len(documents)
<1>1. n \in Nat
  BY ListHas
<1>2. PICK run : /\ run[0] = base
                 /\ \A k \in 1 .. n : run[k] = EnterDocument(run[k - 1], documents[k])
                 /\ EnterAll(base, documents) = run[n]
  BY <1>1, EnterRuns
<1> HIDE DEF n
<1> DEFINE Is(r) == IsIndex(r.index) /\ r.index.info = info
           K == {k \in Nat : k <= n => Is(run[k])}
<1>3. 0 \in K
  <2>1. run[0].index = [info |-> info, owners |-> <<>>]
    BY <1>2 DEF IsNewIndex
  <2>2. Is(run[0])
    BY <2>1 DEF IsIndex
  <2> HIDE DEF Is
  <2> QED
    BY <2>2
<1>4. ASSUME NEW k \in Nat, k \in K PROVE k + 1 \in K
  <2> SUFFICES ASSUME k + 1 <= n PROVE Is(run[k + 1])
    OBVIOUS
  <2> DEFINE r == run[k]
             d == documents[k + 1]
  <2>1. k + 1 \in 1 .. n /\ k + 1 - 1 = k /\ k <= n
    BY <1>1
  <2>2. Is(r) /\ run[k + 1] = EnterDocument(r, d)
    BY <1>2, <1>4, <2>1
  <2> HIDE DEF r, d
  <2>3. IsIndex(WriteEntries(r.index, {}, {d})) /\ WriteEntries(r.index, {}, {d}).info = info
    BY <2>2, WriteKeepsInfo
  <2>4. EnterDocument(r, d).index = r.index \/ EnterDocument(r, d).index = WriteEntries(r.index, {}, {d})
    BY DEF EnterDocument
  <2> QED
    BY <2>2, <2>3, <2>4
<1>5. Nat \subseteq K
  <2> HIDE DEF K
  <2> QED
    BY <1>3, <1>4, CountsUp
<1>6. Is(run[n])
  <2> HIDE DEF Is
  <2> QED
    BY <1>1, <1>5
<1> QED
  BY <1>2, <1>6

\* more indexes than before, each of the new ones with such a name
Grows(before, after, names) ==
    /\ after = [documents |-> after.documents, indexes |-> after.indexes, exists |-> after.exists]
    /\ IsList(after.indexes)
    /\ before.exists => after.exists
    /\ Infos(before) \subseteq Infos(after)
    /\ \A info \in Infos(after) : info \in Infos(before) \/ info.name \in names

LEMMA BuildGrows ==
  ASSUME NEW r, NEW info, NEW documents, IsList(documents), NEW before, NEW names,
         Grows(before, r.collection, names), info.name \in names
  PROVE  Grows(before, BuildIndex(r, info, documents).collection, names)
<1> DEFINE c == r.collection
           base == [index |-> [info |-> info, owners |-> <<>>], error |-> Succeeded]
           built == EnterAll(base, documents)
           indexes == Append(c.indexes, built.index)
           next == [documents |-> c.documents, indexes |-> indexes, exists |-> c.exists]
<1>1. built.index.info = info
  BY EnteredInfo DEF IsNewIndex
<1>2. BuildIndex(r, info, documents).collection = c \/ BuildIndex(r, info, documents).collection = next
  <2>1. \/ BuildIndex(r, info, documents) = r
        \/ BuildIndex(r, info, documents) = Refused(c, built.error)
        \/ BuildIndex(r, info, documents) = Begun([c EXCEPT !.indexes = indexes])
    BY DEF BuildIndex, EnterAll
  <2> HIDE DEF built, indexes
  <2>2. c = [documents |-> c.documents, indexes |-> c.indexes, exists |-> c.exists]
    BY DEF Grows
  <2> HIDE DEF c
  <2>3. \A x : [c EXCEPT !.indexes = x] = [documents |-> c.documents, indexes |-> x, exists |-> c.exists]
    BY <2>2
  <2> QED
    BY <2>1, <2>3 DEF Begun, Refused, c
<1> HIDE DEF built
<1>3. /\ IsList(c.indexes) /\ Len(c.indexes) \in Nat /\ DOMAIN c.indexes = 1 .. Len(c.indexes)
      /\ c.exists \/ ~before.exists
  BY ListHas DEF Grows
<1>4. /\ IsList(indexes) /\ DOMAIN indexes = 1 .. Len(c.indexes) + 1
      /\ \A i \in DOMAIN c.indexes : indexes[i] = c.indexes[i]
      /\ indexes[Len(c.indexes) + 1] = built.index
  BY <1>3, ListAppends
<1> HIDE DEF indexes
<1>5. /\ \A i \in DOMAIN indexes : i \in DOMAIN c.indexes \/ indexes[i] = built.index
      /\ DOMAIN c.indexes \subseteq DOMAIN indexes
  BY <1>3, <1>4
<1>6. Infos(c) \subseteq Infos(next) /\ Infos(next) \subseteq Infos(c) \cup {info}
  BY <1>1, <1>4, <1>5 DEF Infos
<1>7. /\ next = [documents |-> next.documents, indexes |-> next.indexes, exists |-> next.exists]
      /\ next.exists = c.exists /\ next.indexes = indexes
  OBVIOUS
<1> HIDE DEF next
<1>8. Grows(before, next, names)
  BY <1>3, <1>4, <1>6, <1>7 DEF Grows
<1> QED
  BY <1>2, <1>8

\* createIndexes: the indexes there were are there, and those asked for at most
LEMMA CreateGrows ==
  ASSUME NEW c, GoodCollection(c), NEW descriptions, IsList(descriptions),
         \A i \in DOMAIN descriptions : HasOptions(descriptions[i])
  PROVE  LET result == CreateIndexesIn(c, descriptions)
         IN  /\ Grows(c, result.collection, {NameOf(descriptions[i]) : i \in DOMAIN descriptions})
             /\ result.error # Succeeded => result.collection = c
             /\ result.error = Succeeded => result.collection.exists
<1> DEFINE checks == [i \in DOMAIN descriptions |-> IsAlreadyCreated(c, CreateIndexInfo(descriptions[i]))]
           positions == {i \in DOMAIN checks : checks[i] = Succeeded}
           missing == At(descriptions, positions)
           built == BuildAll(Begun(c), missing, c.documents)
           n == Len(missing)
           names == {NameOf(descriptions[i]) : i \in DOMAIN descriptions}
           result == CreateIndexesIn(c, descriptions)
<1>1. \/ result.collection = c /\ result.error # Succeeded
      \/ result = Begun([built.collection EXCEPT !.exists = TRUE])
  <2> DEFINE conflicts == {i \in DOMAIN checks : checks[i] \in {OptionsConflict, KeySpecsConflict}}
  <2>1. \/ conflicts # {} /\ result = Refused(c, checks[Nth(conflicts, 1)])
        \/ built.error # Succeeded /\ result = Refused(c, built.error)
        \/ result = Begun([built.collection EXCEPT !.exists = TRUE])
    BY DEF CreateIndexesIn, BuildAll
  <2>2. conflicts # {} => checks[Nth(conflicts, 1)] \in {OptionsConflict, KeySpecsConflict}
    <3>1. conflicts \in SUBSET (DOMAIN descriptions)
      OBVIOUS
    <3> DEFINE picked == At(descriptions, conflicts)
    <3>2. /\ \A k \in DOMAIN picked : Nth(conflicts, k) \in conflicts
          /\ \A i \in conflicts : \E k \in DOMAIN picked : Nth(conflicts, k) = i
          /\ IsList(picked)
      <4> HIDE DEF conflicts
      <4> QED
        BY <3>1, AtPositions
    <3> HIDE DEF picked
    <3>3. conflicts # {} => 1 \in DOMAIN picked
      <4> HIDE DEF conflicts
      <4>1. conflicts # {} => DOMAIN picked # {}
        BY <3>2
      <4>2. Len(picked) \in Nat /\ DOMAIN picked = 1 .. Len(picked)
        BY <3>2, ListHas
      <4> QED
        BY <4>1, <4>2
    <3> QED
      BY <3>2, <3>3
  <2>3. Succeeded \notin {OptionsConflict, KeySpecsConflict}
    BY DEF Succeeded, OptionsConflict, KeySpecsConflict
  <2> HIDE DEF conflicts, checks, built, result
  <2> QED
    BY <2>1, <2>2, <2>3 DEF Refused
<1>2. positions \in SUBSET (DOMAIN descriptions)
  OBVIOUS
<1> HIDE DEF positions, result
<1>3. /\ IsList(missing)
      /\ \A k \in DOMAIN missing : Nth(positions, k) \in positions /\ missing[k] = descriptions[Nth(positions, k)]
  BY <1>2, AtPositions
<1> HIDE DEF missing
<1>4. n \in Nat /\ DOMAIN missing = 1 .. n
  BY <1>3, ListHas
<1>5. PICK run : /\ run[0] = Begun(c)
                 /\ \A k \in 1 .. n : run[k] = BuildIndex(run[k - 1], CreateIndexInfo(missing[k]), c.documents)
                 /\ built = run[n]
  BY <1>3, BuildRuns
<1> HIDE DEF n, built
<1>6. \A k \in 1 .. n : CreateIndexInfo(missing[k]).name \in names
  BY <1>2, <1>3, <1>4, InfoOfDescription
<1> HIDE DEF names
<1>7. IsList(c.documents) /\ IsList(c.indexes)
  BY DEF GoodCollection, GoodDocuments, GoodIndexes
<1>8. Grows(c, c, names)
  BY <1>7 DEF Grows, GoodCollection
<1> DEFINE K == {k \in Nat : k <= n => Grows(c, run[k].collection, names)}
<1>9. 0 \in K
  BY <1>5, <1>8 DEF Begun
<1>10. ASSUME NEW k \in Nat, k \in K PROVE k + 1 \in K
  <2> SUFFICES ASSUME k + 1 <= n PROVE Grows(c, run[k + 1].collection, names)
    OBVIOUS
  <2>1. k + 1 \in 1 .. n /\ k + 1 - 1 = k /\ k <= n
    BY <1>4
  <2>2. Grows(c, run[k].collection, names)
    BY <1>10, <2>1
  <2>3. /\ run[k + 1] = BuildIndex(run[k], CreateIndexInfo(missing[k + 1]), c.documents)
        /\ CreateIndexInfo(missing[k + 1]).name \in names
    BY <1>5, <1>6, <2>1
  <2> QED
    BY <1>7, <2>2, <2>3, BuildGrows
<1>11. Nat \subseteq K
  <2> HIDE DEF K
  <2> QED
    BY <1>9, <1>10, CountsUp
<1>12. Grows(c, built.collection, names)
  BY <1>4, <1>5, <1>11
<1> DEFINE b == built.collection
           next == [documents |-> b.documents, indexes |-> b.indexes, exists |-> TRUE]
<1>13. [b EXCEPT !.exists = TRUE] = next
  <2>1. b = [documents |-> b.documents, indexes |-> b.indexes, exists |-> b.exists]
    BY <1>12 DEF Grows
  <2> HIDE DEF b
  <2>2. \A x : [b EXCEPT !.exists = x] = [documents |-> b.documents, indexes |-> b.indexes, exists |-> x]
    BY <2>1
  <2> QED
    BY <2>2, Zenon
<1>14. Grows(c, next, names)
  <2> HIDE DEF b
  <2>1. Grows(c, b, names)
    BY <1>12 DEF b
  <2>2. Infos(next) = Infos(b) /\ next.indexes = b.indexes /\ next.exists = TRUE
        /\ next = [documents |-> next.documents, indexes |-> next.indexes, exists |-> next.exists]
    BY DEF Infos
  <2> HIDE DEF next
  <2> QED
    BY <2>1, <2>2 DEF Grows
<1> HIDE DEF b, next
<1>15. CASE result.collection = c /\ result.error # Succeeded
  BY <1>8, <1>15 DEF result, names
<1>16. CASE result = Begun([built.collection EXCEPT !.exists = TRUE])
  <2>1. result.collection = next /\ next.exists = TRUE /\ result.error = Succeeded
    BY <1>13, <1>16 DEF b, Begun, next
  <2> QED
    BY <1>14, <2>1 DEF result, names
<1> QED
  BY <1>1, <1>15, <1>16

LEMMA DropInfos ==
  ASSUME NEW c, GoodCollection(c), NEW name
  PROVE  LET after == DropIndexFrom(c, name).collection
         IN  /\ Infos(after) \subseteq Infos(c)
             /\ \A info \in Infos(c) : info.name # name => info \in Infos(after)
             /\ after.exists = c.exists
<1> DEFINE positions == {i \in DOMAIN c.indexes : c.indexes[i].info.name # name}
           left == At(c.indexes, positions)
           after == DropIndexFrom(c, name).collection
<1>1. IsList(c.indexes) /\ positions \in SUBSET (DOMAIN c.indexes)
  BY DEF GoodCollection, GoodIndexes
<1>2. after \in {c, [c EXCEPT !.indexes = left]}
  BY DEF DropIndexFrom, Begun, Refused
<1>3. \A i \in DOMAIN c.indexes : c.indexes[i].info.name # name => i \in positions
  OBVIOUS
<1> HIDE DEF positions
<1>4. /\ \A k \in DOMAIN left : Nth(positions, k) \in positions /\ left[k] = c.indexes[Nth(positions, k)]
      /\ \A i \in positions : \E k \in DOMAIN left : Nth(positions, k) = i
  BY <1>1, AtPositions
<1> HIDE DEF left, after
<1>5. after.exists = c.exists /\ (after.indexes = c.indexes \/ after.indexes = left)
  BY <1>2 DEF GoodCollection
<1>6. Infos(after) \subseteq Infos(c)
  BY <1>1, <1>4, <1>5 DEF Infos
<1>7. \A info \in Infos(c) : info.name # name => info \in Infos(after)
  BY <1>3, <1>4, <1>5 DEF Infos
<1> QED
  BY <1>5, <1>6, <1>7 DEF after

LEMMA ModifyInfos ==
  ASSUME NEW c, GoodCollection(c), NEW name, NEW changes
  PROVE  LET after == ModifyIndexOf(c, name, changes).collection
         IN  /\ \A info \in Infos(after) :
                   \/ info \in Infos(c)
                   \/ \E i \in Infos(c) : i.name = name /\ info = Over(changes, i)
             /\ \A info \in Infos(c) :
                   \/ info \in Infos(after)
                   \/ info.name = name /\ Over(changes, info) \in Infos(after)
             /\ after.exists = c.exists
<1> DEFINE at == {i \in DOMAIN c.indexes : c.indexes[i].info.name = name}
           Modified(x) == [x EXCEPT !.info = Over(changes, @)]
           changed == [i \in DOMAIN c.indexes |-> IF i \in at THEN Modified(c.indexes[i]) ELSE c.indexes[i]]
           after == ModifyIndexOf(c, name, changes).collection
           next == [c EXCEPT !.indexes =
                       [i \in DOMAIN @ |-> IF i \in at THEN Modified(@[i]) ELSE @[i]]]
<1>1. \/ ModifyIndexOf(c, name, changes) = Refused(c, NamespaceNotFound)
      \/ ModifyIndexOf(c, name, changes) = Refused(c, IndexNotFound)
      \/ ModifyIndexOf(c, name, changes) = Begun(next)
  <2>1. CASE ~c.exists
    BY <2>1 DEF ModifyIndexOf
  <2>2. CASE c.exists /\ at = {}
    BY <2>2 DEF ModifyIndexOf
  <2>3. CASE c.exists /\ at # {}
    <3>1. ModifyIndexOf(c, name, changes) = Begun(next)
      BY <2>3 DEF ModifyIndexOf
    <3> QED
      BY <3>1
  <2> QED
    BY <2>1, <2>2, <2>3
<1>2. next = [c EXCEPT !.indexes = changed]
  OBVIOUS
<1> HIDE DEF next
<1>3. after \in {c, [c EXCEPT !.indexes = changed]}
  BY <1>1, <1>2 DEF Begun, Refused
<1>4. ASSUME NEW i \in DOMAIN c.indexes
      PROVE  changed[i].info = IF i \in at THEN Over(changes, c.indexes[i].info) ELSE c.indexes[i].info
  <2>1. c.indexes[i] = [info |-> c.indexes[i].info, owners |-> c.indexes[i].owners]
    BY DEF GoodCollection, GoodIndexes, GoodIndex, IsIndex
  <2>2. Modified(c.indexes[i]).info = Over(changes, c.indexes[i].info)
    BY <2>1
  <2>3. changed[i] = IF i \in at THEN Modified(c.indexes[i]) ELSE c.indexes[i]
    OBVIOUS
  <2> HIDE DEF changed, Modified
  <2> QED
    BY <2>2, <2>3
<1>5. DOMAIN changed = DOMAIN c.indexes
  OBVIOUS
<1> HIDE DEF changed, after
<1>6. after.exists = c.exists /\ (after.indexes = c.indexes \/ after.indexes = changed)
  BY <1>3 DEF GoodCollection
<1>7. CASE after.indexes = c.indexes
  BY <1>6, <1>7 DEF Infos, after
<1>8. CASE after.indexes = changed
  <2>1. ASSUME NEW info \in Infos(after)
        PROVE  \/ info \in Infos(c)
               \/ \E i \in Infos(c) : i.name = name /\ info = Over(changes, i)
    <3>1. PICK k \in DOMAIN c.indexes : info = changed[k].info
      BY <1>5, <1>8, <2>1 DEF Infos
    <3>2. c.indexes[k].info \in Infos(c)
      BY DEF Infos
    <3> QED
      BY <1>4, <3>1, <3>2
  <2>2. ASSUME NEW info \in Infos(c)
        PROVE  \/ info \in Infos(after)
               \/ info.name = name /\ Over(changes, info) \in Infos(after)
    <3>1. PICK k \in DOMAIN c.indexes : info = c.indexes[k].info
      BY <2>2 DEF Infos
    <3>2. changed[k].info \in Infos(after)
      BY <1>5, <1>8 DEF Infos
    <3> QED
      BY <1>4, <3>1, <3>2
  <2> QED
    BY <1>6, <2>1, <2>2 DEF after
<1> QED
  BY <1>6, <1>7, <1>8

-----------------------------------------------------------------------------
(* What a sync that no other overlaps knows of the indexes *)

LEMMA AmissKept ==
  ASSUME NEW infos, NEW after, NEW indexes, NEW name, Amiss(infos, indexes, name),
         \A i \in after : i \in infos \/ i.name # name
  PROVE  Amiss(after, indexes, name)
BY DEF Amiss, Meets

LEMMA ToMakeKept ==
  ASSUME NEW infos, NEW after, NEW indexes, NEW d, ToMake(d, infos, indexes),
         \A i \in after : i \in infos \/ i.name # d.name
  PROVE  ToMake(d, after, indexes)
BY AmissKept DEF ToMake

LEMMA PlannedLess ==
  ASSUME NEW infos, NEW after \in SUBSET infos, NEW indexes, NEW plan, Planned(plan, infos, indexes)
  PROVE  Planned(plan, after, indexes)
BY ToMakeKept DEF Planned

LEMMA LeftLess ==
  ASSUME NEW infos, NEW after \in SUBSET infos, NEW indexes, NEW phase, NEW plan, NEW pending,
         LeftToDo(phase, plan, pending, infos, indexes)
  PROVE  LeftToDo(phase, plan, pending, after, indexes)
<1>1. \A name : Amiss(infos, indexes, name) => Amiss(after, indexes, name)
  BY AmissKept
<1>2. \A d : ToMake(d, infos, indexes) => ToMake(d, after, indexes)
  BY ToMakeKept
<1>3. Planned(plan, infos, indexes) => Planned(plan, after, indexes)
  BY PlannedLess
<1> QED
  BY <1>1, <1>2, <1>3 DEF LeftToDo

\* the indexes listed are known by their names, the one on _id apart
KnownByName(infos) ==
    /\ \A a, b \in infos : a.name = b.name /\ a.name # idIndexName => a = b
    /\ \A a \in infos : HasOptions(a)

LEMMA NormalizedName ==
  ASSUME NEW info, HasOptions(info)
  PROVE  NormalizeExistingIndex(info).name = info.name
BY DEF HasOptions, NormalizeExistingIndex, Over

LEMMA DescribedFrom ==
  ASSUME NEW indexes, IsDeclaration(indexes), NEW positions \in SUBSET (DOMAIN indexes)
  PROVE  LET d == Described(At(indexes, positions))
         IN  \A i \in DOMAIN d : \E j \in positions : d[i] = BuildDescription(indexes[j])
<1> DEFINE t == At(indexes, positions)
<1>1. IsList(indexes)
  BY DeclaredList
<1>2. /\ IsList(t)
      /\ \A n \in DOMAIN t : Nth(positions, n) \in positions /\ t[n] = indexes[Nth(positions, n)]
  BY <1>1, AtPositions
<1> HIDE DEF t
<1> QED
  BY <1>2 DEF Described, t

LEMMA DescriptionName ==
  ASSUME NEW index, HasOptions(index)
  PROVE  BuildDescription(index).name = NameOf(index) /\ BuildDescription(index).key = index.key
BY DEF BuildDescription, HasOptions

\* What is missing or to be made again is not there as declared, and what is
\* changed is set to what is declared.
LEMMA PlanFollows ==
  ASSUME NEW indexes, IsDeclaration(indexes), NEW infos, IsList(infos), KnownByName(ToSet(infos)), NEW dropping
  PROVE  LET plan == DiffIndexes(indexes, infos, dropping)
         IN  /\ Planned(plan, ToSet(infos), indexes)
             /\ \A i \in DOMAIN plan.toDrop : Amiss(ToSet(infos), indexes, plan.toDrop[i])
<1> DEFINE plan == DiffIndexes(indexes, infos, dropping)
           seen == ToSet(infos)
           existing == {NormalizeExistingIndex(i) : i \in seen}
           Declared(x) == NormalizeDeclaredIndex(x)
           Existing(x) == CHOOSE e \in existing : e.name = NameOf(x)
           IsMissing(x) == \A e \in existing : e.name # NameOf(x)
           IsSame(x) == ~IsMissing(x) /\ IsSameKey(Declared(x), Existing(x))
           IsKept(x) == IsSame(x) /\ DiffOptions(Declared(x), Existing(x)) = {}
           IsMod(x) == IsSame(x) /\ IsCollModApplicable(Declared(x), Existing(x))
           IsRemade(x) == ~IsMissing(x) /\ ~IsKept(x) /\ ~IsMod(x)
           create == {i \in DOMAIN indexes : IsMissing(indexes[i])}
           recreate == {i \in DOMAIN indexes : IsRemade(indexes[i])}
           modify == {i \in DOMAIN indexes : IsMod(indexes[i])}
           modified == At(indexes, modify)
           mods == [i \in DOMAIN modified |->
                      [name    |-> NameOf(modified[i]),
                       changes |-> BuildCollModChanges(Declared(modified[i]), Existing(modified[i]))]]
           undeclared == Undeclared(indexes, infos)
           drops == IF dropping THEN [i \in DOMAIN undeclared |-> undeclared[i].name] ELSE <<>>
<1>1. plan = [toCreate |-> Described(At(indexes, create)), toRecreate |-> Described(At(indexes, recreate)),
              toCollMod |-> mods, toDrop |-> drops]
  BY DEF DiffIndexes, Described
<1>2. create \cap modify = {} /\ recreate \cap modify = {}
  <2>1. \A x : IsMod(x) => ~IsMissing(x) /\ ~IsRemade(x)
    OBVIOUS
  <2> HIDE DEF IsMod, IsMissing, IsRemade
  <2> QED
    BY <2>1
<1>3. create \in SUBSET (DOMAIN indexes) /\ recreate \in SUBSET (DOMAIN indexes) /\ modify \in SUBSET (DOMAIN indexes)
  OBVIOUS
<1>4. /\ IsList(indexes) /\ DistinctNames(indexes)
      /\ \A j \in DOMAIN indexes : HasOptions(indexes[j]) /\ NameOf(indexes[j]) # idIndexName
  BY DeclaredList DEF IsDeclaration, ValidDeclaration
<1>5. \A i \in seen : NormalizeExistingIndex(i) \in existing /\ NormalizeExistingIndex(i).name = i.name
  BY NormalizedName DEF KnownByName
<1>6. ASSUME NEW j \in create PROVE Amiss(seen, indexes, NameOf(indexes[j]))
  <2>1. \A i \in seen : i.name # NameOf(indexes[j])
    <3>1. \A e \in existing : e.name # NameOf(indexes[j])
      OBVIOUS
    <3> HIDE DEF existing
    <3> QED
      BY <1>5, <3>1
  <2> HIDE DEF create
  <2> QED
    BY <2>1 DEF Amiss, Meets
<1>7. ASSUME NEW j \in recreate, NEW i \in seen PROVE ~Meets(i, indexes[j])
  <2> DEFINE x == indexes[j]
             e == NormalizeExistingIndex(i)
  <2>1. ~IsMissing(x) /\ ~IsKept(x)
    OBVIOUS
  <2>2. j \in DOMAIN indexes
    OBVIOUS
  <2>3. ASSUME Meets(i, x) PROVE FALSE
    <3>1. i.name = NameOf(x) /\ IsSameKey(Declared(x), e) /\ DiffOptions(Declared(x), e) = {}
      BY <2>3 DEF Meets
    <3>2. ASSUME NEW f \in existing, f.name = NameOf(x) PROVE f = e
      <4>1. PICK k \in seen : f = NormalizeExistingIndex(k)
        OBVIOUS
      <4>2. k.name = i.name
        BY <1>5, <3>1, <3>2, <4>1
      <4>3. k = i
        BY <1>4, <2>2, <3>1, <4>2 DEF KnownByName
      <4> QED
        BY <4>1, <4>3
    <3>3. e \in existing /\ e.name = NameOf(x)
      BY <1>5, <3>1
    <3> HIDE DEF existing, x, e
    <3>4. Existing(x) = e
      BY <3>2, <3>3
    <3> QED
      BY <2>1, <3>1, <3>4
  <2> QED
    BY <2>3
<1>8. \A j \in recreate : Amiss(seen, indexes, NameOf(indexes[j]))
  <2> SUFFICES ASSUME NEW j \in recreate, NEW k \in DOMAIN indexes, NameOf(indexes[k]) = NameOf(indexes[j])
               PROVE  \A i \in seen : ~Meets(i, indexes[k])
    BY DEF Amiss
  <2>1. k = j
    <3> HIDE DEF recreate
    <3> QED
      BY <1>3, <1>4 DEF DistinctNames
  <2> QED
    BY <1>7, <2>1
<1>9. /\ IsList(modified)
      /\ \A n \in DOMAIN modified : Nth(modify, n) \in modify /\ modified[n] = indexes[Nth(modify, n)]
  <2> HIDE DEF modify
  <2> QED
    BY <1>3, <1>4, AtPositions
<1>10. /\ DOMAIN mods = DOMAIN modified
       /\ \A i \in DOMAIN modified :
            /\ mods[i].name = NameOf(modified[i])
            /\ \A f \in DOMAIN mods[i].changes : mods[i].changes[f] = NormalizeDeclaredIndex(modified[i])[f]
  <2> HIDE DEF modified, existing
  <2> QED
    BY DEF BuildCollModChanges
<1> HIDE DEF create, recreate, modify, modified, mods
<1>11. \A i \in DOMAIN drops : Amiss(seen, indexes, drops[i])
  <2> DEFINE Gone(i) == infos[i].name \notin {NameOf(indexes[j]) : j \in DOMAIN indexes} \cup {idIndexName}
             gone == {i \in DOMAIN infos : Gone(i)}
  <2>1. undeclared = At(infos, gone) /\ gone \in SUBSET (DOMAIN infos)
    BY DEF Undeclared
  <2>2. \A i \in gone : infos[i].name \notin {NameOf(indexes[j]) : j \in DOMAIN indexes}
    OBVIOUS
  <2> HIDE DEF gone, undeclared
  <2>3. \A n \in DOMAIN undeclared : undeclared[n].name \notin {NameOf(indexes[j]) : j \in DOMAIN indexes}
    BY <2>1, <2>2, AtPositions
  <2>4. \A n \in DOMAIN undeclared : Amiss(seen, indexes, undeclared[n].name)
    BY <2>3 DEF Amiss
  <2>5. CASE dropping
    BY <2>4, <2>5
  <2>6. CASE ~dropping
    BY <2>6, EmptyList
  <2> QED
    BY <2>5, <2>6
<1> HIDE DEF drops, plan
<1> DEFINE c == Described(At(indexes, create))
           r == Described(At(indexes, recreate))
<1>12. \A i \in DOMAIN c : \E j \in create : c[i] = BuildDescription(indexes[j])
  BY <1>3, DescribedFrom
<1>13. \A i \in DOMAIN r : \E j \in recreate : r[i] = BuildDescription(indexes[j])
  BY <1>3, DescribedFrom
<1>14. plan.toCreate = c /\ plan.toRecreate = r /\ plan.toCollMod = mods /\ plan.toDrop = drops
  BY <1>1 DEF plan
<1> HIDE DEF c, r, seen
<1>15. \A j \in DOMAIN indexes : BuildDescription(indexes[j]).name = NameOf(indexes[j])
  BY <1>4, DescriptionName
<1>16. ASSUME NEW i \in DOMAIN c PROVE ToMake(c[i], seen, indexes)
  BY <1>3, <1>6, <1>12, <1>15 DEF ToMake
<1>17. ASSUME NEW i \in DOMAIN r PROVE ToMake(r[i], seen, indexes)
  BY <1>3, <1>8, <1>13, <1>15 DEF ToMake
<1>18. ASSUME NEW i \in DOMAIN mods PROVE ToChange(mods[i], plan, indexes)
  <2>1. PICK m \in modify : modified[i] = indexes[m]
    BY <1>9, <1>10
  <2>2. /\ m \in DOMAIN indexes /\ mods[i].name = NameOf(indexes[m])
        /\ \A f \in DOMAIN mods[i].changes : mods[i].changes[f] = NormalizeDeclaredIndex(indexes[m])[f]
    BY <1>3, <1>10, <2>1
  <2>3. \A j \in create \cup recreate : NameOf(indexes[j]) # NameOf(indexes[m])
    BY <1>2, <1>3, <1>4 DEF DistinctNames
  <2>4. \A k \in DOMAIN c : c[k].name # mods[i].name
    BY <1>3, <1>12, <1>15, <2>2, <2>3
  <2>5. \A k \in DOMAIN r : r[k].name # mods[i].name
    BY <1>3, <1>13, <1>15, <2>2, <2>3
  <2> QED
    BY <1>14, <2>2, <2>4, <2>5 DEF ToChange
<1>19. Planned(plan, seen, indexes)
  BY <1>14, <1>16, <1>17, <1>18 DEF Planned
<1> QED
  BY <1>11, <1>14, <1>19 DEF plan, seen

\* a sync that is done with a store, or goes on with it
Continues(t, s, infos, indexes) ==
    \/ t.phase \in {"listing", "over"}
    \/ t.at = s.at /\ LeftToDo(t.phase, t.plan, t.pending, infos, indexes)

LEMMA NextContinues ==
  ASSUME NEW s, IsSync(s), NEW infos, NEW indexes
  PROVE  /\ Continues(NextStore(s), s, infos, indexes)
         /\ \A code : Continues(Failed(s, code), s, infos, indexes)
<1>1. ASSUME NEW t, IsSync(t) PROVE NextStore(t).phase \in {"listing", "over"}
  <2>1. t = [phase |-> t.phase, at |-> t.at, plan |-> t.plan, pending |-> t.pending,
             conflict |-> t.conflict, failed |-> t.failed]
    BY <1>1 DEF IsSync
  <2> QED
    BY <2>1 DEF NextStore
<1>2. ASSUME NEW code PROVE Failed(s, code).phase \in {"listing", "over"}
  <2> DEFINE t == [s EXCEPT !.failed = @ \cup {<<StoreOf(s).collection, code>>}]
  <2>1. s = [phase |-> s.phase, at |-> s.at, plan |-> s.plan, pending |-> s.pending,
             conflict |-> s.conflict, failed |-> s.failed]
    BY DEF IsSync
  <2>2. t = [phase |-> s.phase, at |-> s.at, plan |-> s.plan, pending |-> s.pending,
             conflict |-> s.conflict, failed |-> s.failed \cup {<<StoreOf(s).collection, code>>}]
    BY <2>1
  <2>3. Failed(s, code) = NextStore(t)
    BY DEF Failed
  <2> HIDE DEF t
  <2>4. IsSync(t)
    BY <2>2 DEF IsSync
  <2> QED
    BY <1>1, <2>3, <2>4
<1> QED
  BY <1>1, <1>2 DEF Continues

LEMMA PhaseContinues ==
  ASSUME NEW s, IsSync(s), NEW infos, NEW indexes, NEW phase, NEW pending, NEW conflict,
         LeftToDo(phase, s.plan, pending, infos, indexes)
  PROVE  Continues(InPhase(s, phase, pending, conflict), s, infos, indexes)
<1>1. s = [phase |-> s.phase, at |-> s.at, plan |-> s.plan, pending |-> s.pending,
           conflict |-> s.conflict, failed |-> s.failed]
  BY DEF IsSync
<1> DEFINE u == InPhase(s, phase, pending, conflict)
<1>2. u.phase = phase /\ u.pending = pending /\ u.at = s.at /\ u.plan = s.plan
  BY <1>1 DEF InPhase
<1> HIDE DEF u
<1>3. Continues(u, s, infos, indexes)
  BY <1>2 DEF Continues
<1> QED
  BY <1>3 DEF u

LEMMA MadeName ==
  ASSUME NEW indexes, IsDeclaration(indexes), NEW infos, NEW d, ToMake(d, infos, indexes)
  PROVE  d.name = NameOf(d)
<1>1. PICK j \in DOMAIN indexes : d = BuildDescription(indexes[j])
  BY DEF ToMake
<1> QED
  BY <1>1, DeclaredList, DescriptionName, DescriptionNamed

LEMMA CreatingContinues ==
  ASSUME NEW s, IsSync(s), s.at > 0, GoodPlan(s.plan), NEW indexes, IsDeclaration(indexes), NEW infos,
         Planned(s.plan, infos, indexes)
  PROVE  Continues(BeginCreating(s), s, infos, indexes)
<1> DEFINE a == s.plan.toCreate
           b == s.plan.toRecreate
           u == a \o b
<1>1. CASE u = <<>>
  BY <1>1, NextContinues DEF BeginCreating
<1>2. CASE u # <<>>
  <2>1. /\ \A i \in DOMAIN a : u[i] = a[i]
        /\ \A i \in DOMAIN u : i \in DOMAIN a \/ (i - Len(a) \in DOMAIN b /\ u[i] = b[i - Len(a)])
    <3>1. IsList(a) /\ IsList(b)
      BY DEF GoodPlan
    <3> HIDE DEF a, b
    <3> QED
      BY <3>1, ListsJoin
  <2> DEFINE at(i) == i - Len(a)
  <2>2. \A i \in DOMAIN u : i \in DOMAIN a \/ (at(i) \in DOMAIN b /\ u[i] = b[at(i)])
    BY <2>1
  <2> HIDE DEF u, at
  <2>3. \A i \in DOMAIN u : ToMake(u[i], infos, indexes)
    BY <2>1, <2>2 DEF Planned
  <2>4. BeginCreating(s) = InPhase(s, "creating", u, s.conflict)
    BY <1>2, SamePhase DEF BeginCreating, u
  <2>5. DistinctNames(u)
    <3>1. GoodSync(InPhase(s, "creating", u, s.conflict))
      BY <2>4, CreatingGood
    <3>2. /\ InPhase(s, "creating", u, s.conflict).phase = "creating"
          /\ InPhase(s, "creating", u, s.conflict).pending = u
      BY DEF InPhase, IsSync
    <3> QED
      BY <3>1, <3>2 DEF GoodSync, GoodPending
  <2>6. \A i, j \in DOMAIN u : u[i].name = u[j].name => i = j
    BY <2>3, <2>5, MadeName DEF DistinctNames
  <2>7. LeftToDo("creating", s.plan, u, infos, indexes)
    BY <2>3, <2>6 DEF LeftToDo
  <2> QED
    BY <2>4, <2>7, PhaseContinues
<1> QED
  BY <1>1, <1>2

LEMMA ModifyingContinues ==
  ASSUME NEW s, IsSync(s), s.at > 0, GoodPlan(s.plan), NEW indexes, IsDeclaration(indexes), NEW infos,
         Planned(s.plan, infos, indexes)
  PROVE  Continues(BeginModifying(s), s, infos, indexes)
<1>1. CASE s.plan.toCollMod = <<>>
  BY <1>1, CreatingContinues DEF BeginModifying
<1>2. CASE s.plan.toCollMod # <<>>
  <2>1. BeginModifying(s) = InPhase(s, "modifying", s.plan.toCollMod, s.conflict)
    BY <1>2, SamePhase DEF BeginModifying
  <2>2. LeftToDo("modifying", s.plan, s.plan.toCollMod, infos, indexes)
    BY DEF LeftToDo, Planned
  <2> QED
    BY <2>1, <2>2, PhaseContinues
<1> QED
  BY <1>1, <1>2

LEMMA DroppingContinues ==
  ASSUME NEW s, IsSync(s), s.at > 0, GoodPlan(s.plan), NEW indexes, IsDeclaration(indexes), NEW infos,
         Planned(s.plan, infos, indexes),
         \A i \in DOMAIN s.plan.toDrop : Amiss(infos, indexes, s.plan.toDrop[i])
  PROVE  Continues(BeginDropping(s), s, infos, indexes)
<1> DEFINE remade == [i \in DOMAIN s.plan.toRecreate |-> s.plan.toRecreate[i].name]
           drops == s.plan.toDrop
           u == drops \o remade
<1>1. CASE u = <<>>
  BY <1>1, ModifyingContinues DEF BeginDropping
<1>2. CASE u # <<>>
  <2>1. IsList(drops) /\ IsList(s.plan.toRecreate)
    BY DEF GoodPlan
  <2>2. IsList(remade)
    <3> DEFINE n == Len(s.plan.toRecreate)
    <3>1. n \in Nat /\ DOMAIN s.plan.toRecreate = 1 .. n
      BY <2>1, ListHas
    <3>2. remade = [i \in 1 .. n |-> remade[i]]
      BY <3>1
    <3> HIDE DEF remade, n
    <3> QED
      BY <3>1, <3>2, ListOf
  <2>3. \A i \in DOMAIN remade : Amiss(infos, indexes, remade[i])
    BY DEF Planned, ToMake
  <2> HIDE DEF remade
  <2>4. /\ \A i \in DOMAIN drops : u[i] = drops[i]
        /\ \A i \in DOMAIN u : i \in DOMAIN drops \/ (i - Len(drops) \in DOMAIN remade /\ u[i] = remade[i - Len(drops)])
    <3> HIDE DEF drops
    <3> QED
      BY <2>1, <2>2, ListsJoin
  <2> DEFINE at(i) == i - Len(drops)
  <2>5. \A i \in DOMAIN u : i \in DOMAIN drops \/ (at(i) \in DOMAIN remade /\ u[i] = remade[at(i)])
    BY <2>4
  <2> HIDE DEF u, at
  <2>6. \A i \in DOMAIN u : Amiss(infos, indexes, u[i])
    BY <2>3, <2>4, <2>5
  <2>7. LeftToDo("dropping", s.plan, u, infos, indexes)
    BY <2>6 DEF LeftToDo
  <2>8. BeginDropping(s) = InPhase(s, "dropping", u, s.conflict)
    BY <1>2, SamePhase DEF BeginDropping, u, remade
  <2> QED
    BY <2>7, <2>8, PhaseContinues
<1> QED
  BY <1>1, <1>2

\* the rest of a loop whose first turn is done
LEMMA TailLeft ==
  ASSUME NEW pending, IsList(pending), pending # <<>>, NEW plan, NEW infos, NEW indexes, NEW after
  PROVE  LET rest == Tail(pending)
         IN  /\ \A phase \in {"dropping", "modifying"} :
                   LeftToDo(phase, plan, pending, infos, indexes) => LeftToDo(phase, plan, rest, infos, indexes)
             /\ \A phase \in {"retrying", "recreating"} :
                   LeftToDo(phase, plan, pending, infos, indexes)
                     /\ (\A i \in after : i \in infos \/ i.name = Head(pending).name)
                   => LeftToDo("retrying", plan, rest, after, indexes)
             /\ LeftToDo("clearing", plan, pending, infos, indexes) /\ after \subseteq infos
                => LeftToDo("recreating", plan, rest, after, indexes)
<1> DEFINE rest == Tail(pending)
           next(i) == i + 1
<1>1. /\ Head(pending) = pending[1] /\ 1 \in DOMAIN pending
      /\ \A i \in DOMAIN rest : next(i) \in DOMAIN pending \ {1} /\ rest[i] = pending[next(i)]
  BY RestOfList
<1>2. \A i, j \in DOMAIN rest : next(i) = next(j) => i = j
  <2>1. DOMAIN rest \subseteq Nat
    <3>1. IsList(rest)
      BY RestOfList
    <3> HIDE DEF rest
    <3> QED
      BY <3>1, ListHas
  <2> HIDE DEF rest
  <2> QED
    BY <2>1
<1> HIDE DEF rest, next
<1>3. ASSUME NEW phase \in {"dropping", "modifying"}, LeftToDo(phase, plan, pending, infos, indexes)
      PROVE  LeftToDo(phase, plan, rest, infos, indexes)
  BY <1>1, <1>3 DEF LeftToDo
<1>4. ASSUME NEW phase \in {"retrying", "recreating"}, LeftToDo(phase, plan, pending, infos, indexes),
             \A i \in after : i \in infos \/ i.name = Head(pending).name
      PROVE  LeftToDo("retrying", plan, rest, after, indexes)
  <2>1. /\ \A i \in DOMAIN pending : ToMake(pending[i], infos, indexes)
        /\ \A i, j \in DOMAIN pending : pending[i].name = pending[j].name => i = j
    BY <1>4 DEF LeftToDo
  <2>2. \A i \in DOMAIN rest : ToMake(rest[i], infos, indexes) /\ rest[i].name # Head(pending).name
    BY <1>1, <2>1
  <2>3. \A i \in DOMAIN rest : ToMake(rest[i], after, indexes)
    BY <1>4, <2>2, ToMakeKept
  <2>4. \A i, j \in DOMAIN rest : rest[i].name = rest[j].name => i = j
    BY <1>1, <1>2, <2>1
  <2> QED
    BY <2>3, <2>4 DEF LeftToDo
<1>5. ASSUME LeftToDo("clearing", plan, pending, infos, indexes), after \subseteq infos
      PROVE  LeftToDo("recreating", plan, rest, after, indexes)
  <2>1. /\ \A i \in DOMAIN pending \ {1} : ToMake(pending[i], infos, indexes)
        /\ \A i, j \in DOMAIN pending \ {1} : pending[i].name = pending[j].name => i = j
    BY <1>5 DEF LeftToDo
  <2>2. \A i \in DOMAIN rest : ToMake(rest[i], infos, indexes)
    BY <1>1, <2>1
  <2>3. \A i \in DOMAIN rest : ToMake(rest[i], after, indexes)
    BY <1>5, <2>2, ToMakeKept
  <2>4. \A i, j \in DOMAIN rest : rest[i].name = rest[j].name => i = j
    BY <1>1, <1>2, <2>1
  <2> QED
    BY <2>3, <2>4 DEF LeftToDo
<1> QED
  BY <1>3, <1>4, <1>5 DEF rest

-----------------------------------------------------------------------------
(* What a sync's own steps do to the indexes of its store *)

Spares(before, after, indexes) ==
    \A j \in DOMAIN indexes :
        (\E i \in before : Meets(i, indexes[j])) => \E i \in after : Meets(i, indexes[j])

\* the sync becomes t, and its collection has these indexes after
Own(p, t, after) ==
    LET s == sync[p]
    IN  /\ Continues(t, s, after, StoreOf(s).indexes)
        /\ Spares(Infos(collection[StoreOf(s).collection]), after, StoreOf(s).indexes)

OwnStep(p) ==
    \E t, after :
        /\ Own(p, t, after)
        /\ sync'[p] = t
        /\ Infos(collection'[StoreOf(sync[p]).collection]) = after

LEMMA AtCollection ==
  ASSUME CollectionsGood, SyncsGood, NEW p \in Syncs, sync[p].phase \notin {"idle", "over"}
  PROVE  sync[p].at \in DOMAIN Stores /\ StoreOf(sync[p]).collection \in Collections
<1> DEFINE n == sync[p].at
<1>1. IsSync(sync[p]) /\ sync[p].at > 0
  BY AtStore
<1>2. n \in 0 .. Len(Stores) /\ n > 0
  BY <1>1 DEF IsSync
<1> HIDE DEF n
<1>3. n \in DOMAIN Stores
  BY <1>2, StoresListed
<1> QED
  BY <1>3, StoresListed DEF n, StoreOf

\* what a step that writes leaves of the sync and of its collection
LEMMA HeldIs ==
  ASSUME CollectionsGood, SyncsGood, NEW p \in Syncs, sync[p].phase \notin {"idle", "over"},
         NEW t, Becomes(p, t), NEW result, Holds(p, result)
  PROVE  sync'[p] = t /\ collection'[StoreOf(sync[p]).collection] = result.collection
<1> DEFINE c == StoreOf(sync[p]).collection
<1>1. c \in Collections
  BY AtCollection
<1>2. c \in DOMAIN collection
  BY <1>1 DEF CollectionsGood
<1>3. collection' = [collection EXCEPT ![c] = result.collection] /\ sync' = [sync EXCEPT ![p] = t]
  BY DEF Holds, Becomes
<1> HIDE DEF c
<1>4. collection'[c] = result.collection /\ sync'[p] = t
  BY <1>2, <1>3 DEF SyncsGood
<1> QED
  BY <1>4 DEF c

LEMMA OwnHeld ==
  ASSUME CollectionsGood, SyncsGood, NEW p \in Syncs, sync[p].phase \notin {"idle", "over"},
         NEW t, Becomes(p, t), NEW result, Holds(p, result), Own(p, t, Infos(result.collection))
  PROVE  OwnStep(p)
BY HeldIs DEF OwnStep

LEMMA OwnUnchanged ==
  ASSUME SyncsGood, NEW p \in Syncs, NEW t, Becomes(p, t), UNCHANGED collection,
         Continues(t, sync[p], Infos(collection[StoreOf(sync[p]).collection]), StoreOf(sync[p]).indexes)
  PROVE  OwnStep(p)
<1> DEFINE c == StoreOf(sync[p]).collection
           after == Infos(collection[c])
<1>1. sync'[p] = t
  BY DEF Becomes, SyncsGood
<1>2. collection' = collection
  OBVIOUS
<1>3. Infos(collection'[c]) = after
  BY <1>2
<1>4. Own(p, t, after)
  BY DEF Own, Spares
<1> HIDE DEF after
<1> QED
  BY <1>1, <1>3, <1>4 DEF OwnStep

LEMMA GrowingSpares ==
  ASSUME NEW before, NEW after, before \subseteq after, NEW indexes
  PROVE  Spares(before, after, indexes)
BY DEF Spares

\* one index gone, that was not as declared
LEMMA DroppingSpares ==
  ASSUME NEW before, NEW after, NEW indexes, NEW name, Amiss(before, indexes, name),
         \A i \in before : i.name # name => i \in after
  PROVE  Spares(before, after, indexes)
BY DEF Spares, Amiss, Meets

\* the weights of the text fields, those that are not declared too
FullWeights(index) ==
    [f \in TextFields(index.key) |-> IF f \in DOMAIN index.weights THEN index.weights[f] ELSE 1]

LEMMA DeclaredFields ==
  ASSUME NEW index, HasOptions(index)
  PROVE  LET declared == NormalizeDeclaredIndex(index)
         IN  /\ declared.isText = IsTextKey(index.key)
             /\ declared.key = At(index.key, {i \in DOMAIN index.key : index.key[i][2] # "text"})
             /\ declared.weights = FullWeights(index)
             /\ \A f \in ComparedFields \ {"weights"} : declared[f] = index[f]
<1> DEFINE kept == At(index.key, {i \in DOMAIN index.key : index.key[i][2] # "text"})
           text == IsTextKey(index.key)
           weights == FullWeights(index)
           y == [index EXCEPT !.name = NameOf(index), !.key = kept, !.weights = weights]
           m == [isText |-> text]
<1>1. NormalizeDeclaredIndex(index) = Over(m, y)
  BY DEF NormalizeDeclaredIndex, FullWeights
<1> HIDE DEF weights, kept, text
<1>2. /\ DOMAIN y = DOMAIN index /\ y.key = kept /\ y.weights = weights
      /\ \A f \in ComparedFields \ {"weights"} : y[f] = index[f]
  BY DEF HasOptions, ComparedFields
<1>3. DOMAIN m = {"isText"} /\ m.isText = text
  OBVIOUS
<1> HIDE DEF y, m
<1>4. /\ Over(m, y).isText = text /\ Over(m, y).key = kept /\ Over(m, y).weights = weights
      /\ \A f \in ComparedFields \ {"weights"} : Over(m, y)[f] = index[f]
  BY <1>2, <1>3 DEF Over, HasOptions, ComparedFields
<1> QED
  BY <1>1, <1>4 DEF weights, kept, text

LEMMA ExistingFields ==
  ASSUME NEW info, HasOptions(info)
  PROVE  LET existing == NormalizeExistingIndex(info)
         IN  /\ existing.isText = \E i \in DOMAIN info.key : info.key[i][1] = "_fts"
             /\ existing.key = At(info.key, {i \in DOMAIN info.key : info.key[i][1] \notin {"_fts", "_ftsx"}})
             /\ \A f \in ComparedFields : existing[f] = info[f]
<1> DEFINE kept == At(info.key, {i \in DOMAIN info.key : info.key[i][1] \notin {"_fts", "_ftsx"}})
           text == \E i \in DOMAIN info.key : info.key[i][1] = "_fts"
           y == [info EXCEPT !.key = kept]
           m == [isText |-> text]
<1>1. NormalizeExistingIndex(info) = Over(m, y)
  BY DEF NormalizeExistingIndex
<1> HIDE DEF kept, text
<1>2. DOMAIN y = DOMAIN info /\ y.key = kept /\ \A f \in ComparedFields : y[f] = info[f]
  BY DEF HasOptions, ComparedFields
<1>3. DOMAIN m = {"isText"} /\ m.isText = text
  OBVIOUS
<1> HIDE DEF y, m
<1>4. /\ Over(m, y).isText = text /\ Over(m, y).key = kept
      /\ \A f \in ComparedFields : Over(m, y)[f] = info[f]
  BY <1>2, <1>3 DEF Over, HasOptions, ComparedFields
<1> QED
  BY <1>1, <1>4 DEF kept, text

LEMMA OverFields ==
  ASSUME NEW info, HasOptions(info), NEW changes, DOMAIN changes \subseteq {"hidden", "expireAfterSeconds"}
  PROVE  LET x == Over(changes, info)
         IN  /\ HasOptions(x) /\ x.name = info.name /\ x.key = info.key
             /\ \A f \in ComparedFields : x[f] = IF f \in DOMAIN changes THEN changes[f] ELSE info[f]
<1> DEFINE x == Over(changes, info)
<1>1. /\ DOMAIN x = DOMAIN changes \cup DOMAIN info
      /\ \A f \in DOMAIN x : x[f] = IF f \in DOMAIN changes THEN changes[f] ELSE info[f]
  BY DEF Over
<1> HIDE DEF x
<1>2. /\ {"name", "key"} \cup ComparedFields \subseteq DOMAIN x
      /\ "name" \notin DOMAIN changes /\ "key" \notin DOMAIN changes
  BY <1>1 DEF HasOptions
<1>3. HasOptions(x)
  BY <1>2 DEF HasOptions
<1>4. x.name = info.name /\ x.key = info.key
  BY <1>1, <1>2
<1>5. \A f \in ComparedFields : x[f] = IF f \in DOMAIN changes THEN changes[f] ELSE info[f]
  BY <1>1, <1>2
<1> QED
  BY <1>3, <1>4, <1>5 DEF x

LEMMA MeetsIs ==
  ASSUME NEW info, HasOptions(info), NEW index
  PROVE  Meets(info, index) <=>
            /\ info.name = NameOf(index)
            /\ IsSameKey(NormalizeDeclaredIndex(index), NormalizeExistingIndex(info))
            /\ \A f \in ComparedFields : NormalizeDeclaredIndex(index)[f] = info[f]
<1>1. \A f \in ComparedFields : NormalizeExistingIndex(info)[f] = info[f]
  BY ExistingFields
<1> QED
  BY <1>1 DEF Meets, DiffOptions

\* the key of an index is compared as it is listed
LEMMA SameKeyCompared ==
  ASSUME NEW a, HasOptions(a), NEW b, HasOptions(b), a.key = b.key, NEW declared
  PROVE  IsSameKey(declared, NormalizeExistingIndex(a)) <=> IsSameKey(declared, NormalizeExistingIndex(b))
<1>1. /\ NormalizeExistingIndex(a).isText = \E i \in DOMAIN a.key : a.key[i][1] = "_fts"
      /\ NormalizeExistingIndex(a).key = At(a.key, {i \in DOMAIN a.key : a.key[i][1] \notin {"_fts", "_ftsx"}})
  BY ExistingFields
<1>2. /\ NormalizeExistingIndex(b).isText = \E i \in DOMAIN b.key : b.key[i][1] = "_fts"
      /\ NormalizeExistingIndex(b).key = At(b.key, {i \in DOMAIN b.key : b.key[i][1] \notin {"_fts", "_ftsx"}})
  BY ExistingFields
<1>3. /\ NormalizeExistingIndex(a).isText = NormalizeExistingIndex(b).isText
      /\ NormalizeExistingIndex(a).key = NormalizeExistingIndex(b).key
  BY <1>1, <1>2
<1> QED
  BY <1>3 DEF IsSameKey

LEMMA ChangedMeets ==
  ASSUME NEW info, HasOptions(info), NEW changes, DOMAIN changes \subseteq {"hidden", "expireAfterSeconds"},
         NEW index, \A f \in DOMAIN changes : changes[f] = NormalizeDeclaredIndex(index)[f],
         Meets(info, index)
  PROVE  Meets(Over(changes, info), index)
<1> DEFINE o == Over(changes, info)
           declared == NormalizeDeclaredIndex(index)
<1>1. /\ HasOptions(o) /\ o.name = info.name /\ o.key = info.key
      /\ \A f \in ComparedFields : o[f] = IF f \in DOMAIN changes THEN changes[f] ELSE info[f]
  BY OverFields
<1>2. /\ info.name = NameOf(index) /\ IsSameKey(declared, NormalizeExistingIndex(info))
      /\ \A f \in ComparedFields : declared[f] = info[f]
  BY MeetsIs
<1> HIDE DEF o
<1>3. IsSameKey(declared, NormalizeExistingIndex(o))
  BY <1>1, <1>2, SameKeyCompared
<1>4. \A f \in ComparedFields : declared[f] = o[f]
  BY <1>1, <1>2
<1>5. Meets(o, index)
  BY <1>1, <1>2, <1>3, <1>4, MeetsIs
<1> QED
  BY <1>5 DEF o

LEMMA OptionsOfInfos ==
  ASSUME NEW c, GoodCollection(c)
  PROVE  /\ \A i \in Infos(c) : HasOptions(i)
         /\ \A i, j \in Infos(c) : i.name = j.name => i = j
BY DEF GoodCollection, GoodIndexes, GoodIndex, HasOptions, Infos

\* what a collection that may not exist lists
LEMMA SeenInfos ==
  ASSUME NEW c, GoodCollection(c), HasNoneUnlessThere(c)
  PROVE  LET infos == IF c.exists THEN ListInfos(c) ELSE <<>>
             seen  == ToSet(infos)
         IN  /\ IsList(infos) /\ KnownByName(seen)
             /\ Infos(c) \subseteq seen /\ seen \subseteq {IdIndexInfo} \cup Infos(c)
<1> DEFINE infos == IF c.exists THEN ListInfos(c) ELSE <<>>
           seen == ToSet(infos)
<1>1. CASE c.exists
  <2>1. IsList(ListInfos(c)) /\ ToSet(ListInfos(c)) = {IdIndexInfo} \cup Infos(c)
    BY ListedInfos DEF GoodCollection, GoodIndexes, Infos
  <2>2. HasOptions(IdIndexInfo) /\ IdIndexInfo.name = idIndexName
    BY DEF HasOptions, IdIndexInfo, ComparedFields, idIndexName
  <2>3. KnownByName({IdIndexInfo} \cup Infos(c))
    BY <2>2, OptionsOfInfos DEF KnownByName
  <2> QED
    BY <1>1, <2>1, <2>3
<1>2. CASE ~c.exists
  <2>1. ToSet(<<>>) = {} /\ Infos(c) = {}
    BY <1>2, EmptyList DEF ToSet, HasNoneUnlessThere
  <2> QED
    BY <1>2, <2>1, EmptyList DEF KnownByName
<1> QED
  BY <1>1, <1>2

LEMMA ListOwn ==
  ASSUME CollectionsGood, SyncsGood, ExistsInv, NEW p \in Syncs, List(p)
  PROVE  OwnStep(p)
<1> DEFINE s == sync[p]
           c == collection[StoreOf(s).collection]
           indexes == StoreOf(s).indexes
           infos == IF c.exists THEN ListInfos(c) ELSE <<>>
           plan == DiffIndexes(indexes, infos, p \notin Keeping)
           t == [s EXCEPT !.plan = plan]
           next == IF p \in DryRuns THEN NextStore(s) ELSE BeginDropping(t)
<1>1. s.phase = "listing" /\ Becomes(p, next) /\ UNCHANGED collection
  BY DEF List
<1>2. IsSync(s) /\ s.at > 0 /\ IsDeclaration(indexes) /\ GoodCollection(c)
  BY <1>1, AtStore
<1>3. c.exists \/ Infos(c) = {}
  BY <1>1, AtCollection DEF ExistsInv, HasNoneUnlessThere
<1>4. IsList(infos) /\ KnownByName(ToSet(infos)) /\ Infos(c) \subseteq ToSet(infos)
  BY <1>2, <1>3, SeenInfos DEF HasNoneUnlessThere
<1> HIDE DEF infos
<1>5. /\ GoodPlan(plan) /\ Planned(plan, ToSet(infos), indexes)
      /\ \A i \in DOMAIN plan.toDrop : Amiss(ToSet(infos), indexes, plan.toDrop[i])
  BY <1>2, <1>4, DiffGood, PlanFollows
<1>6. IsSync(t) /\ t.at = s.at /\ t.plan = plan
  <2> HIDE DEF plan, s
  <2> QED
    BY <1>2, PlanSet
<1>7. /\ Planned(plan, Infos(c), indexes)
      /\ \A i \in DOMAIN plan.toDrop : Amiss(Infos(c), indexes, plan.toDrop[i])
  <2> HIDE DEF plan, c
  <2> QED
    BY <1>4, <1>5, PlannedLess, AmissKept
<1>8. Continues(next, s, Infos(c), indexes)
  <2> HIDE DEF plan, t, c, indexes
  <2>1. Continues(BeginDropping(t), t, Infos(c), indexes)
    BY <1>2, <1>5, <1>6, <1>7, DroppingContinues
  <2>2. Continues(BeginDropping(t), s, Infos(c), indexes)
    BY <1>6, <2>1 DEF Continues
  <2> QED
    BY <1>2, <2>2, NextContinues
<1> HIDE DEF next
<1> QED
  BY <1>1, <1>8, OwnUnchanged

LEMMA DropIndexOwn ==
  ASSUME CollectionsGood, SyncsGood, NEW p \in Syncs, Left(p), DropIndex(p)
  PROVE  OwnStep(p)
<1> DEFINE s == sync[p]
           c == collection[StoreOf(s).collection]
           indexes == StoreOf(s).indexes
           name == Head(s.pending)
           result == DropIndexFrom(c, name)
           after == Infos(result.collection)
           next == IF result.error \in {Succeeded, IndexNotFound}
                   THEN IF Len(s.pending) = 1 THEN BeginModifying(s) ELSE [s EXCEPT !.pending = Tail(@)]
                   ELSE Failed(s, result.error)
<1>1. s.phase = "dropping" /\ Holds(p, result) /\ Becomes(p, next)
  BY DEF DropIndex, Rest
<1>2. /\ IsSync(s) /\ s.at > 0 /\ GoodPlan(s.plan) /\ GoodCollection(c) /\ IsDeclaration(indexes)
      /\ IsList(s.pending) /\ s.pending # <<>>
  BY <1>1, AtStore DEF Looping
<1>3. after \subseteq Infos(c) /\ \A i \in Infos(c) : i.name # name => i \in after
  BY <1>2, DropInfos
<1>4. LeftToDo("dropping", s.plan, s.pending, Infos(c), indexes)
  BY <1>1 DEF Left
<1>5. Amiss(Infos(c), indexes, name)
  BY <1>2, <1>4, RestOfList DEF LeftToDo
<1>6. Spares(Infos(c), after, indexes)
  BY <1>3, <1>5, DroppingSpares
<1> HIDE DEF after, c, indexes
<1>7. LeftToDo("dropping", s.plan, s.pending, after, indexes)
  BY <1>3, <1>4, LeftLess
<1>8. Planned(s.plan, after, indexes)
  BY <1>7 DEF LeftToDo
<1>9. LeftToDo("dropping", s.plan, Tail(s.pending), after, indexes)
  BY <1>2, <1>7, TailLeft
<1>10. [s EXCEPT !.pending = Tail(@)] = InPhase(s, "dropping", Tail(s.pending), s.conflict)
  BY <1>1, <1>2, SamePhase
<1> HIDE DEF result, s
<1>11. Continues(next, s, after, indexes)
  <2> DEFINE rest == [s EXCEPT !.pending = Tail(@)]
  <2>1. Continues(rest, s, after, indexes)
    BY <1>2, <1>9, <1>10, PhaseContinues
  <2> HIDE DEF rest
  <2>2. Continues(BeginModifying(s), s, after, indexes) /\ Continues(Failed(s, result.error), s, after, indexes)
    BY <1>2, <1>8, NextContinues, ModifyingContinues
  <2>3. next \in {BeginModifying(s), rest, Failed(s, result.error)}
    BY DEF rest
  <2> HIDE DEF next
  <2> QED
    BY <2>1, <2>2, <2>3
<1>12. Own(p, next, after)
  BY <1>6, <1>11 DEF Own, s, c, indexes
<1> HIDE DEF next
<1> QED
  BY <1>1, <1>12, OwnHeld DEF s, after

LEMMA CollModOwn ==
  ASSUME CollectionsGood, SyncsGood, NEW p \in Syncs, Left(p), CollMod(p)
  PROVE  OwnStep(p)
<1> DEFINE s == sync[p]
           c == collection[StoreOf(s).collection]
           indexes == StoreOf(s).indexes
           mod == Head(s.pending)
           result == ModifyIndexOf(c, mod.name, mod.changes)
           after == Infos(result.collection)
           next == IF result.error = Succeeded
                   THEN IF Len(s.pending) = 1 THEN BeginCreating(s) ELSE [s EXCEPT !.pending = Tail(@)]
                   ELSE Failed(s, result.error)
<1>1. s.phase = "modifying" /\ Holds(p, result) /\ Becomes(p, next)
  BY DEF CollMod, Rest
<1>2. /\ GoodSync(s) /\ IsSync(s) /\ s.at > 0 /\ GoodPlan(s.plan) /\ GoodCollection(c) /\ IsDeclaration(indexes)
      /\ IsList(s.pending) /\ s.pending # <<>>
  BY <1>1, AtStore DEF Looping
<1>3. LeftToDo("modifying", s.plan, s.pending, Infos(c), indexes)
  BY <1>1 DEF Left
<1>4. ToChange(mod, s.plan, indexes) /\ IsChange(mod)
  <2>1. mod = s.pending[1] /\ 1 \in DOMAIN s.pending
    BY <1>2, RestOfList
  <2>2. \A i \in DOMAIN s.pending : IsChange(s.pending[i])
    BY <1>1, <1>2 DEF GoodSync, GoodPending
  <2> QED
    BY <1>3, <2>1, <2>2 DEF LeftToDo
<1>5. /\ \A i \in after : i \in Infos(c) \/ (\E x \in Infos(c) : x.name = mod.name /\ i = Over(mod.changes, x))
      /\ \A i \in Infos(c) : i \in after \/ (i.name = mod.name /\ Over(mod.changes, i) \in after)
  <2> HIDE DEF mod, c
  <2> DEFINE Changed(name, changes) == Infos(ModifyIndexOf(c, name, changes).collection)
  <2>1. ASSUME NEW name, NEW changes
        PROVE  /\ \A i \in Changed(name, changes) :
                     i \in Infos(c) \/ (\E x \in Infos(c) : x.name = name /\ i = Over(changes, x))
               /\ \A i \in Infos(c) :
                     i \in Changed(name, changes) \/ (i.name = name /\ Over(changes, i) \in Changed(name, changes))
    BY <1>2, ModifyInfos
  <2>2. after = Changed(mod.name, mod.changes)
    OBVIOUS
  <2> HIDE DEF Changed, after
  <2> QED
    BY <2>1, <2>2
<1>6. \A x \in Infos(c) : HasOptions(x) /\ Over(mod.changes, x).name = x.name
  <2>1. \A x \in Infos(c) : HasOptions(x)
    BY <1>2, OptionsOfInfos
  <2>2. "name" \notin DOMAIN mod.changes
    BY <1>4 DEF IsChange
  <2> HIDE DEF mod, c
  <2> QED
    BY <2>1, <2>2 DEF HasOptions, Over
<1>7. \A i \in after : i \in Infos(c) \/ i.name = mod.name
  BY <1>5, <1>6
<1> HIDE DEF mod, c, indexes, after
<1>8. Planned(s.plan, after, indexes)
  <2>1. Planned(s.plan, Infos(c), indexes)
    BY <1>3 DEF LeftToDo
  <2> QED
    BY <1>4, <1>7, <2>1, ToMakeKept DEF Planned, ToChange
<1>9. LeftToDo("modifying", s.plan, s.pending, after, indexes)
  BY <1>3, <1>8 DEF LeftToDo
<1>10. LeftToDo("modifying", s.plan, Tail(s.pending), after, indexes)
  BY <1>2, <1>9, TailLeft
<1>11. Spares(Infos(c), after, indexes)
  <2> SUFFICES ASSUME NEW j \in DOMAIN indexes, NEW i \in Infos(c), Meets(i, indexes[j])
               PROVE  \E x \in after : Meets(x, indexes[j])
    BY DEF Spares
  <2>1. CASE i \in after
    BY <2>1
  <2>2. CASE i \notin after
    <3>1. i.name = mod.name /\ Over(mod.changes, i) \in after
      BY <1>5, <2>2
    <3>2. PICK k \in DOMAIN indexes :
            /\ mod.name = NameOf(indexes[k])
            /\ \A f \in DOMAIN mod.changes : mod.changes[f] = NormalizeDeclaredIndex(indexes[k])[f]
      BY <1>4 DEF ToChange
    <3>3. k = j
      BY <1>2, <3>1, <3>2, DeclaredList DEF Meets, DistinctNames
    <3>4. Meets(Over(mod.changes, i), indexes[j])
      BY <1>4, <1>6, <3>2, <3>3, ChangedMeets DEF IsChange
    <3> QED
      BY <3>1, <3>4
  <2> QED
    BY <2>1, <2>2
<1>12. [s EXCEPT !.pending = Tail(@)] = InPhase(s, "modifying", Tail(s.pending), s.conflict)
  BY <1>1, <1>2, SamePhase
<1> HIDE DEF result, s
<1>13. Continues(next, s, after, indexes)
  <2> DEFINE rest == [s EXCEPT !.pending = Tail(@)]
  <2>1. Continues(rest, s, after, indexes)
    BY <1>2, <1>10, <1>12, PhaseContinues
  <2> HIDE DEF rest
  <2>2. Continues(BeginCreating(s), s, after, indexes) /\ Continues(Failed(s, result.error), s, after, indexes)
    BY <1>2, <1>8, NextContinues, CreatingContinues
  <2>3. next \in {BeginCreating(s), rest, Failed(s, result.error)}
    BY DEF rest
  <2> HIDE DEF next
  <2> QED
    BY <2>1, <2>2, <2>3
<1>14. Own(p, next, after)
  BY <1>11, <1>13 DEF Own, s, c, indexes
<1> HIDE DEF next
<1> QED
  BY <1>1, <1>14, OwnHeld DEF s, after

LEMMA CreateIndexesOwn ==
  ASSUME CollectionsGood, SyncsGood, NEW p \in Syncs, Left(p), CreateIndexes(p)
  PROVE  OwnStep(p)
<1> DEFINE s == sync[p]
           c == collection[StoreOf(s).collection]
           indexes == StoreOf(s).indexes
           result == CreateIndexesIn(c, s.pending)
           after == Infos(result.collection)
           next == IF result.error = Succeeded THEN NextStore(s) ELSE [s EXCEPT !.phase = "retrying"]
<1>1. s.phase = "creating" /\ Holds(p, result) /\ Becomes(p, next)
  BY DEF CreateIndexes
<1>2. /\ GoodSync(s) /\ IsSync(s) /\ GoodCollection(c)
      /\ IsList(s.pending) /\ s.pending # <<>>
  BY <1>1, AtStore DEF Looping
<1>3. \A i \in DOMAIN s.pending : HasOptions(s.pending[i])
  BY <1>1, <1>2 DEF GoodSync, GoodPending
<1>4. /\ Grows(c, result.collection, {NameOf(s.pending[i]) : i \in DOMAIN s.pending})
      /\ result.error # Succeeded => result.collection = c
  <2> HIDE DEF s, c
  <2> QED
    BY <1>2, <1>3, CreateGrows
<1>5. LeftToDo("creating", s.plan, s.pending, Infos(c), indexes)
  BY <1>1 DEF Left
<1>6. Spares(Infos(c), after, indexes)
  <2>1. Infos(c) \subseteq after
    BY <1>4 DEF Grows
  <2> HIDE DEF c, indexes, after
  <2> QED
    BY <2>1, GrowingSpares
<1>7. result.error # Succeeded => after = Infos(c)
  BY <1>4
<1> HIDE DEF result, after, c, indexes
<1>8. LeftToDo("retrying", s.plan, s.pending, Infos(c), indexes)
  BY <1>5 DEF LeftToDo
<1>9. Continues(next, s, after, indexes)
  <2> DEFINE again == [s EXCEPT !.phase = "retrying"]
  <2>1. again = InPhase(s, "retrying", s.pending, s.conflict)
    BY <1>2, SamePhase
  <2> HIDE DEF s
  <2>2. Continues(again, s, Infos(c), indexes)
    BY <1>2, <1>8, <2>1, PhaseContinues
  <2> HIDE DEF again
  <2>3. Continues(NextStore(s), s, after, indexes)
    BY <1>2, NextContinues
  <2> QED
    BY <1>7, <2>2, <2>3 DEF again
<1>10. Own(p, next, after)
  BY <1>6, <1>9 DEF Own, c, indexes
<1> HIDE DEF next
<1> QED
  BY <1>1, <1>10, OwnHeld DEF after

\* one description
LEMMA CreatedOneGrows ==
  ASSUME NEW c, GoodCollection(c), NEW d, HasOptions(d)
  PROVE  LET result == CreateIndexesIn(c, <<d>>)
         IN  /\ Infos(c) \subseteq Infos(result.collection)
             /\ \A i \in Infos(result.collection) : i \in Infos(c) \/ i.name = NameOf(d)
             /\ result.error # Succeeded => result.collection = c
<1> DEFINE q == <<d>>
           result == CreateIndexesIn(c, q)
           names == {NameOf(q[i]) : i \in DOMAIN q}
<1>1. IsList(q) /\ \A i \in DOMAIN q : HasOptions(q[i])
  BY OneDescription
<1>2. q \in Seq({d}) /\ Len(q) = 1 /\ q[1] = d
  OBVIOUS
<1> HIDE DEF q
<1>3. Grows(c, result.collection, names) /\ (result.error # Succeeded => result.collection = c)
  BY <1>1, CreateGrows
<1>4. DOMAIN q = 1 .. 1
  BY <1>1, <1>2, ListHas
<1>5. names = {NameOf(d)}
  BY <1>2, <1>4
<1> HIDE DEF names, result
<1>6. /\ Infos(c) \subseteq Infos(result.collection)
      /\ \A i \in Infos(result.collection) : i \in Infos(c) \/ i.name = NameOf(d)
  BY <1>3, <1>5 DEF Grows
<1> QED
  BY <1>3, <1>6 DEF result, q

\* what the creation of the first description of a loop leaves to do
LEMMA CreatedOneLeft ==
  ASSUME CollectionsGood, SyncsGood, NEW p \in Syncs, Left(p), sync[p].phase \in {"retrying", "recreating"}
  PROVE  LET s      == sync[p]
             c      == collection[StoreOf(s).collection]
             result == CreateIndexesIn(c, <<Head(s.pending)>>)
             after  == Infos(result.collection)
         IN  /\ Spares(Infos(c), after, StoreOf(s).indexes)
             /\ LeftToDo("retrying", s.plan, Tail(s.pending), after, StoreOf(s).indexes)
             /\ result.error # Succeeded => result.collection = c
<1> DEFINE s == sync[p]
           c == collection[StoreOf(s).collection]
           indexes == StoreOf(s).indexes
           d == Head(s.pending)
           result == CreateIndexesIn(c, <<d>>)
           after == Infos(result.collection)
<1>1. /\ GoodSync(s) /\ IsSync(s) /\ GoodCollection(c) /\ IsDeclaration(indexes)
      /\ IsList(s.pending) /\ s.pending # <<>>
  BY AtStore DEF Looping
<1>2. d = s.pending[1] /\ 1 \in DOMAIN s.pending
  BY <1>1, RestOfList
<1>3. HasOptions(d)
  BY <1>1, <1>2 DEF GoodSync, GoodPending
<1>4. LeftToDo(s.phase, s.plan, s.pending, Infos(c), indexes)
  BY DEF Left
<1>5. d.name = NameOf(d)
  <2>1. ToMake(d, Infos(c), indexes)
    BY <1>2, <1>4 DEF LeftToDo
  <2> HIDE DEF d, c, indexes
  <2> QED
    BY <1>1, <2>1, MadeName
<1>6. /\ Infos(c) \subseteq after
      /\ \A i \in after : i \in Infos(c) \/ i.name = NameOf(d)
      /\ result.error # Succeeded => result.collection = c
  <2> HIDE DEF c, d
  <2> QED
    BY <1>1, <1>3, CreatedOneGrows
<1>7. s.phase \in {"retrying", "recreating"}
  OBVIOUS
<1> HIDE DEF c, indexes, after, s
<1>8. LeftToDo("retrying", s.plan, Tail(s.pending), after, indexes)
  BY <1>1, <1>4, <1>5, <1>6, <1>7, TailLeft
<1>9. Spares(Infos(c), after, indexes)
  BY <1>6, GrowingSpares
<1> QED
  BY <1>6, <1>8, <1>9 DEF c, indexes, after, s, result, d

LEMMA CreateOneByOneOwn ==
  ASSUME CollectionsGood, SyncsGood, NEW p \in Syncs, Left(p), CreateOneByOne(p)
  PROVE  OwnStep(p)
<1> DEFINE s == sync[p]
           c == collection[StoreOf(s).collection]
           indexes == StoreOf(s).indexes
           result == CreateIndexesIn(c, <<Head(s.pending)>>)
           after == Infos(result.collection)
           rest == [s EXCEPT !.pending = Tail(@)]
           t == [s EXCEPT !.phase = "recovering", !.conflict = result.error]
           next == CASE result.error = Succeeded            ->
                           IF Len(s.pending) = 1 THEN NextStore(s) ELSE rest
                     [] IsIndexConflictError(result.error)  -> t
                     [] OTHER                               -> Failed(s, result.error)
<1>1. s.phase = "retrying" /\ Holds(p, result) /\ Becomes(p, next)
  BY DEF CreateOneByOne, Rest
<1>2. IsSync(s)
  BY <1>1, AtStore
<1>3. /\ Spares(Infos(c), after, indexes)
      /\ LeftToDo("retrying", s.plan, Tail(s.pending), after, indexes)
      /\ result.error # Succeeded => result.collection = c
  BY <1>1, CreatedOneLeft
<1>4. LeftToDo("recovering", s.plan, s.pending, Infos(c), indexes)
  BY <1>1 DEF Left, LeftToDo
<1> HIDE DEF c, indexes, result
<1>5. result.error # Succeeded => after = Infos(c)
  BY <1>3
<1> HIDE DEF after
<1>6. rest = InPhase(s, "retrying", Tail(s.pending), s.conflict)
  BY <1>1, <1>2, SamePhase
<1> HIDE DEF s
<1>7. Continues(rest, s, after, indexes)
  BY <1>2, <1>3, <1>6, PhaseContinues
<1> HIDE DEF rest
<1>8. Continues(t, s, Infos(c), indexes)
  <2>1. t = InPhase(s, "recovering", s.pending, result.error)
    BY <1>2, SameStep, Zenon
  <2> HIDE DEF t
  <2> QED
    BY <1>2, <1>4, <2>1, PhaseContinues
<1> HIDE DEF t
<1>9. Continues(NextStore(s), s, after, indexes) /\ Continues(Failed(s, result.error), s, after, indexes)
  BY <1>2, NextContinues
<1>10. Succeeded \notin {OptionsConflict, KeySpecsConflict}
  BY DEF Succeeded, OptionsConflict, KeySpecsConflict
<1>11. Continues(next, s, after, indexes)
  <2>1. CASE result.error = Succeeded
    <3>1. next = IF Len(s.pending) = 1 THEN NextStore(s) ELSE rest
      BY <1>10, <2>1 DEF IsIndexConflictError
    <3> QED
      BY <1>7, <1>9, <3>1
  <2>2. CASE result.error # Succeeded
    <3>1. next = IF IsIndexConflictError(result.error) THEN t ELSE Failed(s, result.error)
      BY <2>2
    <3> QED
      BY <1>5, <1>8, <1>9, <2>2, <3>1
  <2> QED
    BY <2>1, <2>2
<1> HIDE DEF next
<1>12. Own(p, next, after)
  BY <1>3, <1>11 DEF Own, s, c, indexes
<1> QED
  BY <1>1, <1>12, OwnHeld DEF s, after

\* all the positions of a list
LEMMA AtAll ==
  ASSUME NEW s, IsList(s)
  PROVE  At(s, DOMAIN s) = s
<1> DEFINE n == Len(s)
<1>1. n \in Nat /\ DOMAIN s = 1 .. n /\ s = [i \in 1 .. n |-> s[i]]
  BY ListHas
<1> HIDE DEF n
<1>2. Cardinality(1 .. n) = n
  BY <1>1, FS_Interval
<1>3. ASSUME NEW x \in 1 .. n PROVE Cardinality({y \in 1 .. n : y < x}) = x - 1
  <2>1. {y \in 1 .. n : y < x} = 1 .. x - 1
    BY <1>1
  <2>2. x - 1 \in Nat
    BY <1>1
  <2> DEFINE m == x - 1
  <2> HIDE DEF m
  <2>3. Cardinality(1 .. m) = m
    BY <2>2, FS_Interval DEF m
  <2> QED
    BY <2>1, <2>3 DEF m
<1>4. ASSUME NEW k \in 1 .. n PROVE Nth(1 .. n, k) = k
  <2>1. \A x \in 1 .. n : Cardinality({y \in 1 .. n : y < x}) = k - 1 => x = k
    BY <1>1, <1>3
  <2>2. Cardinality({y \in 1 .. n : y < k}) = k - 1
    BY <1>3
  <2> QED
    BY <2>1, <2>2 DEF Nth
<1>5. At(s, 1 .. n) = [i \in 1 .. n |-> s[i]]
  BY <1>2, <1>4 DEF At
<1> QED
  BY <1>1, <1>5

LEMMA KeyOfFields ==
  ASSUME NEW info, HasOptions(info), IsList(info.key),
         \A i \in DOMAIN info.key : info.key[i][1] \notin {"_fts", "_ftsx"}
  PROVE  NormalizeExistingIndex(info).isText = FALSE /\ NormalizeExistingIndex(info).key = info.key
<1> DEFINE positions == {i \in DOMAIN info.key : info.key[i][1] \notin {"_fts", "_ftsx"}}
<1>1. positions = DOMAIN info.key /\ ~(\E i \in DOMAIN info.key : info.key[i][1] = "_fts")
  OBVIOUS
<1>2. At(info.key, positions) = info.key
  BY <1>1, AtAll
<1>3. /\ NormalizeExistingIndex(info).isText = \E i \in DOMAIN info.key : info.key[i][1] = "_fts"
      /\ NormalizeExistingIndex(info).key = At(info.key, positions)
  BY ExistingFields
<1> HIDE DEF positions
<1> QED
  BY <1>1, <1>2, <1>3

LEMMA KeyWithoutText ==
  ASSUME NEW index, HasOptions(index), IsList(index.key), NormalizeDeclaredIndex(index).isText = FALSE
  PROVE  NormalizeDeclaredIndex(index).key = index.key
<1> DEFINE positions == {i \in DOMAIN index.key : index.key[i][2] # "text"}
<1>1. ~IsTextKey(index.key) /\ NormalizeDeclaredIndex(index).key = At(index.key, positions)
  BY DeclaredFields
<1>2. positions = DOMAIN index.key
  BY <1>1 DEF IsTextKey
<1> QED
  BY <1>1, <1>2, AtAll

\* where the first of some positions is
LEMMA FirstOf ==
  ASSUME NEW s, IsList(s), NEW positions \in SUBSET (DOMAIN s), positions # {}
  PROVE  Nth(positions, 1) \in positions
<1> DEFINE t == At(s, positions)
<1>1. /\ IsList(t)
      /\ \A n \in DOMAIN t : Nth(positions, n) \in positions
      /\ \A i \in positions : \E n \in DOMAIN t : Nth(positions, n) = i
  BY AtPositions
<1> HIDE DEF t
<1>2. Len(t) \in Nat /\ DOMAIN t = 1 .. Len(t)
  BY <1>1, ListHas
<1>3. 1 \in DOMAIN t
  <2>1. DOMAIN t # {}
    BY <1>1
  <2> QED
    BY <1>2, <2>1
<1> QED
  BY <1>1, <1>3

\* the index found in the way of a description
LEMMA FoundIndex ==
  ASSUME NEW c, IsList(c.indexes), NEW d, NEW name, FindConflictingIndex(ListInfos(c), d) = <<name>>
  PROVE  \E r \in {IdIndexInfo} \cup Infos(c) :
            /\ r.name = name
            /\ r.name = d.name \/ (r.name # idIndexName /\ r.key = d.key)
<1> DEFINE infos == ListInfos(c)
           byName == {i \in DOMAIN infos : infos[i].name = d.name}
           byKey == {i \in DOMAIN infos : infos[i].name # idIndexName /\ infos[i].key = d.key}
           found == IF byName # {} THEN byName ELSE byKey
           r == infos[Nth(found, 1)]
<1>1. FindConflictingIndex(infos, d) = IF found = {} THEN <<>> ELSE <<r.name>>
  BY DEF FindConflictingIndex
<1>2. IsList(infos) /\ ToSet(infos) = {IdIndexInfo} \cup Infos(c)
  BY ListedInfos DEF Infos
<1>3. found \in SUBSET (DOMAIN infos)
  OBVIOUS
<1>4. \A i \in found :
        infos[i].name = d.name \/ (infos[i].name # idIndexName /\ infos[i].key = d.key)
  OBVIOUS
<1> HIDE DEF found, infos
<1>5. found # {} /\ r.name = name
  <2>1. FindConflictingIndex(infos, d) = <<name>>
    BY DEF infos
  <2> HIDE DEF r
  <2>2. found # {}
    BY <1>1, <2>1
  <2>3. <<r.name>> = <<name>>
    BY <1>1, <2>1, <2>2
  <2> QED
    BY <2>2, <2>3
<1>6. Nth(found, 1) \in found
  BY <1>2, <1>3, <1>5, FirstOf
<1>7. r \in ToSet(infos)
  BY <1>3, <1>6 DEF ToSet
<1> QED
  BY <1>2, <1>4, <1>5, <1>6, <1>7

\* the parts of a declared key are fields
LEMMA DeclaredKey ==
  ASSUME NEW index, IsDescription(index), {"_fts", "_ftsx"} \cap Fields = {}
  PROVE  /\ HasOptions(index) /\ IsList(index.key)
         /\ \A i \in DOMAIN index.key : index.key[i][1] \notin {"_fts", "_ftsx"}
<1> DEFINE key == index.key
           parts == Fields \X {"asc", "desc", "text"}
<1>1. HasOptions(index)
  BY DEF HasOptions, IsDescription, ComparedFields
<1>2. \A x \in parts : x[1] \in Fields
  OBVIOUS
<1>3. key \in Seq(parts)
  BY DEF IsDescription
<1> HIDE DEF parts, key
<1>4. \A i \in DOMAIN key : key[i] \in parts
  BY <1>3
<1>5. \A i \in DOMAIN key : key[i][1] \in Fields
  BY <1>2, <1>4
<1>6. IsList(key)
  BY <1>3 DEF IsList
<1> QED
  BY <1>1, <1>5, <1>6 DEF key

\* is not as declared: the one that would be is on another key
LEMMA ConflictingAmiss ==
  ASSUME NEW c, GoodCollection(c), NEW indexes, IsDeclaration(indexes),
         \A j, k \in DOMAIN indexes : indexes[j].key = indexes[k].key => j = k,
         {"_fts", "_ftsx"} \cap Fields = {},
         NEW d, ToMake(d, Infos(c), indexes),
         NEW name, FindConflictingIndex(ListInfos(c), d) = <<name>>
  PROVE  Amiss(Infos(c), indexes, name)
<1>1. PICK r \in {IdIndexInfo} \cup Infos(c) :
        r.name = name /\ (r.name = d.name \/ (r.name # idIndexName /\ r.key = d.key))
  BY FoundIndex DEF GoodCollection, GoodIndexes
<1>2. PICK j \in DOMAIN indexes : d = BuildDescription(indexes[j])
  BY DEF ToMake
<1>3. Amiss(Infos(c), indexes, d.name)
  BY DEF ToMake
<1>4. ASSUME NEW k \in DOMAIN indexes
      PROVE  /\ HasOptions(indexes[k]) /\ IsList(indexes[k].key)
             /\ \A i \in DOMAIN indexes[k].key : indexes[k].key[i][1] \notin {"_fts", "_ftsx"}
  <2>1. IsDescription(indexes[k])
    BY DEF IsDeclaration
  <2> QED
    BY <2>1, DeclaredKey
<1>5. d.name = NameOf(indexes[j]) /\ d.key = indexes[j].key
  BY <1>2, <1>4, DescriptionName
<1>6. CASE r.name = d.name
  BY <1>1, <1>3, <1>6
<1>7. CASE r.name # d.name
  <2>1. r \in Infos(c) /\ r.key = d.key
    BY <1>1, <1>7 DEF IdIndexInfo, idIndexName
  <2>2. HasOptions(r) /\ \A i \in Infos(c) : i.name = r.name => i = r
    BY <2>1, OptionsOfInfos
  <2>3. NormalizeExistingIndex(r).isText = FALSE /\ NormalizeExistingIndex(r).key = r.key
    BY <1>4, <1>5, <2>1, <2>2, KeyOfFields
  <2>4. ASSUME NEW k \in DOMAIN indexes, NameOf(indexes[k]) = name, NEW i \in Infos(c), Meets(i, indexes[k])
        PROVE  FALSE
    <3>1. i = r
      BY <1>1, <2>2, <2>4 DEF Meets
    <3>2. IsSameKey(NormalizeDeclaredIndex(indexes[k]), NormalizeExistingIndex(r))
      BY <2>4, <3>1 DEF Meets
    <3>3. NormalizeDeclaredIndex(indexes[k]).isText = FALSE /\ NormalizeDeclaredIndex(indexes[k]).key = r.key
      BY <2>3, <3>2 DEF IsSameKey
    <3>4. indexes[k].key = r.key
      BY <1>4, <3>3, KeyWithoutText
    <3>5. k = j
      BY <1>5, <2>1, <3>4
    <3> QED
      BY <1>1, <1>5, <1>7, <2>4, <3>5
  <2> QED
    BY <2>4 DEF Amiss
<1> QED
  BY <1>6, <1>7

LEMMA DistinctKeysAt ==
  ASSUME DistinctDeclarations, CollectionsGood, SyncsGood, NEW p \in Syncs, sync[p].phase \notin {"idle", "over"}
  PROVE  LET indexes == StoreOf(sync[p]).indexes
         IN  \A j, k \in DOMAIN indexes : indexes[j].key = indexes[k].key => j = k
BY AtCollection DEF DistinctDeclarations, StoreOf

\* a name put before a list
LEMMA OneBefore ==
  ASSUME NEW name, NEW r, IsList(r)
  PROVE  LET u == <<name>> \o r
         IN  /\ u[1] = name /\ Tail(u) = r /\ DOMAIN u \subseteq Nat
             /\ \A i \in DOMAIN u \ {1} : i - 1 \in DOMAIN r /\ u[i] = r[i - 1]
<1> DEFINE q == <<name>>
           u == q \o r
<1>1. IsList(q) /\ Len(q) = 1 /\ DOMAIN q = 1 .. 1 /\ q[1] = name
  <2>1. q \in Seq({name}) /\ Len(q) = 1 /\ q[1] = name
    OBVIOUS
  <2> HIDE DEF q
  <2>2. IsList(q)
    BY <2>1 DEF IsList
  <2> QED
    BY <2>1, <2>2, ListHas
<1> DEFINE n == Len(r)
<1>2. n \in Nat /\ DOMAIN r = 1 .. n /\ r = [i \in 1 .. n |-> r[i]]
  BY ListHas
<1> HIDE DEF q
<1>3. /\ IsList(u) /\ DOMAIN u = 1 .. Len(q) + Len(r)
      /\ \A i \in DOMAIN q : u[i] = q[i]
      /\ \A i \in DOMAIN u : i \in DOMAIN q \/ (i - Len(q) \in DOMAIN r /\ u[i] = r[i - Len(q)])
  BY <1>1, ListsJoin
<1>4. u[1] = name
  BY <1>1, <1>3
<1> DEFINE w == Tail(u)
<1> HIDE DEF u
<1>5. u # <<>>
  <2>1. 1 \in DOMAIN u
    BY <1>1, <1>2, <1>3 DEF n
  <2> QED
    BY <2>1, EmptyList
<1>6. /\ IsList(w) /\ \A i \in DOMAIN w : i + 1 \in DOMAIN u \ {1} /\ w[i] = u[i + 1]
      /\ Len(w) = Len(u) - 1
  BY <1>3, <1>5, RestOfList
<1>7. Len(u) \in Nat /\ DOMAIN u = 1 .. Len(u)
  BY <1>3, ListHas
<1>8. Len(u) = n + 1
  BY <1>1, <1>2, <1>3, <1>7 DEF n
<1> DEFINE m == Len(w)
<1>9. DOMAIN w = 1 .. m /\ w = [i \in 1 .. m |-> w[i]]
  BY <1>6, ListHas
<1>10. m = n
  BY <1>2, <1>6, <1>8
<1>11. ASSUME NEW i \in 1 .. n PROVE w[i] = r[i]
  <2> DEFINE k == i + 1
  <2>1. k \in DOMAIN u /\ w[i] = u[k]
    BY <1>6, <1>9, <1>10
  <2>2. k \notin DOMAIN q /\ k - Len(q) = i
    BY <1>1, <1>2
  <2> HIDE DEF k
  <2>3. u[k] = r[k - Len(q)]
    BY <1>3, <2>1, <2>2
  <2> QED
    BY <2>1, <2>2, <2>3
<1> HIDE DEF w, m, n
<1>12. w = r
  BY <1>2, <1>9, <1>10, <1>11
<1>13. \A i \in DOMAIN u \ {1} : i - 1 \in DOMAIN r /\ u[i] = r[i - 1]
  BY <1>1, <1>3
<1> QED
  BY <1>4, <1>7, <1>12, <1>13 DEF w, u, q

LEMMA ListConflictingOwn ==
  ASSUME DistinctDeclarations, CollectionsGood, SyncsGood, NEW p \in Syncs, Left(p), ListConflicting(p)
  PROVE  OwnStep(p)
<1> DEFINE s == sync[p]
           c == collection[StoreOf(s).collection]
           indexes == StoreOf(s).indexes
           d == Head(s.pending)
           found == FindConflictingIndex(ListInfos(c), d)
           t == [s EXCEPT !.phase = "clearing", !.pending = found \o @]
           next == CASE ~c.exists                  -> Failed(s, NamespaceNotFound)
                     [] c.exists /\ found = <<>>   -> Failed(s, s.conflict)
                     [] OTHER                      -> t
<1>1. s.phase = "recovering" /\ Becomes(p, next) /\ UNCHANGED collection
  BY DEF ListConflicting
<1>2. /\ IsSync(s) /\ GoodCollection(c) /\ IsDeclaration(indexes)
      /\ IsList(s.pending) /\ s.pending # <<>>
  BY <1>1, AtStore DEF Looping
<1>3. /\ \A i \in DOMAIN s.pending : ToMake(s.pending[i], Infos(c), indexes)
      /\ \A i, j \in DOMAIN s.pending : s.pending[i].name = s.pending[j].name => i = j
  BY <1>1 DEF Left, LeftToDo
<1>4. d = s.pending[1] /\ 1 \in DOMAIN s.pending
  BY <1>2, RestOfList
<1>5. \A j, k \in DOMAIN indexes : indexes[j].key = indexes[k].key => j = k
  BY <1>1, DistinctKeysAt
<1>6. found = <<>> \/ \E name : found = <<name>>
  BY DEF FindConflictingIndex
<1>7. ASSUME NEW name, found = <<name>> PROVE Amiss(Infos(c), indexes, name)
  <2>1. ToMake(d, Infos(c), indexes) /\ {"_fts", "_ftsx"} \cap Fields = {}
    BY <1>3, <1>4 DEF DistinctDeclarations
  <2>2. FindConflictingIndex(ListInfos(c), d) = <<name>>
    BY <1>7
  <2> HIDE DEF c, indexes, d
  <2> QED
    BY <1>2, <1>5, <2>1, <2>2, ConflictingAmiss
<1> HIDE DEF found, c, indexes
<1>8. ASSUME found # <<>> PROVE Continues(t, s, Infos(c), indexes)
  <2>1. PICK name : found = <<name>>
    BY <1>6, <1>8
  <2> DEFINE q == <<name>>
             r == s.pending
             u == q \o r
             at(i) == i - 1
  <2>2. IsList(r)
    BY <1>2
  <2> HIDE DEF r
  <2>3. /\ u[1] = name /\ DOMAIN u \subseteq Nat
        /\ \A i \in DOMAIN u \ {1} : i - 1 \in DOMAIN r /\ u[i] = r[i - 1]
    BY <2>2, OneBefore
  <2> HIDE DEF q
  <2>4. \A i \in DOMAIN u \ {1} : at(i) \in DOMAIN r /\ u[i] = r[at(i)]
    BY <2>3
  <2>5. \A i, j \in DOMAIN u : at(i) = at(j) => i = j
    BY <2>3
  <2>6. t = InPhase(s, "clearing", u, s.conflict)
    BY <1>2, <2>1, SamePhase DEF q, r
  <2> HIDE DEF u, at, t
  <2>7. Amiss(Infos(c), indexes, u[1])
    BY <1>7, <2>1, <2>3
  <2>8. \A i \in DOMAIN u \ {1} : ToMake(u[i], Infos(c), indexes)
    BY <1>3, <2>4 DEF r
  <2>9. \A i, j \in DOMAIN u \ {1} : u[i].name = u[j].name => i = j
    BY <1>3, <2>4, <2>5 DEF r
  <2>10. LeftToDo("clearing", s.plan, u, Infos(c), indexes)
    BY <2>7, <2>8, <2>9 DEF LeftToDo
  <2> QED
    BY <1>2, <2>6, <2>10, PhaseContinues
<1>9. /\ Continues(Failed(s, NamespaceNotFound), s, Infos(c), indexes)
      /\ Continues(Failed(s, s.conflict), s, Infos(c), indexes)
  BY <1>2, NextContinues
<1> HIDE DEF t
<1>10. Continues(next, s, Infos(c), indexes)
  BY <1>8, <1>9
<1> HIDE DEF next
<1> QED
  BY <1>1, <1>10, OwnUnchanged DEF c, indexes

LEMMA DropConflictingOwn ==
  ASSUME CollectionsGood, SyncsGood, NEW p \in Syncs, Left(p), DropConflicting(p)
  PROVE  OwnStep(p)
<1> DEFINE s == sync[p]
           c == collection[StoreOf(s).collection]
           indexes == StoreOf(s).indexes
           name == Head(s.pending)
           result == DropIndexFrom(c, name)
           after == Infos(result.collection)
           t == [s EXCEPT !.phase = "recreating", !.pending = Tail(@)]
           next == IF result.error = Succeeded THEN t ELSE Failed(s, result.error)
<1>1. s.phase = "clearing" /\ Holds(p, result) /\ Becomes(p, next)
  BY DEF DropConflicting
<1>2. /\ IsSync(s) /\ GoodCollection(c)
      /\ IsList(s.pending) /\ s.pending # <<>>
  BY <1>1, AtStore DEF Looping
<1>3. after \subseteq Infos(c) /\ \A i \in Infos(c) : i.name # name => i \in after
  BY <1>2, DropInfos
<1>4. LeftToDo("clearing", s.plan, s.pending, Infos(c), indexes)
  BY <1>1 DEF Left
<1>5. Amiss(Infos(c), indexes, name)
  BY <1>2, <1>4, RestOfList DEF LeftToDo
<1>6. Spares(Infos(c), after, indexes)
  BY <1>3, <1>5, DroppingSpares
<1> HIDE DEF after, c, indexes
<1>7. LeftToDo("recreating", s.plan, Tail(s.pending), after, indexes)
  BY <1>2, <1>3, <1>4, TailLeft
<1>8. t = InPhase(s, "recreating", Tail(s.pending), s.conflict)
  BY <1>2, SamePhase
<1> HIDE DEF result, s
<1>9. Continues(t, s, after, indexes)
  BY <1>2, <1>7, <1>8, PhaseContinues
<1> HIDE DEF t
<1>10. Continues(Failed(s, result.error), s, after, indexes)
  BY <1>2, NextContinues
<1>11. Own(p, next, after)
  BY <1>6, <1>9, <1>10 DEF Own, s, c, indexes
<1> HIDE DEF next
<1> QED
  BY <1>1, <1>11, OwnHeld DEF s, after

LEMMA CreateAgainOwn ==
  ASSUME CollectionsGood, SyncsGood, NEW p \in Syncs, Left(p), CreateAgain(p)
  PROVE  OwnStep(p)
<1> DEFINE s == sync[p]
           c == collection[StoreOf(s).collection]
           indexes == StoreOf(s).indexes
           result == CreateIndexesIn(c, <<Head(s.pending)>>)
           after == Infos(result.collection)
           t == [s EXCEPT !.phase = "retrying", !.conflict = Succeeded]
           rest == [t EXCEPT !.pending = Tail(@)]
           next == IF result.error = Succeeded
                   THEN IF Len(t.pending) = 1 THEN NextStore(t) ELSE rest
                   ELSE Failed(s, result.error)
<1>1. s.phase = "recreating" /\ Holds(p, result) /\ Becomes(p, next)
  BY DEF CreateAgain, Rest
<1>2. IsSync(s)
  BY <1>1, AtStore
<1>3. /\ Spares(Infos(c), after, indexes)
      /\ LeftToDo("retrying", s.plan, Tail(s.pending), after, indexes)
  BY <1>1, CreatedOneLeft
<1> HIDE DEF c, indexes, result, after, s
<1>4. IsSync(t) /\ t.phase = "retrying" /\ t.at = s.at /\ t.plan = s.plan /\ t.pending = s.pending
  <2>1. t = InPhase(s, "retrying", s.pending, Succeeded)
    BY <1>2, SameStep, Zenon
  <2>2. t = [phase |-> "retrying", at |-> s.at, plan |-> s.plan, pending |-> s.pending,
             conflict |-> Succeeded, failed |-> s.failed]
    BY <1>2, <2>1, PhaseIs
  <2> HIDE DEF t
  <2> QED
    BY <1>2, <2>2 DEF IsSync
<1> HIDE DEF t
<1>5. rest = InPhase(t, "retrying", Tail(t.pending), t.conflict)
  BY <1>4, SamePhase
<1> HIDE DEF rest
<1>6. Continues(rest, t, after, indexes) /\ Continues(NextStore(t), t, after, indexes)
  BY <1>3, <1>4, <1>5, PhaseContinues, NextContinues
<1>7. Continues(rest, s, after, indexes) /\ Continues(NextStore(t), s, after, indexes)
  BY <1>4, <1>6 DEF Continues
<1>8. Continues(Failed(s, result.error), s, after, indexes)
  BY <1>2, NextContinues
<1>9. Own(p, next, after)
  BY <1>3, <1>7, <1>8 DEF Own, s, c, indexes
<1> HIDE DEF next
<1> QED
  BY <1>1, <1>9, OwnHeld DEF s, after

-----------------------------------------------------------------------------
(* The steps of the writes and of the other syncs *)

\* no index that was not there
Shrinks(before, after) ==
    /\ Infos(after) \subseteq Infos(before)
    /\ HasNoneUnlessThere(before) => HasNoneUnlessThere(after)

\* and no index gone, of a collection that was not dropped
Lasts(c) == c \in dropped' \/ Infos(collection'[c]) = Infos(collection[c])

WrittenOver ==
    /\ Writing
    /\ dropped \subseteq dropped'
    /\ \A c \in Collections : Shrinks(collection[c], collection'[c]) /\ Lasts(c)

LEMMA SameShrinks ==
  ASSUME NEW before, NEW after, SameInfos(before, after)
  PROVE  Shrinks(before, after)
BY DEF SameInfos, Shrinks, HasNoneUnlessThere

LEMMA ShrinksItself ==
  ASSUME NEW c
  PROVE  Shrinks(c, c)
BY DEF Shrinks

LEMMA EmptyHasNone == Infos(Empty) = {}
<1>1. DOMAIN Empty.indexes = {}
  BY EmptyList DEF Empty
<1> QED
  BY <1>1 DEF Infos

LEMMA WrittenShrinks ==
  ASSUME CollectionsGood, NEW d \in Collections, NEW result, Write(d, result),
         SameInfos(collection[d], result.collection)
  PROVE  \A c \in Collections : Shrinks(collection[c], collection'[c]) /\ Lasts(c)
<1> TAKE c \in Collections
<1>1. collection' = [collection EXCEPT ![d] = result.collection]
  BY DEF Write
<1>2. CASE c = d
  <2>1. collection'[c] = result.collection
    BY <1>1, <1>2 DEF CollectionsGood
  <2> QED
    BY <1>2, <2>1, SameShrinks DEF SameInfos, Lasts
<1>3. CASE c # d
  <2>1. collection'[c] = collection[c]
    BY <1>1, <1>3 DEF CollectionsGood
  <2> QED
    BY <2>1, ShrinksItself DEF Lasts
<1> QED
  BY <1>2, <1>3

LEMMA WritesShrink ==
  ASSUME CollectionsGood,
         \/ \E c \in Collections : Insert(c) \/ Update(c) \/ Delete(c)
         \/ \E gone : Drop(gone)
         \/ Clear
  PROVE  WrittenOver
<1>1. ASSUME NEW d \in Collections, Insert(d) \/ Update(d) \/ Delete(d)
      PROVE  WrittenOver
  <2>1. GoodCollection(collection[d]) /\ Shaped(collection[d])
    BY GoodShaped DEF CollectionsGood
  <2>2. CASE Insert(d)
    <3>1. PICK documents \in Inserts : Write(d, InsertManyInto(collection[d], documents))
      BY <2>2 DEF Insert
    <3>2. IsList(documents)
      BY WritesAssumption, StoredList
    <3>3. SameInfos(collection[d], InsertManyInto(collection[d], documents).collection)
      BY <2>1, <3>2, InsertManyKeepsInfos
    <3> QED
      BY <3>1, <3>3, WrittenShrinks DEF Write, WrittenOver
  <2>3. CASE Update(d)
    <3>1. PICK write \in Updates : Write(d, UpdateMatching(collection[d], write))
      BY <2>3 DEF Update
    <3>2. SameInfos(collection[d], UpdateMatching(collection[d], write).collection)
      BY <2>1, UpdateMatchingKeepsInfos
    <3> QED
      BY <3>1, <3>2, WrittenShrinks DEF Write, WrittenOver
  <2>4. CASE Delete(d)
    <3>1. PICK write \in Deletes : Write(d, DeleteMatching(collection[d], write))
      BY <2>4 DEF Delete
    <3>2. write.limit \in Nat
      BY WritesAssumption
    <3>3. SameInfos(collection[d], DeleteMatching(collection[d], write).collection)
      BY <2>1, <3>2, DeleteKeepsInfos
    <3> QED
      BY <3>1, <3>3, WrittenShrinks DEF Write, WrittenOver
  <2> QED
    BY <1>1, <2>2, <2>3, <2>4
<1>2. ASSUME NEW gone, Drop(gone)
      PROVE  WrittenOver
  <2>1. collection' = [c \in Collections |-> IF c \in gone THEN Empty ELSE collection[c]]
    BY <1>2 DEF Drop
  <2>2. ASSUME NEW c \in Collections PROVE Shrinks(collection[c], collection'[c]) /\ Lasts(c)
    <3>1. collection'[c] = collection[c] \/ (collection'[c] = Empty /\ c \in dropped')
      BY <1>2, <2>1 DEF Drop
    <3> QED
      BY <3>1, EmptyHasNone, ShrinksItself DEF Shrinks, HasNoneUnlessThere, Lasts
  <2> QED
    BY <1>2, <2>2 DEF Drop, WrittenOver
<1>3. ASSUME Clear
      PROVE  WrittenOver
  <2>1. collection' = [c \in Collections |-> Cleared(collection[c])]
    BY <1>3 DEF Clear
  <2>2. ASSUME NEW c \in Collections PROVE Shrinks(collection[c], collection'[c]) /\ Lasts(c)
    <3>1. collection'[c] = Cleared(collection[c])
      BY <2>1
    <3>2. SameInfos(collection[c], Cleared(collection[c]))
      BY ClearKeepsInfos, GoodShaped DEF CollectionsGood
    <3> QED
      BY <3>1, <3>2, SameShrinks DEF SameInfos, Lasts
  <2> QED
    BY <1>3, <2>2 DEF Clear, WrittenOver
<1> QED
  BY <1>1, <1>2, <1>3

LEMMA HeldHas ==
  ASSUME CollectionsGood, ExistsInv, NEW p, NEW result, Holds(p, result),
         HasNoneUnlessThere(collection[StoreOf(sync[p]).collection]) => HasNoneUnlessThere(result.collection)
  PROVE  ExistsInv'
<1> DEFINE d == StoreOf(sync[p]).collection
<1>1. collection' = [collection EXCEPT ![d] = result.collection]
  BY DEF Holds
<1>2. HasNoneUnlessThere(collection[d]) => HasNoneUnlessThere(result.collection)
  OBVIOUS
<1> HIDE DEF d
<1>3. ASSUME NEW c \in Collections PROVE HasNoneUnlessThere(collection'[c])
  <2>1. HasNoneUnlessThere(collection[c])
    BY DEF ExistsInv
  <2>2. CASE c = d
    <3>1. collection'[c] = result.collection
      BY <1>1, <2>2 DEF CollectionsGood
    <3> QED
      BY <1>2, <2>1, <2>2, <3>1
  <2>3. CASE c # d
    <3>1. collection'[c] = collection[c]
      BY <1>1, <2>3 DEF CollectionsGood
    <3> QED
      BY <2>1, <3>1
  <2> QED
    BY <2>2, <2>3
<1> QED
  BY <1>3 DEF ExistsInv

\* what the commands on indexes leave of a collection
LEMMA CommandsHave ==
  ASSUME NEW c, GoodCollection(c), HasNoneUnlessThere(c)
  PROVE  /\ \A name : HasNoneUnlessThere(DropIndexFrom(c, name).collection)
         /\ \A name, changes : HasNoneUnlessThere(ModifyIndexOf(c, name, changes).collection)
         /\ \A descriptions :
              IsList(descriptions) /\ (\A i \in DOMAIN descriptions : HasOptions(descriptions[i]))
                => HasNoneUnlessThere(CreateIndexesIn(c, descriptions).collection)
<1>1. ASSUME NEW name PROVE HasNoneUnlessThere(DropIndexFrom(c, name).collection)
  <2> DEFINE after == DropIndexFrom(c, name).collection
  <2>1. Infos(after) \subseteq Infos(c) /\ after.exists = c.exists
    BY DropInfos
  <2> HIDE DEF after
  <2>2. HasNoneUnlessThere(after)
    BY <2>1 DEF HasNoneUnlessThere
  <2> QED
    BY <2>2 DEF after
<1>2. ASSUME NEW name, NEW changes PROVE HasNoneUnlessThere(ModifyIndexOf(c, name, changes).collection)
  <2> DEFINE after == ModifyIndexOf(c, name, changes).collection
  <2>1. /\ \A i \in Infos(after) : \E x \in Infos(c) : TRUE
        /\ after.exists = c.exists
    BY ModifyInfos
  <2> HIDE DEF after
  <2>2. HasNoneUnlessThere(after)
    BY <2>1 DEF HasNoneUnlessThere
  <2> QED
    BY <2>2 DEF after
<1>3. ASSUME NEW descriptions, IsList(descriptions), \A i \in DOMAIN descriptions : HasOptions(descriptions[i])
      PROVE  HasNoneUnlessThere(CreateIndexesIn(c, descriptions).collection)
  <2> DEFINE result == CreateIndexesIn(c, descriptions)
  <2>1. /\ result.error # Succeeded => result.collection = c
        /\ result.error = Succeeded => result.collection.exists
    BY <1>3, CreateGrows
  <2> HIDE DEF result
  <2>2. HasNoneUnlessThere(result.collection)
    BY <2>1 DEF HasNoneUnlessThere
  <2> QED
    BY <2>2 DEF result
<1> QED
  BY <1>1, <1>2, <1>3

LEMMA SyncStepHas ==
  ASSUME CollectionsGood, SyncsGood, ExistsInv, NEW p \in Syncs, SyncStep(p)
  PROVE  ExistsInv'
<1> DEFINE s == sync[p]
           c == collection[StoreOf(s).collection]
           one == <<Head(s.pending)>>
<1>1. CASE UNCHANGED collection
  BY <1>1 DEF ExistsInv
<1>2. CASE s.phase \notin {"idle", "over"}
  <2>1. GoodCollection(c) /\ HasNoneUnlessThere(c)
    BY <1>2, AtStore, AtCollection DEF ExistsInv
  <2>2. CASE DropIndex(p) \/ DropConflicting(p)
    <3> DEFINE result == DropIndexFrom(c, Head(s.pending))
    <3>1. Holds(p, result)
      BY <2>2 DEF DropIndex, DropConflicting
    <3>2. HasNoneUnlessThere(result.collection)
      <4> HIDE DEF c, s
      <4> QED
        BY <2>1, CommandsHave
    <3> HIDE DEF result
    <3> QED
      BY <3>1, <3>2, HeldHas
  <2>3. CASE CollMod(p)
    <3> DEFINE result == ModifyIndexOf(c, Head(s.pending).name, Head(s.pending).changes)
    <3>1. Holds(p, result)
      BY <2>3 DEF CollMod
    <3>2. HasNoneUnlessThere(result.collection)
      <4> HIDE DEF c, s
      <4> QED
        BY <2>1, CommandsHave
    <3> HIDE DEF result
    <3> QED
      BY <3>1, <3>2, HeldHas
  <2>4. CASE CreateIndexes(p)
    <3> DEFINE result == CreateIndexesIn(c, s.pending)
    <3>1. s.phase = "creating" /\ Holds(p, result)
      BY <2>4 DEF CreateIndexes
    <3>2. IsList(s.pending) /\ \A i \in DOMAIN s.pending : HasOptions(s.pending[i])
      BY <3>1, AtStore DEF GoodSync, GoodPending
    <3>3. HasNoneUnlessThere(result.collection)
      <4> HIDE DEF c, s
      <4> QED
        BY <2>1, <3>2, CommandsHave
    <3> HIDE DEF result
    <3> QED
      BY <3>1, <3>3, HeldHas
  <2>5. CASE CreateOneByOne(p) \/ CreateAgain(p)
    <3> DEFINE result == CreateIndexesIn(c, one)
    <3>1. s.phase \in {"retrying", "recreating"} /\ Holds(p, result)
      BY <2>5 DEF CreateOneByOne, CreateAgain
    <3>2. HasOptions(Head(s.pending))
      <4>1. GoodSync(s) /\ IsList(s.pending) /\ s.pending # <<>>
        BY <3>1, AtStore DEF Looping
      <4>2. Head(s.pending) = s.pending[1] /\ 1 \in DOMAIN s.pending
        BY <4>1, RestOfList
      <4> QED
        BY <3>1, <4>1, <4>2 DEF GoodSync, GoodPending
    <3>3. IsList(one) /\ \A i \in DOMAIN one : HasOptions(one[i])
      BY <3>2, OneDescription
    <3>4. HasNoneUnlessThere(result.collection)
      <4> HIDE DEF c, s, one
      <4> QED
        BY <2>1, <3>3, CommandsHave
    <3> HIDE DEF result
    <3> QED
      BY <3>1, <3>4, HeldHas
  <2> QED
    BY <1>1, <2>2, <2>3, <2>4, <2>5 DEF SyncStep, Begin, List, ListConflicting
<1>3. CASE s.phase \in {"idle", "over"}
  <2>1. UNCHANGED collection
    BY <1>3 DEF SyncStep, Begin, List, DropIndex, CollMod, CreateIndexes, CreateOneByOne,
                ListConflicting, DropConflicting, CreateAgain
  <2> QED
    BY <1>1, <2>1
<1> QED
  BY <1>2, <1>3

\* a sync that begins, or one under way
LEMMA StepOfOne ==
  ASSUME NEW p \in Syncs, SyncStep(p)
  PROVE  /\ \E t : Becomes(p, t)
         /\ Begin(p) \/ (UnderWay(p) /\ ~Begin(p) /\ overlapped' = overlapped)
<1>1. CASE Begin(p)
  BY <1>1 DEF Begin
<1>2. CASE List(p)
  BY <1>2 DEF List, UnderWay, Begin
<1>3. CASE DropIndex(p)
  BY <1>3 DEF DropIndex, UnderWay, Begin
<1>4. CASE CollMod(p)
  BY <1>4 DEF CollMod, UnderWay, Begin
<1>5. CASE CreateIndexes(p)
  BY <1>5 DEF CreateIndexes, UnderWay, Begin
<1>6. CASE CreateOneByOne(p)
  BY <1>6 DEF CreateOneByOne, UnderWay, Begin
<1>7. CASE ListConflicting(p)
  BY <1>7 DEF ListConflicting, UnderWay, Begin
<1>8. CASE DropConflicting(p)
  BY <1>8 DEF DropConflicting, UnderWay, Begin
<1>9. CASE CreateAgain(p)
  BY <1>9 DEF CreateAgain, UnderWay, Begin
<1> QED
  BY <1>1, <1>2, <1>3, <1>4, <1>5, <1>6, <1>7, <1>8, <1>9 DEF SyncStep

LEMMA AloneStays ==
  ASSUME SyncsGood, AloneInv, NEW p \in Syncs, SyncStep(p)
  PROVE  /\ AloneInv'
         /\ \A q \in Syncs : q # p /\ q \notin overlapped' => ~UnderWay(q)
         /\ \A q \in Syncs : q # p => sync'[q] = sync[q]
         /\ overlapped \subseteq overlapped'
<1>1. PICK t : sync' = [sync EXCEPT ![p] = t]
  BY StepOfOne DEF Becomes
<1>2. \A q \in Syncs : q # p => sync'[q] = sync[q]
  BY <1>1 DEF SyncsGood
<1>3. CASE Begin(p)
  <2> DEFINE others == {q \in Syncs : UnderWay(q)}
  <2>1. /\ overlapped' = overlapped \cup others \cup (IF others = {} THEN {} ELSE {p})
        /\ ~UnderWay(p)
    BY <1>3 DEF Begin, UnderWay
  <2>2. \A q \in Syncs : q # p /\ q \notin overlapped' => ~UnderWay(q)
    BY <2>1
  <2>3. AloneInv'
    BY <1>2, <2>1 DEF AloneInv, UnderWay
  <2> QED
    BY <1>2, <2>1, <2>2, <2>3
<1>4. CASE ~Begin(p)
  <2>1. UnderWay(p) /\ overlapped' = overlapped
    BY <1>4, StepOfOne
  <2>2. \A q \in Syncs : q # p /\ q \notin overlapped' => ~UnderWay(q)
    BY <2>1 DEF AloneInv
  <2>3. AloneInv'
    BY <1>2, <2>1 DEF AloneInv, UnderWay
  <2> QED
    BY <1>2, <2>1, <2>2, <2>3
<1> QED
  BY <1>3, <1>4

\* every step of a sync under way that no other overlaps
LEMMA StepOwn ==
  ASSUME DistinctDeclarations, CollectionsGood, SyncsGood, ExistsInv,
         NEW p \in Syncs, SyncStep(p), ~Begin(p), Left(p)
  PROVE  OwnStep(p)
BY ListOwn, DropIndexOwn, CollModOwn, CreateIndexesOwn, CreateOneByOneOwn, ListConflictingOwn,
   DropConflictingOwn, CreateAgainOwn DEF SyncStep

LEMMA NothingLeft ==
  ASSUME NEW plan, NEW pending, NEW infos, NEW indexes
  PROVE  LeftToDo("listing", plan, pending, infos, indexes)
BY DEF LeftToDo

LEMMA OwnLeft ==
  ASSUME NEW p, OwnStep(p), UnderWay(p)'
  PROVE  Left(p)'
<1> DEFINE s == sync[p]
           u == sync'[p]
           d == StoreOf(s).collection
<1>1. PICK t, after : /\ Continues(t, s, after, StoreOf(s).indexes)
                      /\ sync'[p] = t
                      /\ Infos(collection'[d]) = after
  BY DEF OwnStep, Own
<1>2. CASE u.phase = "listing"
  <2>1. LeftToDo(u.phase, u.plan, u.pending, Infos(collection'[StoreOf(u).collection]), StoreOf(u).indexes)
    BY <1>2, NothingLeft
  <2> QED
    BY <2>1 DEF Left
<1>3. CASE u.phase # "listing"
  <2>1. u.phase # "over"
    BY DEF UnderWay
  <2>2. u.at = s.at /\ LeftToDo(u.phase, u.plan, u.pending, after, StoreOf(s).indexes)
    BY <1>1, <1>3, <2>1 DEF Continues
  <2>3. StoreOf(u) = StoreOf(s)
    BY <2>2 DEF StoreOf
  <2>4. LeftToDo(u.phase, u.plan, u.pending, Infos(collection'[StoreOf(u).collection]), StoreOf(u).indexes)
    BY <1>1, <2>2, <2>3
  <2> QED
    BY <2>4 DEF Left
<1> QED
  BY <1>2, <1>3

LEMMA PlanStays ==
  ASSUME DistinctDeclarations, CollectionsGood, SyncsGood, ExistsInv, AloneInv, PlanInv,
         NEW p \in Syncs, SyncStep(p)
  PROVE  PlanInv'
<1> SUFFICES ASSUME NEW q \in Syncs, q \notin overlapped', UnderWay(q)'
             PROVE  Left(q)'
  BY DEF PlanInv
<1>1. /\ q # p => ~UnderWay(q) /\ sync'[q] = sync[q]
      /\ overlapped \subseteq overlapped'
  BY AloneStays
<1>2. q = p
  BY <1>1 DEF UnderWay
<1>3. CASE Begin(p)
  <2> DEFINE u == sync'[p]
  <2>1. sync[p].phase = "idle" /\ u = NextStore(sync[p]) /\ IsSync(sync[p])
    BY <1>3 DEF Begin, Becomes, SyncsGood, GoodSync
  <2>2. Continues(u, sync[p], {}, <<>>)
    BY <2>1, NextContinues
  <2>3. u.phase = "listing"
    <3>1. \A f \in {"listing", "over"} : NextStore(sync[p]).phase = f \/ NextStore(sync[p]).phase \in {"listing", "over"}
      BY <2>1 DEF NextStore, IsSync
    <3>2. u.phase # "over"
      BY <1>2 DEF UnderWay
    <3> QED
      BY <2>1, <3>1, <3>2
  <2>4. LeftToDo(u.phase, u.plan, u.pending, Infos(collection'[StoreOf(u).collection]), StoreOf(u).indexes)
    BY <2>3, NothingLeft
  <2> QED
    BY <1>2, <2>4 DEF Left
<1>4. CASE ~Begin(p)
  <2>1. UnderWay(p) /\ p \notin overlapped
    BY <1>1, <1>2, <1>4, StepOfOne
  <2>2. Left(p)
    BY <2>1 DEF PlanInv
  <2>3. OwnStep(p)
    BY <1>4, <2>2, StepOwn
  <2> QED
    BY <1>2, <2>3, OwnLeft
<1> QED
  BY <1>3, <1>4

LEMMA WritesLeave ==
  ASSUME CollectionsGood, SyncsGood, ExistsInv, AloneInv, PlanInv, UNCHANGED <<sync, overlapped>>,
         \A c \in Collections : Shrinks(collection[c], collection'[c])
  PROVE  ExistsInv' /\ AloneInv' /\ PlanInv'
<1>1. ExistsInv'
  BY DEF ExistsInv, Shrinks
<1>2. AloneInv'
  BY DEF AloneInv, UnderWay
<1>3. PlanInv'
  <2> SUFFICES ASSUME NEW p \in Syncs, p \notin overlapped', UnderWay(p)'
               PROVE  Left(p)'
    BY DEF PlanInv
  <2> DEFINE s == sync[p]
             d == StoreOf(s).collection
             before == Infos(collection[d])
             after == Infos(collection'[d])
  <2>1. UnderWay(p) /\ p \notin overlapped /\ sync' = sync
    BY DEF UnderWay
  <2>2. LeftToDo(s.phase, s.plan, s.pending, before, StoreOf(s).indexes)
    BY <2>1 DEF PlanInv, Left
  <2>3. d \in Collections
    BY <2>1, AtCollection DEF UnderWay
  <2>4. after \subseteq before
    BY <2>3 DEF Shrinks
  <2> HIDE DEF before, after, d
  <2>5. LeftToDo(s.phase, s.plan, s.pending, after, StoreOf(s).indexes)
    BY <2>2, <2>4, LeftLess
  <2> QED
    BY <2>1, <2>5 DEF Left, after, d
<1> QED
  BY <1>1, <1>2, <1>3

LEMMA HealthFirst ==
  ASSUME Init
  PROVE  HealthInv
<1>1. IndexInv
  BY InitGood
<1>2. \A p \in Syncs : ~UnderWay(p)
  BY DEF Init, UnderWay, Idle
<1>3. AloneInv /\ PlanInv
  BY <1>2 DEF AloneInv, PlanInv
<1>4. PICK there \in Preexisting : collection = [c \in Collections |-> Before(there[c], Stored[c])]
  BY DEF Init
<1>5. ASSUME NEW c \in Collections PROVE HasNoneUnlessThere(collection[c])
  <2> DEFINE descriptions == there[c]
             documents == Stored[c]
             indexed == IF descriptions = <<>> THEN Empty ELSE CreateIndexesIn(Empty, descriptions).collection
             inserted == InsertManyInto(indexed, documents).collection
  <2>1. collection[c] = inserted
    BY <1>4 DEF Before
  <2>2. IsDeclaration(descriptions) /\ IsList(documents)
    BY PreexistingAssumption, StoredList
  <2> HIDE DEF descriptions, documents
  <2>3. IsList(descriptions) /\ \A i \in DOMAIN descriptions : HasOptions(descriptions[i])
    BY <2>2, DeclaredList
  <2>4. HasNoneUnlessThere(Empty)
    BY EmptyHasNone DEF HasNoneUnlessThere
  <2>5. HasNoneUnlessThere(indexed) /\ GoodCollection(indexed)
    BY <2>2, <2>3, <2>4, EmptyIsGood, CommandsHave, DeclaredList, CreateKeepsGood
  <2> HIDE DEF indexed
  <2>6. SameInfos(indexed, inserted)
    BY <2>2, <2>5, GoodShaped, InsertManyKeepsInfos
  <2> HIDE DEF inserted
  <2> QED
    BY <2>1, <2>5, <2>6, SameShrinks DEF Shrinks
<1> QED
  BY <1>1, <1>3, <1>5 DEF HealthInv, ExistsInv

LEMMA HealthStays ==
  ASSUME DistinctDeclarations, HealthInv, [Next]_vars
  PROVE  HealthInv'
<1>1. IndexInv /\ CollectionsGood /\ SyncsGood /\ ExistsInv /\ AloneInv /\ PlanInv
  BY DEF HealthInv, IndexInv
<1>2. IndexInv'
  BY <1>1, StepGood
<1>3. ASSUME NEW p \in Syncs, SyncStep(p) PROVE ExistsInv' /\ AloneInv' /\ PlanInv'
  BY <1>1, <1>3, SyncStepHas, AloneStays, PlanStays
<1>4. ASSUME \/ \E c \in Collections : Insert(c) \/ Update(c) \/ Delete(c)
             \/ \E gone : Drop(gone)
             \/ Clear
      PROVE  ExistsInv' /\ AloneInv' /\ PlanInv'
  <2>1. Writing /\ \A c \in Collections : Shrinks(collection[c], collection'[c])
    BY <1>1, <1>4, WritesShrink DEF WrittenOver
  <2> QED
    BY <1>1, <2>1, WritesLeave DEF Writing
<1>5. ASSUME UNCHANGED vars PROVE ExistsInv' /\ AloneInv' /\ PlanInv'
  BY <1>1, <1>5 DEF vars, ExistsInv, AloneInv, PlanInv, UnderWay, Left
<1>6. ExistsInv' /\ AloneInv' /\ PlanInv'
  BY <1>3, <1>4, <1>5 DEF Next
<1> QED
  BY <1>2, <1>6 DEF HealthInv

\* an index is healthy when one of the collection is as declared
LEMMA HealthyMeets ==
  ASSUME NEW d, IsList(d.indexes), NEW indexes, IsDeclaration(indexes), NEW j \in DOMAIN indexes
  PROVE  Healthy(d, indexes[j]) <=> \E i \in Infos(d) : Meets(i, indexes[j])
<1>1. ToSet(ListInfos(d)) = {IdIndexInfo} \cup Infos(d)
  BY ListedInfos DEF Infos
<1>2. ~Meets(IdIndexInfo, indexes[j])
  BY DEF Meets, IdIndexInfo, IsDeclaration, ValidDeclaration, idIndexName
<1>3. Healthy(d, indexes[j]) <=> \E i \in ToSet(ListInfos(d)) : Meets(i, indexes[j])
  BY DEF Healthy, Meets
<1> QED
  BY <1>1, <1>2, <1>3

\* a command is sent to the collection of the store a sync is at, and to no other
LEMMA StepElsewhere ==
  ASSUME CollectionsGood, NEW p \in Syncs, SyncStep(p),
         NEW c \in Collections, c # StoreOf(sync[p]).collection
  PROVE  collection'[c] = collection[c]
<1>1. (\E result : Holds(p, result)) \/ UNCHANGED collection
  BY DEF SyncStep, Begin, List, DropIndex, CollMod, CreateIndexes, CreateOneByOne,
         ListConflicting, DropConflicting, CreateAgain
<1>2. ASSUME NEW result, Holds(p, result) PROVE collection'[c] = collection[c]
  BY <1>2 DEF Holds, CollectionsGood
<1> QED
  BY <1>1, <1>2

\* what is healthy before a step that spares it is healthy after
LEMMA SparedStays ==
  ASSUME NEW before, GoodCollection(before), NEW after, GoodCollection(after),
         NEW indexes, IsDeclaration(indexes), Spares(Infos(before), Infos(after), indexes),
         NEW j \in DOMAIN indexes, Healthy(before, indexes[j])
  PROVE  Healthy(after, indexes[j])
<1>1. IsList(before.indexes) /\ IsList(after.indexes)
  BY DEF GoodCollection, GoodIndexes
<1> QED
  BY <1>1, HealthyMeets DEF Spares

LEMMA StepSpares ==
  ASSUME DistinctDeclarations, HealthInv, [Next]_vars,
         NEW p \in Syncs, p \notin overlapped, sync'[p] # sync[p], p \notin overlapped',
         NEW i \in DOMAIN Stores, NEW j \in DOMAIN Stores[i].indexes,
         Healthy(collection[Stores[i].collection], Stores[i].indexes[j])
  PROVE  Healthy(collection'[Stores[i].collection], Stores[i].indexes[j])
<1> DEFINE c == Stores[i].collection
           s == sync[p]
<1>1. CollectionsGood /\ SyncsGood /\ ExistsInv /\ AloneInv /\ PlanInv /\ CollectionsGood'
  BY HealthStays DEF HealthInv, IndexInv
<1>2. c \in Collections /\ IsDeclaration(Stores[i].indexes)
  BY StoresListed
<1>3. GoodCollection(collection[c]) /\ GoodCollection(collection'[c])
  BY <1>1, <1>2 DEF CollectionsGood
<1>4. SyncStep(p)
  <2>1. sync' # sync
    OBVIOUS
  <2>2. ~Writing
    BY <2>1 DEF Writing
  <2>3. PICK q \in Syncs : SyncStep(q)
    <3>1. ~(\E d \in Collections : Insert(d) \/ Update(d) \/ Delete(d)) /\ ~(\E gone : Drop(gone)) /\ ~Clear
      BY <1>1, <2>2, WritesShrink DEF WrittenOver
    <3> QED
      BY <2>1, <3>1 DEF Next, vars
  <2>4. q = p
    BY <1>1, <2>3, AloneStays
  <2> QED
    BY <2>3, <2>4
<1>5. CASE UNCHANGED collection
  BY <1>5
<1>6. CASE c # StoreOf(s).collection
  BY <1>1, <1>2, <1>4, <1>6, StepElsewhere
<1>7. CASE ~(UNCHANGED collection) /\ c = StoreOf(s).collection
  <2>1. ~Begin(p)
    BY <1>7 DEF Begin
  <2>2. UnderWay(p)
    BY <1>4, <2>1, StepOfOne
  <2>3. Left(p)
    BY <1>1, <2>2 DEF PlanInv
  <2>4. OwnStep(p)
    BY <1>1, <1>4, <2>1, <2>3, StepOwn
  <2>5. Spares(Infos(collection[c]), Infos(collection'[c]), StoreOf(s).indexes)
    BY <1>7, <2>4 DEF OwnStep, Own
  <2>6. s.at = i
    BY <1>1, <1>7, <2>2, AtCollection DEF UnderWay, DistinctDeclarations, StoreOf
  <2>7. StoreOf(s).indexes = Stores[i].indexes
    BY <2>6 DEF StoreOf
  <2> HIDE DEF c
  <2>8. Spares(Infos(collection[c]), Infos(collection'[c]), Stores[i].indexes)
    BY <2>5, <2>7
  <2>9. Healthy(collection[c], Stores[i].indexes[j])
    BY DEF c
  <2>10. Healthy(collection'[c], Stores[i].indexes[j])
    BY <1>2, <1>3, <2>8, <2>9, SparedStays
  <2> QED
    BY <2>10 DEF c
<1> QED
  BY <1>5, <1>6, <1>7

(***************************************************************************)
(* syncIndexes, of any number of stores and syncs, whatever is written     *)
(* between two of its commands: a sync that no other overlaps never takes  *)
(* away an index that is as declared, neither to drop what is undeclared,  *)
(* nor to make one again, nor to recover from a conflict (applyIndexPlan). *)
(***************************************************************************)
THEOREM HealthyIndexesStay ==
  ASSUME DistinctDeclarations
  PROVE  Spec => HealthyStays
<1>1. Init => HealthInv
  BY HealthFirst
<1>2. HealthInv /\ [Next]_vars => HealthInv'
  BY HealthStays
<1>3. HealthInv /\ [Next]_vars =>
        [\A p \in Syncs \ overlapped : \A i \in DOMAIN Stores :
            (sync'[p] # sync[p] /\ p \notin overlapped') =>
                \A j \in DOMAIN Stores[i].indexes :
                    Healthy(collection[Stores[i].collection], Stores[i].indexes[j]) =>
                        Healthy(collection'[Stores[i].collection], Stores[i].indexes[j])]_vars
  BY StepSpares
<1> QED
  BY <1>1, <1>2, <1>3, PTL DEF Spec, HealthyStays

\* how many numbers of a finite set are before the n-th
LEMMA RankOfNth ==
  ASSUME NEW S \in SUBSET Nat, IsFiniteSet(S)
  PROVE  /\ \A n \in 1 .. Cardinality(S) : Cardinality({y \in S : y < Nth(S, n)}) = n - 1
         /\ \A x, z \in S : Cardinality({y \in S : y < x}) = Cardinality({y \in S : y < z}) => x = z
<1> DEFINE size == Cardinality(S)
           Under(x) == {y \in S : y < x}
           at(n) == Nth(S, n)
<1>1. /\ size \in Nat
      /\ \A n \in 1 .. size : at(n) \in S /\ at(n) \in Nat
      /\ \A m, n \in 1 .. size : m < n => at(m) < at(n)
      /\ \A x \in S : \E n \in 1 .. size : at(n) = x
  BY NthIsRank
<1> HIDE DEF size, at
<1>2. ASSUME NEW n \in 1 .. size PROVE Cardinality(Under(at(n))) = n - 1
  <2> DEFINE before == 1 .. n - 1
             f == [m \in before |-> at(m)]
  <2>1. \A m \in before : m \in 1 .. size /\ m < n
    BY <1>1
  <2>2. \A m \in before : f[m] \in Under(at(n))
    BY <1>1, <2>1
  <2>3. ASSUME NEW x \in Under(at(n)) PROVE \E m \in before : f[m] = x
    <3>1. PICK m \in 1 .. size : at(m) = x
      BY <1>1
    <3>2. m < n
      <4>1. m # n /\ ~(n < m)
        BY <1>1, <3>1
      <4> QED
        BY <1>1, <4>1
    <3>3. m \in before
      BY <1>1, <3>2
    <3> QED
      BY <3>1, <3>3
  <2>4. ASSUME NEW k \in before, NEW m \in before, f[k] = f[m] PROVE k = m
    <3>1. at(k) = at(m) /\ k \in 1 .. size /\ m \in 1 .. size
      BY <2>1, <2>4
    <3>2. ~(k < m) /\ ~(m < k)
      BY <1>1, <3>1
    <3> QED
      BY <1>1, <3>1, <3>2
  <2>5. n - 1 \in Nat /\ IsFiniteSet(before) /\ Cardinality(before) = n - 1
    <3>1. n - 1 \in Nat
      BY <1>1
    <3> DEFINE k == n - 1
    <3> HIDE DEF k
    <3>2. k \in Nat => IsFiniteSet(1 .. k) /\ Cardinality(1 .. k) = k
      BY FS_Interval
    <3> QED
      BY <3>1, <3>2 DEF k
  <2>6. f \in Bijection(before, Under(at(n)))
    <3>1. f \in [before -> Under(at(n))]
      BY <2>2
    <3> HIDE DEF f, before, Under
    <3> QED
      BY <2>3, <2>4, <3>1 DEF Bijection, Injection, Surjection, IsInjective
  <2> HIDE DEF f, before, Under
  <2> QED
    BY <2>5, <2>6, FS_Bijection DEF ExistsBijection
<1>3. ASSUME NEW x \in S, NEW z \in S, Cardinality(Under(x)) = Cardinality(Under(z)) PROVE x = z
  <2>1. PICK m \in 1 .. size : at(m) = x
    BY <1>1
  <2>2. PICK n \in 1 .. size : at(n) = z
    BY <1>1
  <2>3. Cardinality(Under(x)) = m - 1 /\ Cardinality(Under(z)) = n - 1
    BY <1>2, <2>1, <2>2
  <2>4. m = n
    <3>1. m - 1 = n - 1
      BY <1>3, <2>3
    <3>2. m \in Nat /\ n \in Nat
      BY <1>1
    <3> QED
      BY <3>1, <3>2
  <2> QED
    BY <2>1, <2>2, <2>4
<1> QED
  BY <1>2, <1>3 DEF size, at

\* The same is at two sets of positions that are in the same order.
LEMMA SameAt ==
  ASSUME NEW s, NEW t, NEW P \in SUBSET Nat, IsFiniteSet(P), NEW Q \in SUBSET Nat, IsFiniteSet(Q),
         NEW g, \A p \in P : g[p] \in Q /\ s[p] = t[g[p]],
         \A p, r \in P : p < r => g[p] < g[r],
         \A q \in Q : \E p \in P : g[p] = q
  PROVE  At(s, P) = At(t, Q)
<1> DEFINE Under(p) == {y \in P : y < p}
           Until(q) == {y \in Q : y < q}
<1>0. /\ \A p \in P : p \in Nat
      /\ \A q \in Q : q \in Nat
  OBVIOUS
<1>1. ASSUME NEW p \in P, NEW r \in P, g[p] = g[r] PROVE p = r
  <2>1. ~(g[p] < g[r]) /\ ~(g[r] < g[p])
    <3>1. g[p] \in Q /\ g[r] \in Q
      OBVIOUS
    <3>2. g[p] \in Nat /\ g[r] \in Nat
      BY <1>0, <3>1
    <3> DEFINE a == g[p]
               b == g[r]
    <3>3. a \in Nat /\ a = b
      BY <1>1, <3>2
    <3> HIDE DEF a, b
    <3>4. ~(a < b) /\ ~(b < a)
      BY <3>3
    <3> QED
      BY <3>4 DEF a, b
  <2>2. ~(p < r) /\ ~(r < p)
    BY <2>1
  <2> QED
    BY <1>0, <2>2
<1>2. ASSUME NEW p \in P PROVE ExistsBijection(Under(p), Until(g[p]))
  <2> DEFINE f == [y \in Under(p) |-> g[y]]
  <2>1. \A y \in Under(p) : f[y] \in Until(g[p])
    OBVIOUS
  <2>2. ASSUME NEW q \in Until(g[p]) PROVE \E y \in Under(p) : f[y] = q
    <3>1. PICK y \in P : g[y] = q
      OBVIOUS
    <3>2. g[y] \in Nat /\ g[p] \in Nat /\ g[y] < g[p]
      BY <1>0, <3>1
    <3>3. y # p /\ ~(p < y)
      BY <3>2
    <3>4. y \in Nat /\ p \in Nat
      BY <1>0
    <3>5. y \in Under(p)
      BY <3>3, <3>4
    <3> QED
      BY <3>1, <3>5
  <2>3. \A x, y \in Under(p) : f[x] = f[y] => x = y
    BY <1>1
  <2>4. f \in [Under(p) -> Until(g[p])]
    BY <2>1
  <2>5. f \in Bijection(Under(p), Until(g[p]))
    <3> HIDE DEF f, Before, Until
    <3> QED
      BY <2>2, <2>3, <2>4 DEF Bijection, Injection, Surjection, IsInjective
  <2> HIDE DEF f
  <2> QED
    BY <2>5 DEF ExistsBijection
<1>3. ASSUME NEW p \in P PROVE Cardinality(Under(p)) = Cardinality(Until(g[p]))
  <2>1. Under(p) \in SUBSET P
    OBVIOUS
  <2> HIDE DEF Before, Until
  <2>2. IsFiniteSet(Under(p))
    BY <2>1, FS_Subset
  <2> QED
    BY <1>2, <2>2, FS_Bijection
<1>4. Cardinality(P) = Cardinality(Q)
  <2> DEFINE f == [y \in P |-> g[y]]
  <2>1. f \in [P -> Q] /\ \A q \in Q : \E y \in P : f[y] = q
    OBVIOUS
  <2>2. \A x, y \in P : f[x] = f[y] => x = y
    BY <1>1
  <2> HIDE DEF f
  <2>3. ExistsBijection(P, Q)
    BY <2>1, <2>2 DEF ExistsBijection, Bijection, Injection, Surjection, IsInjective
  <2> QED
    BY <2>3, FS_Bijection
<1>5. ASSUME NEW n \in 1 .. Cardinality(P) PROVE s[Nth(P, n)] = t[Nth(Q, n)]
  <2>1. Nth(P, n) \in P /\ Cardinality(Under(Nth(P, n))) = n - 1
    BY NthIsRank, RankOfNth
  <2>2. Nth(Q, n) \in Q /\ Cardinality(Until(Nth(Q, n))) = n - 1
    BY <1>4, NthIsRank, RankOfNth
  <2>3. g[Nth(P, n)] \in Q /\ Cardinality(Until(g[Nth(P, n)])) = n - 1
    BY <1>3, <2>1
  <2>4. \A x, z \in Q : Cardinality(Until(x)) = Cardinality(Until(z)) => x = z
    BY RankOfNth
  <2> DEFINE a == g[Nth(P, n)]
             b == Nth(Q, n)
  <2>5. a = b
    <3>1. a \in Q /\ b \in Q /\ Cardinality(Until(a)) = Cardinality(Until(b))
      BY <2>2, <2>3
    <3> HIDE DEF Until, a, b
    <3> QED
      BY <2>4, <3>1
  <2> QED
    BY <2>1, <2>5
<1> QED
  BY <1>4, <1>5 DEF At

\* the first of some positions
LEMMA NoneBeforeFirst ==
  ASSUME NEW P \in SUBSET Nat, IsFiniteSet(P), P # {}
  PROVE  Nth(P, 1) \in P /\ \A i \in P : ~(i < Nth(P, 1))
<1>1. Cardinality(P) \in Nat /\ Cardinality(P) # 0
  BY FS_CardinalityType, FS_EmptySet
<1>2. 1 \in 1 .. Cardinality(P)
  BY <1>1
<1>3. Nth(P, 1) \in P /\ Cardinality({y \in P : y < Nth(P, 1)}) = 0
  BY <1>2, NthIsRank, RankOfNth
<1> DEFINE first == Nth(P, 1)
           before == {y \in P : y < first}
<1>4. before = {}
  <2>1. before \in SUBSET P
    OBVIOUS
  <2>2. IsFiniteSet(before)
    BY <2>1, FS_Subset
  <2>3. Cardinality(before) = 0
    BY <1>3
  <2> HIDE DEF before
  <2> QED
    BY <2>2, <2>3, FS_EmptySet
<1>5. \A i \in P : ~(i < first)
  <2> HIDE DEF first
  <2> QED
    BY <1>4
<1> QED
  BY <1>3, <1>5

\* where the fields of a text index are in the key that is stored
LEMMA TextKeyStored ==
  ASSUME NEW key, IsList(key), IsTextKey(key)
  PROVE  LET text   == {i \in DOMAIN key : key[i][2] = "text"}
             first  == Nth(text, 1)
             after  == {i \in first .. Len(key) : key[i][2] # "text"}
             size   == Cardinality(after)
             stored == ToStoredKey(key)
         IN  /\ first \in text /\ \A i \in text : ~(i < first)
             /\ size \in Nat /\ after \in SUBSET (DOMAIN key)
             /\ DOMAIN stored = 1 .. first + 1 + size
             /\ \A i \in 1 .. first - 1 : stored[i] = key[i]
             /\ stored[first] = <<"_fts", "text">> /\ stored[first + 1] = <<"_ftsx", "asc">>
             /\ \A k \in 1 .. size : stored[first + 1 + k] = key[Nth(after, k)]
<1> DEFINE text == {i \in DOMAIN key : key[i][2] = "text"}
           first == Nth(text, 1)
           after == {i \in first .. Len(key) : key[i][2] # "text"}
           size == Cardinality(after)
           stored == ToStoredKey(key)
           pre == SubSeq(key, 1, first - 1)
           mid == <<<<"_fts", "text">>, <<"_ftsx", "asc">>>>
           post == At(key, after)
<1>1. Len(key) \in Nat /\ DOMAIN key = 1 .. Len(key)
  BY ListHas
<1>2. IsFiniteSet(DOMAIN key)
  BY <1>1, FS_Interval
<1>3. text \in SUBSET Nat /\ IsFiniteSet(text) /\ text # {}
  BY <1>1, <1>2, FS_Subset DEF IsTextKey
<1>4. first \in text /\ \A i \in text : ~(i < first)
  <2> HIDE DEF text
  <2> QED
    BY <1>3, NoneBeforeFirst
<1>5. first \in Nat /\ first \in 1 .. Len(key)
  <2>1. first \in DOMAIN key
    <3> HIDE DEF first
    <3> QED
      BY <1>4
  <2> HIDE DEF first
  <2> QED
    BY <1>1, <2>1
<1>6. stored = (pre \o mid) \o post
  BY DEF ToStoredKey
<1> HIDE DEF first, text
<1>7. after \in SUBSET (DOMAIN key)
  BY <1>1, <1>5
<1>8. /\ IsList(post) /\ Len(post) = size
      /\ \A k \in DOMAIN post : post[k] = key[Nth(after, k)]
  <2> HIDE DEF after
  <2> QED
    BY <1>7, AtPositions
<1>9. IsList(pre) /\ Len(pre) = first - 1 /\ \A i \in 1 .. first - 1 : pre[i] = key[i]
  <2> DEFINE n == first - 1
  <2>1. n \in Nat /\ pre = [i \in 1 .. n |-> key[i]]
    BY <1>1, <1>5 DEF IsList
  <2> HIDE DEF n, pre
  <2>2. pre = [i \in 1 .. n |-> pre[i]] /\ \A i \in 1 .. n : pre[i] = key[i]
    BY <2>1
  <2>3. IsList(pre) /\ Len(pre) = n
    BY <2>1, <2>2, ListOf
  <2> QED
    BY <2>2, <2>3 DEF n
<1>10. IsList(mid) /\ Len(mid) = 2 /\ mid[1] = <<"_fts", "text">> /\ mid[2] = <<"_ftsx", "asc">>
  <2> DEFINE a == <<"_fts", "text">>
             b == <<"_ftsx", "asc">>
  <2>1. mid = <<a, b>>
    OBVIOUS
  <2> HIDE DEF a, b, mid
  <2>2. mid \in Seq({a, b}) /\ Len(mid) = 2 /\ mid[1] = a /\ mid[2] = b
    BY <2>1
  <2> QED
    BY <2>2 DEF IsList, a, b
<1> HIDE DEF pre, mid, post, after, stored
<1> DEFINE front == pre \o mid
<1>11. /\ IsList(front) /\ Len(front) = Len(pre) + Len(mid)
       /\ DOMAIN front = 1 .. Len(pre) + Len(mid)
       /\ \A i \in DOMAIN pre : front[i] = pre[i]
       /\ \A i \in DOMAIN front : i \in DOMAIN pre \/ (i - Len(pre) \in DOMAIN mid /\ front[i] = mid[i - Len(pre)])
  BY <1>9, <1>10, ListsJoin
<1> HIDE DEF front
<1>12. DOMAIN pre = 1 .. first - 1 /\ DOMAIN post = 1 .. size /\ size \in Nat
  BY <1>8, <1>9, ListHas
<1>13. /\ \A i \in 1 .. first - 1 : front[i] = key[i]
       /\ front[first] = <<"_fts", "text">> /\ front[first + 1] = <<"_ftsx", "asc">>
  <2>1. first \in DOMAIN front /\ first + 1 \in DOMAIN front /\ first \notin DOMAIN pre /\ first + 1 \notin DOMAIN pre
    BY <1>5, <1>9, <1>10, <1>11, <1>12
  <2>2. first - Len(pre) = 1 /\ first + 1 - Len(pre) = 2
    BY <1>5, <1>9
  <2>3. front[first] = mid[1]
    BY <1>11, <2>1, <2>2
  <2>4. front[first + 1] = mid[2]
    <3> DEFINE i == first + 1
    <3>1. i \in DOMAIN front /\ i \notin DOMAIN pre /\ i - Len(pre) = 2
      BY <2>1, <2>2
    <3> HIDE DEF i
    <3>2. front[i] = mid[2]
      BY <1>11, <3>1
    <3> QED
      BY <3>2 DEF i
  <2> QED
    BY <1>9, <1>10, <1>11, <1>12, <2>3, <2>4
<1>14. IsList(front) /\ Len(front) = first + 1 /\ DOMAIN front = 1 .. first + 1
  BY <1>5, <1>9, <1>10, <1>11
<1>15. /\ DOMAIN (front \o post) = 1 .. Len(front) + Len(post)
       /\ \A i \in DOMAIN front : (front \o post)[i] = front[i]
       /\ \A i \in DOMAIN (front \o post) : i \in DOMAIN front \/ (i - Len(front) \in DOMAIN post /\ (front \o post)[i] = post[i - Len(front)])
  BY <1>8, <1>14, ListsJoin
<1>16. stored = front \o post
  BY <1>6 DEF front
<1>17. DOMAIN stored = 1 .. first + 1 + size /\ \A i \in DOMAIN front : stored[i] = front[i]
  BY <1>8, <1>14, <1>15, <1>16
<1>18. ASSUME NEW k \in 1 .. size PROVE stored[first + 1 + k] = key[Nth(after, k)]
  <2> DEFINE i == first + 1 + k
  <2>1. i \in DOMAIN stored /\ i \notin DOMAIN front /\ i - Len(front) = k
    BY <1>5, <1>12, <1>14, <1>17
  <2> HIDE DEF i
  <2>2. stored[i] = post[i - Len(front)]
    BY <1>15, <1>16, <2>1
  <2>3. stored[i] = key[Nth(after, k)]
    BY <1>8, <1>12, <2>1, <2>2
  <2> QED
    BY <2>3 DEF i
<1>19. /\ \A i \in 1 .. first - 1 : stored[i] = key[i]
       /\ stored[first] = <<"_fts", "text">> /\ stored[first + 1] = <<"_ftsx", "asc">>
  <2>1. first \in DOMAIN front /\ first + 1 \in DOMAIN front /\ \A i \in 1 .. first - 1 : i \in DOMAIN front
    BY <1>5, <1>14
  <2> QED
    BY <1>13, <1>17, <2>1
<1> QED
  BY <1>4, <1>7, <1>12, <1>17, <1>18, <1>19 DEF text, first, after, stored

\* What is listed of a text key is text, and else the key without its text fields.
LEMMA TextKeyKept ==
  ASSUME NEW key, IsList(key), IsTextKey(key),
         \A i \in DOMAIN key : key[i][1] \notin {"_fts", "_ftsx"}
  PROVE  LET stored == ToStoredKey(key)
         IN  /\ At(stored, {i \in DOMAIN stored : stored[i][1] \notin {"_fts", "_ftsx"}})
                  = At(key, {i \in DOMAIN key : key[i][2] # "text"})
             /\ \E i \in DOMAIN stored : stored[i][1] = "_fts"
<1> DEFINE text == {i \in DOMAIN key : key[i][2] = "text"}
           first == Nth(text, 1)
           after == {i \in first .. Len(key) : key[i][2] # "text"}
           size == Cardinality(after)
           stored == ToStoredKey(key)
           P == {i \in DOMAIN stored : stored[i][1] \notin {"_fts", "_ftsx"}}
           Q == {i \in DOMAIN key : key[i][2] # "text"}
           g == [i \in P |-> IF i < first THEN i ELSE Nth(after, i - first - 1)]
<1>1. /\ first \in text /\ \A i \in text : ~(i < first)
      /\ size \in Nat /\ after \in SUBSET (DOMAIN key)
      /\ DOMAIN stored = 1 .. first + 1 + size
      /\ \A i \in 1 .. first - 1 : stored[i] = key[i]
      /\ stored[first] = <<"_fts", "text">> /\ stored[first + 1] = <<"_ftsx", "asc">>
      /\ \A k \in 1 .. size : stored[first + 1 + k] = key[Nth(after, k)]
  <2> HIDE DEF text, first, after, size, stored
  <2> QED
    BY TextKeyStored DEF text, first, after, size, stored
<1>2. Len(key) \in Nat /\ DOMAIN key = 1 .. Len(key) /\ IsFiniteSet(DOMAIN key)
  <2>1. Len(key) \in Nat /\ DOMAIN key = 1 .. Len(key)
    BY ListHas
  <2> QED
    BY <2>1, FS_Interval
<1>3. first \in Nat /\ first \in DOMAIN key /\ 1 <= first
  <2>1. first \in DOMAIN key
    <3> HIDE DEF first
    <3> QED
      BY <1>1
  <2> HIDE DEF first
  <2> QED
    BY <1>2, <2>1
<1>4. \A i \in DOMAIN key : i < first => i \in Q
  <2> HIDE DEF first
  <2> QED
    BY <1>1
<1> HIDE DEF stored
<1>5. /\ after \in SUBSET Nat /\ IsFiniteSet(after)
      /\ \A n \in 1 .. size : Nth(after, n) \in after
      /\ \A m, n \in 1 .. size : m < n => Nth(after, m) < Nth(after, n)
      /\ \A x \in after : \E n \in 1 .. size : Nth(after, n) = x
  <2> HIDE DEF after
  <2>1. after \in SUBSET Nat /\ IsFiniteSet(after)
    BY <1>1, <1>2, FS_Subset
  <2> QED
    BY <2>1, NthIsRank
<1>6. after \in SUBSET Q /\ \A i \in after : i \in Nat /\ first <= i
  BY <1>1, <1>2, <1>3
<1>7. \A i \in DOMAIN key : i \in Q => i < first \/ i \in after
  <2> HIDE DEF first
  <2> QED
    BY <1>2, <1>3
<1>15. stored[first][1] = "_fts" /\ stored[first + 1][1] = "_ftsx"
  <2> DEFINE a == stored[first]
             b == stored[first + 1]
  <2>1. a = <<"_fts", "text">> /\ b = <<"_ftsx", "asc">>
    <3> HIDE DEF first, after, size, text
    <3> QED
      BY <1>1
  <2> HIDE DEF a, b
  <2>2. a[1] = "_fts" /\ b[1] = "_ftsx"
    BY <2>1
  <2> QED
    BY <2>2 DEF a, b
<1>8. \E i \in DOMAIN stored : stored[i][1] = "_fts"
  <2>1. first \in DOMAIN stored
    BY <1>1, <1>3
  <2> QED
    BY <1>15, <2>1
\* the positions kept: those before the text, and those after its two fields
<1>9. ASSUME NEW i \in DOMAIN stored
      PROVE  /\ i \in Nat
             /\ i < first => i \in 1 .. first - 1 /\ i \in DOMAIN key /\ stored[i] = key[i]
             /\ ~(i < first) /\ stored[i][1] \notin {"_fts", "_ftsx"} =>
                  i - first - 1 \in 1 .. size /\ stored[i] = key[Nth(after, i - first - 1)]
  <2>1. i \in Nat /\ 1 <= i /\ i <= first + 1 + size
    BY <1>1, <1>3
  <2>2. i < first => i \in 1 .. first - 1 /\ i \in DOMAIN key
    BY <1>2, <1>3, <2>1
  <2>3. ASSUME ~(i < first), stored[i][1] \notin {"_fts", "_ftsx"}
        PROVE  i - first - 1 \in 1 .. size /\ stored[i] = key[Nth(after, i - first - 1)]
    <3> DEFINE k == i - first - 1
    <3>1. i # first /\ i # first + 1
      <4> HIDE DEF first, k
      <4> QED
        BY <1>15, <2>3
    <3>2. k \in 1 .. size /\ i = first + 1 + k
      <4>1. first \in Nat /\ size \in Nat
        BY <1>1, <1>3
      <4> HIDE DEF first, size, after, text
      <4> QED
        BY <4>1, <2>1, <2>3, <3>1
    <3> HIDE DEF k
    <3>3. stored[first + 1 + k] = key[Nth(after, k)]
      BY <1>1, <3>2
    <3>4. stored[i] = key[Nth(after, k)]
      BY <3>2, <3>3
    <3> QED
      BY <3>2, <3>4 DEF k
  <2> QED
    BY <1>1, <2>1, <2>2, <2>3
<1> HIDE DEF first, text, after, size
<1>10. ASSUME NEW i \in P PROVE g[i] \in Q /\ stored[i] = key[g[i]]
  <2>1. i \in DOMAIN stored /\ stored[i][1] \notin {"_fts", "_ftsx"}
    OBVIOUS
  <2>2. CASE i < first
    <3>1. g[i] = i
      BY <2>2
    <3> HIDE DEF g, P, Q
    <3> QED
      BY <1>4, <1>9, <2>1, <2>2, <3>1
  <2>3. CASE ~(i < first)
    <3>1. g[i] = Nth(after, i - first - 1)
      BY <2>3
    <3>2. i - first - 1 \in 1 .. size /\ stored[i] = key[Nth(after, i - first - 1)]
      BY <1>9, <2>1, <2>3
    <3>3. Nth(after, i - first - 1) \in after
      BY <1>5, <3>2
    <3> HIDE DEF g, P, Q
    <3> QED
      BY <1>6, <3>1, <3>2, <3>3
  <2> QED
    BY <2>2, <2>3
<1>11. ASSUME NEW i \in P, NEW j \in P, i < j PROVE g[i] < g[j]
  <2>1. i \in Nat /\ j \in Nat
    BY <1>9
  <2>2. CASE j < first
    <3>1. g[i] = i /\ g[j] = j
      BY <1>3, <1>11, <2>1, <2>2
    <3> HIDE DEF g
    <3> QED
      BY <1>11, <3>1
  <2>3. CASE ~(j < first) /\ i < first
    <3>1. g[i] = i /\ g[j] = Nth(after, j - first - 1)
      BY <2>3
    <3>2. j - first - 1 \in 1 .. size
      BY <1>9, <2>3
    <3>3. Nth(after, j - first - 1) \in after
      BY <1>5, <3>2
    <3> DEFINE y == Nth(after, j - first - 1)
    <3>4. y \in Nat /\ first <= y
      BY <1>6, <3>3
    <3> HIDE DEF y
    <3>5. i < y
      BY <1>3, <2>1, <2>3, <3>4
    <3> QED
      BY <3>1, <3>5 DEF y
  <2>4. CASE ~(i < first)
    <3>1. ~(j < first)
      BY <1>3, <1>11, <2>1, <2>4
    <3>2. i - first - 1 \in 1 .. size /\ j - first - 1 \in 1 .. size /\ i - first - 1 < j - first - 1
      BY <1>3, <1>9, <1>11, <2>1, <2>4, <3>1
    <3>3. g[i] = Nth(after, i - first - 1) /\ g[j] = Nth(after, j - first - 1)
      BY <2>4, <3>1
    <3> HIDE DEF g
    <3> QED
      BY <1>5, <3>2, <3>3
  <2> QED
    BY <2>2, <2>3, <2>4
<1>12. ASSUME NEW q \in Q PROVE \E i \in P : g[i] = q
  <2>1. q \in DOMAIN key /\ q \in Nat /\ 1 <= q
    BY <1>2
  <2>2. CASE q < first
    <3>1. q \in 1 .. first - 1 /\ q \in DOMAIN stored
      BY <1>1, <1>3, <2>1, <2>2
    <3>2. stored[q] = key[q]
      BY <1>1, <3>1
    <3>3. q \in P
      BY <2>1, <3>1, <3>2
    <3>4. g[q] = q
      BY <2>2, <3>3
    <3> QED
      BY <3>3, <3>4
  <2>3. CASE ~(q < first)
    <3>1. q \in after
      BY <1>7, <2>1, <2>3
    <3>2. PICK n \in 1 .. size : Nth(after, n) = q
      BY <1>5, <3>1
    <3> DEFINE i == first + 1 + n
    <3>3. i \in DOMAIN stored /\ ~(i < first) /\ i - first - 1 = n
      BY <1>1, <1>3, <3>2
    <3>4. stored[i] = key[q]
      BY <1>1, <3>2
    <3> HIDE DEF i
    <3>5. i \in P
      BY <2>1, <3>3, <3>4
    <3>6. g[i] = q
      BY <3>2, <3>3, <3>5
    <3> QED
      BY <3>5, <3>6
  <2> QED
    BY <2>2, <2>3
<1>13. P \in SUBSET Nat /\ IsFiniteSet(P) /\ Q \in SUBSET Nat /\ IsFiniteSet(Q)
  <2>1. first + 1 + size \in Nat
    BY <1>1, <1>3
  <2> DEFINE n == first + 1 + size
  <2> HIDE DEF n
  <2>2. IsFiniteSet(1 .. n)
    BY <2>1, FS_Interval DEF n
  <2>3. P \in SUBSET (1 .. n) /\ Q \in SUBSET (DOMAIN key)
    BY <1>1 DEF n
  <2> HIDE DEF P, Q
  <2>4. IsFiniteSet(P) /\ IsFiniteSet(Q)
    BY <1>2, <2>2, <2>3, FS_Subset
  <2> QED
    BY <1>2, <2>3, <2>4
<1> HIDE DEF P, Q, g
<1>14. At(stored, P) = At(key, Q)
  BY <1>10, <1>11, <1>12, <1>13, SameAt
<1> QED
  BY <1>8, <1>14 DEF P, Q, stored

\* the index that createIndexes makes of a description
LEMMA MadeFields ==
  ASSUME NEW index, HasOptions(index)
  PROVE  LET made == CreateIndexInfo(BuildDescription(index))
         IN  /\ HasOptions(made) /\ made.name = NameOf(index)
             /\ made.key = ToStoredKey(index.key) /\ made.weights = FullWeights(index)
             /\ \A f \in ComparedFields \ {"weights"} : made[f] = index[f]
<1> DEFINE d == BuildDescription(index)
           made == CreateIndexInfo(d)
<1>1. HasOptions(d) /\ NameOf(d) = NameOf(index)
  BY DescriptionNamed
<1>2. DOMAIN d = DOMAIN index /\ \A f \in DOMAIN index \ {"name"} : d[f] = index[f]
  BY DEF BuildDescription
<1> HIDE DEF d
<1>3. HasOptions(made) /\ made.name = NameOf(index)
  BY <1>1, InfoOfDescription
<1>4. d.key = index.key /\ d.weights = index.weights /\ \A f \in ComparedFields : d[f] = index[f]
  BY <1>2 DEF HasOptions, ComparedFields
<1>5. FullWeights(d) = FullWeights(index)
  BY <1>4 DEF FullWeights
<1>6. made = [d EXCEPT !.key = ToStoredKey(@), !.name = IF @ = <<>> THEN BuildIndexName(d.key) ELSE @,
                       !.weights = FullWeights(d)]
  BY DEF CreateIndexInfo, FullWeights
<1> HIDE DEF made
<1> DEFINE name == IF d.name = <<>> THEN BuildIndexName(d.key) ELSE d.name
           key == ToStoredKey(d.key)
           weights == FullWeights(d)
<1>7. made = [d EXCEPT !.key = key, !.name = name, !.weights = weights]
  BY <1>6
<1> HIDE DEF name, key, weights
<1>8. made.key = key /\ made.weights = weights /\ \A f \in ComparedFields \ {"weights"} : made[f] = d[f]
  BY <1>1, <1>7 DEF HasOptions, ComparedFields
<1> QED
  BY <1>3, <1>4, <1>5, <1>8 DEF made, d, key, weights

\* The index made of what is declared is as it is declared.
LEMMA MadeMeets ==
  ASSUME NEW index, IsDescription(index), {"_fts", "_ftsx"} \cap Fields = {}
  PROVE  Meets(CreateIndexInfo(BuildDescription(index)), index)
<1> DEFINE key == index.key
           made == CreateIndexInfo(BuildDescription(index))
           declared == NormalizeDeclaredIndex(index)
           existing == NormalizeExistingIndex(made)
<1>1. HasOptions(index)
  BY DeclaredKey
<1>2. IsList(key) /\ \A i \in DOMAIN key : key[i][1] \notin {"_fts", "_ftsx"}
  BY DeclaredKey
<1>3. /\ HasOptions(made) /\ made.name = NameOf(index)
      /\ made.key = ToStoredKey(key) /\ made.weights = FullWeights(index)
      /\ \A f \in ComparedFields \ {"weights"} : made[f] = index[f]
  BY <1>1, MadeFields
<1>4. /\ declared.isText = IsTextKey(key)
      /\ declared.key = At(key, {i \in DOMAIN key : key[i][2] # "text"})
      /\ declared.weights = FullWeights(index)
      /\ \A f \in ComparedFields \ {"weights"} : declared[f] = index[f]
  BY <1>1, DeclaredFields
<1>5. /\ existing.isText = \E i \in DOMAIN made.key : made.key[i][1] = "_fts"
      /\ existing.key = At(made.key, {i \in DOMAIN made.key : made.key[i][1] \notin {"_fts", "_ftsx"}})
      /\ \A f \in ComparedFields : existing[f] = made[f]
  BY <1>3, ExistingFields
<1> HIDE DEF key, made, declared, existing
<1>6. declared.isText = existing.isText /\ declared.key = existing.key
  <2>1. CASE IsTextKey(key)
    <3>1. /\ At(made.key, {i \in DOMAIN made.key : made.key[i][1] \notin {"_fts", "_ftsx"}})
                = At(key, {i \in DOMAIN key : key[i][2] # "text"})
          /\ \E i \in DOMAIN made.key : made.key[i][1] = "_fts"
      <4> DEFINE stored == ToStoredKey(key)
      <4>1. /\ At(stored, {i \in DOMAIN stored : stored[i][1] \notin {"_fts", "_ftsx"}})
                  = At(key, {i \in DOMAIN key : key[i][2] # "text"})
            /\ \E i \in DOMAIN stored : stored[i][1] = "_fts"
        BY <1>2, <2>1, TextKeyKept
      <4>2. made.key = stored
        BY <1>3
      <4> HIDE DEF stored
      <4> QED
        BY <4>1, <4>2
    <3>2. declared.isText = TRUE /\ existing.isText = TRUE
      BY <1>4, <1>5, <2>1, <3>1 DEF IsTextKey
    <3> QED
      BY <1>4, <1>5, <3>1, <3>2
  <2>2. CASE ~IsTextKey(key)
    <3>1. made.key = key
      BY <1>3, <2>2 DEF ToStoredKey
    <3>2. {i \in DOMAIN key : key[i][2] # "text"} = DOMAIN key
      BY <2>2 DEF IsTextKey
    <3>3. {i \in DOMAIN key : key[i][1] \notin {"_fts", "_ftsx"}} = DOMAIN key
      BY <1>2
    <3>4. ~\E i \in DOMAIN key : key[i][1] = "_fts"
      BY <1>2
    <3>5. declared.isText = FALSE /\ existing.isText = FALSE
      BY <1>4, <1>5, <2>2, <3>1, <3>4 DEF IsTextKey
    <3> QED
      BY <1>4, <1>5, <3>1, <3>2, <3>3, <3>5
  <2> QED
    BY <2>1, <2>2
<1>7. \A f \in ComparedFields : declared[f] = existing[f]
  BY <1>3, <1>4, <1>5
<1> QED
  BY <1>3, <1>6, <1>7 DEF Meets, IsSameKey, DiffOptions, made, declared, existing

\* A drop that is no error, or finds none, leaves no index of that name.
LEMMA DropExact ==
  ASSUME NEW c, GoodCollection(c), NEW name, DropIndexFrom(c, name).error \in {Succeeded, IndexNotFound}
  PROVE  \A info \in Infos(DropIndexFrom(c, name).collection) : info.name # name
<1> DEFINE positions == {i \in DOMAIN c.indexes : c.indexes[i].info.name # name}
           left == At(c.indexes, positions)
           result == DropIndexFrom(c, name)
           next == [c EXCEPT !.indexes = left]
<1>1. IsList(c.indexes) /\ positions \in SUBSET (DOMAIN c.indexes)
  BY DEF GoodCollection, GoodIndexes
<1>2. \A i \in positions : c.indexes[i].info.name # name
  OBVIOUS
<1>3. \/ result = Refused(c, NamespaceNotFound)
      \/ result = Refused(c, IndexNotFound) /\ \A i \in DOMAIN c.indexes : c.indexes[i].info.name # name
      \/ result = Begun(next)
  BY DEF DropIndexFrom
<1> HIDE DEF positions
<1>4. \A k \in DOMAIN left : Nth(positions, k) \in positions /\ left[k] = c.indexes[Nth(positions, k)]
  BY <1>1, AtPositions
<1> HIDE DEF left
<1>5. next.indexes = left
  BY DEF GoodCollection
<1> HIDE DEF next, result
<1>6. result # Refused(c, NamespaceNotFound)
  BY DEF Refused, NamespaceNotFound, Succeeded, IndexNotFound, result
<1>7. CASE result = Refused(c, IndexNotFound) /\ \A i \in DOMAIN c.indexes : c.indexes[i].info.name # name
  BY <1>7 DEF Infos, Refused, result
<1>8. CASE result = Begun(next)
  <2>1. result.collection.indexes = left
    BY <1>5, <1>8 DEF Begun
  <2> QED
    BY <1>2, <1>4, <2>1 DEF Infos, result
<1> QED
  BY <1>3, <1>6, <1>7, <1>8

\* A change that is no error changes the index of that name, which is there.
LEMMA ModifyExact ==
  ASSUME NEW c, GoodCollection(c), NEW name, NEW changes, ModifyIndexOf(c, name, changes).error = Succeeded
  PROVE  \E x \in Infos(c) : x.name = name /\ Over(changes, x) \in Infos(ModifyIndexOf(c, name, changes).collection)
<1> DEFINE at == {i \in DOMAIN c.indexes : c.indexes[i].info.name = name}
           Modified(x) == [x EXCEPT !.info = Over(changes, @)]
           changed == [i \in DOMAIN c.indexes |-> IF i \in at THEN Modified(c.indexes[i]) ELSE c.indexes[i]]
           result == ModifyIndexOf(c, name, changes)
           next == [c EXCEPT !.indexes =
                       [i \in DOMAIN @ |-> IF i \in at THEN Modified(@[i]) ELSE @[i]]]
<1>1. at # {} /\ result = Begun(next)
  <2>1. CASE ~c.exists
    BY <2>1 DEF ModifyIndexOf, Refused, Succeeded, NamespaceNotFound
  <2>2. CASE c.exists /\ at = {}
    BY <2>2 DEF ModifyIndexOf, Refused, Succeeded, IndexNotFound
  <2>3. CASE c.exists /\ at # {}
    <3>1. result = Begun(next)
      BY <2>3 DEF ModifyIndexOf
    <3> QED
      BY <2>3, <3>1
  <2> QED
    BY <2>1, <2>2, <2>3
<1>2. next = [c EXCEPT !.indexes = changed]
  OBVIOUS
<1> HIDE DEF next, result
<1>3. PICK i \in DOMAIN c.indexes : c.indexes[i].info.name = name
  BY <1>1
<1>4. i \in DOMAIN changed /\ changed[i] = Modified(c.indexes[i])
  BY <1>3
<1>5. changed[i].info = Over(changes, c.indexes[i].info)
  <2>1. c.indexes[i] = [info |-> c.indexes[i].info, owners |-> c.indexes[i].owners]
    BY DEF GoodCollection, GoodIndexes, GoodIndex, IsIndex
  <2> HIDE DEF changed
  <2> QED
    BY <1>4, <2>1
<1> HIDE DEF changed
<1>6. result.collection.indexes = changed
  BY <1>1, <1>2 DEF Begun, GoodCollection
<1>7. changed[i].info \in Infos(result.collection)
  BY <1>4, <1>6 DEF Infos
<1>8. c.indexes[i].info \in Infos(c)
  BY DEF Infos
<1> QED
  BY <1>3, <1>5, <1>7, <1>8 DEF result

\* what the steps of createIndexes leave of a collection
Whole(c) ==
    /\ c = [documents |-> c.documents, indexes |-> c.indexes, exists |-> c.exists]
    /\ IsList(c.indexes)

\* An index that is built is added to those there were.
LEMMA BuildAdds ==
  ASSUME NEW r, Whole(r.collection), NEW info, NEW documents, IsList(documents),
         BuildIndex(r, info, documents).error = Succeeded
  PROVE  LET next == BuildIndex(r, info, documents).collection
         IN  /\ r.error = Succeeded
             /\ Whole(next)
             /\ Infos(next) = Infos(r.collection) \cup {info}
<1> DEFINE c == r.collection
           base == [index |-> [info |-> info, owners |-> <<>>], error |-> Succeeded]
           built == EnterAll(base, documents)
           indexes == Append(c.indexes, built.index)
           next == [documents |-> c.documents, indexes |-> indexes, exists |-> c.exists]
           result == BuildIndex(r, info, documents)
<1>1. built.index.info = info
  BY EnteredInfo DEF IsNewIndex
<1>2. \/ r.error # Succeeded /\ result = r
      \/ built.error # Succeeded /\ result = Refused(c, built.error)
      \/ r.error = Succeeded /\ result = Begun([c EXCEPT !.indexes = indexes])
  BY DEF BuildIndex, EnterAll
<1> HIDE DEF built, result
<1>3. r.error = Succeeded /\ result = Begun([c EXCEPT !.indexes = indexes])
  BY <1>2 DEF Refused, result
<1> HIDE DEF indexes
<1>4. [c EXCEPT !.indexes = indexes] = next
  <2>1. c = [documents |-> c.documents, indexes |-> c.indexes, exists |-> c.exists]
    BY DEF Whole
  <2> HIDE DEF c
  <2> QED
    BY <2>1
<1>5. result.collection = next
  BY <1>3, <1>4 DEF Begun
<1>6. /\ IsList(c.indexes) /\ Len(c.indexes) \in Nat /\ DOMAIN c.indexes = 1 .. Len(c.indexes)
  BY ListHas DEF Whole
<1>7. /\ IsList(indexes) /\ DOMAIN indexes = 1 .. Len(c.indexes) + 1
      /\ \A i \in DOMAIN c.indexes : indexes[i] = c.indexes[i]
      /\ indexes[Len(c.indexes) + 1] = built.index
  BY <1>6, ListAppends DEF indexes
<1>8. /\ \A i \in DOMAIN indexes : i \in DOMAIN c.indexes \/ indexes[i] = built.index
      /\ DOMAIN c.indexes \subseteq DOMAIN indexes
      /\ Len(c.indexes) + 1 \in DOMAIN indexes
  BY <1>6, <1>7
<1>9. Infos(next) = Infos(c) \cup {info}
  BY <1>1, <1>7, <1>8 DEF Infos
<1>10. Whole(next)
  BY <1>7 DEF Whole
<1> HIDE DEF next
<1> QED
  BY <1>3, <1>5, <1>9, <1>10 DEF result

\* what is there already is listed as it is asked for
LEMMA CreatedIsListed ==
  ASSUME NEW c, IsList(c.indexes), NEW info,
         IsAlreadyCreated(c, info) \notin {OptionsConflict, KeySpecsConflict, Succeeded}
  PROVE  info = IdIndexInfo \/ info \in Infos(c)
<1> DEFINE infos == ToSet(ListInfos(c))
           sameName == {x \in infos : x.name = info.name}
<1>1. infos = {IdIndexInfo} \cup Infos(c)
  BY ListedInfos DEF Infos
<1> HIDE DEF infos
<1>2. info \in sameName
  <2> HIDE DEF sameName
  <2>1. CASE info \notin sameName /\ sameName # {}
    BY <2>1 DEF IsAlreadyCreated, infos, sameName
  <2>2. CASE info \notin sameName /\ sameName = {}
    BY <2>2 DEF IsAlreadyCreated, infos, sameName
  <2> QED
    BY <2>1, <2>2
<1> QED
  BY <1>1, <1>2

\* the indexes of a run of createIndexes, up to one of its steps
LEMMA BuildRunAdds ==
  ASSUME NEW c, Whole(c), NEW seq, IsList(seq), NEW documents, IsList(documents),
         BuildAll(Begun(c), seq, documents).error = Succeeded
  PROVE  LET after == BuildAll(Begun(c), seq, documents).collection
         IN  /\ Whole(after)
             /\ Infos(after) = Infos(c) \cup {CreateIndexInfo(seq[k]) : k \in DOMAIN seq}
<1> DEFINE n == Len(seq)
           built == BuildAll(Begun(c), seq, documents)
<1>1. n \in Nat /\ DOMAIN seq = 1 .. n
  BY ListHas
<1>2. PICK run : /\ run[0] = Begun(c)
                 /\ \A k \in 1 .. n : run[k] = BuildIndex(run[k - 1], CreateIndexInfo(seq[k]), documents)
                 /\ built = run[n]
  BY BuildRuns
<1> HIDE DEF n, built
<1> DEFINE Upto(k) == {CreateIndexInfo(seq[j]) : j \in 1 .. k}
           Adds(k) == run[k].error = Succeeded =>
                        /\ Whole(run[k].collection)
                        /\ Infos(run[k].collection) = Infos(c) \cup Upto(k)
           K == {k \in Nat : k <= n => Adds(k)}
<1>3. 0 \in K
  <2>1. run[0].collection = c
    BY <1>2 DEF Begun
  <2>2. Upto(0) = {}
    OBVIOUS
  <2> QED
    BY <2>1, <2>2
<1>4. ASSUME NEW k \in Nat, k \in K PROVE k + 1 \in K
  <2> SUFFICES ASSUME k + 1 <= n PROVE Adds(k + 1)
    OBVIOUS
  <2> SUFFICES ASSUME run[k + 1].error = Succeeded
               PROVE  /\ Whole(run[k + 1].collection)
                      /\ Infos(run[k + 1].collection) = Infos(c) \cup Upto(k + 1)
    OBVIOUS
  <2>1. k + 1 \in 1 .. n /\ k + 1 - 1 = k /\ k <= n
    BY <1>1
  <2>2. Adds(k)
    BY <1>4, <2>1
  <2> DEFINE info == CreateIndexInfo(seq[k + 1])
  <2>3. run[k + 1] = BuildIndex(run[k], info, documents)
    BY <1>2, <2>1
  <2>4. Upto(k + 1) = Upto(k) \cup {info}
    <3>1. \A j : j \in 1 .. k + 1 <=> j \in 1 .. k \/ j = k + 1
      BY <1>1
    <3> QED
      BY <3>1
  <2> HIDE DEF info, Upto
  <2>5. BuildIndex(run[k], info, documents).error = Succeeded
    BY <2>3
  <2>6. run[k].error = Succeeded
    <3>1. run[k].error # Succeeded => BuildIndex(run[k], info, documents) = run[k]
      BY DEF BuildIndex
    <3> QED
      BY <2>5, <3>1
  <2>7. Whole(run[k].collection) /\ Infos(run[k].collection) = Infos(c) \cup Upto(k)
    BY <2>2, <2>6
  <2>8. /\ Whole(run[k + 1].collection)
        /\ Infos(run[k + 1].collection) = Infos(run[k].collection) \cup {info}
    <3> DEFINE r == run[k]
    <3>1. Whole(r.collection) /\ BuildIndex(r, info, documents).error = Succeeded
      BY <2>5, <2>7
    <3> HIDE DEF r
    <3>2. /\ Whole(BuildIndex(r, info, documents).collection)
          /\ Infos(BuildIndex(r, info, documents).collection) = Infos(r.collection) \cup {info}
      BY <3>1, BuildAdds
    <3> QED
      BY <2>3, <3>2 DEF r
  <2> QED
    BY <2>4, <2>7, <2>8
<1>5. Nat \subseteq K
  <2> HIDE DEF K
  <2>1. \A k \in Nat : k \in K => k + 1 \in K
    BY <1>4
  <2> QED
    BY <1>3, <2>1, CountsUp
<1>6. Adds(n)
  BY <1>1, <1>5
<1>7. run[n].error = Succeeded
  BY <1>2 DEF built
<1> QED
  BY <1>1, <1>2, <1>6, <1>7 DEF built

\* createIndexes, when it is no error: each index asked for is there as asked, and
\* no other one is new.
LEMMA CreateExact ==
  ASSUME NEW c, GoodCollection(c), NEW descriptions, IsList(descriptions),
         CreateIndexesIn(c, descriptions).error = Succeeded
  PROVE  LET after == CreateIndexesIn(c, descriptions).collection
         IN  /\ Infos(c) \subseteq Infos(after)
             /\ \A x \in Infos(after) : x \in Infos(c) \/ \E i \in DOMAIN descriptions : x = CreateIndexInfo(descriptions[i])
             /\ \A i \in DOMAIN descriptions :
                   CreateIndexInfo(descriptions[i]) = IdIndexInfo \/ CreateIndexInfo(descriptions[i]) \in Infos(after)
<1> DEFINE checks == [i \in DOMAIN descriptions |-> IsAlreadyCreated(c, CreateIndexInfo(descriptions[i]))]
           positions == {i \in DOMAIN checks : checks[i] = Succeeded}
           conflicts == {i \in DOMAIN checks : checks[i] \in {OptionsConflict, KeySpecsConflict}}
           missing == At(descriptions, positions)
           built == BuildAll(Begun(c), missing, c.documents)
           result == CreateIndexesIn(c, descriptions)
<1>1. /\ conflicts = {}
      /\ built.error = Succeeded
      /\ result = Begun([built.collection EXCEPT !.exists = TRUE])
  <2>1. \/ conflicts # {} /\ result = Refused(c, checks[Nth(conflicts, 1)])
        \/ conflicts = {} /\ built.error # Succeeded /\ result = Refused(c, built.error)
        \/ conflicts = {} /\ built.error = Succeeded /\ result = Begun([built.collection EXCEPT !.exists = TRUE])
    BY DEF CreateIndexesIn, BuildAll
  <2>2. conflicts # {} => checks[Nth(conflicts, 1)] \in {OptionsConflict, KeySpecsConflict}
    <3>1. conflicts \in SUBSET (DOMAIN descriptions) /\ \A i \in conflicts : checks[i] \in {OptionsConflict, KeySpecsConflict}
      OBVIOUS
    <3> HIDE DEF conflicts, checks
    <3> QED
      BY <3>1, FirstOf
  <2>3. Succeeded \notin {OptionsConflict, KeySpecsConflict}
    BY DEF Succeeded, OptionsConflict, KeySpecsConflict
  <2> HIDE DEF conflicts, checks, built
  <2>4. result.error = Succeeded
    OBVIOUS
  <2> HIDE DEF result
  <2> QED
    BY <2>1, <2>2, <2>3, <2>4 DEF Refused
<1>2. ASSUME NEW i \in DOMAIN descriptions, i \notin positions
      PROVE  CreateIndexInfo(descriptions[i]) = IdIndexInfo \/ CreateIndexInfo(descriptions[i]) \in Infos(c)
  <2>1. checks[i] \notin {OptionsConflict, KeySpecsConflict, Succeeded}
    BY <1>1, <1>2
  <2>2. IsList(c.indexes)
    BY DEF GoodCollection, GoodIndexes
  <2>3. IsAlreadyCreated(c, CreateIndexInfo(descriptions[i])) \notin {OptionsConflict, KeySpecsConflict, Succeeded}
    BY <2>1
  <2> QED
    BY <2>2, <2>3, CreatedIsListed
<1>3. positions \in SUBSET (DOMAIN descriptions)
  OBVIOUS
<1> HIDE DEF positions, conflicts, checks, result
<1>4. /\ IsList(missing)
      /\ \A k \in DOMAIN missing : Nth(positions, k) \in positions /\ missing[k] = descriptions[Nth(positions, k)]
      /\ \A i \in positions : \E k \in DOMAIN missing : Nth(positions, k) = i
  BY <1>3, AtPositions
<1> HIDE DEF missing
<1>5. Whole(c) /\ IsList(c.documents)
  BY DEF Whole, GoodCollection, GoodDocuments, GoodIndexes
<1>6. /\ Whole(built.collection)
      /\ Infos(built.collection) = Infos(c) \cup {CreateIndexInfo(missing[k]) : k \in DOMAIN missing}
  BY <1>1, <1>4, <1>5, BuildRunAdds
<1> DEFINE b == built.collection
           after == result.collection
<1>7. Infos(after) = Infos(b)
  <2>1. b = [documents |-> b.documents, indexes |-> b.indexes, exists |-> b.exists]
    BY <1>6 DEF Whole
  <2>2. after = [b EXCEPT !.exists = TRUE]
    BY <1>1 DEF Begun
  <2> HIDE DEF b, after
  <2>3. after.indexes = b.indexes
    BY <2>1, <2>2
  <2> QED
    BY <2>3 DEF Infos
<1>8. Infos(after) = Infos(c) \cup {CreateIndexInfo(missing[k]) : k \in DOMAIN missing}
  BY <1>6, <1>7
<1> HIDE DEF after, b, built
<1>9. ASSUME NEW i \in DOMAIN descriptions
      PROVE  CreateIndexInfo(descriptions[i]) = IdIndexInfo \/ CreateIndexInfo(descriptions[i]) \in Infos(after)
  <2>1. CASE i \in positions
    <3>1. PICK k \in DOMAIN missing : Nth(positions, k) = i
      BY <1>4, <2>1
    <3>2. missing[k] = descriptions[i]
      BY <1>4, <3>1
    <3> QED
      BY <1>8, <3>1, <3>2
  <2>2. CASE i \notin positions
    BY <1>2, <1>8, <2>2
  <2> QED
    BY <2>1, <2>2
<1>10. \A x \in Infos(after) : x \in Infos(c) \/ \E i \in DOMAIN descriptions : x = CreateIndexInfo(descriptions[i])
  BY <1>3, <1>4, <1>8
<1> QED
  BY <1>8, <1>9, <1>10 DEF after, result

-----------------------------------------------------------------------------
(* What syncs that overlap owe each other *)

Changes(mod, indexes) == IsChange(mod) /\ Sets(mod, indexes)

\* A step of a sync that respects what is declared: what it makes is as declared, and
\* what it changes it sets to what is declared.
Respects(before, after, indexes) ==
    \A x \in after :
        \/ x \in before
        \/ \E j \in DOMAIN indexes : Meets(x, indexes[j])
        \/ \E y \in before : \E mod : Changes(mod, indexes) /\ mod.name = y.name /\ x = Over(mod.changes, y)

LEMMA MeetsKeyed ==
  ASSUME NEW indexes, IsDeclaration(indexes), NEW j \in DOMAIN indexes, NEW info, Meets(info, indexes[j])
  PROVE  Keyed(info, indexes)
<1>1. \A k \in DOMAIN indexes : NameOf(indexes[k]) = NameOf(indexes[j]) => k = j
  BY DEF IsDeclaration, ValidDeclaration
<1> QED
  BY <1>1 DEF Keyed, Meets

LEMMA ChangedKeyed ==
  ASSUME NEW info, HasOptions(info), NEW changes, DOMAIN changes \subseteq {"hidden", "expireAfterSeconds"},
         NEW indexes, Keyed(info, indexes)
  PROVE  Keyed(Over(changes, info), indexes)
<1> DEFINE x == Over(changes, info)
<1>1. HasOptions(x) /\ x.name = info.name /\ x.key = info.key
  BY OverFields
<1> HIDE DEF x
<1>2. Keyed(x, indexes)
  BY <1>1, SameKeyCompared DEF Keyed
<1> QED
  BY <1>2 DEF x

\* what a change sets, of the index it has the name of
LEMMA SetsDeclared ==
  ASSUME NEW indexes, IsDeclaration(indexes), NEW j \in DOMAIN indexes,
         NEW mod, Sets(mod, indexes), mod.name = NameOf(indexes[j])
  PROVE  \A f \in DOMAIN mod.changes : mod.changes[f] = NormalizeDeclaredIndex(indexes[j])[f]
<1>1. \A k \in DOMAIN indexes : NameOf(indexes[k]) = NameOf(indexes[j]) => k = j
  BY DEF IsDeclaration, ValidDeclaration
<1> QED
  BY <1>1 DEF Sets

\* Two changes that set what is declared make of an index what the second does.
LEMMA ChangedTwice ==
  ASSUME NEW info, HasOptions(info), NEW index,
         NEW a, DOMAIN a \subseteq {"hidden", "expireAfterSeconds"},
         \A f \in DOMAIN a : a[f] = NormalizeDeclaredIndex(index)[f],
         NEW b, DOMAIN b \subseteq {"hidden", "expireAfterSeconds"},
         Meets(Over(b, info), index)
  PROVE  Meets(Over(b, Over(a, info)), index)
<1> DEFINE x == Over(a, info)
           y == Over(b, x)
           z == Over(b, info)
           declared == NormalizeDeclaredIndex(index)
<1>1. /\ HasOptions(x) /\ x.name = info.name /\ x.key = info.key
      /\ \A f \in ComparedFields : x[f] = IF f \in DOMAIN a THEN a[f] ELSE info[f]
  BY OverFields
<1>2. /\ HasOptions(z) /\ z.name = info.name /\ z.key = info.key
      /\ \A f \in ComparedFields : z[f] = IF f \in DOMAIN b THEN b[f] ELSE info[f]
  BY OverFields
<1> HIDE DEF x, z
<1>3. /\ HasOptions(y) /\ y.name = x.name /\ y.key = x.key
      /\ \A f \in ComparedFields : y[f] = IF f \in DOMAIN b THEN b[f] ELSE x[f]
  BY <1>1, OverFields
<1> HIDE DEF y
<1>4. Meets(z, index)
  BY DEF z
<1>5. z.name = NameOf(index) /\ IsSameKey(declared, NormalizeExistingIndex(z)) /\ \A f \in ComparedFields : declared[f] = z[f]
  BY <1>2, <1>4, MeetsIs
<1>6. \A f \in ComparedFields : declared[f] = y[f]
  <2> SUFFICES ASSUME NEW f \in ComparedFields PROVE declared[f] = y[f]
    OBVIOUS
  <2>1. declared[f] = z[f] /\ \A g \in DOMAIN a : a[g] = declared[g]
    BY <1>5
  <2> HIDE DEF declared
  <2>2. z[f] = IF f \in DOMAIN b THEN b[f] ELSE info[f]
    BY <1>2
  <2>3. y[f] = IF f \in DOMAIN b THEN b[f] ELSE x[f]
    BY <1>3
  <2>4. x[f] = IF f \in DOMAIN a THEN a[f] ELSE info[f]
    BY <1>1
  <2>5. CASE f \in DOMAIN b
    BY <2>1, <2>2, <2>3, <2>5
  <2>6. CASE f \notin DOMAIN b /\ f \in DOMAIN a
    BY <2>1, <2>3, <2>4, <2>6
  <2>7. CASE f \notin DOMAIN b /\ f \notin DOMAIN a
    BY <2>1, <2>2, <2>3, <2>4, <2>7
  <2> QED
    BY <2>5, <2>6, <2>7
<1>7. IsSameKey(declared, NormalizeExistingIndex(y))
  <2>1. y.key = z.key
    BY <1>1, <1>2, <1>3
  <2> HIDE DEF declared
  <2> QED
    BY <1>2, <1>3, <1>5, <2>1, SameKeyCompared
<1>8. y.name = NameOf(index)
  BY <1>1, <1>2, <1>3, <1>5
<1>9. Meets(y, index)
  BY <1>3, <1>6, <1>7, <1>8, MeetsIs
<1> QED
  BY <1>9 DEF y, x

LEMMA MendsKept ==
  ASSUME NEW indexes, IsDeclaration(indexes), NEW j \in DOMAIN indexes,
         NEW before, NEW after, \A x \in before \cup after : HasOptions(x), Respects(before, after, indexes),
         NEW mods, \A i \in DOMAIN mods : Changes(mods[i], indexes), Mends(mods, before, indexes[j])
  PROVE  Mends(mods, after, indexes[j])
<1> DEFINE index == indexes[j]
<1>1. PICK i \in DOMAIN mods :
        /\ mods[i].name = NameOf(index)
        /\ \A x \in before : x.name = NameOf(index) => Meets(Over(mods[i].changes, x), index)
  BY DEF Mends
<1> DEFINE changes == mods[i].changes
<1>2. /\ DOMAIN changes \subseteq {"hidden", "expireAfterSeconds"}
      /\ \A f \in DOMAIN changes : changes[f] = NormalizeDeclaredIndex(index)[f]
  <2>1. Changes(mods[i], indexes) /\ mods[i].name = NameOf(indexes[j])
    BY <1>1
  <2>2. Sets(mods[i], indexes) /\ IsChange(mods[i])
    BY <2>1 DEF Changes
  <2>3. \A f \in DOMAIN changes : changes[f] = NormalizeDeclaredIndex(index)[f]
    <3> DEFINE mod == mods[i]
    <3>1. Sets(mod, indexes) /\ mod.name = NameOf(indexes[j])
      BY <2>1, <2>2
    <3> HIDE DEF mod
    <3>2. \A f \in DOMAIN mod.changes : mod.changes[f] = NormalizeDeclaredIndex(indexes[j])[f]
      BY <3>1, SetsDeclared
    <3> QED
      BY <3>2 DEF mod
  <2> QED
    BY <2>2, <2>3 DEF IsChange
<1> HIDE DEF changes
<1>3. \A x \in before : x.name = NameOf(index) => Meets(Over(changes, x), index)
  BY <1>1 DEF changes
<1>4. ASSUME NEW x \in after, x.name = NameOf(index) PROVE Meets(Over(changes, x), index)
  <2>1. CASE x \in before
    BY <1>3, <1>4, <2>1
  <2>2. CASE \E k \in DOMAIN indexes : Meets(x, indexes[k])
    <3>1. PICK k \in DOMAIN indexes : Meets(x, indexes[k])
      BY <2>2
    <3>2. NameOf(indexes[k]) = NameOf(indexes[j])
      BY <1>4, <3>1 DEF Meets
    <3>3. k = j
      BY <3>2 DEF IsDeclaration, ValidDeclaration
    <3>4. Meets(x, index)
      BY <3>1, <3>3
    <3>5. HasOptions(x)
      OBVIOUS
    <3> HIDE DEF index
    <3> QED
      BY <1>2, <3>4, <3>5, ChangedMeets
  <2>3. CASE \E y \in before : \E mod : Changes(mod, indexes) /\ mod.name = y.name /\ x = Over(mod.changes, y)
    <3>0. PICK y \in before : \E mod : Changes(mod, indexes) /\ mod.name = y.name /\ x = Over(mod.changes, y)
      BY <2>3
    <3>1. PICK mod : Changes(mod, indexes) /\ mod.name = y.name /\ x = Over(mod.changes, y)
      BY <3>0
    <3> DEFINE a == mod.changes
    <3>2. DOMAIN a \subseteq {"hidden", "expireAfterSeconds"}
      BY <3>1 DEF Changes, IsChange
    <3>3. HasOptions(y)
      OBVIOUS
    <3>4. x.name = y.name
      <4> HIDE DEF a
      <4>1. Over(a, y).name = y.name
        BY <3>2, <3>3, OverFields
      <4> QED
        BY <3>1, <4>1 DEF a
    <3>5. \A f \in DOMAIN a : a[f] = NormalizeDeclaredIndex(index)[f]
      BY <1>4, <3>1, <3>4, SetsDeclared DEF Changes
    <3>6. Meets(Over(changes, y), index)
      BY <1>3, <1>4, <3>4
    <3>7. x = Over(a, y)
      BY <3>1
    <3> HIDE DEF a, index
    <3>8. Meets(Over(changes, Over(a, y)), index)
      BY <1>2, <3>2, <3>3, <3>5, <3>6, ChangedTwice
    <3> QED
      BY <3>7, <3>8
  <2> QED
    BY <2>1, <2>2, <2>3 DEF Respects
<1>5. mods[i].name = NameOf(index)
  BY <1>1
<1> QED
  BY <1>4, <1>5 DEF Mends, changes

LEMMA KeyedKept ==
  ASSUME NEW indexes, IsDeclaration(indexes),
         NEW before, NEW after, \A x \in before \cup after : HasOptions(x), Respects(before, after, indexes),
         NEW names, \A x \in before : Keyed(x, indexes) \/ x.name \in names
  PROVE  \A x \in after : Keyed(x, indexes) \/ x.name \in names
<1> SUFFICES ASSUME NEW x \in after PROVE Keyed(x, indexes) \/ x.name \in names
  OBVIOUS
<1>1. CASE x \in before
  BY <1>1
<1>2. CASE \E k \in DOMAIN indexes : Meets(x, indexes[k])
  BY <1>2, MeetsKeyed
<1>3. CASE \E y \in before : \E mod : Changes(mod, indexes) /\ mod.name = y.name /\ x = Over(mod.changes, y)
  <2>0. PICK y \in before : \E mod : Changes(mod, indexes) /\ mod.name = y.name /\ x = Over(mod.changes, y)
    BY <1>3
  <2>1. PICK mod : Changes(mod, indexes) /\ mod.name = y.name /\ x = Over(mod.changes, y)
    BY <2>0
  <2> DEFINE a == mod.changes
  <2>2. DOMAIN a \subseteq {"hidden", "expireAfterSeconds"} /\ x = Over(a, y)
    BY <2>1 DEF Changes, IsChange
  <2>3. HasOptions(y)
    OBVIOUS
  <2> HIDE DEF a
  <2>4. Over(a, y).name = y.name
    BY <2>2, <2>3, OverFields
  <2>5. Keyed(y, indexes) => Keyed(Over(a, y), indexes)
    BY <2>2, <2>3, ChangedKeyed
  <2> QED
    BY <2>2, <2>4, <2>5
<1> QED
  BY <1>1, <1>2, <1>3 DEF Respects

\* what a sync under way knows, or has promised, of the indexes there are
LEMMA OutlineKept ==
  ASSUME NEW indexes, IsDeclaration(indexes),
         NEW before, NEW after, \A x \in before \cup after : HasOptions(x), Respects(before, after, indexes),
         NEW phase, NEW plan, NEW pending, Outline(phase, plan, pending, before, indexes)
  PROVE  Outline(phase, plan, pending, after, indexes)
<1> DEFINE names == {n \in {x.name : x \in before \cup after} : Has(pending, n)}
<1>1. phase = "dropping" => \A x \in after : Keyed(x, indexes) \/ Has(pending, x.name)
  <2> SUFFICES ASSUME phase = "dropping" PROVE \A x \in after : Keyed(x, indexes) \/ Has(pending, x.name)
    OBVIOUS
  <2>1. \A x \in before : Keyed(x, indexes) \/ Has(pending, x.name)
    BY DEF Outline
  <2>2. \A x \in before : Keyed(x, indexes) \/ x.name \in names
    BY <2>1
  <2>3. \A n \in names : Has(pending, n)
    OBVIOUS
  <2> HIDE DEF names
  <2>4. \A x \in after : Keyed(x, indexes) \/ x.name \in names
    BY <2>2, KeyedKept
  <2> QED
    BY <2>3, <2>4
<1>2. (\A x \in before : Keyed(x, indexes)) => \A x \in after : Keyed(x, indexes)
  <2> SUFFICES ASSUME \A x \in before : Keyed(x, indexes) PROVE \A x \in after : Keyed(x, indexes)
    OBVIOUS
  <2> DEFINE none == {}
  <2>1. \A x \in before : Keyed(x, indexes) \/ x.name \in none
    OBVIOUS
  <2>2. \A n : n \notin none
    OBVIOUS
  <2> HIDE DEF none
  <2>3. \A x \in after : Keyed(x, indexes) \/ x.name \in none
    BY <2>1, KeyedKept
  <2> QED
    BY <2>2, <2>3
<1> QED
  BY <1>1, <1>2 DEF Outline

LEMMA OwesKept ==
  ASSUME NEW indexes, IsDeclaration(indexes), NEW j \in DOMAIN indexes,
         NEW before, NEW after, \A x \in before \cup after : HasOptions(x), Respects(before, after, indexes),
         NEW phase, NEW plan, GoodPlan(plan), NEW pending, GoodPending(phase, pending),
         Outline(phase, plan, pending, before, indexes), Owes(phase, plan, pending, before, indexes[j])
  PROVE  Owes(phase, plan, pending, after, indexes[j])
<1>1. phase = "dropping" /\ Mends(plan.toCollMod, before, indexes[j]) => Mends(plan.toCollMod, after, indexes[j])
  <2> SUFFICES ASSUME phase = "dropping", Mends(plan.toCollMod, before, indexes[j])
               PROVE  Mends(plan.toCollMod, after, indexes[j])
    OBVIOUS
  <2> DEFINE mods == plan.toCollMod
  <2>1. \A i \in DOMAIN mods : Changes(mods[i], indexes)
    BY DEF Outline, Outlined, AreSet, GoodPlan, Changes
  <2>2. Mends(mods, before, indexes[j])
    OBVIOUS
  <2> HIDE DEF mods
  <2>3. Mends(mods, after, indexes[j])
    BY <2>1, <2>2, MendsKept
  <2> QED
    BY <2>3 DEF mods
<1>2. phase = "modifying" /\ Mends(pending, before, indexes[j]) => Mends(pending, after, indexes[j])
  <2> SUFFICES ASSUME phase = "modifying", Mends(pending, before, indexes[j])
               PROVE  Mends(pending, after, indexes[j])
    OBVIOUS
  <2>1. \A i \in DOMAIN pending : Changes(pending[i], indexes)
    BY DEF Outline, AreSet, GoodPending, Changes
  <2> QED
    BY <2>1, MendsKept
<1> QED
  BY <1>1, <1>2 DEF Owes, Plans

LEMMA DescribedHas ==
  ASSUME NEW indexes, IsDeclaration(indexes), NEW positions \in SUBSET (DOMAIN indexes)
  PROVE  \A j \in positions : Has(Described(At(indexes, positions)), BuildDescription(indexes[j]))
<1> DEFINE t == At(indexes, positions)
<1>1. IsList(indexes)
  BY DeclaredList
<1>2. /\ \A n \in DOMAIN t : Nth(positions, n) \in positions /\ t[n] = indexes[Nth(positions, n)]
      /\ \A i \in positions : \E n \in DOMAIN t : Nth(positions, n) = i
  BY <1>1, AtPositions
<1> HIDE DEF t
<1>3. \A j \in positions : Has(Described(t), BuildDescription(indexes[j]))
  BY <1>2 DEF Described, Has
<1> QED
  BY <1>3 DEF t

LEMMA AtNone ==
  ASSUME NEW s
  PROVE  At(s, {}) = <<>>
<1>1. Cardinality({}) = 0
  BY FS_EmptySet
<1> QED
  BY <1>1 DEF At

\* the index that the changes of a plan are for is as declared once they are made
LEMMA ModMeets ==
  ASSUME NEW info, HasOptions(info), NEW index, info.name = NameOf(index),
         IsSameKey(NormalizeDeclaredIndex(index), NormalizeExistingIndex(info)),
         NEW changes, changes = BuildCollModChanges(NormalizeDeclaredIndex(index), NormalizeExistingIndex(info)),
         DOMAIN changes \subseteq {"hidden", "expireAfterSeconds"}
  PROVE  Meets(Over(changes, info), index)
<1> DEFINE x == Over(changes, info)
           declared == NormalizeDeclaredIndex(index)
           existing == NormalizeExistingIndex(info)
<1>1. \A f \in ComparedFields : existing[f] = info[f]
  BY ExistingFields
<1>2. /\ HasOptions(x) /\ x.name = info.name /\ x.key = info.key
      /\ \A f \in ComparedFields : x[f] = IF f \in DOMAIN changes THEN changes[f] ELSE info[f]
  BY OverFields
<1> HIDE DEF x, declared, existing
<1>3. /\ DOMAIN changes = {f \in ComparedFields : declared[f] # existing[f]}
      /\ \A f \in DOMAIN changes : changes[f] = declared[f]
  BY DEF BuildCollModChanges, DiffOptions, declared, existing
<1>4. \A f \in ComparedFields : declared[f] = x[f]
  BY <1>1, <1>2, <1>3
<1>5. IsSameKey(declared, NormalizeExistingIndex(x))
  BY <1>2, SameKeyCompared DEF declared
<1>6. Meets(x, index)
  BY <1>2, <1>4, <1>5, MeetsIs DEF declared
<1> QED
  BY <1>6 DEF x

\* A plan misses no declared index, and has to drop those on another key.
LEMMA PlanServes ==
  ASSUME NEW indexes, IsDeclaration(indexes), NEW infos, IsList(infos), KnownByName(ToSet(infos)), NEW dropping
  PROVE  LET plan == DiffIndexes(indexes, infos, dropping)
             seen == ToSet(infos)
         IN  /\ Outlined(plan, indexes)
             /\ \A j \in DOMAIN indexes : Met(seen, indexes[j]) \/ Plans(plan, seen, indexes[j])
             /\ \A i \in DOMAIN plan.toDrop : \A j \in DOMAIN indexes : plan.toDrop[i] # NameOf(indexes[j])
             /\ \A x \in seen : Keyed(x, indexes) \/ \E i \in DOMAIN plan.toRecreate : plan.toRecreate[i].name = x.name
             /\ ~dropping /\ (\A j \in DOMAIN indexes : Met(seen, indexes[j])) => plan = NoPlan
<1> DEFINE plan == DiffIndexes(indexes, infos, dropping)
           seen == ToSet(infos)
           existing == {NormalizeExistingIndex(i) : i \in seen}
           Declared(x) == NormalizeDeclaredIndex(x)
           Existing(x) == CHOOSE e \in existing : e.name = NameOf(x)
           IsMissing(x) == \A e \in existing : e.name # NameOf(x)
           IsSame(x) == ~IsMissing(x) /\ IsSameKey(Declared(x), Existing(x))
           IsKept(x) == IsSame(x) /\ DiffOptions(Declared(x), Existing(x)) = {}
           IsMod(x) == IsSame(x) /\ IsCollModApplicable(Declared(x), Existing(x))
           IsRemade(x) == ~IsMissing(x) /\ ~IsKept(x) /\ ~IsMod(x)
           create == {i \in DOMAIN indexes : IsMissing(indexes[i])}
           recreate == {i \in DOMAIN indexes : IsRemade(indexes[i])}
           modify == {i \in DOMAIN indexes : IsMod(indexes[i])}
           modified == At(indexes, modify)
           mods == [i \in DOMAIN modified |->
                      [name    |-> NameOf(modified[i]),
                       changes |-> BuildCollModChanges(Declared(modified[i]), Existing(modified[i]))]]
           undeclared == Undeclared(indexes, infos)
           drops == IF dropping THEN [i \in DOMAIN undeclared |-> undeclared[i].name] ELSE <<>>
           c == Described(At(indexes, create))
           r == Described(At(indexes, recreate))
<1>1. plan = [toCreate |-> c, toRecreate |-> r, toCollMod |-> mods, toDrop |-> drops]
  BY DEF DiffIndexes, Described
<1>2. create \in SUBSET (DOMAIN indexes) /\ recreate \in SUBSET (DOMAIN indexes) /\ modify \in SUBSET (DOMAIN indexes)
  OBVIOUS
<1>3. /\ IsList(indexes) /\ DistinctNames(indexes)
      /\ \A j \in DOMAIN indexes : HasOptions(indexes[j]) /\ NameOf(indexes[j]) # idIndexName
  BY DeclaredList DEF IsDeclaration, ValidDeclaration
<1>4. \A i \in seen : HasOptions(i) /\ NormalizeExistingIndex(i) \in existing /\ NormalizeExistingIndex(i).name = i.name
  BY NormalizedName DEF KnownByName
\* which index is there, by name
<1>5. ASSUME NEW j \in DOMAIN indexes, NEW i \in seen, i.name = NameOf(indexes[j])
      PROVE  /\ ~IsMissing(indexes[j]) /\ Existing(indexes[j]) = NormalizeExistingIndex(i)
             /\ \A k \in seen : k.name = NameOf(indexes[j]) => k = i
  <2> DEFINE x == indexes[j]
             e == NormalizeExistingIndex(i)
  <2>1. \A k \in seen : k.name = NameOf(x) => k = i
    BY <1>3, <1>5 DEF KnownByName
  <2>2. ASSUME NEW f \in existing, f.name = NameOf(x) PROVE f = e
    <3>1. PICK k \in seen : f = NormalizeExistingIndex(k)
      OBVIOUS
    <3>2. k.name = i.name
      BY <1>4, <1>5, <2>2, <3>1
    <3>3. k = i
      BY <1>5, <2>1, <3>2
    <3> QED
      BY <3>1, <3>3
  <2>3. e \in existing /\ e.name = NameOf(x)
    BY <1>4, <1>5
  <2> HIDE DEF existing, x, e
  <2>4. Existing(x) = e /\ ~IsMissing(x)
    BY <2>2, <2>3
  <2> QED
    BY <2>1, <2>4 DEF x, e
<1>6. ASSUME NEW j \in DOMAIN indexes, \A i \in seen : i.name # NameOf(indexes[j]) PROVE IsMissing(indexes[j])
  BY <1>4, <1>6
<1>7. ASSUME NEW j \in DOMAIN indexes, NEW i \in seen, i.name = NameOf(indexes[j])
      PROVE  /\ j \in recreate \/ j \in modify \/ Meets(i, indexes[j])
             /\ ~IsSameKey(NormalizeDeclaredIndex(indexes[j]), NormalizeExistingIndex(i)) => j \in recreate
             /\ Meets(i, indexes[j]) => j \notin create \cup recreate \cup modify
             /\ j \in modify =>
                  /\ IsSameKey(NormalizeDeclaredIndex(indexes[j]), NormalizeExistingIndex(i))
                  /\ Existing(indexes[j]) = NormalizeExistingIndex(i)
                  /\ DiffOptions(NormalizeDeclaredIndex(indexes[j]), NormalizeExistingIndex(i))
                       \subseteq {"hidden", "expireAfterSeconds"}
  <2> DEFINE x == indexes[j]
             e == NormalizeExistingIndex(i)
  <2>1. ~IsMissing(x) /\ Existing(x) = e
    BY <1>5, <1>7
  <2> HIDE DEF existing, e
  <2>2. /\ IsSame(x) <=> IsSameKey(Declared(x), e)
        /\ IsKept(x) <=> IsSame(x) /\ DiffOptions(Declared(x), e) = {}
        /\ IsMod(x) <=> IsSame(x) /\ IsCollModApplicable(Declared(x), e)
        /\ IsRemade(x) <=> ~IsKept(x) /\ ~IsMod(x)
    BY <2>1
  <2>3. IsCollModApplicable(Declared(x), e) =>
          /\ DiffOptions(Declared(x), e) # {}
          /\ DiffOptions(Declared(x), e) \subseteq {"hidden", "expireAfterSeconds"}
    BY DEF IsCollModApplicable
  <2>4. Meets(i, x) <=> IsSameKey(Declared(x), e) /\ DiffOptions(Declared(x), e) = {}
    BY <1>7 DEF Meets, e
  <2>5. (j \in create <=> IsMissing(x)) /\ (j \in recreate <=> IsRemade(x)) /\ (j \in modify <=> IsMod(x))
    OBVIOUS
  <2> HIDE DEF IsSame, IsKept, IsMod, IsRemade, IsMissing, create, recreate, modify, Existing
  <2>6. /\ j \in recreate \/ j \in modify \/ Meets(i, x)
        /\ ~IsSameKey(Declared(x), e) => j \in recreate
        /\ Meets(i, x) => j \notin create /\ j \notin recreate /\ j \notin modify
        /\ j \in modify => /\ IsSameKey(Declared(x), e)
                           /\ DiffOptions(Declared(x), e) \subseteq {"hidden", "expireAfterSeconds"}
    BY <2>1, <2>2, <2>3, <2>4, <2>5
  <2> QED
    BY <2>1, <2>6 DEF e
<1>8. /\ IsList(modified)
      /\ \A n \in DOMAIN modified : Nth(modify, n) \in modify /\ modified[n] = indexes[Nth(modify, n)]
      /\ \A i \in modify : \E n \in DOMAIN modified : Nth(modify, n) = i
  <2> HIDE DEF modify
  <2> QED
    BY <1>2, <1>3, AtPositions
<1>9. /\ DOMAIN mods = DOMAIN modified
      /\ \A i \in DOMAIN modified :
            /\ mods[i].name = NameOf(modified[i])
            /\ mods[i].changes = BuildCollModChanges(Declared(modified[i]), Existing(modified[i]))
            /\ \A f \in DOMAIN mods[i].changes : mods[i].changes[f] = Declared(modified[i])[f]
  <2> HIDE DEF modified, Existing, Declared
  <2> QED
    BY DEF BuildCollModChanges
<1>10. \A i \in DOMAIN drops : \A j \in DOMAIN indexes : drops[i] # NameOf(indexes[j])
  <2> DEFINE Gone(i) == infos[i].name \notin {NameOf(indexes[j]) : j \in DOMAIN indexes} \cup {idIndexName}
             gone == {i \in DOMAIN infos : Gone(i)}
  <2>1. undeclared = At(infos, gone) /\ gone \in SUBSET (DOMAIN infos)
    BY DEF Undeclared
  <2>2. \A i \in gone : infos[i].name \notin {NameOf(indexes[j]) : j \in DOMAIN indexes}
    OBVIOUS
  <2> HIDE DEF gone, undeclared
  <2>3. \A n \in DOMAIN undeclared : undeclared[n].name \notin {NameOf(indexes[j]) : j \in DOMAIN indexes}
    BY <2>1, <2>2, AtPositions
  <2>4. CASE dropping
    BY <2>3, <2>4
  <2>5. CASE ~dropping
    BY <2>5, EmptyList
  <2> QED
    BY <2>4, <2>5
<1>11. drops = <<>> \/ dropping
  OBVIOUS
<1>12. create = {} /\ recreate = {} /\ modify = {} => c = <<>> /\ r = <<>> /\ mods = <<>>
  <2> HIDE DEF create, recreate, modify
  <2>1. Described(<<>>) = <<>>
    BY DEF Described
  <2>2. modify = {} => modified = <<>>
    BY AtNone
  <2>3. modified = <<>> => mods = <<>>
    <3> HIDE DEF modified
    <3> QED
      OBVIOUS
  <2> HIDE DEF modified, mods
  <2> QED
    BY <2>1, <2>2, <2>3, AtNone
<1>13. /\ \A j \in create : Has(c, BuildDescription(indexes[j]))
       /\ \A j \in recreate : Has(r, BuildDescription(indexes[j]))
       /\ \A i \in DOMAIN c : \E j \in create : c[i] = BuildDescription(indexes[j])
       /\ \A i \in DOMAIN r : \E j \in recreate : r[i] = BuildDescription(indexes[j])
  <2> HIDE DEF create, recreate
  <2> QED
    BY <1>2, DescribedHas, DescribedFrom
<1>14. \A j \in DOMAIN indexes : IsMissing(indexes[j]) => j \in create
  OBVIOUS
<1> HIDE DEF create, recreate, modify, c, r, mods, drops, seen, Existing, IsMissing, existing
<1>15. \A j \in modify : \E n \in DOMAIN mods :
          /\ mods[n].name = NameOf(indexes[j])
          /\ mods[n].changes = BuildCollModChanges(Declared(indexes[j]), Existing(indexes[j]))
  BY <1>8, <1>9
<1> HIDE DEF modified, plan
<1>16. plan.toCreate = c /\ plan.toRecreate = r /\ plan.toCollMod = mods /\ plan.toDrop = drops
  BY <1>1
<1>17. AreDeclared(c \o r, indexes)
  <2>1. IsList(c) /\ IsList(r)
    <3>1. GoodPlan(plan)
      BY DiffGood DEF plan
    <3> QED
      BY <1>16, <3>1 DEF GoodPlan
  <2> DEFINE u == c \o r
             at(i) == i - Len(c)
  <2>2. /\ \A i \in DOMAIN c : u[i] = c[i]
        /\ \A i \in DOMAIN u : i \in DOMAIN c \/ (at(i) \in DOMAIN r /\ u[i] = r[at(i)])
    BY <2>1, ListsJoin
  <2> HIDE DEF u, at
  <2>3. \A i \in DOMAIN u : \E j \in DOMAIN indexes : u[i] = BuildDescription(indexes[j])
    BY <1>2, <1>13, <2>2
  <2>4. AreDeclared(u, indexes)
    BY <2>3 DEF AreDeclared
  <2> QED
    BY <2>4 DEF u
<1>18. AreSet(mods, indexes)
  <2> SUFFICES ASSUME NEW i \in DOMAIN mods PROVE Sets(mods[i], indexes)
    BY DEF AreSet
  <2>1. PICK m \in modify : modified[i] = indexes[m]
    BY <1>8, <1>9
  <2>2. /\ m \in DOMAIN indexes /\ mods[i].name = NameOf(indexes[m])
        /\ \A f \in DOMAIN mods[i].changes : mods[i].changes[f] = NormalizeDeclaredIndex(indexes[m])[f]
    BY <1>2, <1>9, <2>1
  <2> QED
    BY <2>2 DEF Sets
<1>19. ASSUME NEW j \in modify, NEW i \in seen, i.name = NameOf(indexes[j])
       PROVE  Mends(mods, seen, indexes[j])
  <2>1. j \in DOMAIN indexes
    BY <1>2
  <2>2. /\ IsSameKey(NormalizeDeclaredIndex(indexes[j]), NormalizeExistingIndex(i))
        /\ Existing(indexes[j]) = NormalizeExistingIndex(i)
        /\ DiffOptions(NormalizeDeclaredIndex(indexes[j]), NormalizeExistingIndex(i))
             \subseteq {"hidden", "expireAfterSeconds"}
    BY <1>7, <1>19, <2>1
  <2>3. PICK n \in DOMAIN mods :
          /\ mods[n].name = NameOf(indexes[j])
          /\ mods[n].changes = BuildCollModChanges(Declared(indexes[j]), Existing(indexes[j]))
    BY <1>15
  <2> DEFINE changes == mods[n].changes
             index == indexes[j]
  <2>4. /\ changes = BuildCollModChanges(NormalizeDeclaredIndex(index), NormalizeExistingIndex(i))
        /\ DOMAIN changes \subseteq {"hidden", "expireAfterSeconds"}
    BY <2>2, <2>3 DEF BuildCollModChanges
  <2>5. HasOptions(i)
    BY <1>4
  <2>6. i.name = NameOf(index) /\ IsSameKey(NormalizeDeclaredIndex(index), NormalizeExistingIndex(i))
    BY <1>19, <2>2
  <2>7. \A k \in seen : k.name = NameOf(index) => k = i
    BY <1>5, <1>19, <2>1
  <2> HIDE DEF changes, index
  <2>8. Meets(Over(changes, i), index)
    BY <2>4, <2>5, <2>6, ModMeets
  <2>9. \A k \in seen : k.name = NameOf(index) => Meets(Over(changes, k), index)
    BY <2>7, <2>8
  <2> QED
    BY <2>3, <2>9 DEF Mends, changes, index
<1>20. ASSUME NEW j \in DOMAIN indexes PROVE Met(seen, indexes[j]) \/ Plans(plan, seen, indexes[j])
  <2>1. CASE \A i \in seen : i.name # NameOf(indexes[j])
    BY <1>6, <1>13, <1>14, <1>16, <2>1 DEF Plans
  <2>2. CASE \E i \in seen : i.name = NameOf(indexes[j])
    <3>1. PICK i \in seen : i.name = NameOf(indexes[j])
      BY <2>2
    <3>2. j \in recreate \/ j \in modify \/ Meets(i, indexes[j])
      BY <1>7, <3>1
    <3> QED
      BY <1>13, <1>16, <1>19, <3>1, <3>2 DEF Plans, Met
  <2> QED
    BY <2>1, <2>2
<1>21. ASSUME NEW x \in seen PROVE Keyed(x, indexes) \/ \E i \in DOMAIN r : r[i].name = x.name
  <2> SUFFICES ASSUME NEW j \in DOMAIN indexes, x.name = NameOf(indexes[j]),
                      ~IsSameKey(NormalizeDeclaredIndex(indexes[j]), NormalizeExistingIndex(x))
               PROVE  \E i \in DOMAIN r : r[i].name = x.name
    BY DEF Keyed
  <2>1. j \in recreate
    BY <1>7
  <2>2. PICK i \in DOMAIN r : r[i] = BuildDescription(indexes[j])
    BY <1>13, <2>1 DEF Has
  <2>3. r[i].name = NameOf(indexes[j])
    BY <1>3, <2>2, DescriptionName
  <2> QED
    BY <2>3
<1>22. ASSUME ~dropping, \A j \in DOMAIN indexes : Met(seen, indexes[j]) PROVE plan = NoPlan
  <2>1. ASSUME NEW j \in DOMAIN indexes PROVE j \notin create \cup recreate \cup modify
    <3>1. PICK i \in seen : Meets(i, indexes[j])
      BY <1>22 DEF Met
    <3>2. i.name = NameOf(indexes[j])
      BY <3>1 DEF Meets
    <3> QED
      BY <1>7, <3>1, <3>2
  <2>2. create = {} /\ recreate = {} /\ modify = {}
    BY <1>2, <2>1
  <2>3. c = <<>> /\ r = <<>> /\ mods = <<>> /\ drops = <<>>
    BY <1>11, <1>12, <1>22, <2>2
  <2> QED
    BY <1>1, <2>3 DEF NoPlan
<1>23. Outlined(plan, indexes)
  BY <1>16, <1>17, <1>18 DEF Outlined
<1> QED
  BY <1>10, <1>16, <1>20, <1>21, <1>22, <1>23 DEF plan, seen

\* a sync that is done with a store, or goes on with it
Carries(t, s, infos, indexes) ==
    /\ s.failed \subseteq t.failed
    /\ \/ t.phase = "listing" /\ t.at = s.at + 1
       \/ t.phase = "over" /\ s.at = Len(Stores)
       \/ t.phase \in Looping /\ t.at = s.at /\ Outline(t.phase, t.plan, t.pending, infos, indexes)

\* what it still owes
Keeps(t, s, infos, index) == t.at = s.at /\ Owes(t.phase, t.plan, t.pending, infos, index)

LEMMA NextCarries ==
  ASSUME NEW s, IsSync(s), NEW infos, NEW indexes
  PROVE  /\ Carries(NextStore(s), s, infos, indexes)
         /\ NextStore(s).failed = s.failed
<1>1. s = [phase |-> s.phase, at |-> s.at, plan |-> s.plan, pending |-> s.pending,
           conflict |-> s.conflict, failed |-> s.failed]
  BY DEF IsSync
<1>2. Len(Stores) \in Nat /\ s.at \in 0 .. Len(Stores)
  BY StoresListed DEF IsSync
<1> DEFINE t == NextStore(s)
<1>3. /\ t.failed = s.failed
      /\ s.at < Len(Stores) => t.phase = "listing" /\ t.at = s.at + 1
      /\ ~(s.at < Len(Stores)) => t.phase = "over"
  BY <1>1 DEF NextStore
<1> HIDE DEF t
<1>4. s.at < Len(Stores) \/ s.at = Len(Stores)
  BY <1>2
<1>5. Carries(t, s, infos, indexes)
  BY <1>2, <1>3, <1>4 DEF Carries
<1> QED
  BY <1>3, <1>5 DEF t

LEMMA FailedCarries ==
  ASSUME NEW s, IsSync(s), NEW code, NEW infos, NEW indexes
  PROVE  Carries(Failed(s, code), s, infos, indexes) /\ FailedOn(Failed(s, code), StoreOf(s).collection)
<1> DEFINE fault == <<StoreOf(s).collection, code>>
           t == [s EXCEPT !.failed = @ \cup {fault}]
<1>1. s = [phase |-> s.phase, at |-> s.at, plan |-> s.plan, pending |-> s.pending,
           conflict |-> s.conflict, failed |-> s.failed]
  BY DEF IsSync
<1>2. fault[1] = StoreOf(s).collection
  OBVIOUS
<1>3. Failed(s, code) = NextStore(t)
  BY DEF Failed
<1> HIDE DEF fault
<1>4. t = [phase |-> s.phase, at |-> s.at, plan |-> s.plan, pending |-> s.pending,
           conflict |-> s.conflict, failed |-> s.failed \cup {fault}]
  BY <1>1
<1>5. IsSync(t) /\ t.at = s.at /\ t.failed = s.failed \cup {fault}
  <2> HIDE DEF t
  <2> QED
    BY <1>4 DEF IsSync
<1> HIDE DEF t
<1> DEFINE u == NextStore(t)
<1>6. Carries(u, t, infos, indexes) /\ u.failed = t.failed
  BY <1>5, NextCarries
<1> HIDE DEF u
<1>7. Carries(u, s, infos, indexes) /\ fault \in u.failed
  BY <1>5, <1>6 DEF Carries
<1> QED
  BY <1>2, <1>3, <1>7 DEF FailedOn, u

LEMMA PhaseCarries ==
  ASSUME NEW s, IsSync(s), NEW infos, NEW indexes, NEW phase \in Looping, NEW pending, NEW conflict,
         Outline(phase, s.plan, pending, infos, indexes)
  PROVE  LET t == InPhase(s, phase, pending, conflict)
         IN  /\ Carries(t, s, infos, indexes) /\ t.failed = s.failed
             /\ \A index : Owes(phase, s.plan, pending, infos, index) => Keeps(t, s, infos, index)
<1> DEFINE t == InPhase(s, phase, pending, conflict)
<1>1. s = [phase |-> s.phase, at |-> s.at, plan |-> s.plan, pending |-> s.pending,
           conflict |-> s.conflict, failed |-> s.failed]
  BY DEF IsSync
<1>2. t.phase = phase /\ t.pending = pending /\ t.at = s.at /\ t.plan = s.plan /\ t.failed = s.failed
  BY <1>1 DEF InPhase
<1> HIDE DEF t
<1>3. Carries(t, s, infos, indexes) /\ \A index : Owes(phase, s.plan, pending, infos, index) => Keeps(t, s, infos, index)
  BY <1>2 DEF Carries, Keeps
<1> QED
  BY <1>2, <1>3 DEF t

LEMMA HasJoined ==
  ASSUME NEW a, IsList(a), NEW b, IsList(b), NEW x
  PROVE  Has(a \o b, x) <=> Has(a, x) \/ Has(b, x)
<1> DEFINE u == a \o b
           at(i) == i - Len(a)
<1>1. /\ DOMAIN u = 1 .. Len(a) + Len(b)
      /\ \A i \in DOMAIN a : u[i] = a[i]
      /\ \A i \in DOMAIN u : i \in DOMAIN a \/ (at(i) \in DOMAIN b /\ u[i] = b[at(i)])
  BY ListsJoin
<1>2. /\ Len(a) \in Nat /\ DOMAIN a = 1 .. Len(a)
      /\ Len(b) \in Nat /\ DOMAIN b = 1 .. Len(b)
  BY ListHas
<1>3. ASSUME Has(u, x) PROVE Has(a, x) \/ Has(b, x)
  <2> HIDE DEF u, at
  <2> QED
    BY <1>1, <1>3 DEF Has
<1>4. ASSUME Has(a, x) PROVE Has(u, x)
  <2>1. DOMAIN a \subseteq DOMAIN u
    BY <1>1, <1>2
  <2> HIDE DEF u, at
  <2> QED
    BY <1>1, <1>4, <2>1 DEF Has
<1>5. ASSUME Has(b, x) PROVE Has(u, x)
  <2>1. PICK k \in DOMAIN b : b[k] = x
    BY <1>5 DEF Has
  <2> DEFINE i == Len(a) + k
  <2>2. i \in DOMAIN u /\ i \notin DOMAIN a /\ at(i) = k
    BY <1>1, <1>2
  <2> HIDE DEF u, at, i
  <2>3. u[i] = x
    BY <1>1, <2>1, <2>2
  <2> QED
    BY <2>2, <2>3 DEF Has
<1> QED
  BY <1>3, <1>4, <1>5 DEF u

LEMMA CreatingCarries ==
  ASSUME NEW s, IsSync(s), GoodPlan(s.plan), NEW indexes, NEW infos,
         Outlined(s.plan, indexes), \A x \in infos : Keyed(x, indexes)
  PROVE  /\ Carries(BeginCreating(s), s, infos, indexes) /\ BeginCreating(s).failed = s.failed
         /\ \A index : Has(s.plan.toCreate \o s.plan.toRecreate, BuildDescription(index))
              => Keeps(BeginCreating(s), s, infos, index)
<1> DEFINE u == s.plan.toCreate \o s.plan.toRecreate
<1>1. CASE u = <<>>
  <2>1. BeginCreating(s) = NextStore(s)
    BY <1>1 DEF BeginCreating
  <2>2. \A x : ~Has(u, x)
    BY <1>1, EmptyList DEF Has
  <2> QED
    BY <2>1, <2>2, NextCarries
<1>2. CASE u # <<>>
  <2>1. BeginCreating(s) = InPhase(s, "creating", u, s.conflict)
    BY <1>2, SamePhase DEF BeginCreating
  <2>2. AreDeclared(u, indexes)
    BY DEF Outlined
  <2> HIDE DEF u
  <2>3. Outline("creating", s.plan, u, infos, indexes)
    BY <2>2 DEF Outline
  <2>4. "creating" \in Looping
    BY DEF Looping
  <2> DEFINE t == InPhase(s, "creating", u, s.conflict)
  <2>5. /\ Carries(t, s, infos, indexes) /\ t.failed = s.failed
        /\ \A index : Owes("creating", s.plan, u, infos, index) => Keeps(t, s, infos, index)
    BY <2>3, <2>4, PhaseCarries
  <2>6. \A index : Has(u, BuildDescription(index)) => Owes("creating", s.plan, u, infos, index)
    BY DEF Owes
  <2> HIDE DEF t
  <2>7. BeginCreating(s) = t
    BY <2>1 DEF t
  <2> QED
    BY <2>5, <2>6, <2>7 DEF u
<1> QED
  BY <1>1, <1>2

LEMMA ModifyingCarries ==
  ASSUME NEW s, IsSync(s), GoodPlan(s.plan), NEW indexes, NEW infos,
         Outlined(s.plan, indexes), \A x \in infos : Keyed(x, indexes)
  PROVE  /\ Carries(BeginModifying(s), s, infos, indexes) /\ BeginModifying(s).failed = s.failed
         /\ \A index : Plans(s.plan, infos, index) => Keeps(BeginModifying(s), s, infos, index)
<1>1. \A index : Plans(s.plan, infos, index) =>
         \/ Has(s.plan.toCreate \o s.plan.toRecreate, BuildDescription(index))
         \/ Mends(s.plan.toCollMod, infos, index)
  BY HasJoined DEF Plans, GoodPlan
<1>2. CASE s.plan.toCollMod = <<>>
  <2>1. \A index : ~Mends(s.plan.toCollMod, infos, index)
    BY <1>2, EmptyList DEF Mends
  <2>2. BeginModifying(s) = BeginCreating(s)
    BY <1>2 DEF BeginModifying
  <2> QED
    BY <1>1, <2>1, <2>2, CreatingCarries
<1>3. CASE s.plan.toCollMod # <<>>
  <2> DEFINE mods == s.plan.toCollMod
             t == InPhase(s, "modifying", mods, s.conflict)
  <2>1. BeginModifying(s) = t
    BY <1>3, SamePhase DEF BeginModifying
  <2>2. AreSet(mods, indexes)
    BY DEF Outlined
  <2>3. \A index : Plans(s.plan, infos, index) => Owes("modifying", s.plan, mods, infos, index)
    BY <1>1 DEF Owes
  <2> HIDE DEF mods, t
  <2>4. Outline("modifying", s.plan, mods, infos, indexes)
    BY <2>2 DEF Outline
  <2>5. "modifying" \in Looping
    BY DEF Looping
  <2>6. /\ Carries(t, s, infos, indexes) /\ t.failed = s.failed
        /\ \A index : Owes("modifying", s.plan, mods, infos, index) => Keeps(t, s, infos, index)
    BY <2>4, <2>5, PhaseCarries DEF t
  <2> QED
    BY <2>1, <2>3, <2>6
<1> QED
  BY <1>2, <1>3

LEMMA RemadeRemakes ==
  ASSUME NEW indexes, IsDeclaration(indexes), NEW descriptions, AreDeclared(descriptions, indexes),
         NEW i \in DOMAIN descriptions
  PROVE  Remakes(descriptions[i].name, descriptions, indexes)
<1>1. PICK j \in DOMAIN indexes : descriptions[i] = BuildDescription(indexes[j])
  BY DEF AreDeclared
<1>2. descriptions[i].name = NameOf(indexes[j])
  BY <1>1, DeclaredList, DescriptionName
<1>3. \A k \in DOMAIN indexes : NameOf(indexes[k]) = NameOf(indexes[j]) => k = j
  BY DEF IsDeclaration, ValidDeclaration
<1>4. Has(descriptions, BuildDescription(indexes[j]))
  BY <1>1 DEF Has
<1> QED
  BY <1>2, <1>3, <1>4 DEF Remakes

LEMMA DroppingCarries ==
  ASSUME NEW s, IsSync(s), GoodPlan(s.plan), NEW indexes, IsDeclaration(indexes), NEW infos,
         Outlined(s.plan, indexes),
         \A i \in DOMAIN s.plan.toDrop : \A j \in DOMAIN indexes : s.plan.toDrop[i] # NameOf(indexes[j]),
         \A x \in infos : Keyed(x, indexes) \/ \E i \in DOMAIN s.plan.toRecreate : s.plan.toRecreate[i].name = x.name
  PROVE  /\ Carries(BeginDropping(s), s, infos, indexes) /\ BeginDropping(s).failed = s.failed
         /\ \A index : Plans(s.plan, infos, index) => Keeps(BeginDropping(s), s, infos, index)
<1> DEFINE remake == s.plan.toRecreate
           remade == [i \in DOMAIN remake |-> remake[i].name]
           drops == s.plan.toDrop
           names == drops \o remade
<1>1. IsList(drops) /\ IsList(remake) /\ IsList(s.plan.toCreate)
  BY DEF GoodPlan
<1>2. IsList(remade) /\ DOMAIN remade = DOMAIN remake /\ \A i \in DOMAIN remake : remade[i] = remake[i].name
  <2> HIDE DEF remake
  <2>1. Len(remake) \in Nat /\ DOMAIN remake = 1 .. Len(remake)
    BY <1>1, ListHas
  <2> DEFINE n == Len(remake)
  <2>2. remade = [i \in 1 .. n |-> remake[i].name]
    BY <2>1
  <2>3. n \in Nat
    BY <2>1
  <2> HIDE DEF n, remade
  <2>4. remade = [i \in 1 .. n |-> remade[i]] /\ DOMAIN remade = 1 .. n /\ \A i \in 1 .. n : remade[i] = remake[i].name
    BY <2>2
  <2>5. IsList(remade)
    BY <2>3, <2>4, ListOf
  <2> QED
    BY <2>1, <2>4, <2>5 DEF n
<1>3. AreDeclared(remake, indexes)
  <2>1. AreDeclared(s.plan.toCreate \o remake, indexes)
    BY DEF Outlined
  <2> SUFFICES ASSUME NEW i \in DOMAIN remake
               PROVE  \E j \in DOMAIN indexes : remake[i] = BuildDescription(indexes[j])
    BY DEF AreDeclared
  <2>2. Has(remake, remake[i])
    BY DEF Has
  <2>3. Has(s.plan.toCreate \o remake, remake[i])
    <3> HIDE DEF remake
    <3> QED
      BY <1>1, <2>2, HasJoined
  <2> QED
    BY <2>1, <2>3 DEF Has, AreDeclared
<1>4. BeginDropping(s) = IF names = <<>> THEN BeginModifying(s) ELSE [s EXCEPT !.phase = "dropping", !.pending = names]
  BY DEF BeginDropping
<1>5. \A i \in DOMAIN drops : \A j \in DOMAIN indexes : drops[i] # NameOf(indexes[j])
  OBVIOUS
<1>6. \A x \in infos : Keyed(x, indexes) \/ \E i \in DOMAIN remake : remake[i].name = x.name
  OBVIOUS
<1> HIDE DEF remade, drops, remake
<1>7. \A x : Has(names, x) <=> Has(drops, x) \/ Has(remade, x)
  BY <1>1, <1>2, HasJoined
<1> HIDE DEF names
<1>8. \A x \in infos : Keyed(x, indexes) \/ Has(names, x.name)
  BY <1>2, <1>6, <1>7 DEF Has
<1>9. ASSUME NEW i \in DOMAIN names PROVE Remakes(names[i], remake, indexes)
  <2>1. Has(drops, names[i]) \/ Has(remade, names[i])
    BY <1>7 DEF Has
  <2>2. CASE Has(drops, names[i])
    BY <1>5, <2>2 DEF Remakes, Has
  <2>3. CASE Has(remade, names[i])
    <3>1. PICK k \in DOMAIN remake : remake[k].name = names[i]
      BY <1>2, <2>3 DEF Has
    <3>2. Remakes(remake[k].name, remake, indexes)
      BY <1>3, RemadeRemakes
    <3> QED
      BY <3>1, <3>2
  <2> QED
    BY <2>1, <2>2, <2>3
<1>10. CASE names = <<>>
  <2>1. \A x \in infos : Keyed(x, indexes)
    BY <1>8, <1>10, EmptyList DEF Has
  <2> QED
    BY <1>4, <1>10, <2>1, ModifyingCarries
<1>11. CASE names # <<>>
  <2> DEFINE t == InPhase(s, "dropping", names, s.conflict)
  <2>1. BeginDropping(s) = t
    BY <1>4, <1>11, SamePhase
  <2>2. \A index : Plans(s.plan, infos, index) => Owes("dropping", s.plan, names, infos, index)
    BY DEF Owes
  <2> HIDE DEF t
  <2>3. \A i \in DOMAIN names : Remakes(names[i], s.plan.toRecreate, indexes)
    BY <1>9 DEF remake
  <2>4. Outline("dropping", s.plan, names, infos, indexes)
    BY <1>8, <2>3 DEF Outline
  <2>5. "dropping" \in Looping
    BY DEF Looping
  <2>6. /\ Carries(t, s, infos, indexes) /\ t.failed = s.failed
        /\ \A index : Owes("dropping", s.plan, names, infos, index) => Keeps(t, s, infos, index)
    BY <2>4, <2>5, PhaseCarries DEF t
  <2> QED
    BY <2>1, <2>2, <2>6
<1> QED
  BY <1>10, <1>11

LEMMA HeadOrTail ==
  ASSUME NEW s, IsList(s), s # <<>>
  PROVE  /\ \A x : Has(s, x) => s[1] = x \/ Has(Tail(s), x)
         /\ Len(s) = 1 => \A x : ~Has(Tail(s), x)
         /\ \A i \in DOMAIN Tail(s) : Has(s, Tail(s)[i])
<1> DEFINE t == Tail(s)
<1>1. /\ IsList(t) /\ 1 \in DOMAIN s
      /\ \A i \in DOMAIN t : i + 1 \in DOMAIN s \ {1} /\ t[i] = s[i + 1]
      /\ Len(t) = Len(s) - 1
  BY RestOfList
<1>2. Len(s) \in Nat /\ DOMAIN s = 1 .. Len(s) /\ Len(t) \in Nat /\ DOMAIN t = 1 .. Len(t)
  BY <1>1, ListHas
<1> HIDE DEF t
<1>3. ASSUME NEW x, Has(s, x), s[1] # x PROVE Has(t, x)
  <2>1. PICK i \in DOMAIN s : s[i] = x
    BY <1>3 DEF Has
  <2> DEFINE k == i - 1
  <2>2. i # 1
    BY <1>3, <2>1
  <2>3. k \in DOMAIN t /\ k + 1 = i
    BY <1>1, <1>2, <2>2
  <2> HIDE DEF k
  <2>4. t[k] = s[k + 1]
    BY <1>1, <2>3
  <2> QED
    BY <2>1, <2>3, <2>4 DEF Has
<1>4. ASSUME Len(s) = 1 PROVE \A x : ~Has(t, x)
  <2>1. DOMAIN t = {}
    BY <1>1, <1>2, <1>4
  <2> QED
    BY <2>1 DEF Has
<1>5. ASSUME NEW i \in DOMAIN t PROVE Has(s, t[i])
  <2> DEFINE k == i + 1
  <2>1. k \in DOMAIN s /\ t[i] = s[k]
    BY <1>1
  <2> HIDE DEF k
  <2> QED
    BY <2>1 DEF Has
<1> QED
  BY <1>3, <1>4, <1>5 DEF t

\* What holds of every element of a list holds of every element of its tail.
LEMMA TailDeclared ==
  ASSUME NEW s, IsList(s), s # <<>>, NEW indexes
  PROVE  /\ AreDeclared(s, indexes) => AreDeclared(Tail(s), indexes)
         /\ AreSet(s, indexes) => AreSet(Tail(s), indexes) /\ Sets(s[1], indexes)
<1> DEFINE t == Tail(s)
<1>1. 1 \in DOMAIN s /\ \A i \in DOMAIN t : Has(s, t[i])
  BY HeadOrTail, RestOfList
<1> HIDE DEF t
<1>2. AreDeclared(s, indexes) => AreDeclared(t, indexes)
  BY <1>1 DEF AreDeclared, Has
<1>3. AreSet(s, indexes) => AreSet(t, indexes) /\ Sets(s[1], indexes)
  BY <1>1 DEF AreSet, Has
<1> QED
  BY <1>2, <1>3 DEF t

LEMMA FewerRespects ==
  ASSUME NEW before, NEW after, after \subseteq before, NEW indexes
  PROVE  Respects(before, after, indexes)
BY DEF Respects

\* what is created is as declared
LEMMA CreatedServes ==
  ASSUME NEW c, GoodCollection(c), NEW indexes, IsDeclaration(indexes), {"_fts", "_ftsx"} \cap Fields = {},
         NEW descriptions, IsList(descriptions), AreDeclared(descriptions, indexes),
         CreateIndexesIn(c, descriptions).error = Succeeded
  PROVE  LET after == Infos(CreateIndexesIn(c, descriptions).collection)
         IN  /\ Infos(c) \subseteq after
             /\ Respects(Infos(c), after, indexes)
             /\ \A j \in DOMAIN indexes :
                   Has(descriptions, BuildDescription(indexes[j])) => Met(after, indexes[j])
<1> DEFINE after == Infos(CreateIndexesIn(c, descriptions).collection)
           made(i) == CreateIndexInfo(descriptions[i])
<1>1. /\ Infos(c) \subseteq after
      /\ \A x \in after : x \in Infos(c) \/ \E i \in DOMAIN descriptions : x = made(i)
      /\ \A i \in DOMAIN descriptions : made(i) = IdIndexInfo \/ made(i) \in after
  BY CreateExact
<1>2. ASSUME NEW j \in DOMAIN indexes PROVE Meets(CreateIndexInfo(BuildDescription(indexes[j])), indexes[j])
  <2>1. IsDescription(indexes[j])
    BY DEF IsDeclaration
  <2> QED
    BY <2>1, MadeMeets
<1>3. \A i \in DOMAIN descriptions, j \in DOMAIN indexes :
        descriptions[i] = BuildDescription(indexes[j]) => Meets(made(i), indexes[j])
  BY <1>2
<1>4. ASSUME NEW j \in DOMAIN indexes PROVE ~Meets(IdIndexInfo, indexes[j])
  BY DEF Meets, IdIndexInfo, IsDeclaration, ValidDeclaration, idIndexName
<1> HIDE DEF after, made
<1>5. Respects(Infos(c), after, indexes)
  <2>1. ASSUME NEW i \in DOMAIN descriptions PROVE \E j \in DOMAIN indexes : Meets(made(i), indexes[j])
    BY <1>3 DEF AreDeclared
  <2> QED
    BY <1>1, <2>1 DEF Respects
<1>6. \A j \in DOMAIN indexes : Has(descriptions, BuildDescription(indexes[j])) => Met(after, indexes[j])
  BY <1>1, <1>3, <1>4 DEF Has, Met
<1> QED
  BY <1>1, <1>5, <1>6 DEF after

\* an index in the way of a declared one is made again, or not declared
LEMMA ConflictingRemakes ==
  ASSUME NEW c, GoodCollection(c), NEW indexes, IsDeclaration(indexes),
         \A j, k \in DOMAIN indexes : indexes[j].key = indexes[k].key => j = k,
         {"_fts", "_ftsx"} \cap Fields = {}, \A x \in Infos(c) : Keyed(x, indexes),
         NEW j \in DOMAIN indexes,
         NEW name, FindConflictingIndex(ListInfos(c), BuildDescription(indexes[j])) = <<name>>,
         NEW descriptions, Has(descriptions, BuildDescription(indexes[j]))
  PROVE  Remakes(name, descriptions, indexes)
<1> DEFINE d == BuildDescription(indexes[j])
<1>1. PICK r \in {IdIndexInfo} \cup Infos(c) :
        r.name = name /\ (r.name = d.name \/ (r.name # idIndexName /\ r.key = d.key))
  BY FoundIndex DEF GoodCollection, GoodIndexes
<1>2. ASSUME NEW k \in DOMAIN indexes
      PROVE  /\ HasOptions(indexes[k]) /\ IsList(indexes[k].key)
             /\ \A i \in DOMAIN indexes[k].key : indexes[k].key[i][1] \notin {"_fts", "_ftsx"}
  <2>1. IsDescription(indexes[k])
    BY DEF IsDeclaration
  <2> QED
    BY <2>1, DeclaredKey
<1>3. d.name = NameOf(indexes[j]) /\ d.key = indexes[j].key
  BY <1>2, DescriptionName
<1>4. \A k \in DOMAIN indexes : NameOf(indexes[k]) = NameOf(indexes[j]) => k = j
  BY DEF IsDeclaration, ValidDeclaration
<1>5. CASE r.name = d.name
  BY <1>1, <1>3, <1>4, <1>5 DEF Remakes
<1>6. CASE r.name # d.name
  <2>1. r \in Infos(c) /\ r.key = d.key
    BY <1>1, <1>6 DEF IdIndexInfo, idIndexName
  <2>2. HasOptions(r)
    BY <2>1, OptionsOfInfos
  <2>3. NormalizeExistingIndex(r).isText = FALSE /\ NormalizeExistingIndex(r).key = r.key
    BY <1>2, <1>3, <2>1, <2>2, KeyOfFields
  <2>4. ASSUME NEW k \in DOMAIN indexes, NameOf(indexes[k]) = name PROVE FALSE
    <3>1. IsSameKey(NormalizeDeclaredIndex(indexes[k]), NormalizeExistingIndex(r))
      BY <1>1, <2>1, <2>4 DEF Keyed
    <3>2. NormalizeDeclaredIndex(indexes[k]).isText = FALSE /\ NormalizeDeclaredIndex(indexes[k]).key = r.key
      BY <2>3, <3>1 DEF IsSameKey
    <3>3. indexes[k].key = r.key
      BY <1>2, <3>2, KeyWithoutText
    <3>4. k = j
      BY <1>3, <2>1, <3>3
    <3> QED
      BY <1>1, <1>3, <1>6, <2>4, <3>4
  <2> QED
    BY <2>4 DEF Remakes
<1> QED
  BY <1>5, <1>6

-----------------------------------------------------------------------------
(* What a sync's own steps do for what it owes *)

\* what was as declared or owed still is
Pays(t, s, before, after, indexes) ==
    \A j \in DOMAIN indexes :
        Met(before, indexes[j]) \/ Owes(s.phase, s.plan, s.pending, before, indexes[j])
          => Met(after, indexes[j]) \/ Keeps(t, s, after, indexes[j])

\* once it has listed, each is
PaysAll(t, s, after, indexes) == \A j \in DOMAIN indexes : Met(after, indexes[j]) \/ Keeps(t, s, after, indexes[j])

\* the sync becomes t, and its collection has these indexes after
Serves(p, t, after) ==
    LET s       == sync[p]
        before  == Infos(collection[StoreOf(s).collection])
        indexes == StoreOf(s).indexes
    IN  /\ Respects(before, after, indexes)
        /\ Carries(t, s, after, indexes)
        /\ \/ FailedOn(t, StoreOf(s).collection)
           \/ /\ Pays(t, s, before, after, indexes)
              /\ s.phase = "listing" /\ p \notin DryRuns => PaysAll(t, s, after, indexes)

ServesStep(p) ==
    \E t, after :
        /\ Serves(p, t, after)
        /\ sync'[p] = t
        /\ Infos(collection'[StoreOf(sync[p]).collection]) = after

LEMMA ServesHeld ==
  ASSUME CollectionsGood, SyncsGood, NEW p \in Syncs, sync[p].phase \notin {"idle", "over"},
         NEW t, Becomes(p, t), NEW result, Holds(p, result), Serves(p, t, Infos(result.collection))
  PROVE  ServesStep(p)
BY HeldIs DEF ServesStep

LEMMA ServesUnchanged ==
  ASSUME SyncsGood, NEW p \in Syncs, NEW t, Becomes(p, t), UNCHANGED collection,
         Serves(p, t, Infos(collection[StoreOf(sync[p]).collection]))
  PROVE  ServesStep(p)
<1> DEFINE c == StoreOf(sync[p]).collection
           after == Infos(collection[c])
<1>1. sync'[p] = t
  BY DEF Becomes, SyncsGood
<1>2. collection' = collection
  OBVIOUS
<1>3. Infos(collection'[c]) = after
  BY <1>2
<1>4. Serves(p, t, after)
  OBVIOUS
<1> HIDE DEF after
<1> QED
  BY <1>1, <1>3, <1>4 DEF ServesStep

\* a sync that fails on a store owes it nothing
LEMMA FailedServes ==
  ASSUME NEW p, IsSync(sync[p]), NEW code, NEW after,
         Respects(Infos(collection[StoreOf(sync[p]).collection]), after, StoreOf(sync[p]).indexes)
  PROVE  Serves(p, Failed(sync[p], code), after)
BY FailedCarries DEF Serves

\* a step that goes on, of a sync that is past the listing
LEMMA PaidServes ==
  ASSUME NEW p, sync[p].phase # "listing", NEW t, NEW after,
         LET s       == sync[p]
             before  == Infos(collection[StoreOf(s).collection])
             indexes == StoreOf(s).indexes
         IN  /\ Respects(before, after, indexes)
             /\ Carries(t, s, after, indexes)
             /\ Pays(t, s, before, after, indexes)
  PROVE  Serves(p, t, after)
BY DEF Serves

LEMMA ListServes ==
  ASSUME CollectionsGood, SyncsGood, ExistsInv, NEW p \in Syncs, List(p)
  PROVE  ServesStep(p)
<1> DEFINE s == sync[p]
           c == collection[StoreOf(s).collection]
           indexes == StoreOf(s).indexes
           infos == IF c.exists THEN ListInfos(c) ELSE <<>>
           seen == ToSet(infos)
           plan == DiffIndexes(indexes, infos, p \notin Keeping)
           t == [s EXCEPT !.plan = plan]
           next == IF p \in DryRuns THEN NextStore(s) ELSE BeginDropping(t)
<1>1. s.phase = "listing" /\ Becomes(p, next) /\ UNCHANGED collection
  BY DEF List
<1>2. IsSync(s) /\ s.at > 0 /\ IsDeclaration(indexes) /\ GoodCollection(c)
  BY <1>1, AtStore
<1>3. c.exists \/ Infos(c) = {}
  BY <1>1, AtCollection DEF ExistsInv, HasNoneUnlessThere
<1>4. IsList(infos) /\ KnownByName(seen) /\ Infos(c) \subseteq seen /\ seen \subseteq {IdIndexInfo} \cup Infos(c)
  BY <1>2, <1>3, SeenInfos DEF HasNoneUnlessThere
<1> HIDE DEF infos
<1>5. /\ GoodPlan(plan) /\ Outlined(plan, indexes)
      /\ \A j \in DOMAIN indexes : Met(seen, indexes[j]) \/ Plans(plan, seen, indexes[j])
      /\ \A i \in DOMAIN plan.toDrop : \A j \in DOMAIN indexes : plan.toDrop[i] # NameOf(indexes[j])
      /\ \A x \in seen : Keyed(x, indexes) \/ \E i \in DOMAIN plan.toRecreate : plan.toRecreate[i].name = x.name
  BY <1>2, <1>4, DiffGood, PlanServes
<1>6. IsSync(t) /\ t.at = s.at /\ t.plan = plan /\ t.failed = s.failed
  <2> HIDE DEF plan, s
  <2> QED
    BY <1>2, PlanSet
<1>7. ASSUME NEW j \in DOMAIN indexes PROVE ~Meets(IdIndexInfo, indexes[j])
  BY <1>2 DEF Meets, IdIndexInfo, IsDeclaration, ValidDeclaration, idIndexName
<1>8. /\ \A j \in DOMAIN indexes : Met(Infos(c), indexes[j]) \/ Plans(plan, Infos(c), indexes[j])
      /\ \A x \in Infos(c) : Keyed(x, indexes) \/ \E i \in DOMAIN plan.toRecreate : plan.toRecreate[i].name = x.name
  <2> HIDE DEF plan, c, seen, indexes
  <2>1. ASSUME NEW j \in DOMAIN indexes, Met(seen, indexes[j]) PROVE Met(Infos(c), indexes[j])
    BY <1>4, <1>7, <2>1 DEF Met
  <2>2. ASSUME NEW j \in DOMAIN indexes, Plans(plan, seen, indexes[j]) PROVE Plans(plan, Infos(c), indexes[j])
    BY <1>4, <2>2 DEF Plans, Mends
  <2> QED
    BY <1>4, <1>5, <2>1, <2>2
<1> HIDE DEF seen
<1>9. /\ Carries(BeginDropping(t), s, Infos(c), indexes)
      /\ PaysAll(BeginDropping(t), s, Infos(c), indexes)
  <2> HIDE DEF plan, t, c, indexes, s
  <2>1. /\ Carries(BeginDropping(t), t, Infos(c), indexes)
        /\ \A index : Plans(t.plan, Infos(c), index) => Keeps(BeginDropping(t), t, Infos(c), index)
    BY <1>2, <1>5, <1>6, <1>8, DroppingCarries
  <2> DEFINE u == BeginDropping(t)
  <2> HIDE DEF u
  <2>2. /\ Carries(u, t, Infos(c), indexes)
        /\ \A index : Plans(plan, Infos(c), index) => Keeps(u, t, Infos(c), index)
    BY <1>6, <2>1 DEF u
  <2>3. Carries(u, s, Infos(c), indexes)
    BY <1>6, <2>2 DEF Carries
  <2>4. PaysAll(u, s, Infos(c), indexes)
    BY <1>6, <1>8, <2>2 DEF PaysAll, Keeps
  <2> QED
    BY <2>3, <2>4 DEF u
<1>10. Carries(NextStore(s), s, Infos(c), indexes)
  BY <1>2, NextCarries
<1> HIDE DEF plan, t
<1>11. Carries(next, s, Infos(c), indexes) /\ (p \notin DryRuns => PaysAll(next, s, Infos(c), indexes))
  BY <1>9, <1>10
<1> HIDE DEF next
<1>12. Pays(next, s, Infos(c), Infos(c), indexes)
  BY <1>1 DEF Pays, Owes
<1>13. Respects(Infos(c), Infos(c), indexes)
  BY FewerRespects
<1>14. Serves(p, next, Infos(c))
  BY <1>11, <1>12, <1>13 DEF Serves
<1> QED
  BY <1>1, <1>14, ServesUnchanged

LEMMA DropIndexServes ==
  ASSUME CollectionsGood, SyncsGood, NEW p \in Syncs, Follows(p), DropIndex(p)
  PROVE  ServesStep(p)
<1> DEFINE s == sync[p]
           c == collection[StoreOf(s).collection]
           indexes == StoreOf(s).indexes
           name == Head(s.pending)
           result == DropIndexFrom(c, name)
           after == Infos(result.collection)
           rest == [s EXCEPT !.pending = Tail(@)]
           next == IF result.error \in {Succeeded, IndexNotFound}
                   THEN IF Len(s.pending) = 1 THEN BeginModifying(s) ELSE rest
                   ELSE Failed(s, result.error)
<1>1. s.phase = "dropping" /\ Holds(p, result) /\ Becomes(p, next)
  BY DEF DropIndex, Rest
<1>2. /\ IsSync(s) /\ s.at > 0 /\ GoodPlan(s.plan) /\ GoodCollection(c) /\ IsDeclaration(indexes)
      /\ IsList(s.pending) /\ s.pending # <<>>
  BY <1>1, AtStore DEF Looping
<1>3. /\ after \subseteq Infos(c) /\ \A i \in Infos(c) : i.name # name => i \in after
      /\ result.error \in {Succeeded, IndexNotFound} => \A i \in after : i.name # name
  BY <1>2, DropInfos, DropExact
<1>4. name = s.pending[1] /\ 1 \in DOMAIN s.pending
  BY <1>2, RestOfList
<1>5. Outline("dropping", s.plan, s.pending, Infos(c), indexes)
  BY <1>1 DEF Follows
<1>6. Respects(Infos(c), after, indexes)
  BY <1>3, FewerRespects
<1>7. rest = InPhase(s, "dropping", Tail(s.pending), s.conflict)
  BY <1>1, <1>2, SamePhase
<1>8. Serves(p, Failed(s, result.error), after)
  BY <1>2, <1>6, FailedServes
<1>9. s.phase # "listing" /\ Infos(c) = Infos(collection[StoreOf(sync[p]).collection])
  BY <1>1
<1> HIDE DEF result, s, after, c, indexes, rest, name
<1>10. /\ Outlined(s.plan, indexes)
       /\ \A i \in DOMAIN s.pending : Remakes(s.pending[i], s.plan.toRecreate, indexes)
       /\ \A x \in Infos(c) : Keyed(x, indexes) \/ Has(s.pending, x.name)
  BY <1>5 DEF Outline
<1>11. Remakes(name, s.plan.toRecreate, indexes)
  BY <1>4, <1>10
<1>12. ASSUME NEW j \in DOMAIN indexes,
              Met(Infos(c), indexes[j]) \/ Owes(s.phase, s.plan, s.pending, Infos(c), indexes[j])
       PROVE  Met(after, indexes[j]) \/ Plans(s.plan, after, indexes[j])
  <2>1. CASE Met(Infos(c), indexes[j])
    <3>1. PICK x \in Infos(c) : Meets(x, indexes[j])
      BY <2>1 DEF Met
    <3>2. CASE x.name # name
      BY <1>3, <3>1, <3>2 DEF Met
    <3>3. CASE x.name = name
      <4>1. NameOf(indexes[j]) = name
        BY <3>1, <3>3 DEF Meets
      <4> QED
        BY <1>11, <4>1 DEF Remakes, Plans
    <3> QED
      BY <3>2, <3>3
  <2>2. CASE Owes(s.phase, s.plan, s.pending, Infos(c), indexes[j])
    <3>1. Plans(s.plan, Infos(c), indexes[j])
      BY <1>1, <2>2 DEF Owes
    <3> QED
      BY <1>3, <3>1 DEF Plans, Mends
  <2> QED
    BY <1>12, <2>1, <2>2
<1>13. ASSUME result.error \in {Succeeded, IndexNotFound}
       PROVE  LET t == IF Len(s.pending) = 1 THEN BeginModifying(s) ELSE rest
              IN  /\ Carries(t, s, after, indexes)
                  /\ \A index : Plans(s.plan, after, index) => Keeps(t, s, after, index)
  <2>1. \A x \in after : Keyed(x, indexes) \/ Has(Tail(s.pending), x.name)
    BY <1>2, <1>3, <1>4, <1>10, <1>13, HeadOrTail
  <2>2. CASE Len(s.pending) = 1
    <3>1. \A x \in after : Keyed(x, indexes)
      BY <1>2, <2>1, <2>2, HeadOrTail
    <3> QED
      BY <1>2, <1>10, <2>2, <3>1, ModifyingCarries
  <2>3. CASE Len(s.pending) # 1
    <3> DEFINE tail == Tail(s.pending)
    <3>1. \A i \in DOMAIN tail : Remakes(tail[i], s.plan.toRecreate, indexes)
      <4>1. \A i \in DOMAIN tail : Has(s.pending, tail[i])
        BY <1>2, HeadOrTail
      <4> HIDE DEF tail
      <4> QED
        BY <1>10, <4>1 DEF Has
    <3> HIDE DEF tail
    <3>2. Outline("dropping", s.plan, tail, after, indexes)
      BY <1>10, <2>1, <3>1 DEF Outline, tail
    <3>3. "dropping" \in Looping
      BY DEF Looping
    <3> DEFINE u == InPhase(s, "dropping", tail, s.conflict)
    <3>4. /\ Carries(u, s, after, indexes)
          /\ \A index : Owes("dropping", s.plan, tail, after, index) => Keeps(u, s, after, index)
      BY <1>2, <3>2, <3>3, PhaseCarries
    <3> HIDE DEF u
    <3>5. rest = u
      BY <1>7 DEF u, tail
    <3> QED
      BY <2>3, <3>4, <3>5 DEF Owes
  <2> QED
    BY <2>2, <2>3
<1>14. Serves(p, next, after)
  <2>1. CASE result.error \in {Succeeded, IndexNotFound}
    <3> DEFINE t == IF Len(s.pending) = 1 THEN BeginModifying(s) ELSE rest
    <3>1. next = t
      BY <2>1
    <3>2. Carries(t, s, after, indexes) /\ \A index : Plans(s.plan, after, index) => Keeps(t, s, after, index)
      BY <1>13, <2>1
    <3> HIDE DEF t, next
    <3>3. Pays(t, s, Infos(c), after, indexes)
      BY <1>12, <3>2 DEF Pays
    <3>4. Serves(p, t, after)
      BY <1>6, <1>9, <3>2, <3>3, PaidServes DEF s, c, indexes
    <3> QED
      BY <3>1, <3>4
  <2>2. CASE result.error \notin {Succeeded, IndexNotFound}
    BY <1>8, <2>2
  <2> QED
    BY <2>1, <2>2
<1> HIDE DEF next
<1> QED
  BY <1>1, <1>14, ServesHeld DEF s, after

LEMMA CollModServes ==
  ASSUME CollectionsGood, SyncsGood, NEW p \in Syncs, Follows(p), CollMod(p)
  PROVE  ServesStep(p)
<1> DEFINE s == sync[p]
           c == collection[StoreOf(s).collection]
           indexes == StoreOf(s).indexes
           mod == Head(s.pending)
           result == ModifyIndexOf(c, mod.name, mod.changes)
           after == Infos(result.collection)
           rest == [s EXCEPT !.pending = Tail(@)]
           next == IF result.error = Succeeded
                   THEN IF Len(s.pending) = 1 THEN BeginCreating(s) ELSE rest
                   ELSE Failed(s, result.error)
<1>1. s.phase = "modifying" /\ Holds(p, result) /\ Becomes(p, next)
  BY DEF CollMod, Rest
<1>2. /\ GoodSync(s) /\ IsSync(s) /\ s.at > 0 /\ GoodPlan(s.plan) /\ GoodCollection(c) /\ IsDeclaration(indexes)
      /\ IsList(s.pending) /\ s.pending # <<>>
  BY <1>1, AtStore DEF Looping
<1>3. Outline("modifying", s.plan, s.pending, Infos(c), indexes)
  BY <1>1 DEF Follows
<1>4. /\ Outlined(s.plan, indexes) /\ AreSet(s.pending, indexes)
      /\ \A x \in Infos(c) : Keyed(x, indexes)
  BY <1>3 DEF Outline
<1>5. mod = s.pending[1] /\ \A i \in DOMAIN s.pending : Changes(s.pending[i], indexes)
  <2>1. \A i \in DOMAIN s.pending : IsChange(s.pending[i])
    BY <1>1, <1>2 DEF GoodSync, GoodPending
  <2> QED
    BY <1>2, <1>4, <2>1, RestOfList DEF Changes, AreSet
<1>6. Changes(mod, indexes)
  BY <1>2, <1>5, RestOfList
<1>7. /\ \A i \in after : i \in Infos(c) \/ (\E x \in Infos(c) : x.name = mod.name /\ i = Over(mod.changes, x))
      /\ \A i \in Infos(c) : i \in after \/ (i.name = mod.name /\ Over(mod.changes, i) \in after)
      /\ result.error = Succeeded => \E x \in Infos(c) : x.name = mod.name /\ Over(mod.changes, x) \in after
  <2> HIDE DEF mod, c
  <2> DEFINE Changed(name, changes) == Infos(ModifyIndexOf(c, name, changes).collection)
  <2>1. ASSUME NEW name, NEW changes
        PROVE  /\ \A i \in Changed(name, changes) :
                     i \in Infos(c) \/ (\E x \in Infos(c) : x.name = name /\ i = Over(changes, x))
               /\ \A i \in Infos(c) :
                     i \in Changed(name, changes) \/ (i.name = name /\ Over(changes, i) \in Changed(name, changes))
               /\ ModifyIndexOf(c, name, changes).error = Succeeded =>
                     \E x \in Infos(c) : x.name = name /\ Over(changes, x) \in Changed(name, changes)
    BY <1>2, ModifyInfos, ModifyExact
  <2>2. after = Changed(mod.name, mod.changes)
    OBVIOUS
  <2> HIDE DEF Changed, after
  <2> QED
    BY <2>1, <2>2
<1>8. \A x \in Infos(c) : HasOptions(x)
  BY <1>2, OptionsOfInfos
<1>9. DOMAIN mod.changes \subseteq {"hidden", "expireAfterSeconds"} /\ Sets(mod, indexes)
  BY <1>6 DEF Changes, IsChange
<1>10. rest = InPhase(s, "modifying", Tail(s.pending), s.conflict)
  BY <1>1, <1>2, SamePhase
<1>11. s.phase # "listing" /\ Infos(c) = Infos(collection[StoreOf(sync[p]).collection])
  BY <1>1
<1> HIDE DEF mod, c, indexes, after, result, rest
<1>12. \A x \in Infos(c) \cup after : HasOptions(x)
  <2>1. ASSUME NEW x \in Infos(c) PROVE HasOptions(Over(mod.changes, x))
    BY <1>8, <1>9, OverFields
  <2> QED
    BY <1>7, <1>8, <2>1
<1>13. Respects(Infos(c), after, indexes)
  BY <1>6, <1>7 DEF Respects
<1>14. Outline("modifying", s.plan, s.pending, after, indexes)
  BY <1>2, <1>3, <1>12, <1>13, OutlineKept
<1>15. Serves(p, Failed(s, result.error), after)
  BY <1>2, <1>13, FailedServes DEF s, c, indexes
<1> HIDE DEF s
<1>16. ASSUME NEW j \in DOMAIN indexes, Met(Infos(c), indexes[j]) PROVE Met(after, indexes[j])
  <2>1. PICK x \in Infos(c) : Meets(x, indexes[j])
    BY <1>16 DEF Met
  <2>2. CASE x \in after
    BY <2>1, <2>2 DEF Met
  <2>3. CASE x \notin after
    <3>1. x.name = mod.name /\ Over(mod.changes, x) \in after
      BY <1>7, <2>3
    <3>2. mod.name = NameOf(indexes[j])
      BY <2>1, <3>1 DEF Meets
    <3>3. \A f \in DOMAIN mod.changes : mod.changes[f] = NormalizeDeclaredIndex(indexes[j])[f]
      BY <1>2, <1>9, <3>2, SetsDeclared
    <3>4. Meets(Over(mod.changes, x), indexes[j])
      BY <1>8, <1>9, <2>1, <3>3, ChangedMeets
    <3> QED
      BY <3>1, <3>4 DEF Met
  <2> QED
    BY <2>2, <2>3
<1>17. ASSUME NEW j \in DOMAIN indexes, result.error = Succeeded, Mends(s.pending, Infos(c), indexes[j])
       PROVE  Met(after, indexes[j]) \/ Mends(Tail(s.pending), after, indexes[j])
  <2> DEFINE tail == Tail(s.pending)
  <2>1. PICK i \in DOMAIN s.pending :
          /\ s.pending[i].name = NameOf(indexes[j])
          /\ \A x \in Infos(c) : x.name = NameOf(indexes[j]) => Meets(Over(s.pending[i].changes, x), indexes[j])
    BY <1>17 DEF Mends
  <2>2. s.pending[i] = mod \/ Has(tail, s.pending[i])
    <3>1. Has(s.pending, s.pending[i])
      BY DEF Has
    <3> QED
      BY <1>2, <1>5, <3>1, HeadOrTail
  <2>3. CASE s.pending[i] = mod
    <3>1. PICK x \in Infos(c) : x.name = mod.name /\ Over(mod.changes, x) \in after
      BY <1>7, <1>17
    <3>2. Meets(Over(mod.changes, x), indexes[j])
      BY <2>1, <2>3, <3>1
    <3> QED
      BY <3>1, <3>2 DEF Met
  <2>4. CASE Has(tail, s.pending[i])
    <3>1. \A k \in DOMAIN tail : Has(s.pending, tail[k])
      BY <1>2, HeadOrTail
    <3> HIDE DEF tail
    <3>2. Mends(tail, Infos(c), indexes[j])
      BY <2>1, <2>4 DEF Mends, Has
    <3>3. \A k \in DOMAIN tail : Changes(tail[k], indexes)
      BY <1>5, <3>1 DEF Has
    <3>4. Mends(tail, after, indexes[j])
      BY <1>2, <1>12, <1>13, <3>2, <3>3, MendsKept
    <3> QED
      BY <3>4 DEF tail
  <2> QED
    BY <2>2, <2>3, <2>4
<1>18. ASSUME NEW j \in DOMAIN indexes, result.error = Succeeded,
              Met(Infos(c), indexes[j]) \/ Owes(s.phase, s.plan, s.pending, Infos(c), indexes[j])
       PROVE  \/ Met(after, indexes[j])
              \/ Has(s.plan.toCreate \o s.plan.toRecreate, BuildDescription(indexes[j]))
              \/ Mends(Tail(s.pending), after, indexes[j])
  BY <1>1, <1>16, <1>17, <1>18 DEF Owes
<1>19. ASSUME result.error = Succeeded
       PROVE  LET t == IF Len(s.pending) = 1 THEN BeginCreating(s) ELSE rest
              IN  Carries(t, s, after, indexes) /\ Pays(t, s, Infos(c), after, indexes)
  <2> DEFINE tail == Tail(s.pending)
             both == s.plan.toCreate \o s.plan.toRecreate
  <2>1. CASE Len(s.pending) = 1
    <3>1. ASSUME NEW index PROVE ~Mends(tail, after, index)
      <4>1. \A x : ~Has(tail, x)
        BY <1>2, <2>1, HeadOrTail
      <4> HIDE DEF tail
      <4> QED
        BY <4>1 DEF Mends, Has
    <3>2. \A x \in after : Keyed(x, indexes)
      BY <1>14 DEF Outline
    <3> DEFINE t == BeginCreating(s)
    <3>3. /\ Carries(t, s, after, indexes)
          /\ \A index : Has(both, BuildDescription(index)) => Keeps(t, s, after, index)
      BY <1>2, <1>4, <3>2, CreatingCarries
    <3> HIDE DEF t, tail, both
    <3>4. Pays(t, s, Infos(c), after, indexes)
      BY <1>18, <1>19, <3>1, <3>3 DEF Pays, tail, both
    <3> QED
      BY <2>1, <3>3, <3>4 DEF t
  <2>2. CASE Len(s.pending) # 1
    <3>1. AreSet(tail, indexes)
      BY <1>2, <1>4, TailDeclared
    <3> HIDE DEF tail
    <3>2. Outline("modifying", s.plan, tail, after, indexes)
      BY <1>14, <3>1 DEF Outline
    <3>3. "modifying" \in Looping
      BY DEF Looping
    <3> DEFINE u == InPhase(s, "modifying", tail, s.conflict)
    <3>4. /\ Carries(u, s, after, indexes)
          /\ \A index : Owes("modifying", s.plan, tail, after, index) => Keeps(u, s, after, index)
      BY <1>2, <3>2, <3>3, PhaseCarries
    <3> HIDE DEF u
    <3>5. rest = u
      BY <1>10 DEF u, tail
    <3>6. ASSUME NEW j \in DOMAIN indexes,
                 Met(Infos(c), indexes[j]) \/ Owes(s.phase, s.plan, s.pending, Infos(c), indexes[j])
          PROVE  Met(after, indexes[j]) \/ Owes("modifying", s.plan, tail, after, indexes[j])
      BY <1>18, <1>19, <3>6 DEF Owes, tail
    <3>7. Pays(u, s, Infos(c), after, indexes)
      BY <3>4, <3>6 DEF Pays
    <3> QED
      BY <2>2, <3>4, <3>5, <3>7
  <2> QED
    BY <2>1, <2>2
<1>20. Serves(p, next, after)
  <2>1. CASE result.error = Succeeded
    <3> DEFINE t == IF Len(s.pending) = 1 THEN BeginCreating(s) ELSE rest
    <3>1. next = t
      BY <2>1
    <3>2. Carries(t, s, after, indexes) /\ Pays(t, s, Infos(c), after, indexes)
      BY <1>19, <2>1
    <3> HIDE DEF t, next
    <3>3. Serves(p, t, after)
      BY <1>11, <1>13, <3>2, PaidServes DEF s, c, indexes
    <3> QED
      BY <3>1, <3>3
  <2>2. CASE result.error # Succeeded
    BY <1>15, <2>2
  <2> QED
    BY <2>1, <2>2
<1> HIDE DEF next
<1> QED
  BY <1>1, <1>20, ServesHeld DEF s, after

LEMMA CreateIndexesServes ==
  ASSUME DistinctDeclarations, CollectionsGood, SyncsGood, NEW p \in Syncs, Follows(p), CreateIndexes(p)
  PROVE  ServesStep(p)
<1> DEFINE s == sync[p]
           c == collection[StoreOf(s).collection]
           indexes == StoreOf(s).indexes
           result == CreateIndexesIn(c, s.pending)
           after == Infos(result.collection)
           again == [s EXCEPT !.phase = "retrying"]
           next == IF result.error = Succeeded THEN NextStore(s) ELSE again
<1>1. s.phase = "creating" /\ Holds(p, result) /\ Becomes(p, next)
  BY DEF CreateIndexes
<1>2. /\ GoodSync(s) /\ IsSync(s) /\ GoodCollection(c) /\ IsDeclaration(indexes)
      /\ IsList(s.pending) /\ s.pending # <<>>
  BY <1>1, AtStore DEF Looping
<1>3. \A i \in DOMAIN s.pending : HasOptions(s.pending[i])
  BY <1>1, <1>2 DEF GoodSync, GoodPending
<1>4. Outline("creating", s.plan, s.pending, Infos(c), indexes)
  BY <1>1 DEF Follows
<1>5. AreDeclared(s.pending, indexes) /\ Outline("retrying", s.plan, s.pending, Infos(c), indexes)
  BY <1>4 DEF Outline
<1>6. result.error # Succeeded => after = Infos(c)
  <2> HIDE DEF s, c
  <2> QED
    BY <1>2, <1>3, CreateGrows
<1>7. result.error = Succeeded =>
        /\ Infos(c) \subseteq after /\ Respects(Infos(c), after, indexes)
        /\ \A j \in DOMAIN indexes : Has(s.pending, BuildDescription(indexes[j])) => Met(after, indexes[j])
  <2> HIDE DEF s, c, indexes
  <2> QED
    BY <1>2, <1>5, CreatedServes DEF DistinctDeclarations
<1>8. again = InPhase(s, "retrying", s.pending, s.conflict)
  BY <1>2, SamePhase
<1>9. s.phase # "listing" /\ Infos(c) = Infos(collection[StoreOf(sync[p]).collection])
  BY <1>1
<1> HIDE DEF result, after, c, indexes, s, again
<1>10. Respects(Infos(c), after, indexes)
  BY <1>6, <1>7, FewerRespects
<1>11. CASE result.error = Succeeded
  <2> DEFINE t == NextStore(s)
  <2>1. Carries(t, s, after, indexes)
    BY <1>2, NextCarries
  <2> HIDE DEF t
  <2>2. \A j \in DOMAIN indexes : Met(Infos(c), indexes[j]) => Met(after, indexes[j])
    BY <1>7, <1>11 DEF Met
  <2>3. Pays(t, s, Infos(c), after, indexes)
    BY <1>1, <1>7, <1>11, <2>2 DEF Pays, Owes
  <2>4. Serves(p, t, after)
    BY <1>9, <1>10, <2>1, <2>3, PaidServes DEF s, c, indexes
  <2>5. Serves(p, next, after)
    BY <1>11, <2>4 DEF t
  <2> HIDE DEF next
  <2> QED
    BY <1>1, <2>5, ServesHeld DEF s, after
<1>12. CASE result.error # Succeeded
  <2>1. "retrying" \in Looping
    BY DEF Looping
  <2> DEFINE u == InPhase(s, "retrying", s.pending, s.conflict)
  <2>2. /\ Carries(u, s, Infos(c), indexes)
        /\ \A index : Owes("retrying", s.plan, s.pending, Infos(c), index) => Keeps(u, s, Infos(c), index)
    BY <1>2, <1>5, <2>1, PhaseCarries
  <2> HIDE DEF u
  <2>3. Pays(u, s, Infos(c), Infos(c), indexes)
    BY <1>1, <2>2 DEF Pays, Owes
  <2>4. Serves(p, u, after)
    BY <1>6, <1>9, <1>10, <1>12, <2>2, <2>3, PaidServes DEF s, c, indexes
  <2>5. Serves(p, next, after)
    BY <1>8, <1>12, <2>4 DEF u
  <2> HIDE DEF next
  <2> QED
    BY <1>1, <2>5, ServesHeld DEF s, after
<1> QED
  BY <1>11, <1>12

LEMMA OneDeclared ==
  ASSUME NEW d, NEW indexes, NEW j \in DOMAIN indexes, d = BuildDescription(indexes[j])
  PROVE  AreDeclared(<<d>>, indexes) /\ Has(<<d>>, d)
<1> DEFINE q == <<d>>
<1>1. q \in Seq({d}) /\ Len(q) = 1 /\ q[1] = d
  OBVIOUS
<1> HIDE DEF q
<1>2. DOMAIN q = 1 .. 1
  BY <1>1, LenProperties
<1>3. AreDeclared(q, indexes) /\ Has(q, d)
  BY <1>1, <1>2 DEF AreDeclared, Has
<1> QED
  BY <1>3 DEF q

\* what the creation of the first description of a loop serves
LEMMA CreatedOneServes ==
  ASSUME DistinctDeclarations, CollectionsGood, SyncsGood, NEW p \in Syncs, Follows(p),
         sync[p].phase \in {"retrying", "recreating"}
  PROVE  LET s       == sync[p]
             c       == collection[StoreOf(s).collection]
             indexes == StoreOf(s).indexes
             result  == CreateIndexesIn(c, <<Head(s.pending)>>)
             after   == Infos(result.collection)
         IN  /\ Respects(Infos(c), after, indexes)
             /\ result.error # Succeeded => after = Infos(c)
             /\ result.error = Succeeded =>
                  /\ Outline("retrying", s.plan, Tail(s.pending), after, indexes)
                  /\ \A j \in DOMAIN indexes :
                       Met(Infos(c), indexes[j]) \/ Has(s.pending, BuildDescription(indexes[j]))
                         => Met(after, indexes[j]) \/ Has(Tail(s.pending), BuildDescription(indexes[j]))
<1> DEFINE s == sync[p]
           c == collection[StoreOf(s).collection]
           indexes == StoreOf(s).indexes
           d == Head(s.pending)
           one == <<d>>
           result == CreateIndexesIn(c, one)
           after == Infos(result.collection)
           tail == Tail(s.pending)
<1>1. /\ GoodSync(s) /\ IsSync(s) /\ GoodCollection(c) /\ IsDeclaration(indexes)
      /\ IsList(s.pending) /\ s.pending # <<>>
  BY AtStore DEF Looping
<1>2. d = s.pending[1] /\ 1 \in DOMAIN s.pending
  BY <1>1, RestOfList
<1>3. HasOptions(d)
  BY <1>1, <1>2 DEF GoodSync, GoodPending
<1>4. Outline(s.phase, s.plan, s.pending, Infos(c), indexes) /\ s.phase \in {"retrying", "recreating"}
  BY DEF Follows
<1> HIDE DEF s, c, indexes, d
<1>5. AreDeclared(s.pending, indexes) /\ \A x \in Infos(c) : Keyed(x, indexes)
  BY <1>4 DEF Outline
<1>6. PICK k \in DOMAIN indexes : d = BuildDescription(indexes[k])
  BY <1>2, <1>5 DEF AreDeclared
<1>7. IsList(one) /\ AreDeclared(one, indexes) /\ Has(one, d)
  BY <1>3, <1>6, OneDescription, OneDeclared
<1>8. result.error # Succeeded => after = Infos(c)
  <2>1. result.error # Succeeded => result.collection = c
    BY <1>1, <1>3, CreatedOneGrows
  <2> HIDE DEF result
  <2> QED
    BY <2>1
<1> HIDE DEF one
<1>9. result.error = Succeeded =>
        /\ Infos(c) \subseteq after /\ Respects(Infos(c), after, indexes)
        /\ \A j \in DOMAIN indexes : Has(one, BuildDescription(indexes[j])) => Met(after, indexes[j])
  BY <1>1, <1>7, CreatedServes DEF DistinctDeclarations
<1> HIDE DEF result, after
<1>10. Respects(Infos(c), after, indexes)
  BY <1>8, <1>9, FewerRespects
<1>11. ASSUME result.error = Succeeded PROVE Outline("retrying", s.plan, tail, after, indexes)
  <2>1. \A x \in Infos(c) \cup after : HasOptions(x)
    <3>1. \A x \in Infos(c) : HasOptions(x)
      BY <1>1, OptionsOfInfos
    <3>2. GoodCollection(result.collection)
      <4>1. IsList(one) /\ DistinctNames(one) /\ \A i \in DOMAIN one : HasOptions(one[i])
        BY <1>3, OneDescription DEF one
      <4> QED
        BY <1>1, <4>1, CreateKeepsGood DEF result
    <3>3. \A x \in after : HasOptions(x)
      BY <3>2, OptionsOfInfos DEF after
    <3> QED
      BY <3>1, <3>3
  <2>2. Outline(s.phase, s.plan, s.pending, after, indexes)
    BY <1>1, <1>4, <1>10, <2>1, OutlineKept
  <2>3. AreDeclared(tail, indexes)
    BY <1>1, <1>5, TailDeclared
  <2> HIDE DEF tail
  <2> QED
    BY <1>4, <2>2, <2>3 DEF Outline
<1>12. ASSUME result.error = Succeeded, NEW j \in DOMAIN indexes,
              Met(Infos(c), indexes[j]) \/ Has(s.pending, BuildDescription(indexes[j]))
       PROVE  Met(after, indexes[j]) \/ Has(tail, BuildDescription(indexes[j]))
  <2>1. CASE Met(Infos(c), indexes[j])
    BY <1>9, <1>12, <2>1 DEF Met
  <2>2. CASE Has(s.pending, BuildDescription(indexes[j]))
    <3>1. d = BuildDescription(indexes[j]) \/ Has(tail, BuildDescription(indexes[j]))
      BY <1>1, <1>2, <2>2, HeadOrTail
    <3> QED
      BY <1>7, <1>9, <1>12, <3>1
  <2> QED
    BY <1>12, <2>1, <2>2
<1> QED
  BY <1>8, <1>10, <1>11, <1>12 DEF s, c, indexes, d, one, result, after

\* a step into a phase that only makes what it has left to make
LEMMA MakingServes ==
  ASSUME NEW s, IsSync(s), NEW indexes, NEW before, NEW after, NEW phase, NEW pending, NEW conflict,
         phase \in {"retrying", "recovering", "recreating"},
         s.phase \in {"retrying", "recovering", "recreating"},
         Outline(phase, s.plan, pending, after, indexes),
         \A j \in DOMAIN indexes :
            Met(before, indexes[j]) \/ Has(s.pending, BuildDescription(indexes[j]))
              => Met(after, indexes[j]) \/ Has(pending, BuildDescription(indexes[j]))
  PROVE  LET t == InPhase(s, phase, pending, conflict)
         IN  Carries(t, s, after, indexes) /\ Pays(t, s, before, after, indexes)
<1> DEFINE t == InPhase(s, phase, pending, conflict)
<1>1. phase \in Looping
  BY DEF Looping
<1>2. /\ Carries(t, s, after, indexes)
      /\ \A index : Owes(phase, s.plan, pending, after, index) => Keeps(t, s, after, index)
  BY <1>1, PhaseCarries
<1> HIDE DEF t
<1>3. \A index : Has(pending, BuildDescription(index)) => Owes(phase, s.plan, pending, after, index)
  BY DEF Owes
<1>4. \A index : Owes(s.phase, s.plan, s.pending, before, index) => Has(s.pending, BuildDescription(index))
  BY DEF Owes
<1>5. Pays(t, s, before, after, indexes)
  BY <1>2, <1>3, <1>4 DEF Pays
<1> QED
  BY <1>2, <1>5 DEF t

\* the last description is made
LEMMA LastServes ==
  ASSUME NEW s, IsSync(s), IsList(s.pending), Len(s.pending) = 1, s.pending # <<>>,
         s.phase \in {"retrying", "recreating"}, NEW indexes, NEW before, NEW after,
         \A j \in DOMAIN indexes :
            Met(before, indexes[j]) \/ Has(s.pending, BuildDescription(indexes[j]))
              => Met(after, indexes[j]) \/ Has(Tail(s.pending), BuildDescription(indexes[j]))
  PROVE  \A t : Pays(t, s, before, after, indexes)
<1>1. \A x : ~Has(Tail(s.pending), x)
  BY HeadOrTail
<1>2. \A index : Owes(s.phase, s.plan, s.pending, before, index) => Has(s.pending, BuildDescription(index))
  BY DEF Owes
<1> QED
  BY <1>1, <1>2 DEF Pays

LEMMA CreateOneByOneServes ==
  ASSUME DistinctDeclarations, CollectionsGood, SyncsGood, NEW p \in Syncs, Follows(p), CreateOneByOne(p)
  PROVE  ServesStep(p)
<1> DEFINE s == sync[p]
           c == collection[StoreOf(s).collection]
           indexes == StoreOf(s).indexes
           result == CreateIndexesIn(c, <<Head(s.pending)>>)
           after == Infos(result.collection)
           tail == Tail(s.pending)
           rest == [s EXCEPT !.pending = Tail(@)]
           t == [s EXCEPT !.phase = "recovering", !.conflict = result.error]
           next == CASE result.error = Succeeded            ->
                           IF Len(s.pending) = 1 THEN NextStore(s) ELSE rest
                     [] IsIndexConflictError(result.error)  -> t
                     [] OTHER                               -> Failed(s, result.error)
<1>1. s.phase = "retrying" /\ Holds(p, result) /\ Becomes(p, next)
  BY DEF CreateOneByOne, Rest
<1>2. IsSync(s) /\ IsList(s.pending) /\ s.pending # <<>>
  BY <1>1, AtStore DEF Looping
<1>3. /\ Respects(Infos(c), after, indexes)
      /\ result.error # Succeeded => after = Infos(c)
      /\ result.error = Succeeded =>
           /\ Outline("retrying", s.plan, tail, after, indexes)
           /\ \A j \in DOMAIN indexes :
                Met(Infos(c), indexes[j]) \/ Has(s.pending, BuildDescription(indexes[j]))
                  => Met(after, indexes[j]) \/ Has(tail, BuildDescription(indexes[j]))
  BY <1>1, CreatedOneServes
<1>4. Outline("recovering", s.plan, s.pending, Infos(c), indexes)
  BY <1>1 DEF Follows, Outline
<1>5. rest = InPhase(s, "retrying", tail, s.conflict)
  BY <1>1, <1>2, SamePhase
<1>6. s.phase # "listing" /\ Infos(c) = Infos(collection[StoreOf(sync[p]).collection])
  BY <1>1
<1>7. Serves(p, Failed(s, result.error), after)
  BY <1>2, <1>3, FailedServes
<1> HIDE DEF c, indexes, result, after
<1>8. ASSUME result.error # Succeeded PROVE Serves(p, t, after)
  <2>1. t = InPhase(s, "recovering", s.pending, result.error)
    BY <1>2, SameStep, Zenon
  <2> HIDE DEF t, s
  <2>2. Carries(t, s, Infos(c), indexes) /\ Pays(t, s, Infos(c), Infos(c), indexes)
    BY <1>1, <1>2, <1>4, <2>1, MakingServes
  <2> QED
    BY <1>3, <1>6, <1>8, <2>2, PaidServes DEF s, c, indexes
<1> HIDE DEF t
<1>9. ASSUME result.error = Succeeded
      PROVE  Serves(p, NextStore(s), after) \/ Len(s.pending) # 1
  <2> DEFINE u == NextStore(s)
  <2> HIDE DEF s, tail
  <2>1. CASE Len(s.pending) = 1
    <3>1. Carries(u, s, after, indexes)
      BY <1>2, NextCarries
    <3>2. \A j \in DOMAIN indexes :
            Met(Infos(c), indexes[j]) \/ Has(s.pending, BuildDescription(indexes[j]))
              => Met(after, indexes[j]) \/ Has(Tail(s.pending), BuildDescription(indexes[j]))
      BY <1>3, <1>9 DEF tail
    <3>3. \A x : Pays(x, s, Infos(c), after, indexes)
      BY <1>1, <1>2, <2>1, <3>2, LastServes
    <3> HIDE DEF u
    <3>4. Serves(p, u, after)
      BY <1>3, <1>6, <3>1, <3>3, PaidServes DEF s, c, indexes
    <3> QED
      BY <3>4 DEF u
  <2> QED
    BY <2>1
<1>10. ASSUME result.error = Succeeded PROVE Serves(p, rest, after)
  <2> HIDE DEF rest, s, tail
  <2>1. Carries(rest, s, after, indexes) /\ Pays(rest, s, Infos(c), after, indexes)
    BY <1>1, <1>2, <1>3, <1>5, <1>10, MakingServes
  <2> QED
    BY <1>3, <1>6, <2>1, PaidServes DEF s, c, indexes
<1> HIDE DEF rest
<1>11. Succeeded \notin {OptionsConflict, KeySpecsConflict}
  BY DEF Succeeded, OptionsConflict, KeySpecsConflict
<1>12. Serves(p, next, after)
  <2>1. CASE result.error = Succeeded
    <3>1. next = IF Len(s.pending) = 1 THEN NextStore(s) ELSE rest
      BY <1>11, <2>1 DEF IsIndexConflictError
    <3> QED
      BY <1>9, <1>10, <2>1, <3>1
  <2>2. CASE result.error # Succeeded
    <3>1. next = IF IsIndexConflictError(result.error) THEN t ELSE Failed(s, result.error)
      BY <2>2
    <3> QED
      BY <1>7, <1>8, <2>2, <3>1
  <2> QED
    BY <2>1, <2>2
<1> HIDE DEF next
<1> QED
  BY <1>1, <1>12, ServesHeld DEF s, after

LEMMA ListConflictingServes ==
  ASSUME DistinctDeclarations, CollectionsGood, SyncsGood, NEW p \in Syncs, Follows(p), ListConflicting(p)
  PROVE  ServesStep(p)
<1> DEFINE s == sync[p]
           c == collection[StoreOf(s).collection]
           indexes == StoreOf(s).indexes
           d == Head(s.pending)
           found == FindConflictingIndex(ListInfos(c), d)
           t == [s EXCEPT !.phase = "clearing", !.pending = found \o @]
           next == CASE ~c.exists                  -> Failed(s, NamespaceNotFound)
                     [] c.exists /\ found = <<>>   -> Failed(s, s.conflict)
                     [] OTHER                      -> t
<1>1. s.phase = "recovering" /\ Becomes(p, next) /\ UNCHANGED collection
  BY DEF ListConflicting
<1>2. /\ IsSync(s) /\ GoodCollection(c) /\ IsDeclaration(indexes)
      /\ IsList(s.pending) /\ s.pending # <<>>
  BY <1>1, AtStore DEF Looping
<1>3. Outline("recovering", s.plan, s.pending, Infos(c), indexes)
  BY <1>1 DEF Follows
<1>4. AreDeclared(s.pending, indexes) /\ \A x \in Infos(c) : Keyed(x, indexes)
  BY <1>3 DEF Outline
<1>5. d = s.pending[1] /\ 1 \in DOMAIN s.pending
  BY <1>2, RestOfList
<1>6. \A j, k \in DOMAIN indexes : indexes[j].key = indexes[k].key => j = k
  BY <1>1, DistinctKeysAt
<1>7. found = <<>> \/ \E name : found = <<name>>
  BY DEF FindConflictingIndex
<1>8. ASSUME NEW name, found = <<name>> PROVE Remakes(name, s.pending, indexes)
  <2>1. PICK j \in DOMAIN indexes : d = BuildDescription(indexes[j])
    BY <1>4, <1>5 DEF AreDeclared
  <2>2. Has(s.pending, d)
    BY <1>5 DEF Has
  <2>3. FindConflictingIndex(ListInfos(c), BuildDescription(indexes[j])) = <<name>>
    BY <1>8, <2>1
  <2>4. {"_fts", "_ftsx"} \cap Fields = {}
    BY DEF DistinctDeclarations
  <2>5. Has(s.pending, BuildDescription(indexes[j]))
    BY <2>1, <2>2
  <2> HIDE DEF c, indexes, d, s
  <2> QED
    BY <1>2, <1>4, <1>6, <2>3, <2>4, <2>5, ConflictingRemakes
<1>9. Respects(Infos(c), Infos(c), indexes)
  BY FewerRespects
<1>10. /\ Serves(p, Failed(s, NamespaceNotFound), Infos(c))
       /\ Serves(p, Failed(s, s.conflict), Infos(c))
  BY <1>2, <1>9, FailedServes
<1>11. s.phase # "listing" /\ Infos(c) = Infos(collection[StoreOf(sync[p]).collection])
  BY <1>1
<1> HIDE DEF found, c, indexes
<1>12. ASSUME found # <<>> PROVE Serves(p, t, Infos(c))
  <2>1. PICK name : found = <<name>>
    BY <1>7, <1>12
  <2> DEFINE q == <<name>>
             r == s.pending
             u == q \o r
             v == InPhase(s, "clearing", u, s.conflict)
  <2>2. u[1] = name /\ Tail(u) = r
    BY <1>2, OneBefore
  <2>3. t = v
    BY <1>2, <2>1, SamePhase
  <2> HIDE DEF q, u, t, v
  <2>4. Remakes(u[1], Tail(u), indexes) /\ AreDeclared(Tail(u), indexes)
    BY <1>4, <1>8, <2>1, <2>2
  <2>5. Outline("clearing", s.plan, u, Infos(c), indexes)
    BY <1>4, <2>4 DEF Outline
  <2>6. "clearing" \in Looping
    BY DEF Looping
  <2>7. /\ Carries(v, s, Infos(c), indexes)
        /\ \A index : Owes("clearing", s.plan, u, Infos(c), index) => Keeps(v, s, Infos(c), index)
    <3> HIDE DEF s, r
    <3> QED
      BY <1>2, <2>5, <2>6, PhaseCarries DEF v
  <2>8. \A index : Owes(s.phase, s.plan, s.pending, Infos(c), index) => Owes("clearing", s.plan, u, Infos(c), index)
    BY <1>1, <2>2 DEF Owes
  <2>9. Pays(v, s, Infos(c), Infos(c), indexes)
    BY <2>7, <2>8 DEF Pays
  <2>10. Serves(p, v, Infos(c))
    BY <1>9, <1>11, <2>7, <2>9, PaidServes DEF c, indexes
  <2> QED
    BY <2>3, <2>10
<1> HIDE DEF t
<1>13. Serves(p, next, Infos(c))
  BY <1>10, <1>12
<1> HIDE DEF next
<1> QED
  BY <1>1, <1>13, ServesUnchanged DEF c

LEMMA DropConflictingServes ==
  ASSUME CollectionsGood, SyncsGood, NEW p \in Syncs, Follows(p), DropConflicting(p)
  PROVE  ServesStep(p)
<1> DEFINE s == sync[p]
           c == collection[StoreOf(s).collection]
           indexes == StoreOf(s).indexes
           name == Head(s.pending)
           tail == Tail(s.pending)
           result == DropIndexFrom(c, name)
           after == Infos(result.collection)
           t == [s EXCEPT !.phase = "recreating", !.pending = Tail(@)]
           v == InPhase(s, "recreating", tail, s.conflict)
           next == IF result.error = Succeeded THEN t ELSE Failed(s, result.error)
<1>1. s.phase = "clearing" /\ Holds(p, result) /\ Becomes(p, next)
  BY DEF DropConflicting
<1>2. /\ IsSync(s) /\ GoodCollection(c)
      /\ IsList(s.pending) /\ s.pending # <<>>
  BY <1>1, AtStore DEF Looping
<1>3. after \subseteq Infos(c) /\ \A i \in Infos(c) : i.name # name => i \in after
  BY <1>2, DropInfos
<1>4. Outline("clearing", s.plan, s.pending, Infos(c), indexes)
  BY <1>1 DEF Follows
<1>5. name = s.pending[1]
  BY <1>2, RestOfList
<1>6. t = v
  BY <1>2, SamePhase
<1>7. Respects(Infos(c), after, indexes)
  BY <1>3, FewerRespects
<1>8. Serves(p, Failed(s, result.error), after)
  BY <1>2, <1>7, FailedServes
<1>9. s.phase # "listing" /\ Infos(c) = Infos(collection[StoreOf(sync[p]).collection])
  BY <1>1
<1> HIDE DEF after, c, indexes, result, name, s, t
<1>10. /\ \A x \in after : Keyed(x, indexes)
       /\ Remakes(name, tail, indexes) /\ AreDeclared(tail, indexes)
  BY <1>3, <1>4, <1>5 DEF Outline
<1> HIDE DEF tail
<1>11. Outline("recreating", s.plan, tail, after, indexes)
  BY <1>10 DEF Outline
<1>12. "recreating" \in Looping
  BY DEF Looping
<1>13. /\ Carries(v, s, after, indexes)
       /\ \A index : Owes("recreating", s.plan, tail, after, index) => Keeps(v, s, after, index)
  BY <1>2, <1>11, <1>12, PhaseCarries
<1> HIDE DEF v
<1>14. ASSUME NEW j \in DOMAIN indexes,
              Met(Infos(c), indexes[j]) \/ Owes(s.phase, s.plan, s.pending, Infos(c), indexes[j])
       PROVE  Met(after, indexes[j]) \/ Owes("recreating", s.plan, tail, after, indexes[j])
  <2>1. CASE Met(Infos(c), indexes[j])
    <3>1. PICK x \in Infos(c) : Meets(x, indexes[j])
      BY <2>1 DEF Met
    <3>2. CASE x.name # name
      BY <1>3, <3>1, <3>2 DEF Met
    <3>3. CASE x.name = name
      <4>1. NameOf(indexes[j]) = name
        BY <3>1, <3>3 DEF Meets
      <4> QED
        BY <1>10, <4>1 DEF Remakes, Owes
    <3> QED
      BY <3>2, <3>3
  <2>2. CASE Owes(s.phase, s.plan, s.pending, Infos(c), indexes[j])
    BY <1>1, <2>2 DEF Owes, tail
  <2> QED
    BY <1>14, <2>1, <2>2
<1>15. Pays(v, s, Infos(c), after, indexes)
  BY <1>13, <1>14 DEF Pays
<1>16. Serves(p, v, after)
  BY <1>7, <1>9, <1>13, <1>15, PaidServes DEF s, c, indexes
<1>17. Serves(p, next, after)
  BY <1>6, <1>8, <1>16
<1> HIDE DEF next
<1> QED
  BY <1>1, <1>17, ServesHeld DEF s, after

LEMMA CreateAgainServes ==
  ASSUME DistinctDeclarations, CollectionsGood, SyncsGood, NEW p \in Syncs, Follows(p), CreateAgain(p)
  PROVE  ServesStep(p)
<1> DEFINE s == sync[p]
           c == collection[StoreOf(s).collection]
           indexes == StoreOf(s).indexes
           result == CreateIndexesIn(c, <<Head(s.pending)>>)
           after == Infos(result.collection)
           tail == Tail(s.pending)
           t == [s EXCEPT !.phase = "retrying", !.conflict = Succeeded]
           rest == [t EXCEPT !.pending = Tail(@)]
           v == InPhase(s, "retrying", tail, Succeeded)
           next == IF result.error = Succeeded
                   THEN IF Len(t.pending) = 1 THEN NextStore(t) ELSE rest
                   ELSE Failed(s, result.error)
<1>1. s.phase = "recreating" /\ Holds(p, result) /\ Becomes(p, next)
  BY DEF CreateAgain, Rest
<1>2. IsSync(s) /\ IsList(s.pending) /\ s.pending # <<>>
  BY <1>1, AtStore DEF Looping
<1>3. /\ Respects(Infos(c), after, indexes)
      /\ result.error = Succeeded =>
           /\ Outline("retrying", s.plan, tail, after, indexes)
           /\ \A j \in DOMAIN indexes :
                Met(Infos(c), indexes[j]) \/ Has(s.pending, BuildDescription(indexes[j]))
                  => Met(after, indexes[j]) \/ Has(tail, BuildDescription(indexes[j]))
  BY <1>1, CreatedOneServes
<1>4. s.phase # "listing" /\ Infos(c) = Infos(collection[StoreOf(sync[p]).collection])
  BY <1>1
<1>5. Serves(p, Failed(s, result.error), after)
  BY <1>2, <1>3, FailedServes
<1> HIDE DEF c, indexes, result, after, s, tail
<1>6. t = [phase |-> "retrying", at |-> s.at, plan |-> s.plan, pending |-> s.pending,
           conflict |-> Succeeded, failed |-> s.failed]
  <2>1. t = InPhase(s, "retrying", s.pending, Succeeded)
    BY <1>2, SameStep, Zenon
  <2> QED
    BY <1>2, <2>1, PhaseIs
<1>7. IsSync(t) /\ t.at = s.at /\ t.pending = s.pending /\ t.failed = s.failed
  <2> HIDE DEF t
  <2> QED
    BY <1>2, <1>6 DEF IsSync
<1>8. rest = v
  <2>1. v = [phase |-> "retrying", at |-> s.at, plan |-> s.plan, pending |-> tail,
             conflict |-> Succeeded, failed |-> s.failed]
    BY <1>2, PhaseIs
  <2>2. rest = [phase |-> "retrying", at |-> s.at, plan |-> s.plan, pending |-> Tail(s.pending),
                conflict |-> Succeeded, failed |-> s.failed]
    <3> HIDE DEF t
    <3>1. t.phase = "retrying" /\ t.conflict = Succeeded
      BY <1>6
    <3>2. rest = InPhase(t, "retrying", Tail(t.pending), t.conflict)
      BY <1>7, <3>1, SamePhase
    <3>3. \A pending, conflict :
            InPhase(t, "retrying", pending, conflict) =
              [phase |-> "retrying", at |-> t.at, plan |-> t.plan, pending |-> pending,
               conflict |-> conflict, failed |-> t.failed]
      BY <1>7, PhaseIs
    <3>4. t.plan = s.plan
      BY <1>6
    <3> HIDE DEF rest
    <3> QED
      BY <1>7, <3>1, <3>2, <3>3, <3>4
  <2> HIDE DEF rest, v
  <2> QED
    BY <2>1, <2>2 DEF tail
<1> HIDE DEF rest
<1>9. ASSUME result.error = Succeeded PROVE Serves(p, rest, after)
  <2>1. Carries(v, s, after, indexes) /\ Pays(v, s, Infos(c), after, indexes)
    BY <1>1, <1>2, <1>3, <1>9, MakingServes
  <2> HIDE DEF v
  <2> QED
    BY <1>3, <1>4, <1>8, <2>1, PaidServes DEF s, c, indexes
<1>10. ASSUME result.error = Succeeded, Len(t.pending) = 1 PROVE Serves(p, NextStore(t), after)
  <2> HIDE DEF t, v
  <2> DEFINE u == NextStore(t)
  <2>1. Carries(u, t, after, indexes)
    BY <1>7, NextCarries
  <2> HIDE DEF u
  <2>2. Carries(u, s, after, indexes) \/ u.phase \in Looping
    BY <1>7, <2>1 DEF Carries
  <2>3. Carries(u, s, after, indexes)
    BY <1>7, <2>1 DEF Carries
  <2>4. \A j \in DOMAIN indexes :
          Met(Infos(c), indexes[j]) \/ Has(s.pending, BuildDescription(indexes[j]))
            => Met(after, indexes[j]) \/ Has(Tail(s.pending), BuildDescription(indexes[j]))
    BY <1>3, <1>10 DEF tail
  <2>5. \A x : Pays(x, s, Infos(c), after, indexes)
    BY <1>1, <1>2, <1>7, <1>10, <2>4, LastServes
  <2>6. Serves(p, u, after)
    BY <1>3, <1>4, <2>3, <2>5, PaidServes DEF s, c, indexes
  <2> QED
    BY <2>6 DEF u
<1> HIDE DEF t
<1>11. Serves(p, next, after)
  BY <1>5, <1>9, <1>10
<1> HIDE DEF next
<1> QED
  BY <1>1, <1>11, ServesHeld DEF s, after

\* every step of a sync under way
LEMMA StepServes ==
  ASSUME DistinctDeclarations, CollectionsGood, SyncsGood, ExistsInv,
         NEW p \in Syncs, SyncStep(p), ~Begin(p), Follows(p)
  PROVE  ServesStep(p)
BY ListServes, DropIndexServes, CollModServes, CreateIndexesServes, CreateOneByOneServes, ListConflictingServes,
   DropConflictingServes, CreateAgainServes DEF SyncStep

-----------------------------------------------------------------------------
(* What the syncs of a store owe together *)

\* a step after which every store has only what it had, what is declared and what is changed to it
AllRespect ==
    \A i \in DOMAIN Stores :
        LET c == Stores[i].collection
        IN  Respects(Infos(collection[c]), Infos(collection'[c]), Stores[i].indexes)

LEMMA InfosHaveOptions ==
  ASSUME CollectionsGood, CollectionsGood', NEW c \in Collections
  PROVE  \A x \in Infos(collection[c]) \cup Infos(collection'[c]) : HasOptions(x)
BY OptionsOfInfos DEF CollectionsGood

\* what a sync follows and owes, through a step of another
LEMMA OthersKeep ==
  ASSUME CollectionsGood, SyncsGood, CollectionsGood', AllRespect,
         NEW q \in Syncs, UnderWay(q), Follows(q), sync'[q] = sync[q]
  PROVE  /\ Follows(q)'
         /\ LET s == sync[q]
                c == StoreOf(s).collection
            IN  \A j \in DOMAIN StoreOf(s).indexes :
                   Owes(s.phase, s.plan, s.pending, Infos(collection[c]), StoreOf(s).indexes[j])
                     => Owes(s.phase, s.plan, s.pending, Infos(collection'[c]), StoreOf(s).indexes[j])
<1> DEFINE s == sync[q]
           c == StoreOf(s).collection
           indexes == StoreOf(s).indexes
           before == Infos(collection[c])
           after == Infos(collection'[c])
<1>1. s.phase \notin {"idle", "over"}
  BY DEF UnderWay
<1>2. s.at \in DOMAIN Stores /\ c \in Collections
  BY <1>1, AtCollection
<1>3. GoodSync(s) /\ GoodPlan(s.plan) /\ IsDeclaration(indexes)
  BY <1>1, AtStore
<1>4. GoodPending(s.phase, s.pending)
  BY <1>3 DEF GoodSync
<1>5. Respects(before, after, indexes)
  BY <1>2 DEF AllRespect, StoreOf
<1>6. \A x \in before \cup after : HasOptions(x)
  BY <1>2, InfosHaveOptions
<1>7. Outline(s.phase, s.plan, s.pending, before, indexes)
  BY DEF Follows
<1>8. sync'[q] = s
  OBVIOUS
<1> HIDE DEF before, after, indexes
<1>9. Outline(s.phase, s.plan, s.pending, after, indexes)
  BY <1>3, <1>5, <1>6, <1>7, OutlineKept
<1>10. Follows(q)'
  BY <1>8, <1>9 DEF Follows, after, indexes
<1>11. \A j \in DOMAIN indexes :
         Owes(s.phase, s.plan, s.pending, before, indexes[j]) => Owes(s.phase, s.plan, s.pending, after, indexes[j])
  BY <1>3, <1>4, <1>5, <1>6, <1>7, OwesKept
<1> QED
  BY <1>10, <1>11 DEF before, after, indexes

LEMMA StepRespects ==
  ASSUME DistinctDeclarations, CollectionsGood, SyncsGood, NEW p \in Syncs, SyncStep(p), UnderWay(p), ServesStep(p)
  PROVE  AllRespect
<1> DEFINE s == sync[p]
<1>1. PICK t, after : /\ Respects(Infos(collection[StoreOf(s).collection]), after, StoreOf(s).indexes)
                      /\ Infos(collection'[StoreOf(s).collection]) = after
  BY DEF ServesStep, Serves
<1>2. s.at \in DOMAIN Stores
  BY AtCollection DEF UnderWay
<1> SUFFICES ASSUME NEW i \in DOMAIN Stores
             PROVE  Respects(Infos(collection[Stores[i].collection]), Infos(collection'[Stores[i].collection]),
                             Stores[i].indexes)
  BY DEF AllRespect
<1>3. CASE Stores[i].collection = StoreOf(s).collection
  <2>1. i = s.at
    BY <1>2, <1>3 DEF DistinctDeclarations, StoreOf
  <2>2. Stores[i] = StoreOf(s)
    BY <2>1 DEF StoreOf
  <2> QED
    BY <1>1, <2>2
<1>4. CASE Stores[i].collection # StoreOf(s).collection
  <2>1. collection'[Stores[i].collection] = collection[Stores[i].collection]
    BY <1>4, StoresListed, StepElsewhere
  <2> QED
    BY <2>1, FewerRespects
<1> QED
  BY <1>3, <1>4

LEMMA UnchangedRespects ==
  ASSUME UNCHANGED collection
  PROVE  AllRespect
BY FewerRespects DEF AllRespect

\* the others of a step
LEMMA StepLeaves ==
  ASSUME SyncsGood, NEW p \in Syncs, SyncStep(p)
  PROVE  /\ \A q \in Syncs : q # p => sync'[q] = sync[q]
         /\ dropped' = dropped
<1>1. PICK t : sync' = [sync EXCEPT ![p] = t]
  BY StepOfOne DEF Becomes
<1>2. \A q \in Syncs : q # p => sync'[q] = sync[q]
  BY <1>1 DEF SyncsGood
<1>3. dropped' = dropped
  BY DEF SyncStep, Begin, List, DropIndex, CollMod, CreateIndexes, CreateOneByOne,
         ListConflicting, DropConflicting, CreateAgain
<1> QED
  BY <1>2, <1>3

LEMMA BeginIs ==
  ASSUME SyncsGood, FreshInv, NEW p \in Syncs, Begin(p)
  PROVE  /\ sync[p].phase = "idle" /\ UNCHANGED collection
         /\ sync'[p].failed = sync[p].failed
         /\ \/ sync'[p].phase = "listing" /\ sync'[p].at = 1
            \/ sync'[p].phase = "over" /\ Len(Stores) = 0
<1> DEFINE s == sync[p]
           t == NextStore(s)
<1>1. s.phase = "idle" /\ UNCHANGED collection /\ sync'[p] = t /\ IsSync(s)
  BY DEF Begin, Becomes, SyncsGood, GoodSync
<1>2. s.at = 0
  BY <1>1 DEF FreshInv
<1>3. Carries(t, s, {}, <<>>) /\ t.failed = s.failed
  BY <1>1, NextCarries
<1>4. t.phase \notin Looping
  BY <1>1 DEF NextStore, IsSync, Looping
<1> HIDE DEF t
<1>5. \/ t.phase = "listing" /\ t.at = 1
      \/ t.phase = "over" /\ Len(Stores) = 0
  BY <1>2, <1>3, <1>4 DEF Carries
<1> QED
  BY <1>1, <1>3, <1>5

LEMMA NothingOutlined ==
  ASSUME NEW plan, NEW pending, NEW infos, NEW indexes
  PROVE  Outline("listing", plan, pending, infos, indexes)
BY DEF Outline

\* a sync that goes on with the store it is at, after one of its own steps
LEMMA OwnFollows ==
  ASSUME NEW p, ServesStep(p), UnderWay(p)'
  PROVE  Follows(p)'
<1> DEFINE s == sync[p]
           u == sync'[p]
           d == StoreOf(s).collection
<1>1. PICK t, after : /\ Carries(t, s, after, StoreOf(s).indexes)
                      /\ sync'[p] = t
                      /\ Infos(collection'[d]) = after
  BY DEF ServesStep, Serves
<1>2. CASE u.phase = "listing"
  <2>1. Outline(u.phase, u.plan, u.pending, Infos(collection'[StoreOf(u).collection]), StoreOf(u).indexes)
    BY <1>2, NothingOutlined
  <2> QED
    BY <2>1 DEF Follows
<1>3. CASE u.phase # "listing"
  <2>1. u.phase # "over"
    BY DEF UnderWay
  <2>2. u.at = s.at /\ Outline(u.phase, u.plan, u.pending, after, StoreOf(s).indexes)
    BY <1>1, <1>3, <2>1 DEF Carries
  <2>3. StoreOf(u) = StoreOf(s)
    BY <2>2 DEF StoreOf
  <2>4. Outline(u.phase, u.plan, u.pending, Infos(collection'[StoreOf(u).collection]), StoreOf(u).indexes)
    BY <1>1, <2>2, <2>3
  <2> QED
    BY <2>4 DEF Follows
<1> QED
  BY <1>2, <1>3

\* a promise of a sync, through a step of another
LEMMA PromiseKept ==
  ASSUME CollectionsGood, SyncsGood, CollectionsGood', AllRespect, OutlineInv,
         NEW q \in Syncs, sync'[q] = sync[q], NEW i \in DOMAIN Stores, NEW j \in DOMAIN Stores[i].indexes,
         Promises(sync[q], i, Infos(collection[Stores[i].collection]), Stores[i].indexes[j])
  PROVE  Promises(sync'[q], i, Infos(collection'[Stores[i].collection]), Stores[i].indexes[j])
<1> DEFINE s == sync[q]
<1>1. s.at = i /\ Owes(s.phase, s.plan, s.pending, Infos(collection[Stores[i].collection]), Stores[i].indexes[j])
  BY DEF Promises
<1>2. StoreOf(s) = Stores[i]
  BY <1>1 DEF StoreOf
<1>3. UnderWay(q)
  BY <1>1 DEF UnderWay, Owes
<1>4. Follows(q)
  BY <1>3 DEF OutlineInv
<1>5. Owes(s.phase, s.plan, s.pending, Infos(collection'[Stores[i].collection]), Stores[i].indexes[j])
  BY <1>1, <1>2, <1>3, <1>4, OthersKeep
<1> QED
  BY <1>1, <1>5 DEF Promises

\* what was settled at a store, through a step that is not of a sync at it
LEMMA SettledKept ==
  ASSUME CollectionsGood, SyncsGood, CollectionsGood', AllRespect, OutlineInv,
         NEW i \in DOMAIN Stores, NEW j \in DOMAIN Stores[i].indexes,
         Infos(collection'[Stores[i].collection]) = Infos(collection[Stores[i].collection]),
         \A q \in Syncs :
            Promises(sync[q], i, Infos(collection[Stores[i].collection]), Stores[i].indexes[j])
              => sync'[q] = sync[q],
         Settled(Infos(collection[Stores[i].collection]), i, Stores[i].indexes[j])
  PROVE  Settled(Infos(collection[Stores[i].collection]), i, Stores[i].indexes[j])'
<1> DEFINE before == Infos(collection[Stores[i].collection])
           after == Infos(collection'[Stores[i].collection])
           index == Stores[i].indexes[j]
<1>1. CASE Met(before, index)
  <2>1. Met(after, index)
    BY <1>1
  <2> QED
    BY <2>1 DEF Settled
<1>2. CASE \E q \in Syncs : Promises(sync[q], i, before, index)
  <2>1. PICK q \in Syncs : Promises(sync[q], i, before, index)
    BY <1>2
  <2>2. Promises(sync'[q], i, after, index)
    BY <2>1, PromiseKept
  <2> QED
    BY <2>2 DEF Settled
<1> QED
  BY <1>1, <1>2 DEF Settled

\* a sync's own step at a store, for an index of it
LEMMA SettledOwn ==
  ASSUME CollectionsGood, SyncsGood, CollectionsGood', AllRespect, OutlineInv,
         NEW p \in Syncs, \A q \in Syncs : q # p => sync'[q] = sync[q],
         NEW i \in DOMAIN Stores, sync[p].at = i,
         LET c == Stores[i].collection
         IN  Pays(sync'[p], sync[p], Infos(collection[c]), Infos(collection'[c]), Stores[i].indexes),
         NEW j \in DOMAIN Stores[i].indexes,
         Settled(Infos(collection[Stores[i].collection]), i, Stores[i].indexes[j])
  PROVE  Settled(Infos(collection[Stores[i].collection]), i, Stores[i].indexes[j])'
<1> DEFINE before == Infos(collection[Stores[i].collection])
           after == Infos(collection'[Stores[i].collection])
           index == Stores[i].indexes[j]
           s == sync[p]
<1>1. ASSUME Met(before, index) \/ Owes(s.phase, s.plan, s.pending, before, index)
      PROVE  Met(after, index) \/ Promises(sync'[p], i, after, index)
  <2>1. Met(after, index) \/ Keeps(sync'[p], s, after, index)
    BY <1>1 DEF Pays
  <2> QED
    BY <2>1 DEF Keeps, Promises
<1>2. CASE Met(before, index) \/ Promises(s, i, before, index)
  <2>1. Met(after, index) \/ Promises(sync'[p], i, after, index)
    BY <1>1, <1>2 DEF Promises
  <2> QED
    BY <2>1 DEF Settled
<1>3. CASE \E q \in Syncs : q # p /\ Promises(sync[q], i, before, index)
  <2>1. PICK q \in Syncs : q # p /\ Promises(sync[q], i, before, index)
    BY <1>3
  <2>2. Promises(sync'[q], i, after, index)
    BY <2>1, PromiseKept
  <2> QED
    BY <2>2 DEF Settled
<1> QED
  BY <1>2, <1>3 DEF Settled

\* a sync that had not listed a store yet, after one of its own steps
LEMMA StillBefore ==
  ASSUME SyncsGood, NEW p \in Syncs, UnderWay(p), NEW infos, NEW indexes,
         Carries(sync'[p], sync[p], infos, indexes), NEW i \in DOMAIN Stores, IsBefore(sync[p], i),
         ~(sync[p].phase = "listing" /\ sync[p].at = i)
  PROVE  IsBefore(sync'[p], i)
<1> DEFINE s == sync[p]
           t == sync'[p]
           n == s.at
<1>1. s.at < i
  BY DEF IsBefore, UnderWay
<1>2. n \in 0 .. Len(Stores) /\ Len(Stores) \in Nat /\ i \in 1 .. Len(Stores)
  BY StoresListed DEF SyncsGood, GoodSync, IsSync
<1> HIDE DEF n
<1>3. n \in Nat /\ i \in Nat /\ ~(Len(Stores) < i)
  BY <1>2
<1>4. n # Len(Stores)
  BY <1>1, <1>2 DEF n
<1>5. CASE t.phase = "listing" /\ t.at = n + 1
  <2>1. n + 1 < i \/ n + 1 = i
    BY <1>1, <1>3 DEF n
  <2> QED
    BY <1>5, <2>1 DEF IsBefore
<1>6. CASE t.phase \in Looping /\ t.at = n
  BY <1>1, <1>6 DEF IsBefore, Looping, n
<1> QED
  BY <1>4, <1>5, <1>6 DEF Carries, n

LEMMA StepSettles ==
  ASSUME DistinctDeclarations, CollectionsGood, SyncsGood, CollectionsGood', ExistsInv, OutlineInv,
         NEW p \in Syncs, SyncStep(p), ~Begin(p), NEW i \in DOMAIN Stores, SettledAt(i)
  PROVE  SettledAt(i)'
<1> DEFINE s == sync[p]
           c == Stores[i].collection
           d == StoreOf(s).collection
           indexes == Stores[i].indexes
<1>1. UnderWay(p)
  BY StepOfOne
<1>2. Follows(p)
  BY <1>1 DEF OutlineInv
<1>3. ServesStep(p)
  BY <1>2, StepServes
<1>4. AllRespect
  BY <1>1, <1>3, StepRespects
<1>5. (\A q \in Syncs : q # p => sync'[q] = sync[q]) /\ dropped' = dropped
  BY StepLeaves
<1>6. PICK t, after : Serves(p, t, after) /\ sync'[p] = t /\ Infos(collection'[d]) = after
  BY <1>3 DEF ServesStep
<1>7. /\ Carries(sync'[p], s, after, StoreOf(s).indexes)
      /\ \/ FailedOn(sync'[p], d)
         \/ /\ Pays(sync'[p], s, Infos(collection[d]), after, StoreOf(s).indexes)
            /\ s.phase = "listing" /\ p \notin DryRuns => PaysAll(sync'[p], s, after, StoreOf(s).indexes)
  BY <1>6 DEF Serves
<1>8. CASE c \in dropped
  BY <1>5, <1>8 DEF SettledAt
<1>9. CASE \E q \in Syncs : FailedOn(sync[q], c)
  <2>1. PICK q \in Syncs : FailedOn(sync[q], c)
    BY <1>9
  <2>2. FailedOn(sync'[q], c)
    BY <1>5, <1>7, <2>1 DEF FailedOn, Carries
  <2> QED
    BY <2>2 DEF SettledAt
<1>10. s.at = i => StoreOf(s) = Stores[i]
  BY DEF StoreOf
<1>11. c = d => s.at = i
  BY <1>1, AtCollection DEF UnderWay, DistinctDeclarations, StoreOf
<1>12. CASE \A q \in Syncs \ DryRuns : IsBefore(sync[q], i)
  <2>1. CASE p \in DryRuns
    <3>1. \A q \in Syncs \ DryRuns : IsBefore(sync'[q], i)
      BY <1>5, <1>12, <2>1
    <3> QED
      BY <3>1 DEF SettledAt
  <2>2. CASE p \notin DryRuns /\ ~(s.phase = "listing" /\ s.at = i)
    <3>1. IsBefore(sync[p], i)
      BY <1>12, <2>2
    <3>2. IsBefore(sync'[p], i)
      BY <1>1, <1>7, <2>2, <3>1, StillBefore
    <3>3. \A q \in Syncs \ DryRuns : IsBefore(sync'[q], i)
      BY <1>5, <1>12, <3>2
    <3> QED
      BY <3>3 DEF SettledAt
  <2>3. CASE p \notin DryRuns /\ s.phase = "listing" /\ s.at = i
    <3>1. FailedOn(sync'[p], c) \/ PaysAll(sync'[p], s, after, indexes)
      BY <1>7, <1>10, <2>3
    <3>2. CASE FailedOn(sync'[p], c)
      BY <3>2 DEF SettledAt
    <3>3. CASE PaysAll(sync'[p], s, after, indexes)
      <4>1. \A j \in DOMAIN indexes : Met(after, indexes[j]) \/ Promises(sync'[p], i, after, indexes[j])
        BY <2>3, <3>3 DEF PaysAll, Keeps, Promises
      <4>2. after = Infos(collection'[c])
        BY <1>6, <1>10, <2>3
      <4> HIDE DEF c, d
      <4>3. \A j \in DOMAIN indexes : Settled(Infos(collection[c]), i, indexes[j])'
        BY <4>1, <4>2 DEF Settled, c
      <4> QED
        BY <4>3 DEF SettledAt, c
    <3> QED
      BY <3>1, <3>2, <3>3
  <2> QED
    BY <2>1, <2>2, <2>3
<1>13. CASE \A j \in DOMAIN indexes : Settled(Infos(collection[c]), i, indexes[j])
  <2>1. CASE c = d
    <3>1. CASE FailedOn(sync'[p], d)
      BY <2>1, <3>1 DEF SettledAt
    <3>2. CASE Pays(sync'[p], s, Infos(collection[d]), after, StoreOf(s).indexes)
      <4>1. s.at = i /\ StoreOf(s) = Stores[i]
        BY <1>10, <1>11, <2>1
      <4>2. Pays(sync'[p], s, Infos(collection[c]), Infos(collection'[c]), indexes)
        BY <1>6, <2>1, <3>2, <4>1
      <4>3. ASSUME NEW j \in DOMAIN indexes PROVE Settled(Infos(collection[c]), i, indexes[j])'
        BY <1>4, <1>5, <1>13, <4>1, <4>2, SettledOwn
      <4> QED
        BY <4>3 DEF SettledAt
    <3> QED
      BY <1>7, <3>1, <3>2
  <2>2. CASE c # d
    <3>1. collection'[c] = collection[c]
      BY <2>2, StoresListed, StepElsewhere
    <3>2. s.at # i
      BY <1>10, <2>2
    <3>3. ASSUME NEW j \in DOMAIN indexes PROVE Settled(Infos(collection[c]), i, indexes[j])'
      <4>1. \A q \in Syncs : Promises(sync[q], i, Infos(collection[c]), indexes[j]) => sync'[q] = sync[q]
        BY <1>5, <3>2 DEF Promises
      <4>2. Infos(collection'[c]) = Infos(collection[c])
        BY <3>1
      <4> QED
        BY <1>4, <1>13, <4>1, <4>2, SettledKept
    <3> QED
      BY <3>3 DEF SettledAt
  <2> QED
    BY <2>1, <2>2
<1> QED
  BY <1>8, <1>9, <1>12, <1>13 DEF SettledAt

LEMMA BeginSettles ==
  ASSUME CollectionsGood, SyncsGood, CollectionsGood', FreshInv, OutlineInv,
         NEW p \in Syncs, SyncStep(p), Begin(p), NEW i \in DOMAIN Stores, SettledAt(i)
  PROVE  SettledAt(i)'
<1> DEFINE c == Stores[i].collection
           indexes == Stores[i].indexes
<1>1. (\A q \in Syncs : q # p => sync'[q] = sync[q]) /\ dropped' = dropped
  BY StepLeaves
<1>2. /\ sync[p].phase = "idle" /\ collection' = collection
      /\ sync'[p].failed = sync[p].failed
      /\ \/ sync'[p].phase = "listing" /\ sync'[p].at = 1
         \/ sync'[p].phase = "over" /\ Len(Stores) = 0
  BY BeginIs
<1>3. CASE c \in dropped
  BY <1>1, <1>3 DEF SettledAt
<1>4. CASE \E q \in Syncs : FailedOn(sync[q], c)
  <2>1. PICK q \in Syncs : FailedOn(sync[q], c)
    BY <1>4
  <2>2. FailedOn(sync'[q], c)
    BY <1>1, <1>2, <2>1 DEF FailedOn
  <2> QED
    BY <2>2 DEF SettledAt
<1>5. CASE \A q \in Syncs \ DryRuns : IsBefore(sync[q], i)
  <2>1. i \in 1 .. Len(Stores) /\ Len(Stores) \in Nat
    BY StoresListed
  <2>2. 1 < i \/ i = 1
    BY <2>1
  <2>3. Len(Stores) # 0
    BY <2>1
  <2>4. IsBefore(sync'[p], i)
    BY <1>2, <2>2, <2>3 DEF IsBefore
  <2>5. \A q \in Syncs \ DryRuns : IsBefore(sync'[q], i)
    BY <1>1, <1>5, <2>4
  <2> QED
    BY <2>5 DEF SettledAt
<1>6. CASE \A j \in DOMAIN indexes : Settled(Infos(collection[c]), i, indexes[j])
  <2>1. AllRespect
    BY <1>2, UnchangedRespects
  <2>2. ASSUME NEW j \in DOMAIN indexes PROVE Settled(Infos(collection[c]), i, indexes[j])'
    <3>1. \A q \in Syncs : Promises(sync[q], i, Infos(collection[c]), indexes[j]) => sync'[q] = sync[q]
      BY <1>1, <1>2 DEF Promises, Owes
    <3>2. Infos(collection'[c]) = Infos(collection[c])
      BY <1>2
    <3> QED
      BY <1>6, <2>1, <3>1, <3>2, SettledKept
  <2> QED
    BY <2>2 DEF SettledAt
<1> QED
  BY <1>3, <1>4, <1>5, <1>6 DEF SettledAt

LEMMA SyncStepConverges ==
  ASSUME DistinctDeclarations, CollectionsGood, SyncsGood, CollectionsGood', ExistsInv, FreshInv, OutlineInv, PromiseInv,
         NEW p \in Syncs, SyncStep(p)
  PROVE  FreshInv' /\ OutlineInv' /\ PromiseInv'
<1>1. \A q \in Syncs : q # p => sync'[q] = sync[q]
  BY StepLeaves
<1>2. CASE Begin(p)
  <2>1. /\ collection' = collection
        /\ sync'[p].phase \in {"listing", "over"}
    BY <1>2, BeginIs
  <2>2. FreshInv'
    BY <1>1, <2>1 DEF FreshInv
  <2>3. OutlineInv'
    <3> SUFFICES ASSUME NEW q \in Syncs, UnderWay(q)' PROVE Follows(q)'
      BY DEF OutlineInv
    <3>1. CASE q = p
      <4>1. sync'[p].phase = "listing"
        BY <2>1, <3>1 DEF UnderWay
      <4> DEFINE u == sync'[p]
      <4>2. Outline(u.phase, u.plan, u.pending, Infos(collection'[StoreOf(u).collection]), StoreOf(u).indexes)
        BY <4>1, NothingOutlined
      <4> QED
        BY <3>1, <4>2 DEF Follows
    <3>2. CASE q # p
      <4>1. UnderWay(q) /\ Follows(q)
        BY <1>1, <3>2 DEF UnderWay, OutlineInv
      <4> QED
        BY <1>1, <2>1, <3>2, <4>1, UnchangedRespects, OthersKeep
    <3> QED
      BY <3>1, <3>2
  <2>4. PromiseInv'
    BY <1>2, BeginSettles DEF PromiseInv
  <2> QED
    BY <2>2, <2>3, <2>4
<1>3. CASE ~Begin(p)
  <2>1. UnderWay(p)
    BY <1>3, StepOfOne
  <2>2. Follows(p)
    BY <2>1 DEF OutlineInv
  <2>3. ServesStep(p)
    BY <1>3, <2>2, StepServes
  <2>4. AllRespect
    BY <2>1, <2>3, StepRespects
  <2>5. sync'[p].phase # "idle"
    BY <2>3 DEF ServesStep, Serves, Carries, Looping
  <2>6. FreshInv'
    BY <1>1, <2>5 DEF FreshInv
  <2>7. OutlineInv'
    <3> SUFFICES ASSUME NEW q \in Syncs, UnderWay(q)' PROVE Follows(q)'
      BY DEF OutlineInv
    <3>1. CASE q = p
      BY <2>3, <3>1, OwnFollows
    <3>2. CASE q # p
      <4>1. UnderWay(q) /\ Follows(q)
        BY <1>1, <3>2 DEF UnderWay, OutlineInv
      <4> QED
        BY <1>1, <2>4, <3>2, <4>1, OthersKeep
    <3> QED
      BY <3>1, <3>2
  <2>8. PromiseInv'
    BY <1>3, StepSettles DEF PromiseInv
  <2> QED
    BY <2>6, <2>7, <2>8
<1> QED
  BY <1>2, <1>3

LEMMA WritesConverge ==
  ASSUME CollectionsGood, SyncsGood, CollectionsGood', FreshInv, OutlineInv, PromiseInv, WrittenOver
  PROVE  FreshInv' /\ OutlineInv' /\ PromiseInv'
<1>1. /\ sync' = sync /\ dropped \subseteq dropped'
      /\ \A c \in Collections : Infos(collection'[c]) \subseteq Infos(collection[c]) /\ Lasts(c)
  BY DEF WrittenOver, Writing, Shrinks
<1>2. FreshInv'
  BY <1>1 DEF FreshInv
<1>3. AllRespect
  BY <1>1, StoresListed, FewerRespects DEF AllRespect
<1>4. OutlineInv'
  <2> SUFFICES ASSUME NEW q \in Syncs, UnderWay(q)' PROVE Follows(q)'
    BY DEF OutlineInv
  <2>1. UnderWay(q) /\ Follows(q) /\ sync'[q] = sync[q]
    BY <1>1 DEF UnderWay, OutlineInv
  <2> QED
    BY <1>3, <2>1, OthersKeep
<1>5. ASSUME NEW i \in DOMAIN Stores PROVE SettledAt(i)'
  <2> DEFINE c == Stores[i].collection
             indexes == Stores[i].indexes
  <2>1. SettledAt(i)
    BY DEF PromiseInv
  <2>2. c \in dropped' \/ Infos(collection'[c]) = Infos(collection[c])
    BY <1>1, StoresListed DEF Lasts
  <2>3. CASE c \in dropped'
    BY <2>3 DEF SettledAt
  <2>4. CASE c \notin dropped' /\ \A j \in DOMAIN indexes : Settled(Infos(collection[c]), i, indexes[j])
    <3>1. ASSUME NEW j \in DOMAIN indexes PROVE Settled(Infos(collection[c]), i, indexes[j])'
      BY <1>1, <1>3, <2>2, <2>4, SettledKept
    <3> QED
      BY <3>1 DEF SettledAt
  <2>5. CASE \/ \E q \in Syncs : FailedOn(sync[q], c)
             \/ \A q \in Syncs \ DryRuns : IsBefore(sync[q], i)
    BY <1>1, <2>5 DEF SettledAt
  <2>6. CASE c \in dropped
    BY <1>1, <2>3, <2>6
  <2> QED
    BY <2>1, <2>3, <2>4, <2>5, <2>6 DEF SettledAt
<1> QED
  BY <1>2, <1>4, <1>5 DEF PromiseInv

LEMMA ConvergeFirst ==
  ASSUME Init
  PROVE  ConvergeInv
<1>1. IndexInv /\ ExistsInv
  BY HealthFirst DEF HealthInv
<1>2. \A p \in Syncs : sync[p].phase = "idle" /\ sync[p].at = 0
  BY DEF Init, Idle
<1>3. FreshInv /\ OutlineInv
  BY <1>2 DEF FreshInv, OutlineInv, UnderWay
<1>4. PromiseInv
  BY <1>2 DEF PromiseInv, SettledAt, IsBefore
<1> QED
  BY <1>1, <1>3, <1>4 DEF ConvergeInv

LEMMA ConvergeStays ==
  ASSUME DistinctDeclarations, ConvergeInv, [Next]_vars
  PROVE  ConvergeInv'
<1>1. IndexInv /\ CollectionsGood /\ SyncsGood /\ ExistsInv /\ FreshInv /\ OutlineInv /\ PromiseInv
  BY DEF ConvergeInv, IndexInv
<1>2. IndexInv' /\ CollectionsGood'
  BY <1>1, StepGood DEF IndexInv
<1>3. ASSUME NEW p \in Syncs, SyncStep(p) PROVE ExistsInv' /\ FreshInv' /\ OutlineInv' /\ PromiseInv'
  BY <1>1, <1>2, <1>3, SyncStepHas, SyncStepConverges
<1>4. ASSUME \/ \E c \in Collections : Insert(c) \/ Update(c) \/ Delete(c)
             \/ \E gone : Drop(gone)
             \/ Clear
      PROVE  ExistsInv' /\ FreshInv' /\ OutlineInv' /\ PromiseInv'
  <2>1. WrittenOver
    BY <1>1, <1>4, WritesShrink
  <2>2. ExistsInv'
    BY <1>1, <2>1 DEF WrittenOver, ExistsInv, Shrinks
  <2> QED
    BY <1>1, <1>2, <2>1, <2>2, WritesConverge
<1>5. ASSUME UNCHANGED vars PROVE ExistsInv' /\ FreshInv' /\ OutlineInv' /\ PromiseInv'
  <2>1. collection' = collection /\ sync' = sync /\ dropped' = dropped
    BY <1>5 DEF vars
  <2>2. ExistsInv' /\ FreshInv'
    BY <1>1, <2>1 DEF ExistsInv, FreshInv
  <2>3. OutlineInv'
    BY <1>1, <2>1 DEF OutlineInv, UnderWay, Follows
  <2>4. PromiseInv'
    BY <1>1, <2>1 DEF PromiseInv, SettledAt, Settled
  <2> QED
    BY <2>2, <2>3, <2>4
<1>6. ExistsInv' /\ FreshInv' /\ OutlineInv' /\ PromiseInv'
  BY <1>3, <1>4, <1>5 DEF Next
<1> QED
  BY <1>2, <1>6 DEF ConvergeInv

LEMMA Converged ==
  ASSUME ConvergeInv
  PROVE  SyncConverges
<1> SUFFICES ASSUME NEW i \in DOMAIN Stores,
                    \A p \in Syncs : ~UnderWay(p) /\ \A f \in sync[p].failed : f[1] # Stores[i].collection,
                    \E p \in Syncs \ DryRuns : sync[p].phase = "over",
                    Stores[i].collection \notin dropped
             PROVE  PlanOf(Stores[i]) = NoPlan
  BY DEF SyncConverges, IsMongoIndexPlanEmpty
<1> DEFINE c == collection[Stores[i].collection]
           indexes == Stores[i].indexes
           infos == IF c.exists THEN ListInfos(c) ELSE <<>>
           seen == ToSet(infos)
<1>1. \A p \in Syncs : ~FailedOn(sync[p], Stores[i].collection)
  BY DEF FailedOn
<1>2. ~(\A p \in Syncs \ DryRuns : IsBefore(sync[p], i))
  BY DEF IsBefore
<1>3. \A j \in DOMAIN indexes : Settled(Infos(c), i, indexes[j])
  BY <1>1, <1>2 DEF ConvergeInv, PromiseInv, SettledAt
<1>4. \A p \in Syncs : \A infs, index : ~Promises(sync[p], i, infs, index)
  BY DEF UnderWay, Promises, Owes
<1>5. \A j \in DOMAIN indexes : Met(Infos(c), indexes[j])
  BY <1>3, <1>4 DEF Settled
<1>6. GoodCollection(c) /\ HasNoneUnlessThere(c) /\ IsDeclaration(indexes)
  BY StoresListed DEF ConvergeInv, IndexInv, CollectionsGood, ExistsInv
<1>7. IsList(infos) /\ KnownByName(seen) /\ Infos(c) \subseteq seen
  BY <1>6, SeenInfos
<1>8. \A j \in DOMAIN indexes : Met(seen, indexes[j])
  <2> HIDE DEF seen
  <2> QED
    BY <1>5, <1>7 DEF Met
<1>9. PlanOf(Stores[i]) = DiffIndexes(indexes, infos, FALSE)
  BY DEF PlanOf
<1> HIDE DEF infos, indexes
<1>10. DiffIndexes(indexes, infos, FALSE) = NoPlan
  <2> DEFINE dropping == FALSE
             plan == DiffIndexes(indexes, infos, dropping)
  <2>1. ~dropping
    OBVIOUS
  <2> HIDE DEF dropping, c
  <2>2. ~dropping /\ (\A j \in DOMAIN indexes : Met(seen, indexes[j])) => plan = NoPlan
    BY <1>6, <1>7, PlanServes
  <2> QED
    BY <1>8, <2>1, <2>2 DEF dropping
<1> QED
  BY <1>9, <1>10

(***************************************************************************)
(* syncIndexes, of any number of stores, whatever the syncs and the writes *)
(* that run between two of its commands: when every sync is over and none  *)
(* failed on a collection that was not dropped, the collection has all its *)
(* declared indexes as declared, and a plan of it is empty                 *)
(* (planIndexes and applyIndexPlan).                                       *)
(***************************************************************************)
THEOREM SyncsConverge ==
  ASSUME DistinctDeclarations
  PROVE  Spec => []SyncConverges
<1>1. Init => ConvergeInv
  BY ConvergeFirst
<1>2. ConvergeInv /\ [Next]_vars => ConvergeInv'
  BY ConvergeStays
<1>3. ConvergeInv => SyncConverges
  BY Converged
<1> QED
  BY <1>1, <1>2, <1>3, PTL DEF Spec
=============================================================================
