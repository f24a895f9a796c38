----------------------------- MODULE LogProofs ------------------------------
(***************************************************************************)
(* Facts about a log of stored events, whatever they are events of: the    *)
(* version of a stream counts one more for each record of the stream, and  *)
(* a log stays in order when a record is numbered after the last one.      *)
(***************************************************************************)
EXTENDS EventRecords, WellFoundedInduction, FiniteSetTheorems, SequenceTheorems, TLAPS

(***************************************************************************)
(* Every non-empty set of naturals has a least element.                    *)
(***************************************************************************)
LEMMA LeastElement ==
    ASSUME NEW S, S \subseteq Nat, S # {}
    PROVE  \E m \in S : \A k \in S : m <= k
<1>1. IsWellFoundedOn({p \in Nat \X Nat : p[1] < p[2]}, Nat)
  BY ONLY NatLessThanWellFounded, SMT DEF OpToRel
<1>2. PICK m \in S : \A k \in S : ~ (<<k, m>> \in {p \in Nat \X Nat : p[1] < p[2]})
  BY <1>1, WFMin, Zenon
<1>3. ASSUME NEW k \in S PROVE m <= k
  <2>1. k \in Nat /\ m \in Nat
    OBVIOUS
  <2>2. ~ (k < m)
    BY <1>2, <2>1
  <2> QED BY <2>1, <2>2
<1> QED BY <1>3

(***************************************************************************)
(* Induction up to a bound: a set that holds 0 and, with each number, the  *)
(* next one, holds all of them.                                            *)
(***************************************************************************)
LEMMA UpTo ==
    ASSUME NEW N \in Nat, NEW S, 0 \in S, \A n \in 1 .. N : n - 1 \in S => n \in S
    PROVE  \A n \in 0 .. N : n \in S
<1> DEFINE Missing == {n \in Nat : n <= N /\ n \notin S}
<1>1. ASSUME Missing # {} PROVE FALSE
  <2>1. PICK m \in Missing : \A k \in Missing : m <= k
    BY <1>1, LeastElement
  <2>2. m \in 1 .. N /\ m - 1 \in Nat /\ m - 1 \notin Missing
    BY <2>1
  <2> QED BY <2>1, <2>2
<1> QED BY <1>1

sameSteps(f, g, N) ==
    f[0] = g[0] /\ \A n \in 1 .. N : f[n - 1] = g[n - 1] => f[n] = g[n]

sameValues(f, g, N) == \A n \in 0 .. N : f[n] = g[n]

\* The values after each of k records, where "step" makes one of the one before.
isFold(f, k, V, base, step) ==
    /\ f \in [0 .. k -> V]
    /\ f[0] = base
    /\ \A n \in 1 .. k : f[n] = step[n][f[n - 1]]

(***************************************************************************)
(* A recursion over the length of a log has a solution.                    *)
(***************************************************************************)
LEMMA FoldExists ==
    ASSUME NEW N \in Nat, NEW V, NEW base \in V, NEW step \in [1 .. N -> [V -> V]]
    PROVE  \E f : isFold(f, N, V, base, step)
<1> DEFINE Folded == {m \in 0 .. N : \E f : isFold(f, m, V, base, step)}
<1>1. 0 \in Folded
  <2>1. isFold([n \in 0 .. 0 |-> base], 0, V, base, step)
    BY DEF isFold
  <2> QED BY <2>1
<1>2. ASSUME NEW k \in 1 .. N, k - 1 \in Folded PROVE k \in Folded
  <2>1. PICK f : isFold(f, k - 1, V, base, step)
    BY <1>2
  <2> DEFINE v == step[k][f[k - 1]]
             g == [n \in 0 .. k |-> IF n = k THEN v ELSE f[n]]
  <2>2. f \in [0 .. (k - 1) -> V] /\ k \in Nat /\ k >= 1
    BY <2>1 DEF isFold
  <2>3. v \in V
    <3>1. k - 1 \in 0 .. (k - 1)
      BY <2>2
    <3>2. f[k - 1] \in V
      BY <2>2, <3>1
    <3>3. step[k] \in [V -> V]
      OBVIOUS
    <3> QED BY <3>2, <3>3
  <2> HIDE DEF v
  <2>4. ASSUME NEW n \in 0 .. k
        PROVE  /\ n = k => g[n] = v
               /\ n # k => n \in 0 .. (k - 1) /\ g[n] = f[n]
    BY <2>2
  <2>5. g \in [0 .. k -> V]
    BY <2>2, <2>3
  <2> HIDE DEF g
  <2>6. isFold(g, k, V, base, step)
    <3>1. g[0] = base
      BY <2>1, <2>2, <2>4 DEF isFold
    <3>2. ASSUME NEW n \in 1 .. k PROVE g[n] = step[n][g[n - 1]]
      <4>1. n \in 0 .. k /\ n - 1 \in 0 .. k /\ n - 1 # k
        BY <2>2
      <4>2. g[n - 1] = f[n - 1]
        BY <2>4, <4>1
      <4>3. n # k => n \in 1 .. (k - 1)
        BY <2>2
      <4>4. n # k => g[n] = step[n][f[n - 1]]
        BY <2>1, <2>4, <4>1, <4>3 DEF isFold
      <4>5. n = k => g[n] = step[n][f[n - 1]]
        BY <2>4, <4>1 DEF v
      <4> QED BY <4>2, <4>4, <4>5
    <3> QED BY <2>5, <3>1, <3>2 DEF isFold
  <2> QED BY <2>6
<1> HIDE DEF Folded
<1>3. N \in Folded
  <2>1. \A n \in 0 .. N : n \in Folded
    BY <1>1, <1>2, UpTo, Zenon
  <2> QED BY <2>1
<1> QED BY <1>3 DEF Folded

(***************************************************************************)
(* Two recursions that take the same steps give the same values.           *)
(***************************************************************************)
LEMMA SameSteps ==
    ASSUME NEW N \in Nat, NEW f, NEW g, sameSteps(f, g, N)
    PROVE  sameValues(f, g, N)
<1> DEFINE Same == {n \in 0 .. N : f[n] = g[n]}
<1>1. 0 \in Same
  BY DEF sameSteps
<1>2. ASSUME NEW n \in 1 .. N, n - 1 \in Same PROVE n \in Same
  BY <1>2 DEF sameSteps
<1> HIDE DEF Same
<1>3. \A n \in 0 .. N : n \in Same
  BY <1>1, <1>2, UpTo
<1> QED BY <1>3 DEF Same, sameValues

-----------------------------------------------------------------------------
(***************************************************************************)
(* The version the store compares counts every record of the stream.       *)
(***************************************************************************)
LEMMA VersionType ==
    ASSUME NEW T, NEW rs \in Seq(T), NEW id
    PROVE  /\ IsFiniteSet({i \in DOMAIN rs : rs[i].aggregateId = id})
           /\ aggregateVersionInRecords(rs, id) \in Nat
<1> DEFINE P == {i \in DOMAIN rs : rs[i].aggregateId = id}
<1>1. IsFiniteSet(1 .. Len(rs))
  BY LenProperties, FS_Interval
<1>2. P \subseteq 1 .. Len(rs)
  BY LenProperties
<1>3. IsFiniteSet(P)
  BY <1>1, <1>2, FS_Subset
<1>4. Cardinality(P) \in Nat
  BY <1>3, FS_CardinalityType
<1> QED BY <1>3, <1>4 DEF aggregateVersionInRecords

\* A record moves the version of its own stream, and no other, by one.
LEMMA VersionAppend ==
    ASSUME NEW T, NEW rs \in Seq(T), NEW r \in T, NEW id
    PROVE  aggregateVersionInRecords(Append(rs, r), id) =
               aggregateVersionInRecords(rs, id) + IF r.aggregateId = id THEN 1 ELSE 0
<1> DEFINE P == {i \in DOMAIN rs : rs[i].aggregateId = id}
           Q == {i \in DOMAIN Append(rs, r) : Append(rs, r)[i].aggregateId = id}
<1>1. /\ Len(rs) \in Nat
      /\ DOMAIN rs = 1 .. Len(rs)
      /\ DOMAIN Append(rs, r) = 1 .. (Len(rs) + 1)
      /\ \A n \in 1 .. Len(rs) : Append(rs, r)[n] = rs[n]
      /\ Append(rs, r)[Len(rs) + 1] = r
  BY AppendProperties, LenProperties
<1>2. /\ IsFiniteSet(P)
      /\ aggregateVersionInRecords(rs, id) = Cardinality(P)
      /\ aggregateVersionInRecords(Append(rs, r), id) = Cardinality(Q)
      /\ Cardinality(P) \in Nat
  BY VersionType DEF aggregateVersionInRecords
<1>3. Len(rs) + 1 \notin P
  BY <1>1
<1> HIDE DEF P, Q
<1>4. CASE r.aggregateId = id
  <2>1. Q = P \cup {Len(rs) + 1}
    BY <1>1, <1>4 DEF P, Q
  <2>2. Cardinality(Q) = Cardinality(P) + 1
    BY <1>2, <1>3, <2>1, FS_AddElement
  <2> QED BY <1>2, <1>4, <2>2
<1>5. CASE r.aggregateId # id
  <2>1. Q = P
    BY <1>1, <1>5 DEF P, Q
  <2> QED BY <1>2, <1>5, <2>1
<1> QED BY <1>4, <1>5

-----------------------------------------------------------------------------
\* A record is numbered by its place in the log and by its place in its stream.
orderlyAt(rs, i) ==
    /\ rs[i].eventStoreSequenceNumber = i
    /\ rs[i].aggregateVersion =
          aggregateVersionInRecords(SubSeq(rs, 1, i), rs[i].aggregateId)

orderlyLog(rs) == \A i \in DOMAIN rs : orderlyAt(rs, i)

\* The beginning of a log is not touched by an append.
LEMMA AppendKeepsBeginning ==
    ASSUME NEW T, NEW rs \in Seq(T), NEW r \in T, NEW i \in 1 .. Len(rs)
    PROVE  SubSeq(Append(rs, r), 1, i) = SubSeq(rs, 1, i)
<1>1. Len(rs) \in Nat /\ 1 \in 1 .. Len(rs)
  BY LenProperties
<1>2. Append(rs, r) = rs \o <<r>> /\ <<r>> \in Seq(T)
  OBVIOUS
<1>3. SubSeq(rs \o <<r>>, 1, i) = SubSeq(rs, 1, i)
  BY <1>1, <1>2, SubSeqOfConcat1
<1> QED BY <1>2, <1>3

(***************************************************************************)
(* An append that numbers its event after the last one of the log and of   *)
(* the stream keeps the log in order.                                      *)
(***************************************************************************)
LEMMA OrderlyAppend ==
    ASSUME NEW T, NEW rs \in Seq(T), NEW r \in T, orderlyLog(rs),
           r.eventStoreSequenceNumber = Len(rs) + 1,
           r.aggregateVersion = aggregateVersionInRecords(rs, r.aggregateId) + 1
    PROVE  orderlyLog(Append(rs, r))
<1> DEFINE qs == Append(rs, r)
<1>1. /\ Len(rs) \in Nat /\ DOMAIN rs = 1 .. Len(rs)
      /\ qs \in Seq(T) /\ Len(qs) = Len(rs) + 1 /\ DOMAIN qs = 1 .. Len(rs) + 1
      /\ \A n \in 1 .. Len(rs) : qs[n] = rs[n]
      /\ qs[Len(rs) + 1] = r
  BY AppendProperties, LenProperties
<1>2. ASSUME NEW i \in 1 .. Len(rs) PROVE orderlyAt(qs, i)
  <2>1. SubSeq(qs, 1, i) = SubSeq(rs, 1, i)
    BY AppendKeepsBeginning
  <2>2. orderlyAt(rs, i) /\ qs[i] = rs[i]
    BY <1>1 DEF orderlyLog
  <2> HIDE DEF qs
  <2> QED BY <2>1, <2>2 DEF orderlyAt
<1>3. orderlyAt(qs, Len(rs) + 1)
  <2>1. SubSeq(qs, 1, Len(rs) + 1) = qs
    <3>1. SubSeq(qs, 1, Len(qs)) = qs
      BY <1>1, SubSeqFull
    <3> QED BY <1>1, <3>1
  <2>2. aggregateVersionInRecords(qs, r.aggregateId)
           = aggregateVersionInRecords(rs, r.aggregateId) + 1
    BY VersionAppend
  <2> HIDE DEF qs
  <2> QED BY <1>1, <2>1, <2>2 DEF orderlyAt
<1> HIDE DEF qs
<1>4. \A i \in DOMAIN qs : orderlyAt(qs, i)
  BY <1>1, <1>2, <1>3
<1> QED BY <1>1, <1>4 DEF orderlyLog, qs

-----------------------------------------------------------------------------
\* Record i of a batch of events that is stored after V and L earlier ones.
batchRecord(id, es, V, L, i) ==
    [aggregateId |-> id, aggregateVersion |-> V + i, eventStoreSequenceNumber |-> L + i,
     event |-> es[i]]

\* The log once the first n events of the batch are stored.
withBatch(rs, id, es, V, n) ==
    rs \o [i \in 1 .. n |-> batchRecord(id, es, V, Len(rs), i)]

\* The records of a batch are of the kind the log is made of.
fitsLog(T, rs, id, es, V) ==
    /\ Len(es) \in Nat
    /\ \A i \in 1 .. Len(es) : batchRecord(id, es, V, Len(rs), i) \in T

addsBatch(T, rs, id, es, V) ==
    /\ rs \o storedEventsForAppend(id, es, V, Len(rs)) = withBatch(rs, id, es, V, Len(es))
    /\ withBatch(rs, id, es, V, 0) = rs
    /\ \A n \in 0 .. Len(es) : /\ withBatch(rs, id, es, V, n) \in Seq(T)
                               /\ Len(withBatch(rs, id, es, V, n)) = Len(rs) + n
    /\ \A n \in 1 .. Len(es) : withBatch(rs, id, es, V, n) =
          Append(withBatch(rs, id, es, V, n - 1), batchRecord(id, es, V, Len(rs), n))

(***************************************************************************)
(* The store adds a batch of events to a log one by one.                   *)
(***************************************************************************)
LEMMA BatchByBatch ==
    ASSUME NEW T, NEW rs \in Seq(T), NEW id, NEW es, NEW V, fitsLog(T, rs, id, es, V)
    PROVE  addsBatch(T, rs, id, es, V)
<1> DEFINE N == Len(es)
<1> DEFINE r(i) == batchRecord(id, es, V, Len(rs), i)
           b(n) == [i \in 1 .. n |-> r(i)]
<1>0. N \in Nat /\ \A i \in 1 .. N : r(i) \in T
  BY DEF fitsLog
<1>1. \A n \in 0 .. N : b(n) \in Seq(T) /\ Len(b(n)) = n
  BY <1>0
<1> HIDE DEF N
<1>2. rs \o storedEventsForAppend(id, es, V, Len(rs)) = withBatch(rs, id, es, V, N)
  BY <1>0 DEF storedEventsForAppend, batchRecord, N, withBatch
<1>3. \A n \in 0 .. N : withBatch(rs, id, es, V, n) = rs \o b(n)
  BY DEF withBatch
<1>4. withBatch(rs, id, es, V, 0) = rs
  <2>1. b(0) = <<>> /\ 0 \in 0 .. N
    BY <1>0
  <2> HIDE DEF b
  <2>2. withBatch(rs, id, es, V, 0) = rs \o <<>>
    BY <1>3, <2>1
  <2> QED BY <2>2, ConcatEmptySeq
<1>5. ASSUME NEW n \in 0 .. N
      PROVE  /\ withBatch(rs, id, es, V, n) \in Seq(T)
             /\ Len(withBatch(rs, id, es, V, n)) = Len(rs) + n
  <2> HIDE DEF b
  <2>1. b(n) \in Seq(T) /\ Len(b(n)) = n
    BY <1>1
  <2> QED BY <1>0, <1>3, <2>1, ConcatProperties
<1>6. ASSUME NEW n \in 1 .. N
      PROVE  withBatch(rs, id, es, V, n) = Append(withBatch(rs, id, es, V, n - 1), r(n))
  <2>1. r(n) \in T /\ n \in 0 .. N /\ n - 1 \in 0 .. N /\ n \in Nat
    BY <1>0
  <2>2. b(n - 1) \in Seq(T) /\ Len(b(n - 1)) = n - 1
    BY <1>1, <2>1
  <2>3. b(n) = Append(b(n - 1), r(n))
    <3>1. \A i \in 1 .. n : b(n)[i] = r(i)
      BY <2>1
    <3>2. \A i \in 1 .. n - 1 : b(n - 1)[i] = r(i)
      BY <2>1
    <3> HIDE DEF b, r
    <3>3. /\ Append(b(n - 1), r(n)) \in Seq(T)
          /\ Len(Append(b(n - 1), r(n))) = n
          /\ \A i \in 1 .. n - 1 : Append(b(n - 1), r(n))[i] = b(n - 1)[i]
          /\ Append(b(n - 1), r(n))[n] = r(n)
      BY <2>1, <2>2, AppendProperties
    <3>4. \A i \in 1 .. n : b(n)[i] = Append(b(n - 1), r(n))[i]
      BY <3>1, <3>2, <3>3
    <3>5. b(n) \in Seq(T) /\ Len(b(n)) = n
      BY <1>1, <2>1
    <3> QED BY <3>3, <3>4, <3>5, SeqEqual
  <2> HIDE DEF b, r
  <2>4. rs \o Append(b(n - 1), r(n)) = Append(rs \o b(n - 1), r(n))
    <3>1. Append(b(n - 1), r(n)) = b(n - 1) \o <<r(n)>> /\ <<r(n)>> \in Seq(T)
      BY <2>1, <2>2, AppendIsConcat
    <3>2. rs \o b(n - 1) \in Seq(T)
      BY <2>2, ConcatProperties
    <3>3. Append(rs \o b(n - 1), r(n)) = (rs \o b(n - 1)) \o <<r(n)>>
      BY <2>1, <3>2, AppendIsConcat
    <3> QED BY <2>2, <3>1, <3>3, ConcatAssociative
  <2> QED BY <1>3, <2>1, <2>3, <2>4
<1> HIDE DEF r, b
<1> QED BY <1>2, <1>4, <1>5, <1>6 DEF addsBatch, r, N
=============================================================================
