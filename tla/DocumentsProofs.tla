-------------------------- MODULE DocumentsProofs --------------------------
(***************************************************************************)
(* What the writers of the collection rely on: ranks stay below the number *)
(* of times there are, and the ids of a token's documents are numbered     *)
(* without gaps.  Sequence lemmas about the queue of URI tasks.            *)
(***************************************************************************)
EXTENDS Documents, SequencesExt, FiniteSetTheorems, SequenceTheorems, TLAPS

\* The ids a token's documents have.
Ids(t) == {<<t, n>> : n \in 1 .. Cardinality(Matching(t))}

\* The parts of DocumentsOK; only finitely many documents are ever written.
IdsOK ==
    \A id \in DOMAIN docs :
        /\ docs[id].token \in Tokens /\ docs[id].uri \in Uris /\ docs[id].owner \in Owners
        /\ \A t : docs[id].token = t => id \in Ids(t)

TimesOK ==
    /\ IsFiniteSet(DOMAIN lastChecked)
    /\ \A x \in DOMAIN lastChecked : lastChecked[x] \in Nat /\ lastChecked[x] < Now

CollectionOK ==
    /\ IdsOK /\ TimesOK
    /\ DOMAIN docs \subseteq DOMAIN lastChecked
    /\ DOMAIN lastChecked \subseteq DOMAIN docs \cup {Batch}

LEMMA CollectionTyped == CollectionOK /\ uriQueue \in Seq(Task) => DocumentsOK
BY DEF CollectionOK, IdsOK, Ids, TimesOK, DocumentsOK

LEMMA NowType == IsFiniteSet(DOMAIN lastChecked) => Now \in Nat
BY FS_CardinalityType DEF Now

-----------------------------------------------------------------------------
(* Ranks.                                                                  *)

\* A time is later than fewer different times than there are entries.
LEMMA CompactBound ==
    ASSUME NEW time, IsFiniteSet(DOMAIN time), \A x \in DOMAIN time : time[x] \in Nat
    PROVE  /\ DOMAIN Compact(time) = DOMAIN time
           /\ \A x \in DOMAIN time :
                 Compact(time)[x] \in Nat /\ Compact(time)[x] < Cardinality(DOMAIN time)
<1>1. ASSUME NEW x \in DOMAIN time
      PROVE  Compact(time)[x] \in Nat /\ Compact(time)[x] < Cardinality(DOMAIN time)
  <2> DEFINE earlier == {z \in DOMAIN time : time[z] < time[x]}
             times == {time[y] : y \in earlier}
             f == [y \in earlier |-> time[y]]
  <2>1. Compact(time)[x] = Cardinality(times)
    BY DEF Compact
  <2>2. earlier \in SUBSET (DOMAIN time \ {x})
    OBVIOUS
  <2>3. /\ IsFiniteSet(DOMAIN time \ {x})
        /\ Cardinality(DOMAIN time \ {x}) = Cardinality(DOMAIN time) - 1
        /\ Cardinality(DOMAIN time) \in Nat
    BY FS_RemoveElement, FS_CardinalityType
  <2>4. f \in Surjection(earlier, times)
    BY DEF Surjection
  <2> HIDE DEF earlier, times, f
  <2>5. IsFiniteSet(earlier) /\ Cardinality(earlier) <= Cardinality(DOMAIN time) - 1
    BY <2>2, <2>3, FS_Subset
  <2>6. IsFiniteSet(times) /\ Cardinality(times) <= Cardinality(earlier)
    BY <2>4, <2>5, FS_Surjection
  <2>7. Cardinality(earlier) \in Nat /\ Cardinality(times) \in Nat
    BY <2>5, <2>6, FS_CardinalityType
  <2> QED
    BY <2>1, <2>3, <2>5, <2>6, <2>7
<1>2. DOMAIN Compact(time) = DOMAIN time
    BY DEF Compact
<1> QED
    BY <1>1, <1>2

\* Any new times that are ranks once compacted.
LEMMA CompactTimes ==
    ASSUME NEW time, IsFiniteSet(DOMAIN time), \A x \in DOMAIN time : time[x] \in Nat,
           lastChecked' = Compact(time)
    PROVE  TimesOK' /\ DOMAIN lastChecked' = DOMAIN time
BY CompactBound DEF TimesOK, Now

\* A document, or Batch, gets a time.
LEMMA StampTimes ==
    ASSUME TimesOK, NEW x, NEW time \in Nat, Stamp(x, time)
    PROVE  TimesOK' /\ DOMAIN lastChecked' = DOMAIN lastChecked \cup {x}
<1> DEFINE new == Put(lastChecked, x, time)
<1>1. /\ DOMAIN new = DOMAIN lastChecked \cup {x}
      /\ \A y \in DOMAIN new : new[y] = time \/ (y \in DOMAIN lastChecked /\ new[y] = lastChecked[y])
    BY DEF Put
<1>2. lastChecked' = Compact(new)
    BY DEF Stamp
<1> HIDE DEF new
<1>3. IsFiniteSet(DOMAIN new) /\ \A y \in DOMAIN new : new[y] \in Nat
    BY <1>1, FS_AddElement DEF TimesOK
<1> QED
    BY <1>1, <1>2, <1>3, CompactTimes

-----------------------------------------------------------------------------
(* Ids.                                                                    *)

LEMMA MatchingFinite ==
    ASSUME CollectionOK, NEW t
    PROVE  IsFiniteSet(Matching(t)) /\ Cardinality(Matching(t)) \in Nat
<1>1. Matching(t) \in SUBSET DOMAIN lastChecked
    BY DEF Matching, CollectionOK
<1> QED
    BY <1>1, FS_Subset, FS_CardinalityType DEF CollectionOK, TimesOK

\* The next id of a token is no document's yet.
LEMMA NextIdIsNew ==
    ASSUME CollectionOK, NEW t
    PROVE  NextId(t) \notin DOMAIN docs
<1> SUFFICES ASSUME NextId(t) \in DOMAIN docs
             PROVE  FALSE
    OBVIOUS
<1> DEFINE k == Cardinality(Matching(t))
<1>1. NextId(t) = <<t, k + 1>>
    BY DEF NextId
<1>2. PICK s, n : s = docs[NextId(t)].token /\ n \in 1 .. Cardinality(Matching(s)) /\ NextId(t) = <<s, n>>
    BY DEF CollectionOK, IdsOK, Ids
<1>3. s = t /\ n = k + 1
    BY <1>1, <1>2
<1>4. n \in 1 .. k
    BY <1>2, <1>3
<1> QED
    BY <1>3, <1>4, MatchingFinite

\* A document is written over another of its token, or with the next id.
LEMMA DocumentPut ==
    ASSUME CollectionOK, NEW t \in Tokens, NEW id, id \in Matching(t) \/ id = NextId(t),
           DOMAIN docs' = DOMAIN docs \cup {id},
           docs'[id].token = t, docs'[id].uri \in Uris, docs'[id].owner \in Owners,
           \A x \in DOMAIN docs : x # id => docs'[x] = docs[x]
    PROVE  IdsOK'
<1>1. \A x \in DOMAIN docs : docs'[x].token = docs[x].token
    BY NextIdIsNew DEF Matching
<1>2. Matching(t)' = Matching(t) \cup {id}
    BY <1>1 DEF Matching
<1>3. \A s : s # t => Matching(s)' = Matching(s)
    BY <1>1 DEF Matching
<1>4. /\ Cardinality(Matching(t)) \in Nat /\ Cardinality(Matching(t)') \in Nat
      /\ Cardinality(Matching(t)') =
            IF id \in Matching(t) THEN Cardinality(Matching(t)) ELSE Cardinality(Matching(t)) + 1
    BY <1>2, MatchingFinite, FS_AddElement, FS_CardinalityType
<1>5. ASSUME NEW s
      PROVE  Ids(s) \subseteq Ids(s)'
  <2>1. CASE s = t
    <3>1. 1 .. Cardinality(Matching(t)) \subseteq 1 .. Cardinality(Matching(t)')
        BY <1>4
    <3> QED
        BY <2>1, <3>1 DEF Ids
  <2>2. CASE s # t
    BY <1>3, <2>2 DEF Ids
  <2> QED
    BY <2>1, <2>2
<1>6. ASSUME NEW x \in DOMAIN docs
      PROVE  \A s : docs'[x].token = s => x \in Ids(s)'
    BY <1>1, <1>5 DEF CollectionOK, IdsOK
<1>7. id \notin DOMAIN docs => id \in Ids(t)'
  <2>1. id \notin DOMAIN docs => /\ id = <<t, Cardinality(Matching(t)) + 1>>
                                 /\ Cardinality(Matching(t)') = Cardinality(Matching(t)) + 1
    BY <1>4 DEF Matching, NextId
  <2> QED
    BY <1>4, <2>1 DEF Ids
<1>8. \A x \in DOMAIN docs :
        docs'[x].token \in Tokens /\ docs'[x].uri \in Uris /\ docs'[x].owner \in Owners
  <2>1. \A x \in DOMAIN docs :
          docs[x].token \in Tokens /\ docs[x].uri \in Uris /\ docs[x].owner \in Owners
    BY DEF CollectionOK, IdsOK
  <2> QED
    BY <2>1
<1> QED
    BY <1>6, <1>7, <1>8 DEF IdsOK

\* With the documents as they were, only the times count.
LEMMA CollectionRetimed ==
    ASSUME CollectionOK, UNCHANGED docs, TimesOK',
           DOMAIN docs \subseteq DOMAIN lastChecked', DOMAIN lastChecked' \subseteq DOMAIN docs \cup {Batch}
    PROVE  CollectionOK' /\ \A t : Matching(t)' = Matching(t)
<1>1. \A t : Matching(t)' = Matching(t)
    BY DEF Matching
<1>2. IdsOK'
    BY <1>1 DEF CollectionOK, IdsOK, Ids
<1> QED
    BY <1>1, <1>2 DEF CollectionOK

LEMMA StampCollection ==
    ASSUME CollectionOK, UNCHANGED docs, NEW x \in DOMAIN docs \cup {Batch}, NEW time \in Nat, Stamp(x, time)
    PROVE  CollectionOK' /\ DOMAIN lastChecked' = DOMAIN lastChecked \cup {x}
<1>1. TimesOK' /\ DOMAIN lastChecked' = DOMAIN lastChecked \cup {x}
    BY StampTimes DEF CollectionOK
<1> QED
    BY <1>1, CollectionRetimed DEF CollectionOK

-----------------------------------------------------------------------------
(* The queue.                                                              *)

\* A token has a task in the queue.
InQueue(t) == \E i \in DOMAIN uriQueue : uriQueue[i].token = t

LEMMA AppendKeeps ==
    ASSUME uriQueue \in Seq(Task), NEW x \in Task, uriQueue' = Append(uriQueue, x)
    PROVE  /\ uriQueue' \in Seq(Task)
           /\ \A t : InQueue(t)' <=> InQueue(t) \/ t = x.token
<1> DEFINE n == Len(uriQueue)
<1>1. /\ uriQueue' \in Seq(Task) /\ n \in Nat /\ Len(uriQueue') = n + 1
      /\ \A i \in 1 .. n : uriQueue'[i] = uriQueue[i]
      /\ uriQueue'[n + 1] = x
      /\ DOMAIN uriQueue = 1 .. n /\ DOMAIN uriQueue' = 1 .. n + 1
    BY AppendProperties, LenProperties
<1> HIDE DEF n
<1> QED
    BY <1>1 DEF InQueue

LEMMA PrependKeeps ==
    ASSUME uriQueue \in Seq(Task), NEW x \in Task, uriQueue' = <<x>> \o uriQueue
    PROVE  /\ uriQueue' \in Seq(Task)
           /\ \A t : InQueue(t)' <=> InQueue(t) \/ t = x.token
<1> DEFINE n == Len(uriQueue)
<1>1. <<x>> \in Seq(Task) /\ Len(<<x>>) = 1 /\ <<x>>[1] = x
    OBVIOUS
<1>2. /\ uriQueue' \in Seq(Task) /\ n \in Nat /\ Len(uriQueue') = n + 1
      /\ \A i \in 1 .. n + 1 : uriQueue'[i] = IF i <= 1 THEN <<x>>[i] ELSE uriQueue[i - 1]
      /\ DOMAIN uriQueue = 1 .. n /\ DOMAIN uriQueue' = 1 .. n + 1
    BY <1>1, ConcatProperties, LenProperties
<1> HIDE DEF n
<1>3. uriQueue'[1] = x /\ \A i \in 1 .. n : uriQueue'[i + 1] = uriQueue[i] /\ i + 1 \in 1 .. n + 1
    BY <1>1, <1>2
<1>4. \A i \in 2 .. n + 1 : uriQueue'[i] = uriQueue[i - 1] /\ i - 1 \in 1 .. n
    BY <1>2
<1>5. \A i \in 1 .. n + 1 : i = 1 \/ i \in 2 .. n + 1
    BY <1>2
<1>6. ASSUME NEW t
      PROVE  InQueue(t)' <=> InQueue(t) \/ t = x.token
  <2>1. InQueue(t) => InQueue(t)'
    BY <1>2, <1>3 DEF InQueue
  <2>2. t = x.token => InQueue(t)'
    BY <1>2, <1>3 DEF InQueue
  <2>3. ASSUME NEW i \in 1 .. n + 1, uriQueue'[i].token = t
        PROVE  InQueue(t) \/ t = x.token
    BY <1>2, <1>3, <1>4, <1>5, <2>3 DEF InQueue
  <2> QED
    BY <1>2, <2>1, <2>2, <2>3 DEF InQueue
<1> QED
    BY <1>2, <1>6

LEMMA RemoveAtKeeps ==
    ASSUME uriQueue \in Seq(Task), NEW k \in DOMAIN uriQueue, uriQueue' = RemoveAt(uriQueue, k)
    PROVE  /\ uriQueue' \in Seq(Task)
           /\ \A t : InQueue(t) => InQueue(t)' \/ t = uriQueue[k].token
<1> DEFINE n == Len(uriQueue)
           front == SubSeq(uriQueue, 1, k - 1)
           back == SubSeq(uriQueue, k + 1, n)
<1>1. n \in Nat /\ DOMAIN uriQueue = 1 .. n /\ \A i \in 1 .. n : uriQueue[i] \in Task
    BY LenProperties, ElementOfSeq
<1>2. /\ front \in Seq(Task) /\ Len(front) = k - 1
      /\ \A i \in 1 .. k - 1 : front[i] = uriQueue[i]
    BY <1>1, SubSeqProperties
<1>3. /\ back \in Seq(Task) /\ Len(back) = n - k
      /\ \A i \in 1 .. n - k : back[i] = uriQueue[k + i]
  <2>1. \A i \in k + 1 .. n : uriQueue[i] \in Task
    BY <1>1
  <2>2. /\ back \in Seq(Task) /\ Len(back) = IF k + 1 <= n THEN n - (k + 1) + 1 ELSE 0
        /\ \A i \in 1 .. n - (k + 1) + 1 : back[i] = uriQueue[k + 1 + i - 1]
    BY <1>1, <2>1, SubSeqProperties
  <2>3. Len(back) = n - k
    BY <1>1, <2>2
  <2>4. ASSUME NEW i \in 1 .. n - k
        PROVE  back[i] = uriQueue[k + i]
    <3>1. i \in 1 .. n - (k + 1) + 1 /\ k + 1 + i - 1 = k + i
        BY <1>1
    <3>2. back[i] = uriQueue[k + 1 + i - 1]
        BY <2>2, <3>1
    <3> QED
        BY <3>1, <3>2
  <2> HIDE DEF back
  <2> QED
    BY <2>2, <2>3, <2>4
<1>4. uriQueue' = front \o back
    BY DEF RemoveAt
<1> HIDE DEF n, front, back
<1>5. /\ uriQueue' \in Seq(Task) /\ Len(uriQueue') = n - 1
      /\ \A i \in 1 .. n - 1 : uriQueue'[i] = IF i <= k - 1 THEN front[i] ELSE back[i - (k - 1)]
  <2>1. /\ front \o back \in Seq(Task)
        /\ Len(front \o back) = Len(front) + Len(back)
        /\ \A i \in 1 .. Len(front) + Len(back) : (front \o back)[i] =
              IF i <= Len(front) THEN front[i] ELSE back[i - Len(front)]
    BY <1>2, <1>3, ConcatProperties
  <2>2. Len(front) = k - 1 /\ Len(front) + Len(back) = n - 1
    BY <1>1, <1>2, <1>3
  <2> QED
    BY <1>4, <2>1, <2>2
<1>6. DOMAIN uriQueue' = 1 .. n - 1
    BY <1>5, LenProperties
<1>7. \A i \in 1 .. k - 1 : i \in 1 .. n - 1 /\ uriQueue'[i] = uriQueue[i]
    BY <1>1, <1>2, <1>5
<1>8. ASSUME NEW i \in k + 1 .. n
      PROVE  i - 1 \in 1 .. n - 1 /\ uriQueue'[i - 1] = uriQueue[i]
  <2>1. i - 1 \in 1 .. n - 1 /\ ~(i - 1 <= k - 1) /\ i - k \in 1 .. n - k
        /\ i - 1 - (k - 1) = i - k /\ k + (i - k) = i
    BY <1>1
  <2>2. uriQueue'[i - 1] = back[i - 1 - (k - 1)]
    BY <1>5, <2>1
  <2> QED
    BY <1>3, <2>1, <2>2
<1>9. ASSUME NEW t, NEW i \in DOMAIN uriQueue, uriQueue[i].token = t, t # uriQueue[k].token
      PROVE  InQueue(t)'
  <2>1. i \in 1 .. k - 1 \/ i \in k + 1 .. n
    BY <1>1, <1>9
  <2>2. CASE i \in 1 .. k - 1
    BY <1>6, <1>7, <1>9, <2>2 DEF InQueue
  <2>3. CASE i \in k + 1 .. n
    BY <1>6, <1>8, <1>9, <2>3 DEF InQueue
  <2> QED
    BY <2>1, <2>2, <2>3
<1> QED
    BY <1>5, <1>9 DEF InQueue
=============================================================================
