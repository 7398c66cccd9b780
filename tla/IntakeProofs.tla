----------------------------- MODULE IntakeProofs -----------------------------
(***************************************************************************)
(* Proofs about Intake, for any URLs and any number of sessions: the       *)
(* registry's lookups and the job table's index promise together one job   *)
(* per page, wherever registrations do not overlap.                        *)
(*                                                                         *)
(* First those about JobEnqueue, for callers that enqueue one job per      *)
(* transaction, as the crawl-jobs route does: any number of sessions and   *)
(* keys, whatever the order of selects, inserts, conflicts and commits.    *)
(* Then the canonical form: it is the same for two URLs exactly if they    *)
(* reach one page.                                                         *)
(***************************************************************************)
EXTENDS Intake, SequenceTheorems, FiniteSetTheorems, WellFoundedInduction, TLAPS

\* Every caller enqueues one key per transaction.
OneKeyEach == \A batch \in Batches : Len(batch) = 1

LEMMA BatchTail ==
  ASSUME NEW batch \in Seq(Keys), batch # <<>>, Len(batch) <= 1
  PROVE  /\ Head(batch) \in Keys
         /\ Tail(batch) \in Seq(Keys)
         /\ Tail(batch) = <<>>
         /\ Len(Tail(batch)) <= 1
<1>1. Len(batch) \in Nat \ {0}
  BY EmptySeq, Zenon
<1>0. \A n \in Nat \ {0} : n <= 1 => n = 1
  OBVIOUS
<1>2. Len(batch) = 1
  BY <1>0, <1>1, Zenon
<1>3. Head(batch) \in Keys /\ Tail(batch) \in Seq(Keys) /\ Len(Tail(batch)) = Len(batch) - 1
  BY HeadTailProperties, Zenon
<1>4. Len(Tail(batch)) = 0
  BY <1>2, <1>3
<1>5. 0 \notin Nat \ {0} /\ 0 <= 1
  OBVIOUS
<1>6. Tail(batch) = <<>>
  BY <1>3, <1>4, <1>5, EmptySeq, Zenon
<1> QED BY <1>3, <1>4, <1>5, <1>6, Zenon

LEMMA InitInv == Init => EnqueueInv
BY DEF Init, EnqueueInv, TypeOK, OneJobPerKey, PendingInv, AnswerInv, CreatedMeansStored

\* A step of session x alone that stores nothing keeps the invariant if what
\* the session now holds is a caller whose answers and inserts agree and
\* whose inserts are new.
LEMMA SessionStep ==
  ASSUME EnqueueInv, NEW x \in Sessions, NEW caller \in Caller \cup {None},
         ses' = [ses EXCEPT ![x] = caller],
         UNCHANGED <<stored, told>>,
         caller # None =>
           /\ caller.created = caller.pending
           /\ Len(caller.batch) <= 1
           /\ caller.batch # <<>> => caller.pending = {}
           /\ \A k \in caller.pending :
                /\ stored[k] = 0
                /\ \A y \in Sessions \ {x} : ses[y] # None => k \notin ses[y].pending
  PROVE  EnqueueInv'
<1> USE DEF EnqueueInv
<1>1. TypeOK'
  BY DEF TypeOK
<1>2. OneJobPerKey' /\ CreatedMeansStored'
  BY DEF OneJobPerKey, CreatedMeansStored
<1>3. \A y \in Sessions : ses'[y] = IF y = x THEN caller ELSE ses[y]
  BY DEF TypeOK
<1>4. PendingInv'
  BY <1>3 DEF PendingInv
<1>5. AnswerInv'
  BY <1>3 DEF AnswerInv
<1> QED BY <1>1, <1>2, <1>4, <1>5

LEMMA BeginPreserves ==
  ASSUME EnqueueInv, OneKeyEach, NEW x \in Sessions, NEW batch \in Batches, Begin(x, batch)
  PROVE  EnqueueInv'
<1> DEFINE caller == [batch |-> batch, missing |-> FALSE, pending |-> {}, created |-> {}]
<1>1. batch \in Seq(Keys)
  BY BatchAssumption, Zenon
<1>2. Len(batch) = 1
  BY DEF OneKeyEach
<1>3. Len(batch) <= 1
  BY <1>2
<1>4. caller \in Caller
  BY <1>1 DEF Caller
<1>5. ses' = [ses EXCEPT ![x] = caller] /\ UNCHANGED <<stored, told>>
  BY DEF Begin
<1> QED BY <1>3, <1>4, <1>5, SessionStep

\* What the invariant says of a session that is about to enqueue its key.
LEMMA EnqueuingFacts ==
  ASSUME EnqueueInv, NEW x \in Sessions, Enqueuing(x)
  PROVE  /\ ses[x] \in Caller
         /\ ses[x] # None
         /\ ses[x].pending = {}
         /\ ses[x].created = {}
         /\ Head(ses[x].batch) \in Keys
         /\ Tail(ses[x].batch) \in Seq(Keys)
         /\ Tail(ses[x].batch) = <<>>
         /\ Len(Tail(ses[x].batch)) <= 1
         /\ ses[x].batch # <<>> /\ Len(ses[x].batch) <= 1
<1>1. ses[x] \in Caller /\ ses[x] # None /\ ses[x].batch # <<>>
  BY DEF EnqueueInv, TypeOK, Enqueuing
<1>2. Len(ses[x].batch) <= 1 /\ ses[x].pending = {} /\ ses[x].created = {}
  BY <1>1 DEF EnqueueInv, AnswerInv
<1>3. ses[x].batch \in Seq(Keys)
  BY <1>1 DEF Caller
<1> QED BY <1>1, <1>2, <1>3, BatchTail

LEMMA SelectPreserves ==
  ASSUME EnqueueInv, NEW x \in Sessions, Select(x)
  PROVE  EnqueueInv'
<1> DEFINE found == [ses[x] EXCEPT !.batch = Tail(ses[x].batch)]
           missed == [ses[x] EXCEPT !.missing = TRUE]
<1>1. Enqueuing(x) /\ UNCHANGED <<stored, told>>
  BY DEF Select
<1>2. ses' = [ses EXCEPT ![x] = found] \/ ses' = [ses EXCEPT ![x] = missed]
  BY <1>1 DEF Select, Enqueuing, EnqueueInv, TypeOK
<1>3. found \in Caller /\ missed \in Caller
  BY <1>1, EnqueuingFacts DEF Caller
<1>4. /\ found.created = {} /\ found.pending = {} /\ Len(found.batch) <= 1
      /\ missed.created = {} /\ missed.pending = {} /\ Len(missed.batch) <= 1
  BY <1>1, EnqueuingFacts DEF Caller
<1>5. CASE ses' = [ses EXCEPT ![x] = found]
  <2> HIDE DEF found
  <2> QED BY <1>1, <1>3, <1>4, <1>5, SessionStep
<1>6. CASE ses' = [ses EXCEPT ![x] = missed]
  <2> HIDE DEF missed
  <2> QED BY <1>1, <1>3, <1>4, <1>6, SessionStep
<1> QED BY <1>2, <1>5, <1>6

LEMMA InsertPreserves ==
  ASSUME EnqueueInv, NEW x \in Sessions, Insert(x)
  PROVE  EnqueueInv'
<1> DEFINE k == Head(ses[x].batch)
           caller == [batch |-> Tail(ses[x].batch), missing |-> FALSE,
                      pending |-> {k}, created |-> {k}]
<1>1. Enqueuing(x) /\ UNCHANGED <<stored, told>> /\ stored[k] = 0
  BY DEF Insert, Inserting
<1>2. \A y \in Sessions \ {x} : ses[y] # None => k \notin ses[y].pending
  BY DEF Insert, Inserting
<1>3. ses' = [ses EXCEPT ![x] = caller]
  BY <1>1, EnqueuingFacts DEF Insert, EnqueueInv, TypeOK
<1>4. caller \in Caller /\ Len(caller.batch) <= 1 /\ caller.batch = <<>>
  BY <1>1, EnqueuingFacts DEF Caller
<1>5. caller.created = {k} /\ caller.pending = {k}
  OBVIOUS
<1> HIDE DEF caller, k
<1> QED BY <1>1, <1>2, <1>3, <1>4, <1>5, SessionStep

LEMMA ConflictPreserves ==
  ASSUME EnqueueInv, NEW x \in Sessions, InsertConflict(x)
  PROVE  EnqueueInv'
<1> DEFINE caller == [batch |-> Tail(ses[x].batch), missing |-> FALSE,
                      pending |-> {}, created |-> {}]
<1>1. Enqueuing(x) /\ UNCHANGED <<stored, told>>
  BY DEF InsertConflict, Inserting
<1>2. ses' = [ses EXCEPT ![x] = caller]
  BY <1>1, EnqueuingFacts DEF InsertConflict, EnqueueInv, TypeOK
<1>3. caller \in Caller /\ Len(caller.batch) <= 1
  BY <1>1, EnqueuingFacts DEF Caller
<1>4. caller.created = {} /\ caller.pending = {}
  OBVIOUS
<1> HIDE DEF caller
<1> QED BY <1>1, <1>2, <1>3, <1>4, SessionStep

LEMMA CommitPreserves ==
  ASSUME EnqueueInv, NEW x \in Sessions, Commit(x)
  PROVE  EnqueueInv'
<1> DEFINE mine == ses[x].pending
<1>1. /\ ses[x] \in Caller /\ ses[x] # None
      /\ mine \subseteq Keys /\ ses[x].created = mine
      /\ \A k \in mine : stored[k] = 0
  BY DEF Commit, EnqueueInv, TypeOK, AnswerInv, PendingInv, Caller
<1>2. /\ stored' = [k \in Keys |-> IF k \in mine THEN stored[k] + 1 ELSE stored[k]]
      /\ told' = [k \in Keys |-> IF k \in mine THEN told[k] + 1 ELSE told[k]]
      /\ \A y \in Sessions : ses'[y] = IF y = x THEN None ELSE ses[y]
  BY <1>1 DEF Commit, EnqueueInv, TypeOK
<1>3. TypeOK'
  <2>1. ses' \in [Sessions -> Caller \cup {None}]
    BY DEF Commit, EnqueueInv, TypeOK
  <2>2. stored' \in [Keys -> Nat] /\ told' \in [Keys -> Nat]
    BY <1>2 DEF EnqueueInv, TypeOK
  <2> QED BY <2>1, <2>2 DEF TypeOK
<1>4. OneJobPerKey'
  BY <1>1, <1>2 DEF EnqueueInv, OneJobPerKey
<1>5. CreatedMeansStored'
  BY <1>2 DEF EnqueueInv, CreatedMeansStored
<1>6. PendingInv'
  <2> SUFFICES ASSUME NEW y \in Sessions, ses'[y] # None, NEW k \in ses'[y].pending
               PROVE  /\ stored'[k] = 0
                      /\ \A z \in Sessions \ {y} : ses'[z] # None => k \notin ses'[z].pending
    BY DEF PendingInv
  <2>1. y # x /\ ses'[y] = ses[y] /\ ses[y] \in Caller
    BY <1>2 DEF EnqueueInv, TypeOK
  <2>2. k \in Keys /\ k \notin mine /\ stored[k] = 0
    BY <1>1, <2>1 DEF EnqueueInv, PendingInv, Caller
  <2>3. stored'[k] = 0
    BY <1>2, <2>2
  <2>4. \A z \in Sessions \ {y} : ses'[z] # None => k \notin ses'[z].pending
    BY <1>2, <2>1 DEF EnqueueInv, PendingInv
  <2> QED BY <2>3, <2>4
<1>7. AnswerInv'
  BY <1>2 DEF EnqueueInv, AnswerInv
<1> QED BY <1>3, <1>4, <1>5, <1>6, <1>7 DEF EnqueueInv

LEMMA NextPreserves ==
  ASSUME EnqueueInv, OneKeyEach, [Next]_vars
  PROVE  EnqueueInv'
<1>1. CASE UNCHANGED vars
  BY <1>1 DEF vars, EnqueueInv, TypeOK, OneJobPerKey, PendingInv, AnswerInv, CreatedMeansStored
<1>2. ASSUME NEW x \in Sessions, Abort(x)
      PROVE  EnqueueInv'
  BY <1>2, SessionStep DEF Abort
<1> QED BY <1>1, <1>2, BeginPreserves, SelectPreserves, InsertPreserves, ConflictPreserves,
           CommitPreserves DEF Next

(***************************************************************************)
(* The theorems                                                            *)
(***************************************************************************)
\* What the open transactions hold is new and is what their callers were
\* told.
THEOREM EnqueueInvariant ==
  ASSUME OneKeyEach
  PROVE  Spec => []EnqueueInv
<1>1. EnqueueInv /\ [Next]_vars => EnqueueInv'
  BY NextPreserves
<1> QED BY InitInv, <1>1, PTL DEF Spec

\* However many calls of the crawl-jobs route race, a key has at most one job.
THEOREM OneJob ==
  ASSUME OneKeyEach
  PROVE  Spec => []OneJobPerKey
<1>1. EnqueueInv => OneJobPerKey
  BY DEF EnqueueInv
<1> QED BY <1>1, EnqueueInvariant, PTL

\* A call of the crawl-jobs route that is told created=True and commits has
\* stored the job, and no other call is told so.
THEOREM CreatedIsStored ==
  ASSUME OneKeyEach
  PROVE  Spec => []CreatedMeansStored
<1>1. EnqueueInv => CreatedMeansStored
  BY DEF EnqueueInv
<1> QED BY <1>1, EnqueueInvariant, PTL

(***************************************************************************)
(* The canonical form of a URL.  Its parameters are sorted: each bag has   *)
(* one ascending order.                                                    *)
(***************************************************************************)
\* A set of numbers has a least one.
LEMMA LeastNumber ==
  ASSUME NEW T, T \subseteq Nat, T # {}
  PROVE  \E m \in T : \A k \in T : m <= k
<1> DEFINE R == {ss \in Nat \X Nat : ss[1] < ss[2]}
<1>1. IsWellFoundedOn(R, Nat)
  BY NatLessThanWellFounded DEF OpToRel
<1>2. PICK m \in T : \A k \in T : ~ (<<k, m>> \in R)
  <2> HIDE DEF R
  <2> QED BY <1>1, WFMin
<1>3. \A k \in T : m \in Nat /\ k \in Nat /\ ~(k < m)
  BY <1>2
<1> QED BY <1>3

\* A set that has 0 and every successor has every number.
LEMMA SetInduction ==
  ASSUME NEW S, 0 \in S, \A n \in Nat : n \in S => n + 1 \in S
  PROVE  Nat \subseteq S
<1> SUFFICES ASSUME Nat \ S # {} PROVE FALSE
  OBVIOUS
<1>1. PICK m \in Nat \ S : \A k \in Nat \ S : m <= k
  <2>1. Nat \ S \subseteq Nat
    OBVIOUS
  <2> QED BY <2>1, LeastNumber
<1>2. m # 0 /\ m - 1 \in Nat /\ (m - 1) + 1 = m /\ ~(m <= m - 1)
  BY <1>1
<1> QED BY <1>1, <1>2

\* How often x occurs in the sequence s.
Places(s, x) == {i \in DOMAIN s : s[i] = x}
Count(s, x) == Cardinality(Places(s, x))

LEMMA CountType ==
  ASSUME NEW s, IsFiniteSet(DOMAIN s), NEW x
  PROVE  /\ IsFiniteSet(Places(s, x)) /\ Count(s, x) \in Nat
         /\ Count(s, x) = 0 <=> \A i \in DOMAIN s : s[i] # x
<1>1. Places(s, x) \subseteq DOMAIN s
  BY DEF Places
<1>2. IsFiniteSet(Places(s, x))
  BY <1>1, FS_Subset
<1>3. Count(s, x) \in Nat /\ (Count(s, x) = 0 <=> Places(s, x) = {})
  BY <1>2, FS_CardinalityType, FS_EmptySet DEF Count
<1> QED BY <1>2, <1>3 DEF Places

LEMMA RegistryCardinality == \A S : Registry!Cardinality(S) = Cardinality(S)
BY DEF Registry!Cardinality, Cardinality, Registry!IsFiniteSet, IsFiniteSet

\* Two sequences have the same bag exactly if each value occurs as often in both.
LEMMA BagCounts ==
  ASSUME NEW s, NEW t, IsFiniteSet(DOMAIN s), IsFiniteSet(DOMAIN t)
  PROVE  Registry!ToBag(s) = Registry!ToBag(t) <=> \A x : Count(s, x) = Count(t, x)
<1>1. \A q : Registry!ToBag(q) = [x \in Registry!Range(q) |-> Count(q, x)]
  BY RegistryCardinality DEF Registry!ToBag, Count, Places
<1>2. \A x : x \in Registry!Range(s) <=> Count(s, x) # 0
  BY CountType DEF Registry!Range
<1>3. \A x : x \in Registry!Range(t) <=> Count(t, x) # 0
  BY CountType DEF Registry!Range
<1>4. ASSUME Registry!ToBag(s) = Registry!ToBag(t), NEW x PROVE Count(s, x) = Count(t, x)
  <2>1. Registry!Range(s) = Registry!Range(t)
    BY <1>1, <1>4
  <2>2. CASE x \in Registry!Range(s)
    BY <1>1, <1>4, <2>1, <2>2
  <2>3. CASE x \notin Registry!Range(s)
    BY <1>2, <1>3, <2>1, <2>3
  <2> QED BY <2>2, <2>3
<1>5. ASSUME \A x : Count(s, x) = Count(t, x) PROVE Registry!ToBag(s) = Registry!ToBag(t)
  <2>1. Registry!Range(s) = Registry!Range(t)
    BY <1>2, <1>3, <1>5
  <2> QED BY <1>1, <1>5, <2>1
<1> QED BY <1>4, <1>5

LEMMA SeqDomain ==
  ASSUME NEW s \in Seq(Nat)
  PROVE  /\ Len(s) \in Nat /\ DOMAIN s = 1..Len(s) /\ IsFiniteSet(DOMAIN s)
         /\ \A i \in DOMAIN s : s[i] \in Nat
<1>1. Len(s) \in Nat /\ DOMAIN s = 1..Len(s) /\ s \in [1..Len(s) -> Nat]
  BY LenProperties
<1> QED BY <1>1, FS_Interval

\* Without its last element a sequence has that value once less.
Front(s) == [i \in 1..(Len(s) - 1) |-> s[i]]

LEMMA FrontCount ==
  ASSUME NEW s \in Seq(Nat), Len(s) # 0
  PROVE  /\ Front(s) \in Seq(Nat) /\ Len(Front(s)) = Len(s) - 1
         /\ \A x : Count(Front(s), x) = IF s[Len(s)] = x THEN Count(s, x) - 1 ELSE Count(s, x)
<1> DEFINE n == Len(s)
<1>1. n \in Nat \ {0} /\ n - 1 \in Nat /\ DOMAIN s = 1..n /\ \A i \in 1..n : s[i] \in Nat
  BY SeqDomain
<1>2. Front(s) \in [1..(n - 1) -> Nat]
  BY <1>1 DEF Front
<1>3. Front(s) \in Seq(Nat) /\ Len(Front(s)) = n - 1 /\ DOMAIN Front(s) = 1..(n - 1)
  <2>1. Front(s) \in Seq(Nat)
    BY <1>1, <1>2, IsASeq
  <2> QED BY <2>1, LenProperties DEF Front
<1>4. ASSUME NEW x
      PROVE  Count(Front(s), x) = IF s[n] = x THEN Count(s, x) - 1 ELSE Count(s, x)
  <2>1. IsFiniteSet(Places(s, x))
    BY SeqDomain, CountType
  <2>2. Places(Front(s), x) = Places(s, x) \ {n}
    BY <1>1, <1>3 DEF Places, Front
  <2>3. n \in Places(s, x) <=> s[n] = x
    BY <1>1 DEF Places
  <2> HIDE DEF n
  <2> QED BY <2>1, <2>2, <2>3, FS_RemoveElement DEF Count
<1> QED BY <1>3, <1>4

\* An ascending sequence ends in its largest element.
LEMMA LastIsLargest ==
  ASSUME NEW s \in Seq(Nat), Registry!Ascending(s), NEW i \in DOMAIN s
  PROVE  Len(s) \in DOMAIN s /\ s[i] <= s[Len(s)]
<1>1. Len(s) \in DOMAIN s /\ s[i] \in Nat /\ (i < Len(s) \/ i = Len(s))
  BY SeqDomain
<1>2. CASE i < Len(s)
  <2>1. \A k, j \in DOMAIN s : k < j => s[k] <= s[j]
    BY DEF Registry!Ascending
  <2> QED BY <1>1, <1>2, <2>1
<1> QED BY <1>1, <1>2

LEMMA FrontAscends ==
  ASSUME NEW s \in Seq(Nat), Len(s) # 0, Registry!Ascending(s)
  PROVE  Registry!Ascending(Front(s))
<1>1. DOMAIN Front(s) = 1..(Len(s) - 1) /\ \A i \in 1..(Len(s) - 1) : Front(s)[i] = s[i]
  BY DEF Front
<1>2. 1..(Len(s) - 1) \subseteq DOMAIN s
  BY SeqDomain
<1> QED BY <1>1, <1>2 DEF Registry!Ascending

\* Sequences with the same counts have the same values.
LEMMA SameValues ==
  ASSUME NEW s \in Seq(Nat), NEW t \in Seq(Nat), \A x : Count(s, x) = Count(t, x),
         NEW i \in DOMAIN s
  PROVE  \E j \in DOMAIN t : t[j] = s[i]
<1>1. Count(s, s[i]) # 0
  BY SeqDomain, CountType
<1>2. Count(t, s[i]) # 0
  BY <1>1
<1> QED BY <1>2, SeqDomain, CountType

\* A bag has one ascending order at most.
LEMMA OneOrder ==
  ASSUME NEW s \in Seq(Nat), NEW t \in Seq(Nat), Registry!Ascending(s), Registry!Ascending(t),
         \A x : Count(s, x) = Count(t, x)
  PROVE  s = t
<1> DEFINE Alike(a, b) == /\ Registry!Ascending(a) /\ Registry!Ascending(b)
                          /\ \A x : Count(a, x) = Count(b, x)
           S == {n \in Nat : \A a, b \in Seq(Nat) : Len(a) = n /\ Alike(a, b) => a = b}
<1>2. 0 \in S
  <2> SUFFICES ASSUME NEW a \in Seq(Nat), NEW b \in Seq(Nat), Len(a) = 0, Alike(a, b)
               PROVE  a = b
    OBVIOUS
  <2>1. 1 \notin DOMAIN b
    <3>1. \A x : Count(b, x) = Count(a, x)
      OBVIOUS
    <3>2. 1 \in DOMAIN b => \E i \in DOMAIN a : a[i] = b[1]
      BY <3>1, SameValues
    <3> QED BY <3>2, SeqDomain
  <2>2. Len(b) = 0
    <3>1. Len(b) \in Nat /\ 1 \notin 1..Len(b)
      BY <2>1, SeqDomain
    <3> QED BY <3>1
  <2> QED BY <2>2, EmptySeq
<1>3. ASSUME NEW n \in Nat, n \in S PROVE n + 1 \in S
  <2> SUFFICES ASSUME NEW a \in Seq(Nat), NEW b \in Seq(Nat), Len(a) = n + 1, Alike(a, b)
               PROVE  a = b
    OBVIOUS
  <2>1. /\ DOMAIN a = 1..(n + 1) /\ Len(a) # 0 /\ Len(a) - 1 = n
        /\ DOMAIN b = 1..Len(b) /\ Len(b) \in Nat
        /\ \A i \in DOMAIN a : a[i] \in Nat
        /\ \A i \in DOMAIN b : b[i] \in Nat
    BY SeqDomain
  <2>2. Len(b) # 0
    <3>1. n + 1 \in DOMAIN a
      BY <2>1
    <3>2. \E j \in DOMAIN b : b[j] = a[n + 1]
      BY <3>1, SameValues
    <3> QED BY <2>1, <3>2
  <2> DEFINE m == Len(b)
  <2>3. a[n + 1] = b[m]
    <3>1. n + 1 \in DOMAIN a /\ m \in DOMAIN b
      BY <2>1, <2>2
    <3>2. PICK j \in DOMAIN b : b[j] = a[n + 1]
      BY <3>1, SameValues
    <3>3. PICK i \in DOMAIN a : a[i] = b[m]
      <4>1. \A x : Count(b, x) = Count(a, x)
        OBVIOUS
      <4> QED BY <3>1, <4>1, SameValues
    <3>4. b[j] <= b[m] /\ a[i] <= a[n + 1]
      BY LastIsLargest
    <3>5. a[n + 1] \in Nat /\ b[m] \in Nat
      BY <2>1, <3>1
    <3> QED BY <3>2, <3>3, <3>4, <3>5
  <2>4. /\ Front(a) \in Seq(Nat) /\ Len(Front(a)) = n
        /\ \A x : Count(Front(a), x) = IF a[n + 1] = x THEN Count(a, x) - 1 ELSE Count(a, x)
    BY <2>1, FrontCount
  <2>5. /\ Front(b) \in Seq(Nat) /\ Len(Front(b)) = m - 1
        /\ \A x : Count(Front(b), x) = IF b[m] = x THEN Count(b, x) - 1 ELSE Count(b, x)
    BY <2>2, FrontCount
  <2>6. Alike(Front(a), Front(b))
    <3>1. \A x : Count(Front(a), x) = Count(Front(b), x)
      BY <2>3, <2>4, <2>5
    <3>2. Registry!Ascending(Front(a)) /\ Registry!Ascending(Front(b))
      BY <2>1, <2>2, FrontAscends
    <3> QED BY <3>1, <3>2
  <2>7. Front(a) = Front(b)
    <3> HIDE DEF Alike
    <3> QED BY <1>3, <2>4, <2>5, <2>6
  <2>8. m = n + 1
    <3>1. m \in Nat /\ m - 1 = n
      BY <2>1, <2>4, <2>5, <2>7
    <3> QED BY <3>1
  <2>9. \A i \in 1..(n + 1) : a[i] = b[i]
    <3>1. ASSUME NEW i \in 1..n PROVE a[i] = b[i]
      <4>1. Front(a)[i] = a[i] /\ Front(b)[i] = b[i]
        BY <2>1, <2>8 DEF Front
      <4> QED BY <2>7, <4>1
    <3>2. \A i \in 1..(n + 1) : i \in 1..n \/ i = n + 1
      OBVIOUS
    <3> QED BY <2>3, <2>8, <3>1, <3>2
  <2> QED BY <2>1, <2>8, <2>9, SeqEqual
<1>4. Nat \subseteq S
  <2> HIDE DEF S
  <2> QED BY <1>2, <1>3, SetInduction
<1>5. Len(s) \in S
  BY <1>4, SeqDomain
<1> QED BY <1>5

\* A sequence in another order has each value as often.
LEMMA ReorderedCount ==
  ASSUME NEW p \in Seq(Nat), NEW q, Registry!Reordered(p, q), NEW x
  PROVE  Count(q, x) = Count(p, x)
<1> DEFINE D == DOMAIN p
<1>1. PICK f \in [D -> D] :
        /\ \A i \in D : \E j \in D : f[j] = i
        /\ \A i, j \in D : f[i] = f[j] => i = j
        /\ \A i \in D : q[i] = p[f[i]]
  BY DEF Registry!Reordered
<1>2. DOMAIN q = D
  BY DEF Registry!Reordered
<1> DEFINE F == [i \in Places(q, x) |-> f[i]]
<1>3. Places(q, x) \subseteq D /\ Places(p, x) \subseteq D /\ IsFiniteSet(Places(q, x))
  BY <1>2, SeqDomain, FS_Subset DEF Places
<1>4. F \in [Places(q, x) -> Places(p, x)]
  BY <1>1, <1>2 DEF Places
<1>5. \A i, j \in Places(q, x) : F[i] = F[j] => i = j
  BY <1>1, <1>3
<1>6. ASSUME NEW k \in Places(p, x) PROVE \E i \in Places(q, x) : F[i] = k
  <2>1. PICK i \in D : f[i] = k
    BY <1>1, <1>3
  <2>2. i \in Places(q, x)
    BY <1>1, <1>2, <2>1 DEF Places
  <2> QED BY <2>1, <2>2
<1>7. F \in Bijection(Places(q, x), Places(p, x))
  BY <1>4, <1>5, <1>6 DEF Bijection, Injection, Surjection, IsInjective
<1> HIDE DEF F
<1> QED BY <1>3, <1>7, FS_Bijection DEF ExistsBijection, Count

\* Every sequence has one: each element goes to the place that the number of
\* those not behind it gives.
LEMMA SomeOrder ==
  ASSUME NEW q \in Seq(Nat)
  PROVE  \E s \in [DOMAIN q -> Registry!Range(q)] :
           Registry!Ascending(s) /\ Registry!Reordered(q, s)
<1> DEFINE D == DOMAIN q
           NotBehind(i) == {j \in D : q[j] < q[i] \/ (q[j] = q[i] /\ j <= i)}
           rank == [i \in D |-> Cardinality(NotBehind(i))]
<1>1. /\ D = 1..Len(q) /\ Len(q) \in Nat /\ IsFiniteSet(D) /\ Cardinality(D) = Len(q)
      /\ D \subseteq Nat /\ \A i \in D : q[i] \in Nat
  <2>1. /\ D = 1..Len(q) /\ Len(q) \in Nat /\ IsFiniteSet(D) /\ \A i \in D : q[i] \in Nat
    BY SeqDomain
  <2>2. Cardinality(1..Len(q)) = IF 1 > Len(q) THEN 0 ELSE Len(q) - 1 + 1
    BY <2>1, FS_Interval
  <2>3. Cardinality(D) = Len(q)
    BY <2>1, <2>2
  <2> QED BY <2>1, <2>3
<1>2. ASSUME NEW i \in D
      PROVE  i \in NotBehind(i) /\ NotBehind(i) \subseteq D /\ IsFiniteSet(NotBehind(i))
  <2>1. i \in NotBehind(i) /\ NotBehind(i) \subseteq D
    BY <1>1
  <2> HIDE DEF NotBehind
  <2> QED BY <1>1, <2>1, FS_Subset
<1>3. ASSUME NEW i \in D PROVE rank[i] \in D
  <2>1. rank[i] = Cardinality(NotBehind(i))
    OBVIOUS
  <2>2. rank[i] \in Nat /\ rank[i] <= Len(q) /\ rank[i] # 0
    <3> HIDE DEF NotBehind, rank
    <3> QED BY <1>1, <1>2, <2>1, FS_CardinalityType, FS_Subset, FS_EmptySet
  <2> HIDE DEF rank, NotBehind
  <2> QED BY <1>1, <2>2
<1>4. ASSUME NEW i \in D, NEW j \in D, q[i] < q[j] \/ (q[i] = q[j] /\ i < j)
      PROVE  rank[i] < rank[j]
  <2>1. NotBehind(i) \subseteq NotBehind(j) /\ j \notin NotBehind(i)
    BY <1>1, <1>4
  <2>2. rank[i] = Cardinality(NotBehind(i)) /\ rank[j] = Cardinality(NotBehind(j))
    OBVIOUS
  <2>3. /\ IsFiniteSet(NotBehind(j)) /\ IsFiniteSet(NotBehind(i)) /\ j \in NotBehind(j)
    BY <1>2
  <2> HIDE DEF NotBehind, rank
  <2>4. Cardinality(NotBehind(i)) <= Cardinality(NotBehind(j))
        /\ Cardinality(NotBehind(i)) # Cardinality(NotBehind(j))
    BY <2>1, <2>3, FS_Subset
  <2>5. Cardinality(NotBehind(i)) \in Nat /\ Cardinality(NotBehind(j)) \in Nat
    BY <2>3, FS_CardinalityType
  <2> QED BY <2>2, <2>4, <2>5
<1>5. rank \in [D -> D]
  BY <1>3
<1> HIDE DEF rank, NotBehind
<1>6. \A i, j \in D : rank[i] = rank[j] => i = j
  <2>1. SUFFICES ASSUME NEW i \in D, NEW j \in D, i # j PROVE rank[i] # rank[j]
    OBVIOUS
  <2>2. \/ q[i] < q[j] \/ (q[i] = q[j] /\ i < j)
        \/ q[j] < q[i] \/ (q[j] = q[i] /\ j < i)
    BY <1>1, <2>1
  <2>3. rank[i] \in Nat /\ rank[j] \in Nat
    BY <1>1, <1>3
  <2>4. rank[i] < rank[j] \/ rank[j] < rank[i]
    BY <1>4, <2>2
  <2> QED BY <2>3, <2>4
<1>7. \A k \in D : \E i \in D : rank[i] = k
  <2>1. rank \in Injection(D, D)
    BY <1>5, <1>6 DEF Injection, IsInjective
  <2>2. rank \in Surjection(D, D)
    BY <1>1, <2>1, FS_Injection
  <2> QED BY <2>2 DEF Surjection
<1> DEFINE at == [k \in D |-> CHOOSE i \in D : rank[i] = k]
           s == [k \in D |-> q[at[k]]]
<1>8. \A k \in D : at[k] \in D /\ rank[at[k]] = k
  BY <1>7
<1>9. \A i \in D : at[rank[i]] = i
  BY <1>3, <1>6, <1>8
<1> HIDE DEF at
<1>10. s \in [D -> Registry!Range(q)]
  BY <1>8 DEF Registry!Range
<1>11. Registry!Ascending(s)
  <2>1. SUFFICES ASSUME NEW k \in D, NEW l \in D, k < l PROVE q[at[k]] <= q[at[l]]
    BY DEF Registry!Ascending
  <2>2. q[at[l]] < q[at[k]] => l < k
    BY <1>4, <1>8
  <2>3. k \in Nat /\ l \in Nat /\ q[at[l]] \in Nat /\ q[at[k]] \in Nat
    BY <1>1, <1>8
  <2> QED BY <2>1, <2>2, <2>3
<1>12. Registry!Reordered(q, s)
  <2>1. at \in [D -> D] /\ DOMAIN s = D
    BY <1>8 DEF at
  <2>2. \A i \in D : \E j \in D : at[j] = i
    BY <1>3, <1>9
  <2>3. \A i, j \in D : at[i] = at[j] => i = j
    BY <1>8
  <2>4. \A i \in D : s[i] = q[at[i]]
    OBVIOUS
  <2> HIDE DEF s
  <2> QED BY <2>1, <2>2, <2>3, <2>4 DEF Registry!Reordered
<1> QED BY <1>10, <1>11, <1>12

\* Sorted parameters are a function of their bag.
LEMMA SortedByBag ==
  ASSUME NEW q \in Seq(Nat), NEW r \in Seq(Nat)
  PROVE  /\ Registry!InOrder(q) \in Seq(Nat)
         /\ Registry!Reordered(q, Registry!InOrder(q))
         /\ Registry!ToBag(Registry!InOrder(q)) = Registry!ToBag(q)
         /\ Registry!InOrder(q) = Registry!InOrder(r) <=> Registry!ToBag(q) = Registry!ToBag(r)
<1>1. ASSUME NEW p \in Seq(Nat)
      PROVE  /\ Registry!InOrder(p) \in Seq(Nat) /\ Registry!Ascending(Registry!InOrder(p))
             /\ Registry!ToBag(Registry!InOrder(p)) = Registry!ToBag(p)
             /\ Registry!Reordered(p, Registry!InOrder(p))
  <2>1. PICK s \in [DOMAIN p -> Registry!Range(p)] :
          Registry!Ascending(s) /\ Registry!Reordered(p, s)
    BY SomeOrder
  <2>2. IsFiniteSet(DOMAIN p) /\ IsFiniteSet(DOMAIN s)
    BY <2>1, SeqDomain
  <2>3. /\ Registry!ToBag(s) = Registry!ToBag(p)
        /\ \A x : Count(s, x) = Count(p, x)
    BY <2>1, <2>2, ReorderedCount, BagCounts
  <2>4. /\ Registry!InOrder(p) \in [DOMAIN p -> Registry!Range(p)]
        /\ Registry!ToBag(Registry!InOrder(p)) = Registry!ToBag(p)
        /\ Registry!Ascending(Registry!InOrder(p))
    BY <2>1, <2>3 DEF Registry!InOrder
  <2>5. Registry!Range(p) \subseteq Nat /\ DOMAIN p = 1..Len(p) /\ Len(p) \in Nat
    BY SeqDomain DEF Registry!Range
  <2>6. Registry!InOrder(p) \in [1..Len(p) -> Nat]
    BY <2>4, <2>5
  <2>7. Registry!InOrder(p) \in Seq(Nat)
    BY <2>5, <2>6, SeqDef
  <2>8. s \in Seq(Nat)
    BY <2>1, <2>5, SeqDef, SMTT(40)
  <2>9. \A x : Count(Registry!InOrder(p), x) = Count(s, x)
    BY <2>2, <2>3, <2>4, <2>7, SeqDomain, BagCounts
  <2>10. Registry!InOrder(p) = s
    BY <2>1, <2>4, <2>7, <2>8, <2>9, OneOrder
  <2> QED BY <2>1, <2>4, <2>7, <2>10
<1>2. ASSUME Registry!ToBag(q) = Registry!ToBag(r)
      PROVE  Registry!InOrder(q) = Registry!InOrder(r)
  <2>1. \A x : Count(Registry!InOrder(q), x) = Count(Registry!InOrder(r), x)
    BY <1>1, <1>2, SeqDomain, BagCounts
  <2> QED BY <1>1, <2>1, OneOrder
<1> QED BY <1>1, <1>2

LEMMA UrlParts ==
  ASSUME NEW w \in Registry!Url
  PROVE  /\ w.query \in Seq(Nat) /\ w.port \in Nat \cup {Registry!NoPort}
         /\ Registry!NoPort \notin Nat
         /\ Registry!Scheme(w) \in Registry!Text /\ Registry!Scheme(w) # ""
         /\ Registry!CanonicalizeUrl(w) \in Registry!Url
<1>1. w.query \in Seq(Nat) /\ w.port \in Nat \cup {Registry!NoPort} /\ w.scheme \in Registry!Text
  BY DEF Registry!Url
<1>2. Registry!Scheme(w) # "" /\ Registry!Scheme(w) \in Registry!Text
  BY <1>1 DEF Registry!Scheme, Registry!Text
<1>3. Registry!InOrder(w.query) \in Seq(Nat)
  BY <1>1, SortedByBag
<1>4. Registry!Port(w) \in Nat \cup {Registry!NoPort} /\ Registry!Slashes(w) \in Nat
  BY <1>1 DEF Registry!Port, Registry!Slashes
<1>5. (IF w.user = "" THEN "" ELSE w.password) \in Registry!Text /\ "" \in Registry!Text
  BY DEF Registry!Url, Registry!Text
<1>6. Registry!CanonicalizeUrl(w) \in Registry!Url
  BY <1>2, <1>3, <1>4, <1>5 DEF Registry!CanonicalizeUrl, Registry!Url
<1>7. Registry!NoPort \notin Nat
  BY DEF Registry!NoPort
<1> QED BY <1>1, <1>2, <1>6, <1>7

\* Writing one part in another way does not change the canonical form.
LEMMA RespellingKeepsForm ==
  ASSUME NEW u \in Registry!Url, NEW v \in Registry!Url, Registry!Respelled(u, v)
  PROVE  Registry!CanonicalizeUrl(u) = Registry!CanonicalizeUrl(v)
<1> DEFINE Same == /\ Registry!Scheme(v) = Registry!Scheme(u) /\ v.user = u.user
                   /\ (v.user # "" => v.password = u.password)
                   /\ v.host = u.host /\ Registry!Port(v) = Registry!Port(u)
                   /\ v.path = u.path
                   /\ Registry!InOrder(v.query) = Registry!InOrder(u.query)
<1>1. Same => Registry!CanonicalizeUrl(u) = Registry!CanonicalizeUrl(v)
  BY DEF Registry!CanonicalizeUrl, Registry!Slashes
<1>2. CASE \E upper \in BOOLEAN : v = [u EXCEPT !.upper = upper]
  BY <1>1, <1>2 DEF Registry!Url, Registry!Scheme, Registry!Port
<1>3. CASE u.scheme = "" /\ v = [u EXCEPT !.scheme = "https"]
  BY <1>1, <1>3 DEF Registry!Url, Registry!Scheme, Registry!Port
<1>4. CASE /\ Registry!IsDefaultPort(Registry!Scheme(u), u.port)
           /\ v = [u EXCEPT !.port = Registry!NoPort]
  <2>1. Registry!Scheme(v) = Registry!Scheme(u) /\ v.port = Registry!NoPort
    BY <1>4 DEF Registry!Url, Registry!Scheme
  <2>2. Registry!Port(u) = Registry!NoPort /\ Registry!Port(v) = Registry!NoPort
    BY <1>4, <2>1 DEF Registry!Port
  <2> QED BY <1>1, <1>4, <2>1, <2>2 DEF Registry!Url
<1>5. CASE v = [u EXCEPT !.fragment = ""]
  BY <1>1, <1>5 DEF Registry!Url, Registry!Scheme, Registry!Port
<1>6. CASE v = [u EXCEPT !.query = v.query] /\ Registry!Reordered(u.query, v.query)
  <2>1. u.query \in Seq(Nat) /\ v.query \in Seq(Nat)
    BY UrlParts
  <2>2. \A x : Count(v.query, x) = Count(u.query, x)
    BY <1>6, <2>1, ReorderedCount
  <2>3. Registry!ToBag(u.query) = Registry!ToBag(v.query)
    BY <2>1, <2>2, SeqDomain, BagCounts
  <2>4. Registry!InOrder(v.query) = Registry!InOrder(u.query)
    BY <2>1, <2>3, SortedByBag
  <2> QED BY <1>1, <1>6, <2>4 DEF Registry!Url, Registry!Scheme, Registry!Port
<1>7. CASE \E n \in {0, 1} : v = [u EXCEPT !.slashes = n]
  BY <1>1, <1>7 DEF Registry!Url, Registry!Scheme, Registry!Port
<1>8. CASE u.user = "" /\ v = [u EXCEPT !.password = ""]
  BY <1>1, <1>8 DEF Registry!Url, Registry!Scheme, Registry!Port
<1> QED BY <1>2, <1>3, <1>4, <1>5, <1>6, <1>7, <1>8 DEF Registry!Respelled

\* A set that respelling does not lead out of has a URL with its canonical form:
\* it is reached by respelling one part after the other.
LEMMA FormIsSpelling ==
  ASSUME NEW u \in Registry!Url, NEW S \in SUBSET Registry!Url,
         \A a \in S, b \in Registry!Url :
           Registry!Respelled(a, b) \/ Registry!Respelled(b, a) => b \in S
  PROVE  u \in S <=> Registry!CanonicalizeUrl(u) \in S
<1>1. ASSUME NEW a \in Registry!Url, NEW b \in Registry!Url, Registry!Respelled(a, b)
      PROVE  a \in S <=> b \in S
  BY <1>1
<1> DEFINE u1 == [u EXCEPT !.scheme = Registry!Scheme(u)]
           u2 == [u1 EXCEPT !.port = Registry!Port(u)]
           u3 == [u2 EXCEPT !.upper = FALSE]
           u4 == [u3 EXCEPT !.fragment = ""]
           u5 == [u4 EXCEPT !.query = Registry!InOrder(u.query)]
           u6 == [u5 EXCEPT !.slashes = Registry!Slashes(u)]
           u7 == [u6 EXCEPT !.password = IF u.user = "" THEN "" ELSE u.password]
<1>2. u1 \in Registry!Url /\ (u \in S <=> u1 \in S)
  <2>1. u1 \in Registry!Url
    BY UrlParts DEF Registry!Url
  <2>2. CASE u.scheme = ""
    <3>1. Registry!Respelled(u, u1)
      BY <2>2 DEF Registry!Respelled, Registry!Scheme
    <3> HIDE DEF u1
    <3> QED BY <1>1, <2>1, <3>1
  <2>3. CASE u.scheme # ""
    BY <2>1, <2>3 DEF Registry!Url, Registry!Scheme
  <2> QED BY <2>2, <2>3
<1>3. u1.port = u.port /\ Registry!Scheme(u1) = Registry!Scheme(u) /\ Registry!Scheme(u1) = u1.scheme
      /\ u1.user = u.user /\ u1.password = u.password /\ u1.host = u.host /\ u1.upper = u.upper
      /\ u1.path = u.path /\ u1.slashes = u.slashes /\ u1.query = u.query
      /\ u1.scheme = Registry!Scheme(u)
  BY DEF Registry!Url, Registry!Scheme
<1> HIDE DEF u1
<1>4. u2 \in Registry!Url /\ (u1 \in S <=> u2 \in S)
  <2>1. u2 \in Registry!Url
    BY <1>2 DEF Registry!Url, Registry!Port
  <2>2. CASE Registry!IsDefaultPort(Registry!Scheme(u), u.port)
    <3>1. Registry!Respelled(u1, u2)
      BY <1>3, <2>2 DEF Registry!Respelled, Registry!Port
    <3> HIDE DEF u2
    <3> QED BY <1>1, <1>2, <2>1, <3>1
  <2>3. CASE ~Registry!IsDefaultPort(Registry!Scheme(u), u.port)
    <3>1. u2 = u1
      BY <1>2, <1>3, <2>3 DEF Registry!Url, Registry!Port
    <3> QED BY <2>1, <3>1
  <2> QED BY <2>2, <2>3
<1>5. u2.scheme = Registry!Scheme(u) /\ u2.port = Registry!Port(u)
      /\ u2.user = u.user /\ u2.password = u.password /\ u2.host = u.host
      /\ u2.path = u.path /\ u2.slashes = u.slashes /\ u2.query = u.query
  BY <1>2, <1>3 DEF Registry!Url
<1> HIDE DEF u2
<1>6. u3 \in Registry!Url /\ (u2 \in S <=> u3 \in S)
  <2>1. u3 \in Registry!Url
    BY <1>4 DEF Registry!Url
  <2>2. Registry!Respelled(u2, u3)
    BY DEF Registry!Respelled
  <2> HIDE DEF u3
  <2> QED BY <1>1, <1>4, <2>1, <2>2
<1>7. u3.scheme = Registry!Scheme(u) /\ u3.port = Registry!Port(u) /\ u3.upper = FALSE
      /\ u3.user = u.user /\ u3.password = u.password /\ u3.host = u.host
      /\ u3.path = u.path /\ u3.slashes = u.slashes /\ u3.query = u.query
  BY <1>4, <1>5 DEF Registry!Url
<1> HIDE DEF u3
<1>8. u4 \in Registry!Url /\ (u3 \in S <=> u4 \in S)
  <2>1. u4 \in Registry!Url
    <3>1. "" \in Registry!Text
      BY DEF Registry!Text
    <3> QED BY <1>6, <3>1 DEF Registry!Url
  <2>2. Registry!Respelled(u3, u4)
    BY DEF Registry!Respelled
  <2> HIDE DEF u4
  <2> QED BY <1>1, <1>6, <2>1, <2>2
<1>9. u4.scheme = Registry!Scheme(u) /\ u4.port = Registry!Port(u) /\ u4.upper = FALSE
      /\ u4.user = u.user /\ u4.password = u.password /\ u4.host = u.host
      /\ u4.path = u.path /\ u4.slashes = u.slashes /\ u4.query = u.query
      /\ u4.fragment = ""
  BY <1>6, <1>7 DEF Registry!Url
<1> HIDE DEF u4
<1>10. u5 \in Registry!Url /\ (u4 \in S <=> u5 \in S)
  <2>1. /\ Registry!InOrder(u.query) \in Seq(Nat)
        /\ Registry!Reordered(u.query, Registry!InOrder(u.query))
    BY UrlParts, SortedByBag
  <2>2. u5 \in Registry!Url /\ u5.query = Registry!InOrder(u.query)
    BY <1>8, <2>1 DEF Registry!Url
  <2>3. Registry!Respelled(u4, u5)
    BY <1>9, <2>1, <2>2 DEF Registry!Respelled
  <2> HIDE DEF u5
  <2> QED BY <1>1, <1>8, <2>2, <2>3
<1>11. u5.scheme = Registry!Scheme(u) /\ u5.port = Registry!Port(u) /\ u5.upper = FALSE
      /\ u5.user = u.user /\ u5.password = u.password /\ u5.host = u.host
      /\ u5.path = u.path /\ u5.slashes = u.slashes /\ u5.query = Registry!InOrder(u.query)
      /\ u5.fragment = ""
  BY <1>8, <1>9 DEF Registry!Url
<1> HIDE DEF u5
<1>12. u6 \in Registry!Url /\ (u5 \in S <=> u6 \in S)
  <2>1. u6 \in Registry!Url
    BY <1>10 DEF Registry!Url, Registry!Slashes
  <2>2. Registry!Respelled(u5, u6)
    BY <1>11 DEF Registry!Respelled, Registry!Slashes
  <2> HIDE DEF u6
  <2> QED BY <1>1, <1>10, <2>1, <2>2
<1>13. u6.scheme = Registry!Scheme(u) /\ u6.port = Registry!Port(u) /\ u6.upper = FALSE
      /\ u6.user = u.user /\ u6.password = u.password /\ u6.host = u.host
      /\ u6.path = u.path /\ u6.slashes = Registry!Slashes(u)
      /\ u6.query = Registry!InOrder(u.query) /\ u6.fragment = ""
  BY <1>10, <1>11 DEF Registry!Url
<1> HIDE DEF u6
<1>14. u7 \in Registry!Url /\ (u6 \in S <=> u7 \in S)
  <2>1. u7 \in Registry!Url
    <3>1. (IF u.user = "" THEN "" ELSE u.password) \in Registry!Text
      BY DEF Registry!Url, Registry!Text
    <3> QED BY <1>12, <3>1 DEF Registry!Url
  <2>2. CASE u.user = ""
    <3>1. Registry!Respelled(u6, u7)
      BY <1>13, <2>2 DEF Registry!Respelled
    <3> HIDE DEF u7
    <3> QED BY <1>1, <1>12, <2>1, <3>1
  <2>3. CASE u.user # ""
    <3>1. u7 = u6
      BY <1>12, <1>13, <2>3 DEF Registry!Url
    <3> QED BY <2>1, <3>1
  <2> QED BY <2>2, <2>3
<1>15. u7 = Registry!CanonicalizeUrl(u)
  <2>2. /\ u7 \in Registry!Url
        /\ \A part \in {"scheme", "user", "host", "upper", "port", "path", "slashes",
                       "query", "fragment"} : u7[part] = u6[part]
        /\ u7.password = IF u.user = "" THEN "" ELSE u.password
    BY <1>12, <1>14 DEF Registry!Url
  <2> HIDE DEF u7
  <2>3. u7 = [scheme |-> u7.scheme, user |-> u7.user, password |-> u7.password,
              host |-> u7.host, upper |-> u7.upper, port |-> u7.port, path |-> u7.path,
              slashes |-> u7.slashes, query |-> u7.query, fragment |-> u7.fragment]
    BY <2>2 DEF Registry!Url
  <2> QED BY <1>13, <2>2, <2>3 DEF Registry!CanonicalizeUrl
<1> HIDE DEF u7
<1> QED BY <1>2, <1>4, <1>6, <1>8, <1>10, <1>12, <1>14, <1>15

\* Two URLs have one canonical form exactly if one can be got from the other by
\* writing parts of it in other ways, and the canonical form is such a spelling.
CanonicalNamesSpellings ==
  \A u, v \in Registry!Url :
    /\ Registry!CanonicalizeUrl(u) = Registry!CanonicalizeUrl(v) <=> Registry!SpellingOf(u, v)
    /\ Registry!SpellingOf(u, Registry!CanonicalizeUrl(u))

\* canonicalize_url identifies what the rules of its docstring, applied one after
\* the other and in any direction, make of a URL, and nothing else: for any
\* schemes, users, hosts, ports and paths and queries of any length.
THEOREM CanonicalFormOfSpellings == CanonicalNamesSpellings
<1> SUFFICES ASSUME NEW u \in Registry!Url, NEW v \in Registry!Url
             PROVE  /\ Registry!CanonicalizeUrl(u) = Registry!CanonicalizeUrl(v)
                         <=> Registry!SpellingOf(u, v)
                    /\ Registry!SpellingOf(u, Registry!CanonicalizeUrl(u))
  BY DEF CanonicalNamesSpellings
<1>1. ASSUME Registry!SpellingOf(u, v)
      PROVE  Registry!CanonicalizeUrl(u) = Registry!CanonicalizeUrl(v)
  <2> DEFINE S == {w \in Registry!Url : Registry!CanonicalizeUrl(w) = Registry!CanonicalizeUrl(u)}
  <2>1. S \in SUBSET Registry!Url /\ u \in S
    OBVIOUS
  <2>2. \A a \in S, b \in Registry!Url :
          Registry!Respelled(a, b) \/ Registry!Respelled(b, a) => b \in S
    BY RespellingKeepsForm
  <2>3. v \in S
    <3> HIDE DEF S
    <3> QED BY <1>1, <2>1, <2>2 DEF Registry!SpellingOf
  <2> QED BY <2>3
<1>2. ASSUME Registry!CanonicalizeUrl(u) = Registry!CanonicalizeUrl(v)
      PROVE  Registry!SpellingOf(u, v)
  BY <1>2, FormIsSpelling DEF Registry!SpellingOf
<1>3. Registry!SpellingOf(u, Registry!CanonicalizeUrl(u))
  BY FormIsSpelling DEF Registry!SpellingOf
<1> QED BY <1>1, <1>2, <1>3

\* The registry's reference: two URLs have one canonical form exactly if they
\* reach one page.
LEMMA CanonicalByPage ==
  \A u, v \in Urls :
    Registry!CanonicalizeUrl(u) = Registry!CanonicalizeUrl(v) <=> Registry!SamePage(u, v)
<1> SUFFICES ASSUME NEW u \in Registry!Url, NEW v \in Registry!Url
             PROVE  Registry!CanonicalizeUrl(u) = Registry!CanonicalizeUrl(v)
                      <=> Registry!SamePage(u, v)
  BY RegistryAssumption DEF Registry!Registrable
<1> DEFINE ServerPort(w) ==
             IF w.port = Registry!NoPort /\ Registry!Scheme(w) \in DOMAIN Registry!DefaultPort
               THEN Registry!DefaultPort[Registry!Scheme(w)] ELSE w.port
           Password(w) == IF w.user = "" THEN "" ELSE w.password
<1>1. Registry!CanonicalizeUrl(u) = Registry!CanonicalizeUrl(v) <=>
        /\ Registry!Scheme(u) = Registry!Scheme(v) /\ u.host = v.host
        /\ Registry!Port(u) = Registry!Port(v)
        /\ u.user = v.user /\ Password(u) = Password(v)
        /\ u.path = v.path
        /\ Registry!InOrder(u.query) = Registry!InOrder(v.query)
  BY DEF Registry!CanonicalizeUrl, Registry!Slashes
<1>2. Registry!SamePage(u, v) <=>
        /\ Registry!Scheme(u) = Registry!Scheme(v) /\ u.host = v.host
        /\ ServerPort(u) = ServerPort(v)
        /\ u.user = v.user /\ Password(u) = Password(v)
        /\ u.path = v.path
        /\ Registry!ToBag(u.query) = Registry!ToBag(v.query)
  BY DEF Registry!SamePage
<1>3. Registry!InOrder(u.query) = Registry!InOrder(v.query)
        <=> Registry!ToBag(u.query) = Registry!ToBag(v.query)
  BY UrlParts, SortedByBag
<1>4. Registry!Scheme(u) = Registry!Scheme(v) =>
        (Registry!Port(u) = Registry!Port(v) <=> ServerPort(u) = ServerPort(v))
  <2>1. \A scheme \in DOMAIN Registry!DefaultPort : Registry!DefaultPort[scheme] \in Nat
    BY DEF Registry!DefaultPort
  <2> QED BY <2>1, UrlParts DEF Registry!Port, Registry!IsDefaultPort
<1> HIDE DEF ServerPort, Password
<1> QED BY <1>1, <1>2, <1>3, <1>4

(***************************************************************************)
(* The registry                                                            *)
(***************************************************************************)
LEMMA SamePageEquivalence ==
  ASSUME NEW u, NEW v, NEW w
  PROVE  /\ Registry!SamePage(u, u)
         /\ Registry!SamePage(u, v) => Registry!SamePage(v, u)
         /\ Registry!SamePage(u, v) /\ Registry!SamePage(v, w) => Registry!SamePage(u, w)
BY DEF Registry!SamePage

(***************************************************************************)
(* The inductive invariant of the registry                                 *)
(***************************************************************************)
\* A request about to insert found no row of its page, and none has come since
\* unless the page is marked; what it was known at its start still holds.
RequestInv(x) ==
  reg[x] # None =>
    LET u == reg[x].url
    IN  /\ reg[x].known => \E v \in Urls : rows[v] = "registered" /\ Registry!SamePage(u, v)
        /\ reg[x].phase \in {"insert", "flushed"} =>
             /\ ~reg[x].known
             /\ u \notin doubled =>
                  \A v \in Urls : Registry!SamePage(u, v) => rows[v] = "absent"

\* An unmarked page has at most one row, a registered one, and marks cover
\* whole pages.
QuietInv ==
  /\ \A u \in Urls : rows[u] = "ingested" => u \in doubled
  /\ \A u, v \in Urls : u \notin doubled /\ Registry!SamePage(u, v) =>
       /\ v \notin doubled
       /\ rows[u] # "absent" /\ rows[v] # "absent" => u = v

RegistryInv ==
  /\ Registry!RegistryTypeOK
  /\ \A x \in Sessions : RequestInv(x)
  /\ QuietInv
  /\ Registry!AnswersNameStoredPages

LEMMA InitRegistryInv == Registry!RegistryInit => RegistryInv
BY DEF Registry!RegistryInit, RegistryInv, Registry!RegistryTypeOK, RequestInv, QuietInv,
       Registry!AnswersNameStoredPages

\* A step that only moves a request on, or ends it.
LEMMA RequestStep ==
  ASSUME RegistryInv, NEW x \in Sessions, NEW request \in Registry!Request \cup {None},
         reg' = [reg EXCEPT ![x] = request], UNCHANGED <<rows, doubled>>,
         RequestInv(x)',
         answered' \subseteq Urls \X Urls,
         \A answer \in answered' : \/ answer \in answered
                                   \/ /\ rows[answer[2]] # "absent"
                                      /\ Registry!SamePage(answer[1], answer[2])
  PROVE  RegistryInv'
<1>1. Registry!RegistryTypeOK'
  BY DEF RegistryInv, Registry!RegistryTypeOK
<1>2. ASSUME NEW y \in Sessions PROVE RequestInv(y)'
  <2>1. CASE y # x
    <3>1. reg'[y] = reg[y] /\ RequestInv(y)
      BY <2>1 DEF RegistryInv, Registry!RegistryTypeOK
    <3> QED BY <3>1 DEF RequestInv
  <2> QED BY <2>1
<1>3. QuietInv'
  BY DEF RegistryInv, QuietInv
<1>4. Registry!AnswersNameStoredPages'
  BY DEF RegistryInv, Registry!AnswersNameStoredPages, Registry!Stored
<1> QED BY <1>1, <1>2, <1>3, <1>4 DEF RegistryInv

LEMMA AbortKeeps ==
  ASSUME RegistryInv, NEW x \in Sessions, Registry!Abort(x)
  PROVE  RegistryInv'
<1>1. reg' = [reg EXCEPT ![x] = None] /\ UNCHANGED <<rows, doubled, answered>>
  BY DEF Registry!Abort
<1>2. RequestInv(x)'
  BY <1>1 DEF RequestInv, RegistryInv, Registry!RegistryTypeOK
<1> QED BY <1>1, <1>2, RequestStep DEF RegistryInv, Registry!RegistryTypeOK

LEMMA ProceedKeeps ==
  ASSUME RegistryInv, NEW x \in Sessions, reg[x] # None,
         NEW phase \in Registry!Phase, Registry!Proceed(x, phase),
         phase \in {"insert", "flushed"} =>
           /\ ~reg[x].known
           /\ reg[x].url \notin doubled =>
                \A v \in Urls : Registry!SamePage(reg[x].url, v) => rows[v] = "absent"
  PROVE  RegistryInv'
<1> DEFINE request == [reg[x] EXCEPT !.phase = phase]
<1>1. reg[x] \in Registry!Request /\ RequestInv(x)
  BY DEF RegistryInv, Registry!RegistryTypeOK
<1>2. /\ request \in Registry!Request
      /\ request.url = reg[x].url /\ request.known = reg[x].known /\ request.phase = phase
  BY <1>1 DEF Registry!Request
<1>3. reg' = [reg EXCEPT ![x] = request] /\ UNCHANGED <<rows, doubled, answered>>
  BY DEF Registry!Proceed, RegistryInv, Registry!RegistryTypeOK
<1>4. reg'[x] = request
  BY <1>3 DEF RegistryInv, Registry!RegistryTypeOK
<1> HIDE DEF request
<1>5. RequestInv(x)'
  BY <1>1, <1>2, <1>3, <1>4 DEF RequestInv
<1> QED BY <1>2, <1>3, <1>5, RequestStep DEF RegistryInv, Registry!RegistryTypeOK

LEMMA FoundKeeps ==
  ASSUME RegistryInv, NEW x \in Sessions, reg[x] # None, NEW u \in Urls,
         rows[u] # "absent", Registry!SamePage(reg[x].url, u), Registry!Found(x, u)
  PROVE  RegistryInv'
<1>1. reg[x] \in Registry!Request /\ reg[x].url \in Urls
  BY DEF RegistryInv, Registry!RegistryTypeOK, Registry!Request
<1>2. /\ reg' = [reg EXCEPT ![x] = None] /\ UNCHANGED <<rows, doubled>>
      /\ answered' = {<<reg[x].url, u>>}
  BY DEF Registry!Found, Registry!Answer
<1>3. RequestInv(x)'
  BY <1>2 DEF RequestInv, RegistryInv, Registry!RegistryTypeOK
<1>4. answered' \subseteq Urls \X Urls
  BY <1>1, <1>2 DEF RegistryInv, Registry!RegistryTypeOK
<1>5. ASSUME NEW answer \in answered', answer \notin answered
      PROVE  rows[answer[2]] # "absent" /\ Registry!SamePage(answer[1], answer[2])
  <2>1. answer = <<reg[x].url, u>>
    BY <1>2, <1>5
  <2>2. answer[1] = reg[x].url /\ answer[2] = u
    BY <2>1
  <2> QED BY <2>2
<1>6. None \in Registry!Request \cup {None}
  OBVIOUS
<1> QED BY <1>2, <1>3, <1>4, <1>5, <1>6, RequestStep

\* The lookup by canonical URL finds the registered rows of the page.
LEMMA LookUpCanonicalKeeps ==
  ASSUME RegistryInv, NEW x \in Sessions, Registry!LookUpCanonical(x)
  PROVE  RegistryInv'
<1> DEFINE found == Registry!SameCanonical(reg[x].url)
<1>1. reg[x] # None /\ reg[x] \in Registry!Request /\ reg[x].url \in Urls /\ RequestInv(x)
  BY DEF Registry!LookUpCanonical, Registry!In, RegistryInv, Registry!RegistryTypeOK,
         Registry!Request
<1>2. found = {v \in Urls : rows[v] = "registered" /\ Registry!SamePage(reg[x].url, v)}
  <2>1. \A v \in Urls : Registry!CanonicalizeUrl(v) = Registry!CanonicalizeUrl(reg[x].url)
                          <=> Registry!SamePage(reg[x].url, v)
    BY <1>1, SamePageEquivalence, CanonicalByPage
  <2> QED BY <2>1 DEF Registry!SameCanonical
<1> HIDE DEF found
<1>3. CASE found = {} /\ Registry!Proceed(x, "insert")
  <2>1. ~reg[x].known
    BY <1>1, <1>2, <1>3 DEF RequestInv, Registry!Request
  <2>2. ASSUME reg[x].url \notin doubled,
               NEW v \in Urls, Registry!SamePage(reg[x].url, v)
        PROVE  rows[v] = "absent"
    <3>1. rows[v] # "registered"
      BY <1>2, <1>3, <2>2
    <3>2. rows[v] # "ingested"
      BY <1>1, <2>2 DEF RegistryInv, QuietInv
    <3> QED BY <3>1, <3>2 DEF RegistryInv, Registry!RegistryTypeOK
  <2> QED BY <1>1, <1>3, <2>1, <2>2, ProceedKeeps DEF Registry!Phase
<1>4. ASSUME NEW u \in found, Registry!Found(x, u) PROVE RegistryInv'
  BY <1>1, <1>2, <1>4, FoundKeeps
<1>5. CASE Registry!Abort(x)
  BY <1>5, AbortKeeps
<1> QED BY <1>3, <1>4, <1>5 DEF Registry!LookUpCanonical, found

LEMMA RegisterKeeps ==
  ASSUME RegistryInv, NEW x \in Sessions, NEW u \in Urls, Registry!Register(x, u)
  PROVE  RegistryInv'
<1> PICK known \in BOOLEAN : known = (Registry!RegisteredAs(u) # {})
  OBVIOUS
<1> DEFINE request == [url |-> u, phase |-> "by_url", known |-> known]
<1>1. request \in Registry!Request
  BY DEF Registry!Request, Registry!Phase
<1>2. reg' = [reg EXCEPT ![x] = request] /\ UNCHANGED <<rows, doubled, answered>>
  BY DEF Registry!Register
<1>3. reg'[x] = request
  BY <1>2 DEF RegistryInv, Registry!RegistryTypeOK
<1>4. request.url = u /\ request.known = known /\ request.phase = "by_url"
  OBVIOUS
<1> HIDE DEF request
<1>5. RequestInv(x)'
  BY <1>2, <1>3, <1>4 DEF RequestInv, Registry!RegisteredAs
<1> QED BY <1>1, <1>2, <1>5, RequestStep DEF RegistryInv, Registry!RegistryTypeOK

\* A row appears: of a page nobody else is registering, or whose URLs are all
\* marked.
LEMMA AppearKeeps ==
  ASSUME RegistryInv, NEW u \in Urls, NEW kind \in {"registered", "ingested"},
         rows' = [rows EXCEPT ![u] = kind],
         rows[u] # "registered" \/ kind = "registered",
         doubled' = doubled \/ doubled' = doubled \cup Registry!Spellings(u),
         kind = "ingested" => doubled' = doubled \cup Registry!Spellings(u),
         u \notin doubled' => /\ \A v \in Urls : Registry!SamePage(u, v) => rows[v] = "absent"
                              /\ \A y \in Sessions :
                                   reg'[y] # None => ~Registry!SamePage(u, reg'[y].url),
         \A y \in Sessions : reg'[y] = reg[y] \/ reg'[y] = None
  PROVE  /\ \A y \in Sessions : RequestInv(y)'
         /\ QuietInv'
         /\ rows' \in [Urls -> {"absent", "registered", "ingested"}]
         /\ doubled' \subseteq Urls
<1>1. /\ rows' \in [Urls -> {"absent", "registered", "ingested"}]
      /\ rows'[u] = kind
      /\ \A v \in Urls : v # u => rows'[v] = rows[v]
  BY DEF RegistryInv, Registry!RegistryTypeOK
<1>2. /\ doubled' \subseteq Urls /\ doubled \subseteq doubled'
      /\ \A v \in Urls : v \in doubled' => v \in doubled \/ Registry!SamePage(u, v)
      /\ \A v \in Urls : u \in doubled' /\ Registry!SamePage(u, v) => v \in doubled'
  BY SamePageEquivalence DEF RegistryInv, QuietInv, Registry!RegistryTypeOK, Registry!Spellings
<1>3. ASSUME NEW v \in Urls, v \notin doubled', Registry!SamePage(u, v) PROVE u \notin doubled'
  BY <1>2, <1>3
<1>4. QuietInv'
  <2>1. ASSUME NEW v \in Urls, rows'[v] = "ingested" PROVE v \in doubled'
    <3>1. CASE v = u
      BY <1>1, <2>1, <3>1, SamePageEquivalence DEF Registry!Spellings
    <3>2. CASE v # u
      BY <1>1, <1>2, <2>1, <3>2 DEF RegistryInv, QuietInv
    <3> QED BY <3>1, <3>2
  <2>2. ASSUME NEW v \in Urls, NEW w \in Urls, v \notin doubled', Registry!SamePage(v, w)
        PROVE  w \notin doubled'
    <3>1. w \notin doubled
      BY <1>2, <2>2 DEF RegistryInv, QuietInv
    <3>2. SUFFICES ASSUME w \in doubled' PROVE FALSE
      OBVIOUS
    <3>3. Registry!SamePage(u, w) /\ doubled' # doubled
      BY <1>2, <3>1, <3>2
    <3>4. Registry!SamePage(u, v)
      BY <2>2, <3>3, SamePageEquivalence
    <3>5. v \in doubled'
      BY <3>3, <3>4 DEF Registry!Spellings
    <3> QED BY <2>2, <3>5
  <2>3. ASSUME NEW v \in Urls, NEW w \in Urls, v \notin doubled', Registry!SamePage(v, w),
               rows'[v] # "absent", rows'[w] # "absent"
        PROVE  v = w
    <3>1. CASE Registry!SamePage(u, v)
      <4>1. Registry!SamePage(u, w) /\ u \notin doubled'
        BY <1>3, <2>3, <3>1, SamePageEquivalence
      <4>2. rows[v] = "absent" /\ rows[w] = "absent"
        BY <3>1, <4>1
      <4> QED BY <1>1, <2>3, <4>2
    <3>2. CASE ~Registry!SamePage(u, v)
      <4>1. v # u /\ w # u
        BY <2>3, <3>2, SamePageEquivalence
      <4> QED BY <1>1, <1>2, <2>3, <4>1 DEF RegistryInv, QuietInv
    <3> QED BY <3>1, <3>2
  <2> QED BY <2>1, <2>2, <2>3 DEF QuietInv
<1>5. ASSUME NEW y \in Sessions PROVE RequestInv(y)'
  <2>1. SUFFICES ASSUME reg'[y] = reg[y], reg[y] # None PROVE RequestInv(y)'
    BY DEF RequestInv
  <2>2. RequestInv(y) /\ reg[y] \in Registry!Request /\ reg[y].url \in Urls
    BY <2>1 DEF RegistryInv, Registry!RegistryTypeOK, Registry!Request
  <2>3. \A v \in Urls : rows[v] = "registered" => rows'[v] = "registered"
    BY <1>1
  <2>4. ASSUME reg[y].phase \in {"insert", "flushed"}, reg[y].url \notin doubled',
               NEW v \in Urls, Registry!SamePage(reg[y].url, v)
        PROVE  rows'[v] = "absent"
    <3>1. rows[v] = "absent"
      BY <1>2, <2>1, <2>2, <2>4 DEF RequestInv
    <3>2. v # u
      <4>1. SUFFICES ASSUME v = u PROVE FALSE
        OBVIOUS
      <4>2. Registry!SamePage(u, reg[y].url)
        BY <2>4, <4>1, SamePageEquivalence
      <4>3. u \notin doubled'
        BY <1>3, <2>2, <2>4, <4>2
      <4> QED BY <2>1, <4>2, <4>3
    <3> QED BY <1>1, <3>1, <3>2
  <2> QED BY <2>1, <2>2, <2>3, <2>4 DEF RequestInv
<1> QED BY <1>1, <1>2, <1>4, <1>5

LEMMA CommitKeeps ==
  ASSUME RegistryInv, NEW x \in Sessions, Registry!Commit(x)
  PROVE  RegistryInv'
<1> PICK u : u = reg[x].url
  OBVIOUS
<1>1. /\ u \in Urls /\ reg[x] # None /\ RequestInv(x)
      /\ reg[x].phase = "flushed"
  BY DEF Registry!Commit, Registry!In, RegistryInv, Registry!RegistryTypeOK, Registry!Request
<1>2. /\ rows' = [rows EXCEPT ![u] = "registered"]
      /\ reg' = [reg EXCEPT ![x] = None]
      /\ answered' = {<<u, u>>}
      /\ doubled' = IF Registry!Overlaps(x) THEN doubled \cup Registry!Spellings(u) ELSE doubled
  BY DEF Registry!Commit, Registry!Answer
<1>3. \A y \in Sessions : reg'[y] = IF y = x THEN None ELSE reg[y]
  BY <1>2 DEF RegistryInv, Registry!RegistryTypeOK
<1>4. u \notin doubled' => /\ \A v \in Urls : Registry!SamePage(u, v) => rows[v] = "absent"
                           /\ \A y \in Sessions :
                                reg'[y] # None => ~Registry!SamePage(u, reg'[y].url)
  <2> SUFFICES ASSUME u \notin doubled'
               PROVE  /\ \A v \in Urls : Registry!SamePage(u, v) => rows[v] = "absent"
                      /\ \A y \in Sessions : reg'[y] # None => ~Registry!SamePage(u, reg'[y].url)
    OBVIOUS
  <2>1. u \notin doubled /\ ~Registry!Overlaps(x)
    BY <1>1, <1>2, SamePageEquivalence DEF Registry!Spellings
  <2>2. \A v \in Urls : Registry!SamePage(u, v) => rows[v] = "absent"
    BY <1>1, <2>1 DEF RequestInv
  <2> QED BY <1>3, <2>1, <2>2 DEF Registry!Overlaps
<1>5. /\ \A y \in Sessions : RequestInv(y)'
      /\ QuietInv'
      /\ rows' \in [Urls -> {"absent", "registered", "ingested"}]
      /\ doubled' \subseteq Urls
  BY <1>1, <1>2, <1>3, <1>4, AppearKeeps
<1>6. Registry!AnswersNameStoredPages'
  <2>1. \A v \in Urls : rows'[v] # "absent" \/ rows[v] = "absent"
    BY <1>2 DEF RegistryInv, Registry!RegistryTypeOK
  <2>2. rows'[u] # "absent"
    BY <1>1, <1>2 DEF RegistryInv, Registry!RegistryTypeOK
  <2>3. ASSUME NEW answer \in answered', answer \notin answered
        PROVE  answer[1] = u /\ answer[2] = u
    BY <1>2, <2>3
  <2>4. ASSUME NEW answer \in answered PROVE answer[2] \in Urls
    BY <2>4 DEF RegistryInv, Registry!RegistryTypeOK
  <2> QED BY <2>1, <2>2, <2>3, <2>4, SamePageEquivalence
          DEF RegistryInv, Registry!AnswersNameStoredPages, Registry!Stored
<1>7. Registry!RegistryTypeOK'
  BY <1>1, <1>2, <1>5 DEF RegistryInv, Registry!RegistryTypeOK
<1> QED BY <1>5, <1>6, <1>7 DEF RegistryInv

LEMMA IngestKeeps ==
  ASSUME RegistryInv, NEW u \in Urls, Registry!Ingest(u)
  PROVE  RegistryInv'
<1>1. /\ rows[u] = "absent" /\ rows' = [rows EXCEPT ![u] = "ingested"]
      /\ doubled' = doubled \cup Registry!Spellings(u)
      /\ UNCHANGED <<reg, answered>>
  BY DEF Registry!Ingest, Registry!Stored, RegistryInv, Registry!RegistryTypeOK
<1>2. u \in doubled'
  BY <1>1, SamePageEquivalence DEF Registry!Spellings
<1>3. /\ \A y \in Sessions : RequestInv(y)'
      /\ QuietInv'
      /\ rows' \in [Urls -> {"absent", "registered", "ingested"}]
      /\ doubled' \subseteq Urls
  BY <1>1, <1>2, AppearKeeps
<1>4. Registry!AnswersNameStoredPages'
  BY <1>1 DEF RegistryInv, Registry!RegistryTypeOK, Registry!AnswersNameStoredPages,
              Registry!Stored
<1> QED BY <1>1, <1>3, <1>4 DEF RegistryInv, Registry!RegistryTypeOK

LEMMA RegistryStepKeeps ==
  ASSUME RegistryInv, NEW x \in Sessions, Registry!RegistryStep(x)
  PROVE  RegistryInv'
<1>1. CASE Registry!LookUpUrl(x)
  <2>1. reg[x] # None /\ reg[x].url \in Urls
    BY <1>1 DEF Registry!LookUpUrl, Registry!In, RegistryInv, Registry!RegistryTypeOK,
                Registry!Request
  <2>2. CASE Registry!Stored(reg[x].url)
    BY <1>1, <2>1, <2>2, SamePageEquivalence, FoundKeeps DEF Registry!LookUpUrl, Registry!Stored
  <2>3. CASE ~Registry!Stored(reg[x].url)
    BY <1>1, <2>1, <2>3, ProceedKeeps DEF Registry!LookUpUrl, Registry!Phase
  <2> QED BY <2>2, <2>3
<1>2. CASE Registry!Insert(x)
  <2>1. reg[x] # None /\ reg[x].phase = "insert" /\ RequestInv(x)
    BY <1>2 DEF Registry!Insert, Registry!In, RegistryInv
  <2>2. CASE Registry!Abort(x)
    BY <2>2, AbortKeeps
  <2>3. CASE Registry!Proceed(x, "flushed")
    BY <2>1, <2>3, ProceedKeeps DEF Registry!Phase, RequestInv
  <2> QED BY <1>2, <2>2, <2>3 DEF Registry!Insert
<1> QED BY <1>1, <1>2, RegisterKeeps, LookUpCanonicalKeeps, CommitKeeps, AbortKeeps
        DEF Registry!RegistryStep

(***************************************************************************)
(* The composition                                                         *)
(***************************************************************************)
\* A request for a job has found its source, and the table holds jobs of
\* sources that are there.
CallerInv(x) ==
  ses[x] # None =>
    /\ ses[x].batch # <<>> => rows[Head(ses[x].batch)] # "absent"
    /\ \A k \in ses[x].pending : rows[k] # "absent"

LinkInv ==
  /\ \A x \in Sessions : CallerInv(x)
  /\ \A k \in Keys : stored[k] > 0 => rows[k] # "absent"

IntakeInv == EnqueueInv /\ RegistryInv /\ LinkInv

LEMMA RouteIsOneKey == OneKeyEach
BY RouteAssumption DEF OneKeyEach

LEMMA RowsStay ==
  ASSUME RegistryInv, RegistrationStep
  PROVE  \A u \in Urls : rows[u] # "absent" => rows'[u] # "absent"
BY DEF RegistrationStep, RegistryInv, Registry!RegistryTypeOK, Registry!RegistryStep,
       Registry!Register, Registry!LookUpUrl, Registry!LookUpCanonical, Registry!Insert,
       Registry!Commit, Registry!Abort, Registry!Ingest, Registry!Found, Registry!Proceed

\* What a request for jobs holds afterwards it held before, or has just named.
LEMMA EnqueueLinks ==
  ASSUME IntakeInv, NEW x \in Sessions, rows' = rows,
         NEW caller \in Caller \cup {None}, ses' = [ses EXCEPT ![x] = caller],
         caller # None =>
           /\ caller.batch # <<>> => rows[Head(caller.batch)] # "absent"
           /\ \A k \in caller.pending : rows[k] # "absent",
         \A k \in Keys : stored'[k] > 0 =>
           stored[k] > 0 \/ (ses[x] # None /\ k \in ses[x].pending)
  PROVE  LinkInv'
<1>1. ASSUME NEW y \in Sessions PROVE CallerInv(y)'
  <2>1. ses'[y] = IF y = x THEN caller ELSE ses[y]
    BY DEF IntakeInv, EnqueueInv, TypeOK
  <2> QED BY <2>1 DEF IntakeInv, LinkInv, CallerInv
<1>2. ASSUME NEW k \in Keys, stored'[k] > 0 PROVE rows'[k] # "absent"
  BY <1>2 DEF IntakeInv, LinkInv, CallerInv
<1> QED BY <1>1, <1>2 DEF LinkInv

LEMMA EnqueueStepKeeps ==
  ASSUME IntakeInv, EnqueueStep
  PROVE  IntakeInv' /\ [Next]_vars
<1> PICK x \in Sessions : \/ \E u \in Urls : CreateCrawlJob(x, u)
                          \/ Select(x)
                          \/ Insert(x)
                          \/ InsertConflict(x)
                          \/ Commit(x)
                          \/ Abort(x)
  BY DEF EnqueueStep
<1>1. [Next]_vars
  BY RouteAssumption DEF CreateCrawlJob, Next
<1>2. EnqueueInv'
  BY <1>1, RouteIsOneKey, NextPreserves DEF IntakeInv
<1>3. UNCHANGED <<rows, reg, answered, doubled>>
  BY DEF EnqueueStep, registryVars
<1>4. RegistryInv'
  BY <1>3 DEF IntakeInv, RegistryInv, Registry!RegistryTypeOK, RequestInv, QuietInv,
              Registry!AnswersNameStoredPages, Registry!Stored
<1>5. EnqueueInv /\ CallerInv(x)
  BY DEF IntakeInv, LinkInv
<1>6. LinkInv'
  <2>1. ASSUME NEW u \in Urls, CreateCrawlJob(x, u) PROVE LinkInv'
    <3> DEFINE caller == [batch |-> <<u>>, missing |-> FALSE, pending |-> {}, created |-> {}]
    <3>1. caller \in Caller
      BY RouteAssumption DEF Caller
    <3>2. caller.batch = <<u>> /\ caller.pending = {} /\ Head(<<u>>) = u
      OBVIOUS
    <3>3. ses' = [ses EXCEPT ![x] = caller] /\ stored' = stored /\ rows[u] # "absent"
      BY <2>1 DEF CreateCrawlJob, Begin, Registry!Stored
    <3> HIDE DEF caller
    <3> QED BY <1>3, <3>1, <3>2, <3>3, EnqueueLinks
  <2>2. CASE Enqueuing(x) /\ (Select(x) \/ Insert(x) \/ InsertConflict(x))
    <3>1. /\ ses[x] \in Caller /\ ses[x] # None
          /\ Head(ses[x].batch) \in Keys /\ Tail(ses[x].batch) = <<>>
          /\ rows[Head(ses[x].batch)] # "absent"
      BY <1>5, <2>2, EnqueuingFacts DEF Enqueuing, CallerInv, EnqueueInv, TypeOK
    <3>2. PICK caller \in Caller :
            /\ ses' = [ses EXCEPT ![x] = caller]
            /\ caller.batch \in {ses[x].batch, Tail(ses[x].batch)}
            /\ caller.pending \subseteq ses[x].pending \cup {Head(ses[x].batch)}
      <4>1. /\ \A k \in {TRUE, FALSE} : [ses[x] EXCEPT !.missing = k] \in Caller
            /\ [ses[x] EXCEPT !.batch = Tail(@)] \in Caller
            /\ [batch |-> Tail(ses[x].batch), missing |-> FALSE,
                pending |-> ses[x].pending \cup {Head(ses[x].batch)},
                created |-> ses[x].created \cup {Head(ses[x].batch)}] \in Caller
            /\ [batch |-> Tail(ses[x].batch), missing |-> FALSE, pending |-> {},
                created |-> ses[x].created] \in Caller
        BY <1>5, <2>2, <3>1, EnqueuingFacts DEF Caller
      <4>2. CASE Select(x)
        BY <3>1, <4>1, <4>2 DEF Select, Caller, EnqueueInv, TypeOK, IntakeInv
      <4>3. CASE Insert(x)
        BY <3>1, <4>1, <4>3 DEF Insert, Caller, EnqueueInv, TypeOK, IntakeInv
      <4>4. CASE InsertConflict(x)
        BY <3>1, <4>1, <4>4 DEF InsertConflict, Caller, EnqueueInv, TypeOK, IntakeInv
      <4> QED BY <2>2, <4>2, <4>3, <4>4
    <3>3. stored' = stored
      BY <2>2 DEF Select, Insert, InsertConflict
    <3>4. \A k \in caller.pending : rows[k] # "absent"
      BY <1>5, <3>1, <3>2 DEF CallerInv
    <3>5. caller.batch # <<>> => rows[Head(caller.batch)] # "absent"
      BY <3>1, <3>2
    <3> QED BY <1>3, <3>2, <3>3, <3>4, <3>5, EnqueueLinks
  <2>3. CASE Commit(x) \/ Abort(x)
    <3>1. ses' = [ses EXCEPT ![x] = None]
      BY <2>3 DEF Commit, Abort
    <3>2. \A k \in Keys : stored'[k] > 0 =>
            stored[k] > 0 \/ (ses[x] # None /\ k \in ses[x].pending)
      BY <2>3 DEF Commit, Abort
    <3> QED BY <1>3, <3>1, <3>2, EnqueueLinks
  <2>4. Select(x) \/ Insert(x) \/ InsertConflict(x) => Enqueuing(x)
    BY DEF Select, Insert, InsertConflict, Inserting
  <2> QED BY <2>1, <2>2, <2>3, <2>4
<1> QED BY <1>1, <1>2, <1>4, <1>6 DEF IntakeInv

LEMMA IntakeStepKeeps ==
  ASSUME IntakeInv, [IntakeNext]_intakeVars
  PROVE  IntakeInv' /\ [Next]_vars
<1>1. CASE UNCHANGED intakeVars
  <2>1. UNCHANGED vars /\ UNCHANGED <<rows, reg, answered, doubled>>
    BY <1>1 DEF intakeVars, vars
  <2>2. EnqueueInv'
    BY <2>1, NextPreserves, RouteIsOneKey DEF IntakeInv
  <2> QED BY <2>1, <2>2
          DEF vars, IntakeInv, RegistryInv, Registry!RegistryTypeOK, RequestInv, QuietInv,
              Registry!AnswersNameStoredPages, Registry!Stored, LinkInv, CallerInv
<1>2. CASE RegistrationStep
  <2>1. UNCHANGED vars
    BY <1>2 DEF RegistrationStep
  <2>2. EnqueueInv'
    BY <2>1, NextPreserves, RouteIsOneKey DEF IntakeInv
  <2>3. RegistryInv'
    BY <1>2, RegistryStepKeeps, IngestKeeps DEF RegistrationStep, IntakeInv
  <2>4. \A u \in Urls : rows[u] # "absent" => rows'[u] # "absent"
    BY <1>2, RowsStay DEF IntakeInv
  <2>5. LinkInv'
    <3>1. \A k \in Keys : rows[k] # "absent" => rows'[k] # "absent"
      BY <2>4, RouteAssumption
    <3>2. ASSUME NEW x \in Sessions PROVE CallerInv(x)'
      <4>1. SUFFICES ASSUME ses[x] # None PROVE CallerInv(x)'
        BY <2>1 DEF vars, CallerInv
      <4>2. ses[x] \in Caller /\ CallerInv(x)
        BY <4>1 DEF IntakeInv, LinkInv, EnqueueInv, TypeOK
      <4>3. ses[x].batch # <<>> => Head(ses[x].batch) \in Keys
        BY <4>1, <4>2, EnqueuingFacts DEF IntakeInv, Enqueuing
      <4> QED BY <2>1, <3>1, <4>1, <4>2, <4>3 DEF vars, CallerInv, Caller
    <3> QED BY <2>1, <3>1, <3>2 DEF vars, IntakeInv, LinkInv
  <2> QED BY <2>1, <2>2, <2>3, <2>5 DEF IntakeInv
<1>3. CASE EnqueueStep
  BY <1>3, EnqueueStepKeeps
<1> QED BY <1>1, <1>2, <1>3 DEF IntakeNext

LEMMA IntakeInvariant == IntakeSpec => []IntakeInv
<1>1. IntakeInit => IntakeInv
  <2>1. SUFFICES ASSUME IntakeInit PROVE IntakeInv
    OBVIOUS
  <2>2. EnqueueInv /\ RegistryInv
    BY <2>1, InitInv, InitRegistryInv DEF IntakeInit
  <2>3. LinkInv
    BY <2>1 DEF IntakeInit, Init, LinkInv, CallerInv
  <2> QED BY <2>2, <2>3 DEF IntakeInv
<1>2. IntakeInv /\ [IntakeNext]_intakeVars => IntakeInv'
  BY IntakeStepKeeps
<1> QED BY <1>1, <1>2, PTL DEF IntakeSpec

(***************************************************************************)
(* The theorems                                                            *)
(***************************************************************************)
\* A request that comes when its page is registered never inserts a row.
THEOREM LateRequestsReuse == IntakeSpec => []DuplicatesOnlyByRace
<1>1. IntakeInv => DuplicatesOnlyByRace
  BY DEF IntakeInv, RegistryInv, RequestInv, DuplicatesOnlyByRace,
         Registry!DuplicatesOnlyByRace, Registry!In
<1> QED BY IntakeInvariant, <1>1, PTL

\* Whichever lookup or insert answers, the source answered is stored and is of
\* the page that was asked for.
THEOREM AnswersAreRight == IntakeSpec => []AnswersNameStoredPages
<1>1. IntakeInv => AnswersNameStoredPages
  BY DEF IntakeInv, RegistryInv, AnswersNameStoredPages
<1> QED BY IntakeInvariant, <1>1, PTL

\* register_source and enqueue_crawl_job together: a page whose registrations
\* never overlapped has at most one source with a crawl job.
THEOREM OneJobForAPage == IntakeSpec => []OneJobPerPage
<1>1. IntakeInv => OneJobPerPage
  BY RouteAssumption DEF IntakeInv, RegistryInv, QuietInv, LinkInv, OneJobPerPage
<1> QED BY IntakeInvariant, <1>1, PTL

\* The requests of Intake are, for the job table, the calls of JobEnqueue: all
\* that is proved of it holds here.
THEOREM IntakeImplementsJobEnqueue == IntakeSpec => Spec
<1>1. IntakeInit => Init
  BY DEF IntakeInit
<1>2. IntakeInv /\ [IntakeNext]_intakeVars => [Next]_vars
  BY IntakeStepKeeps
<1> QED BY IntakeInvariant, <1>1, <1>2, PTL DEF IntakeSpec, Spec

\* The crawl-job route names one source a call, so of the job table the claims
\* that racing batches break hold here without a condition: a source has at most
\* one job, and every job was reported created to exactly one request.
THEOREM OneJobPerSource == IntakeSpec => [](OneJobPerKey /\ CreatedMeansStored)
<1>1. IntakeInv => OneJobPerKey /\ CreatedMeansStored
  BY DEF IntakeInv, EnqueueInv
<1> QED BY IntakeInvariant, <1>1, PTL
===============================================================================
