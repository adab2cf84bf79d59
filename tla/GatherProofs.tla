---------------------------- MODULE GatherProofs ----------------------------
(***************************************************************************)
(* Proofs about the two slow operations of the GUI: a fetch, for any       *)
(* sources, offers and number of workers; a search, for any rows, limit    *)
(* and page size; and what a fetch asks when searches replace the targets. *)
(***************************************************************************)
EXTENDS Gather, FiniteSetTheorems, WellFoundedInduction, TLAPS

-----------------------------------------------------------------------------
(* The fetch.                                                              *)

\* Indices are taken from the channel one by one; each taken one is with one
\* worker or has its result, and the first worker ends only when all are taken.
Channel ==
    phase = "fetch" =>
        /\ list # << >>
        /\ \A i \in 1..Len(list) :
              i < job => slot[i].state # "none" \/ \E w \in Workers : work[w] = i
        /\ \A i \in 1..Len(list) : i >= job => slot[i].state = "none"
        /\ \A w \in Workers : work[w] > 0 => work[w] < job /\ slot[work[w]].state = "none"
        /\ \A v, w \in Workers : work[v] > 0 /\ work[v] = work[w] => v = w
        /\ work[1] = -1 => job = Len(list) + 1

\* What the merge has done with the answers before "at".
MergedSoFar ==
    phase \in {"merge", "done"} =>
        \A k \in Keys :
            /\ \A i \in 1..Len(list) :
                  i < at /\ k \in Accepted(slot[i].offers) => pool[k] # 0 /\ pool[k] <= i
            /\ pool[k] # 0 => /\ pool[k] \in 1..Len(list)
                              /\ pool[k] < at
                              /\ k \in Accepted(slot[pool[k]].offers)

AtEnd == phase = "done" => at = Len(list) + 1

\* Before the merge there is no result.
NotMerging == phase \in {"idle", "fetch"} => at = 1 /\ pool = Empty

FetchInv == FetchTypeOK /\ Channel /\ AllAsked /\ MergedSoFar /\ AtEnd /\ NotMerging

\* There is a first worker.
LEMMA FirstWorker == 1 \in Workers /\ Workers \subseteq Nat \ {0}
  BY FetchAssumption DEF Workers

\* No call of FetchWithOptions: its locals are empty.
LEMMA ForgottenInv ==
    ASSUME FetchForget
    PROVE  FetchInv'
  <1>1. FetchTypeOK'
    BY FirstWorker DEF FetchForget, FetchTypeOK, Empty
  <1> QED
    BY <1>1 DEF FetchForget, FetchInv, Channel, AllAsked, MergedSoFar, AtEnd, NotMerging

\* The invariant holds before the first call.
LEMMA FetchInitInv == FetchInit => FetchInv
  <1> SUFFICES ASSUME FetchInit PROVE FetchInv
    OBVIOUS
  <1>1. FetchTypeOK
    BY FirstWorker DEF FetchInit, FetchTypeOK, Empty
  <1> QED
    BY <1>1 DEF FetchInit, FetchInv, Channel, AllAsked, MergedSoFar, AtEnd, NotMerging

\* The beginning of a call keeps the invariant.
LEMMA FetchBeginInv ==
    ASSUME FetchInv, NEW s \in Seq(Sources), FetchBegin(s)
    PROVE  FetchInv'
  <1>1. FetchTypeOK'
    <2>1. /\ phase' = "fetch" /\ list' = s /\ job' = 1
          /\ Len(s) \in Nat \ {0}
          /\ at' = at /\ pool' = pool
      BY DEF FetchBegin
    <2>2. at = 1 /\ pool = Empty
      BY DEF FetchBegin, FetchInv, NotMerging
    <2> QED
      BY <2>1, <2>2, FirstWorker DEF FetchBegin, FetchInv, FetchTypeOK, NotAsked, Empty
  <1>2. Channel'
    BY FirstWorker DEF FetchBegin, Channel, NotAsked
  <1> QED
    BY <1>1, <1>2 DEF FetchBegin, FetchInv, AllAsked, MergedSoFar, AtEnd, NotMerging

\* A worker that receives an index keeps the invariant.
LEMMA TakeInv ==
    ASSUME FetchInv, NEW w \in Workers, Take(w)
    PROVE  FetchInv'
  <1>0. FetchTypeOK /\ Channel /\ NotMerging
    BY DEF FetchInv
  <1>1. /\ phase = "fetch" /\ phase' = "fetch" /\ list' = list /\ slot' = slot
        /\ at' = at /\ pool' = pool
        /\ work[w] = 0 /\ work' = [work EXCEPT ![w] = job] /\ job' = job + 1
        /\ job \in 1..Len(list)
    BY DEF Take, NextJob, Jobs
  <1>2. FetchTypeOK'
    BY <1>0, <1>1 DEF FetchTypeOK
  <1>3. Channel'
    <2>1. /\ list # << >> /\ Len(list) \in Nat
          /\ slot[job].state = "none"
          /\ \A v \in Workers : work[v] \in Int /\ (work[v] > 0 => work[v] < job)
      BY <1>0, <1>1 DEF Channel, FetchTypeOK
    <2>2. \A v \in Workers : work'[v] = IF v = w THEN job ELSE work[v]
      BY <1>0, <1>1 DEF FetchTypeOK
    <2>3. \A i \in 1..Len(list) :
             i < job + 1 => slot[i].state # "none" \/ \E v \in Workers : work'[v] = i
      <3> SUFFICES ASSUME NEW i \in 1..Len(list), i < job + 1
                   PROVE  slot[i].state # "none" \/ \E v \in Workers : work'[v] = i
        OBVIOUS
      <3>1. CASE i = job
        BY <3>1, <2>2
      <3>2. CASE i # job
        BY <3>2, <1>0, <1>1, <2>2 DEF Channel
      <3> QED
        BY <3>1, <3>2
    <2>4. \A i \in 1..Len(list) : i >= job + 1 => slot[i].state = "none"
      BY <1>0, <1>1, <2>1 DEF Channel
    <2>5. \A v \in Workers : work'[v] > 0 => work'[v] < job + 1 /\ slot[work'[v]].state = "none"
      BY <1>0, <1>1, <2>1, <2>2 DEF Channel
    <2>6. \A u, v \in Workers : work'[u] > 0 /\ work'[u] = work'[v] => u = v
      BY <1>0, <1>1, <2>1, <2>2 DEF Channel
    <2>7. work'[1] = -1 => job + 1 = Len(list) + 1
      BY <1>0, <1>1, <2>1, <2>2, FirstWorker DEF Channel
    <2> QED
      BY <1>1, <2>1, <2>3, <2>4, <2>5, <2>6, <2>7 DEF Channel
  <1> QED
    BY <1>0, <1>1, <1>2, <1>3 DEF FetchInv, AllAsked, MergedSoFar, AtEnd, NotMerging

\* A stored answer keeps the invariant.
LEMMA StoreInv ==
    ASSUME FetchInv, NEW w \in Workers, NEW answer, Store(w, answer),
           answer \in [state : {"ok", "error"}, offers : SUBSET Offers]
    PROVE  FetchInv'
  <1>0. FetchTypeOK /\ Channel /\ NotMerging
    BY DEF FetchInv
  <1>1. /\ phase = "fetch" /\ phase' = "fetch" /\ list' = list
        /\ slot' = [slot EXCEPT ![work[w]] = answer]
        /\ at' = at /\ pool' = pool /\ job' = job
        /\ work[w] > 0 /\ work' = [work EXCEPT ![w] = 0]
    BY DEF Store
  <1>2. work[w] \in 1..Len(list) /\ work[w] < job
    BY <1>0, <1>1 DEF FetchTypeOK, Channel
  <1>3. FetchTypeOK'
    BY <1>0, <1>1, <1>2 DEF FetchTypeOK
  <1>4. Channel'
    BY <1>0, <1>1, <1>2, FirstWorker DEF Channel, FetchTypeOK
  <1> QED
    BY <1>0, <1>1, <1>3, <1>4 DEF FetchInv, AllAsked, MergedSoFar, AtEnd, NotMerging

\* A worker that ends keeps the invariant.
LEMMA WorkerDoneInv ==
    ASSUME FetchInv, NEW w \in Workers, WorkerDone(w)
    PROVE  FetchInv'
  <1>0. FetchTypeOK /\ Channel /\ NotMerging
    BY DEF FetchInv
  <1>1. /\ phase = "fetch" /\ phase' = "fetch" /\ list' = list /\ slot' = slot
        /\ at' = at /\ pool' = pool /\ job' = job
        /\ work[w] = 0 /\ work' = [work EXCEPT ![w] = -1]
        /\ job \notin 1..Len(list)
    BY DEF WorkerDone, Jobs
  <1>2. FetchTypeOK'
    BY <1>0, <1>1 DEF FetchTypeOK
  <1>3. Channel'
    BY <1>0, <1>1, FirstWorker DEF Channel, FetchTypeOK
  <1> QED
    BY <1>0, <1>1, <1>2, <1>3 DEF FetchInv, AllAsked, MergedSoFar, AtEnd, NotMerging

\* The end of the wait: all indices were taken and no worker holds one.
LEMMA WaitInv ==
    ASSUME FetchInv, Wait
    PROVE  FetchInv'
  <1>0. FetchTypeOK /\ Channel
    BY DEF FetchInv
  <1>1. /\ phase = "fetch" /\ phase' = "merge" /\ list' = list /\ slot' = slot
        /\ at' = 1 /\ pool' = Empty /\ job' = job /\ work' = work
        /\ \A w \in Workers : work[w] = -1
    BY DEF Wait, AllDone
  <1>2. FetchTypeOK'
    BY <1>0, <1>1 DEF FetchTypeOK, Empty
  <1>3. AllAsked'
    BY <1>0, <1>1, FirstWorker DEF AllAsked, Channel, FetchTypeOK
  <1>4. MergedSoFar'
    BY <1>0, <1>1 DEF MergedSoFar, Empty, FetchTypeOK
  <1> QED
    BY <1>1, <1>2, <1>3, <1>4 DEF FetchInv, Channel, AtEnd, NotMerging

\* A turn of the merge keeps the invariant.
LEMMA MergeOneInv ==
    ASSUME FetchInv, MergeOne
    PROVE  FetchInv'
  <1>0. FetchTypeOK /\ AllAsked /\ MergedSoFar
    BY DEF FetchInv
  <1>1. /\ phase = "merge" /\ phase' = "merge" /\ list' = list /\ slot' = slot
        /\ at' = at + 1 /\ job' = job /\ work' = work
        /\ pool' = [k \in Keys |-> IF k \in FreshKeys THEN at ELSE pool[k]]
        /\ at \in 1..Len(list)
    BY <1>0 DEF MergeOne, FetchTypeOK
  <1>2. FetchTypeOK'
    BY <1>0, <1>1 DEF FetchTypeOK
  <1>3. MergedSoFar'
    <2> SUFFICES ASSUME NEW k \in Keys
                 PROVE  /\ \A i \in 1..Len(list) :
                              i < at + 1 /\ k \in Accepted(slot[i].offers)
                                => pool'[k] # 0 /\ pool'[k] <= i
                        /\ pool'[k] # 0 => /\ pool'[k] \in 1..Len(list)
                                           /\ pool'[k] < at + 1
                                           /\ k \in Accepted(slot[pool'[k]].offers)
      BY <1>1 DEF MergedSoFar, Accepted
    <2>1. pool[k] \in Nat /\ at \in Nat \ {0} /\ Len(list) \in Nat
      BY <1>0, <1>1 DEF FetchTypeOK
    <2>2. /\ \A i \in 1..Len(list) :
                 i < at /\ k \in Accepted(slot[i].offers) => pool[k] # 0 /\ pool[k] <= i
          /\ pool[k] # 0 => /\ pool[k] \in 1..Len(list)
                            /\ pool[k] < at
                            /\ k \in Accepted(slot[pool[k]].offers)
      BY <1>0, <1>1 DEF MergedSoFar
    <2>3. CASE k \in FreshKeys
      <3>1. pool'[k] = at /\ pool[k] = 0 /\ k \in Accepted(slot[at].offers)
        BY <1>1, <2>3 DEF FreshKeys
      <3> QED
        BY <1>1, <2>1, <2>2, <3>1
    <2>4. CASE k \notin FreshKeys
      <3>1. pool'[k] = pool[k]
        BY <1>1, <2>4
      <3>2. k \in Accepted(slot[at].offers) => pool[k] # 0
        BY <2>4 DEF FreshKeys
      <3> QED
        BY <1>1, <2>1, <2>2, <3>1, <3>2
    <2> QED
      BY <2>3, <2>4
  <1> QED
    BY <1>0, <1>1, <1>2, <1>3 DEF FetchInv, Channel, AllAsked, AtEnd, NotMerging

\* Returning the result keeps the invariant.
LEMMA ReturnInv ==
    ASSUME FetchInv, Return
    PROVE  FetchInv'
  <1>0. FetchTypeOK /\ AllAsked /\ MergedSoFar
    BY DEF FetchInv
  <1>1. /\ phase = "merge" /\ phase' = "done" /\ list' = list /\ slot' = slot
        /\ at' = at /\ pool' = pool /\ job' = job /\ work' = work
        /\ at = Len(list) + 1
    BY <1>0 DEF Return, FetchTypeOK
  <1> QED
    BY <1>0, <1>1 DEF FetchInv, FetchTypeOK, Channel, AllAsked, MergedSoFar, AtEnd, NotMerging

\* Every step keeps the invariant.
LEMMA FetchNextInv == FetchInv /\ [FetchNext]_fetchVars => FetchInv'
  <1> SUFFICES ASSUME FetchInv, [FetchNext]_fetchVars PROVE FetchInv'
    OBVIOUS
  <1>1. ASSUME NEW w \in Workers, Answer(w) \/ SourceFails(w) PROVE FetchInv'
    <2>1. PICK answer \in [state : {"ok", "error"}, offers : SUBSET Offers] : Store(w, answer)
      BY <1>1, FetchAssumption DEF Answer, SourceFails, Answers, Failed
    <2> QED
      BY <2>1, StoreInv
  <1>2. CASE UNCHANGED fetchVars
    BY <1>2 DEF fetchVars, FetchInv, FetchTypeOK, Channel, AllAsked, MergedSoFar, AtEnd, NotMerging
  <1> QED
    BY <1>1, <1>2, TakeInv, WorkerDoneInv, WaitInv, MergeOneInv, ReturnInv, FetchBeginInv, ForgottenInv
       DEF FetchNext, FetchStep, WorkerStep, FetchEnd

\* The inductive invariant holds in every reachable state.
LEMMA FetchInvariance == FetchSpec => []FetchInv
  BY FetchInitInv, FetchNextInv, PTL DEF FetchSpec

\* Every variable of a fetch keeps its type, for any number of sources and
\* workers.
THEOREM FetchTypeCorrect == FetchSpec => []FetchTypeOK
  BY FetchInvariance, PTL DEF FetchInv

\* The merge begins only when every source has answered or failed.
THEOREM AllAskedHolds == FetchSpec => []AllAsked
  BY FetchInvariance, PTL DEF FetchInv

\* A key is in the result exactly when a source offered it, and is taken from
\* the first that did, whatever the order in which the sources answered.
THEOREM FirstSourceWinsHolds == FetchSpec => []FirstSourceWins
  <1>1. FetchInv => FirstSourceWins
    <2> SUFFICES ASSUME FetchInv, phase = "done", NEW k \in Keys
                 PROVE  LET from == {i \in 1..Len(list) : k \in Accepted(slot[i].offers)}
                        IN  IF from = {} THEN pool[k] = 0
                            ELSE pool[k] \in from /\ \A i \in from : pool[k] <= i
      BY DEF FirstSourceWins
    <2>1. at = Len(list) + 1 /\ Len(list) \in Nat
      BY DEF FetchInv, AtEnd, FetchTypeOK
    <2>2. MergedSoFar
      BY DEF FetchInv
    <2> QED
      BY <2>1, <2>2 DEF MergedSoFar
  <1> QED
    BY <1>1, FetchInvariance, PTL

\* No source is asked twice and no answer is overwritten while others come.
THEOREM AskedOnceHolds == FetchSpec => AskedOnce
  <1> DEFINE Stays == \A i \in 1..Len(list) :
                phase = "fetch" /\ slot[i].state # "none" /\ phase' # "idle"
                    => slot'[i] = slot[i]
  <1>1. ASSUME FetchInv, [FetchNext]_fetchVars PROVE [Stays]_fetchVars
    <2> SUFFICES ASSUME FetchNext, phase = "fetch", phase' # "idle",
                        NEW i \in 1..Len(list), slot[i].state # "none"
                 PROVE  slot'[i] = slot[i]
      BY <1>1
    <2>1. ASSUME NEW w \in Workers, NEW answer, Store(w, answer) PROVE slot'[i] = slot[i]
      <3>1. work[w] # i /\ slot' = [slot EXCEPT ![work[w]] = answer]
        BY <1>1, <2>1 DEF FetchInv, Channel, Store
      <3>2. i \in DOMAIN slot
        BY <1>1 DEF FetchInv, FetchTypeOK
      <3> QED
        BY <3>1, <3>2, <1>1 DEF FetchInv, FetchTypeOK
    <2> QED
      BY <2>1 DEF FetchNext, FetchStep, WorkerStep, Take, Answer, SourceFails, WorkerDone,
                  Wait, MergeOne, Return, FetchEnd, FetchForget, FetchBegin
  <1>2. FetchInv /\ [FetchNext]_fetchVars => [Stays]_fetchVars
    BY <1>1
  <1>3. FetchSpec => [][Stays]_fetchVars
    BY <1>2, FetchInvariance, PTL DEF FetchSpec
  <1> QED
    BY <1>3 DEF AskedOnce

-----------------------------------------------------------------------------
(* The search.  Lemmas about first places and counting.                    *)

\* The target of Hunter's row r.
Target(r) == TargetOf["hunter"][r]

\* The targets of the first c rows.
Upto(h, c) == {Target(h[i]) : i \in 1..c} \ {NoUrl}

\* A set of numbers that is not empty has a least one.
LEMMA LeastPlace ==
    ASSUME NEW S \in SUBSET Nat, S # {}
    PROVE  /\ Min(S) \in S
           /\ \A i \in S : Min(S) <= i
  <1>1. PICK m \in S : \A i \in S : ~(<<i, m>> \in OpToRel(<, Nat))
    BY NatLessThanWellFounded, WFMin, Zenon
  <1>2. \A i \in S : ~(i < m)
    BY <1>1 DEF OpToRel
  <1>3. \A i \in S : m <= i
    BY <1>2
  <1>4. QED
    BY <1>3 DEF Min

\* What Min says of two numbers.
LEMMA MinOfTwo ==
    ASSUME NEW a \in Int, NEW b \in Int
    PROVE  Min({a, b}) = IF a <= b THEN a ELSE b
  BY DEF Min

\* What Max says of two numbers.
LEMMA MaxOfTwo ==
    ASSUME NEW a \in Int, NEW b \in Int
    PROVE  Max({a, b}) = IF a >= b THEN a ELSE b
  BY DEF Max

\* First is the first place.
LEMMA FirstFacts ==
    ASSUME NEW h \in Seq(Rows), NEW u \in UrlsOf("hunter", h)
    PROVE  /\ First(h, u) \in 1..Len(h)
           /\ Target(h[First(h, u)]) = u
           /\ \A j \in 1..Len(h) : Target(h[j]) = u => First(h, u) <= j
  <1> DEFINE S == {i \in 1..Len(h) : Target(h[i]) = u}
  <1>1. S \in SUBSET Nat /\ S # {}
    BY DEF UrlsOf, Target
  <1>2. First(h, u) = Min(S)
    BY DEF First, Target
  <1> HIDE DEF S
  <1>3. Min(S) \in S /\ \A i \in S : Min(S) <= i
    BY <1>1, LeastPlace
  <1>4. QED
    BY <1>2, <1>3 DEF S

\* The targets of all rows.
LEMMA UptoAll ==
    ASSUME NEW h \in Seq(Rows)
    PROVE  UrlsOf("hunter", h) = Upto(h, Len(h))
  BY DEF UrlsOf, Upto, Target

\* A target is among those of the first c rows if its first place is.
LEMMA UptoFirst ==
    ASSUME NEW h \in Seq(Rows), NEW u \in UrlsOf("hunter", h), NEW c \in 0..Len(h)
    PROVE  u \in Upto(h, c) <=> First(h, u) <= c
  <1>1. /\ First(h, u) \in 1..Len(h)
        /\ Target(h[First(h, u)]) = u
        /\ \A j \in 1..Len(h) : Target(h[j]) = u => First(h, u) <= j
    BY FirstFacts
  <1>2. u # NoUrl
    BY DEF UrlsOf
  <1>3. QED
    BY <1>1, <1>2 DEF Upto

\* There are finitely many.
LEMMA UptoFinite ==
    ASSUME NEW h, NEW c \in Nat
    PROVE  IsFiniteSet(Upto(h, c)) /\ Cardinality(Upto(h, c)) \in Nat
  <1> DEFINE f == [i \in 1..c |-> Target(h[i])]
             S == {Target(h[i]) : i \in 1..c}
  <1>1. f \in Surjection(1..c, S)
    BY DEF Surjection
  <1>2. IsFiniteSet(1..c)
    BY FS_Interval
  <1> HIDE DEF f, S
  <1>3. IsFiniteSet(S)
    BY <1>1, <1>2, FS_Surjection
  <1>4. IsFiniteSet(Upto(h, c))
    BY <1>3, FS_Difference DEF Upto, S
  <1>5. QED
    BY <1>4, FS_CardinalityType

\* More rows, more targets.
LEMMA UptoMore ==
    ASSUME NEW h, NEW c \in Nat, NEW d \in Nat, c <= d
    PROVE  /\ Upto(h, c) \subseteq Upto(h, d)
           /\ Cardinality(Upto(h, c)) <= Cardinality(Upto(h, d))
  <1>1. Upto(h, c) \subseteq Upto(h, d)
    BY DEF Upto
  <1>2. QED
    BY <1>1, UptoFinite, FS_Subset

(* A page: the rows a + 1 to b, when the first c are known, c at least a.  *)

Later(c, b) == IF b > c THEN b ELSE c
Page(h, a, b) == SubSeq(h, a + 1, b)
Fresh(h, a, b, c) == UrlsOf("hunter", Page(h, a, b)) \ Upto(h, c)

\* A page's rows.
LEMMA PageRows ==
    ASSUME NEW h \in Seq(Rows), NEW a \in 0..Len(h), NEW b \in 0..Len(h)
    PROVE  /\ Page(h, a, b) \in Seq(Rows)
           /\ Len(Page(h, a, b)) = IF a + 1 <= b THEN b - a ELSE 0
           /\ \A i \in 1..Len(Page(h, a, b)) : Page(h, a, b)[i] = h[a + i]
  <1>1. Page(h, a, b) \in Seq(Rows)
    BY DEF Page
  <1>2. Len(Page(h, a, b)) = IF a + 1 <= b THEN b - a ELSE 0
    BY DEF Page
  <1>3. \A i \in 1..Len(Page(h, a, b)) : Page(h, a, b)[i] = h[a + i]
    BY DEF Page
  <1>4. QED
    BY <1>1, <1>2, <1>3

\* What a page adds, and the places on the page and among all rows.
LEMMA PageAdds ==
    ASSUME NEW h \in Seq(Rows), NEW c \in 0..Len(h), NEW a \in 0..c, NEW b \in 0..Len(h)
    PROVE  /\ Page(h, a, b) \in Seq(Rows)
           /\ Fresh(h, a, b, c) = Upto(h, Later(c, b)) \ Upto(h, c)
           /\ Fresh(h, a, b, c) \subseteq UrlsOf("hunter", h)
           /\ \A u \in Fresh(h, a, b, c) :
                 u \in UrlsOf("hunter", Page(h, a, b)) /\ First(h, u) = a + First(Page(h, a, b), u)
  <1> DEFINE rows == Page(h, a, b)
             new  == Fresh(h, a, b, c)
  <1>1. /\ rows \in Seq(Rows)
        /\ Len(rows) = IF a + 1 <= b THEN b - a ELSE 0
        /\ \A i \in 1..Len(rows) : rows[i] = h[a + i]
    <2>1. a \in 0..Len(h)
      OBVIOUS
    <2>2. QED
      BY <2>1, PageRows
  <1>2. UrlsOf("hunter", rows) = {Target(rows[i]) : i \in 1..Len(rows)} \ {NoUrl}
    BY DEF UrlsOf, Target
  <1>2a. new = UrlsOf("hunter", rows) \ Upto(h, c)
    BY DEF Fresh
  <1> HIDE DEF rows, new
  <1>3. \A i \in 1..Len(rows) : a + i \in 1..Len(h) /\ a + i <= Later(c, b)
    BY <1>1 DEF Later
  <1>4. \A i \in 1..Later(c, b) : i > c => i - a \in 1..Len(rows) /\ rows[i - a] = h[i]
    <2> SUFFICES ASSUME NEW i \in 1..Later(c, b), i > c
                 PROVE  i - a \in 1..Len(rows) /\ rows[i - a] = h[i]
      OBVIOUS
    <2>1. i \in Nat /\ a \in Nat /\ b \in Nat /\ i <= b /\ a < i
      BY DEF Later
    <2>2. a + 1 <= b /\ i - a \in 1..(b - a) /\ a + (i - a) = i
      BY <2>1
    <2>3. QED
      BY <1>1, <2>2
  <1>5. ASSUME NEW u \in new PROVE u \in Upto(h, Later(c, b)) \ Upto(h, c)
    <2>1. PICK i \in 1..Len(rows) : u = Target(rows[i]) /\ u # NoUrl
      BY <1>2, <1>2a, <1>5
    <2>2. /\ a + i \in 1..Len(h) /\ a + i <= Later(c, b)
          /\ rows[i] = h[a + i]
      BY <1>1, <1>3
    <2>2a. Later(c, b) \in Nat
      BY DEF Later
    <2>2b. a + i \in 1..Later(c, b)
      BY <2>2, <2>2a
    <2>3. QED
      BY <1>2a, <1>5, <2>1, <2>2, <2>2b DEF Upto
  <1>6. ASSUME NEW u \in Upto(h, Later(c, b)) \ Upto(h, c) PROVE u \in new
    <2>1. PICK i \in 1..Later(c, b) : u = Target(h[i]) /\ u # NoUrl
      BY <1>6 DEF Upto
    <2>2. i > c
      BY <1>6, <2>1 DEF Upto
    <2>3. QED
      BY <1>2, <1>2a, <1>4, <1>6, <2>1, <2>2
  <1>7. new = Upto(h, Later(c, b)) \ Upto(h, c)
    BY <1>5, <1>6
  <1>8. new \subseteq UrlsOf("hunter", h)
    BY <1>7, UptoAll DEF Upto, Later
  <1>9. ASSUME NEW u \in new PROVE First(h, u) = a + First(rows, u)
    <2>1. u \in UrlsOf("hunter", rows) /\ u \in UrlsOf("hunter", h) /\ u \notin Upto(h, c)
      BY <1>2a, <1>8, <1>9
    <2>2. /\ First(h, u) \in 1..Len(h) /\ Target(h[First(h, u)]) = u
          /\ \A j \in 1..Len(h) : Target(h[j]) = u => First(h, u) <= j
      BY <2>1, FirstFacts
    <2>3. /\ First(rows, u) \in 1..Len(rows) /\ Target(rows[First(rows, u)]) = u
          /\ \A j \in 1..Len(rows) : Target(rows[j]) = u => First(rows, u) <= j
      BY <1>1, <2>1, FirstFacts
    <2>4. First(h, u) > c
      BY <2>1, <2>2, UptoFirst
    <2>5. First(h, u) <= Later(c, b)
      <3>1. u \in Upto(h, Later(c, b)) /\ Later(c, b) \in 0..Len(h)
        BY <1>7, <1>9 DEF Later
      <3>2. QED
        BY <2>1, <3>1, UptoFirst
    <2>6. First(h, u) <= a + First(rows, u)
      BY <1>1, <1>3, <2>2, <2>3
    <2>7. First(rows, u) <= First(h, u) - a
      BY <1>4, <2>2, <2>3, <2>4, <2>5
    <2>8. QED
      BY <2>2, <2>3, <2>6, <2>7
  <1>10. QED
    BY <1>1, <1>2a, <1>7, <1>8, <1>9 DEF rows, new

\* The targets that come before u.
Earlier(h, u) == {v \in UrlsOf("hunter", h) : First(h, v) < First(h, u)}

\* What is wanted, in these terms.
LEMMA WantedIs ==
    ASSUME NEW h \in Seq(Rows), NEW n \in Nat
    PROVE  NextUrls(h, {}, n) = {u \in UrlsOf("hunter", h) : Cardinality(Earlier(h, u)) < n}
  BY DEF NextUrls, Earlier

\* All targets that come before another one are finitely many.
LEMMA EarlierFinite ==
    ASSUME NEW h \in Seq(Rows), NEW u
    PROVE  IsFiniteSet(Earlier(h, u)) /\ Cardinality(Earlier(h, u)) \in Nat
  <1>1. IsFiniteSet(UrlsOf("hunter", h))
    BY UptoAll, UptoFinite
  <1>2. Earlier(h, u) \in SUBSET UrlsOf("hunter", h)
    BY DEF Earlier
  <1>3. IsFiniteSet(Earlier(h, u))
    BY <1>1, <1>2, FS_Subset
  <1>4. QED
    BY <1>3, FS_CardinalityType

\* How many targets precede a known one, a new one and one beyond the page.
LEMMA Precedes ==
    ASSUME NEW h \in Seq(Rows), NEW c \in 0..Len(h), NEW a \in 0..c, NEW b \in 0..Len(h),
           NEW u \in UrlsOf("hunter", h)
    PROVE  LET rows == Page(h, a, b)
               new  == Fresh(h, a, b, c)
               less == {v \in new : First(rows, v) < First(rows, u)}
           IN  /\ u \in Upto(h, c) => Cardinality(Earlier(h, u)) <= Cardinality(Upto(h, c))
               /\ u \in new =>
                     /\ Cardinality(less) \in Nat
                     /\ Cardinality(Earlier(h, u)) = Cardinality(Upto(h, c)) + Cardinality(less)
               /\ u \notin Upto(h, Later(c, b)) =>
                     Cardinality(Earlier(h, u)) >= Cardinality(Upto(h, Later(c, b)))
  <1> DEFINE rows == Page(h, a, b)
             new  == Fresh(h, a, b, c)
             less == {v \in new : First(rows, v) < First(rows, u)}
             d    == Later(c, b)
  <1>1. /\ new = Upto(h, d) \ Upto(h, c) /\ new \subseteq UrlsOf("hunter", h)
        /\ \A v \in new : v \in UrlsOf("hunter", rows) /\ First(h, v) = a + First(rows, v)
        /\ rows \in Seq(Rows)
    BY PageAdds
  <1>2. d \in 0..Len(h) /\ c <= d
    BY DEF Later
  <1>3. \A v \in UrlsOf("hunter", h) : First(h, v) \in 1..Len(h)
    BY FirstFacts
  <1>4. /\ IsFiniteSet(Upto(h, c)) /\ IsFiniteSet(Upto(h, d))
        /\ Cardinality(Upto(h, c)) \in Nat /\ Cardinality(Upto(h, d)) \in Nat
    BY <1>2, UptoFinite
  <1>5. IsFiniteSet(Earlier(h, u)) /\ Cardinality(Earlier(h, u)) \in Nat
    BY EarlierFinite
  <1>6. \A v \in UrlsOf("hunter", h) : /\ v \in Upto(h, c) <=> First(h, v) <= c
                                       /\ v \in Upto(h, d) <=> First(h, v) <= d
    BY <1>2, UptoFirst
  <1>7. Upto(h, c) \subseteq UrlsOf("hunter", h) /\ Upto(h, d) \subseteq UrlsOf("hunter", h)
    BY <1>2, UptoAll DEF Upto
  <1> HIDE DEF d, new, rows
  <1>8. ASSUME u \in Upto(h, c)
        PROVE  Cardinality(Earlier(h, u)) <= Cardinality(Upto(h, c))
    <2>1. Earlier(h, u) \subseteq Upto(h, c)
      BY <1>3, <1>6, <1>8 DEF Earlier
    <2>2. QED
      BY <1>4, <2>1, FS_Subset
  <1>9. ASSUME u \in new
        PROVE  /\ Cardinality(less) \in Nat
               /\ Cardinality(Earlier(h, u)) = Cardinality(Upto(h, c)) + Cardinality(less)
    <2>1. c < First(h, u) /\ First(h, u) <= d
      BY <1>1, <1>2, <1>3, <1>6, <1>9
    <2>2. \A v \in new : First(rows, v) \in Nat
      BY <1>1, FirstFacts
    <2>3. \A v \in new : First(rows, v) < First(rows, u) <=> First(h, v) < First(h, u)
      BY <1>1, <1>9, <2>2
    <2>4. Earlier(h, u) = Upto(h, c) \cup less
      <3>1. ASSUME NEW v \in Earlier(h, u) PROVE v \in Upto(h, c) \cup less
        <4>1. v \in UrlsOf("hunter", h) /\ First(h, v) < First(h, u)
          BY <3>1 DEF Earlier
        <4>2. First(h, v) <= d
          BY <1>2, <1>3, <2>1, <4>1
        <4>3. v \in Upto(h, d)
          BY <1>6, <4>1, <4>2
        <4>4. QED
          BY <1>1, <2>3, <4>1, <4>3
      <3>2. ASSUME NEW v \in Upto(h, c) \cup less PROVE v \in Earlier(h, u)
        <4>1. CASE v \in Upto(h, c)
          BY <1>2, <1>3, <1>6, <1>7, <2>1, <4>1 DEF Earlier
        <4>2. CASE v \in less
          BY <1>1, <2>3, <4>2 DEF Earlier
        <4>3. QED
          BY <3>2, <4>1, <4>2
      <3>3. QED
        BY <3>1, <3>2
    <2>5. less \in SUBSET Earlier(h, u) /\ Upto(h, c) \cap less = {}
      BY <1>1, <2>4
    <2>6. IsFiniteSet(less)
      BY <1>5, <2>5, FS_Subset
    <2> HIDE DEF less
    <2>7. Cardinality(less) \in Nat
      BY <2>6, FS_CardinalityType
    <2>8. Cardinality(Upto(h, c) \cup less) = Cardinality(Upto(h, c)) + Cardinality(less) - Cardinality({})
      BY <1>4, <2>5, <2>6, FS_Union
    <2>9. QED
      BY <1>4, <2>4, <2>7, <2>8, FS_EmptySet
  <1>10. ASSUME u \notin Upto(h, d)
         PROVE  Cardinality(Earlier(h, u)) >= Cardinality(Upto(h, d))
    <2>1. Upto(h, d) \subseteq Earlier(h, u)
      BY <1>2, <1>3, <1>6, <1>7, <1>10 DEF Earlier
    <2>2. Cardinality(Upto(h, d)) <= Cardinality(Earlier(h, u))
      BY <1>5, <2>1, FS_Subset
    <2>3. QED
      BY <1>4, <1>5, <2>2
  <1>11. QED
    BY <1>8, <1>9, <1>10 DEF d, new, rows

\* The first n of the new targets, in place of the definition.
LEMMA NextUrlsIs ==
    ASSUME NEW rows, NEW seen, NEW n
    PROVE  LET new == UrlsOf("hunter", rows) \ seen
           IN  NextUrls(rows, seen, n)
                 = {u \in new : Cardinality({v \in new : First(rows, v) < First(rows, u)}) < n}
  BY DEF NextUrls

\* What is found after a page, when f was found before it.
After(rows, f, goal) == f \cup NextUrls(rows, f, goal - Cardinality(f))

\* One page of a search that knows the targets of the first c rows and misses
\* n: either it then knows those of all rows up to the page's end, or it has
\* exactly the first "goal" targets.
LEMMA OnePage ==
    ASSUME NEW h \in Seq(Rows), NEW c \in 0..Len(h), NEW a \in 0..c, NEW b \in 0..Len(h),
           NEW goal \in Nat, Cardinality(Upto(h, c)) < goal
    PROVE  /\ Cardinality(After(Page(h, a, b), Upto(h, c), goal)) \in Nat
           /\ Cardinality(After(Page(h, a, b), Upto(h, c), goal)) < goal
                 => After(Page(h, a, b), Upto(h, c), goal) = Upto(h, Later(c, b))
           /\ Cardinality(After(Page(h, a, b), Upto(h, c), goal)) >= goal
                 => After(Page(h, a, b), Upto(h, c), goal) = NextUrls(h, {}, goal)
  <1> DEFINE urls == After(Page(h, a, b), Upto(h, c), goal)
             rows == Page(h, a, b)
             new  == Fresh(h, a, b, c)
             d    == Later(c, b)
             before(u) == {v \in new : First(rows, v) < First(rows, u)}
             n    == goal - Cardinality(Upto(h, c))
             next == NextUrls(rows, Upto(h, c), n)
  <1>1. /\ new = Upto(h, d) \ Upto(h, c) /\ new \subseteq UrlsOf("hunter", h)
        /\ \A v \in new : v \in UrlsOf("hunter", rows) /\ First(h, v) = a + First(rows, v)
        /\ rows \in Seq(Rows)
    BY PageAdds
  <1>2. d \in 0..Len(h) /\ c <= d
    BY DEF Later
  <1>3. /\ IsFiniteSet(Upto(h, c)) /\ IsFiniteSet(Upto(h, d))
        /\ Cardinality(Upto(h, c)) \in Nat /\ Cardinality(Upto(h, d)) \in Nat
    BY <1>2, UptoFinite
  <1>4. next = {u \in new : Cardinality(before(u)) < n}
    BY NextUrlsIs DEF Fresh
  <1>5. Upto(h, c) \subseteq Upto(h, d)
    BY <1>2, UptoMore
  <1>6. \A u \in UrlsOf("hunter", h) :
            /\ u \in Upto(h, c) => Cardinality(Earlier(h, u)) <= Cardinality(Upto(h, c))
            /\ u \in new =>
                  /\ Cardinality(before(u)) \in Nat
                  /\ Cardinality(Earlier(h, u)) = Cardinality(Upto(h, c)) + Cardinality(before(u))
            /\ u \notin Upto(h, d) => Cardinality(Earlier(h, u)) >= Cardinality(Upto(h, d))
    BY Precedes
  <1>7. \A u \in UrlsOf("hunter", h) : Cardinality(Earlier(h, u)) \in Nat
    BY EarlierFinite
  <1>8. Upto(h, d) \subseteq UrlsOf("hunter", h)
    BY <1>2, UptoAll, UptoMore
  <1>9. urls = Upto(h, c) \cup next
    BY DEF After
  <1>10. n \in Nat /\ n = goal - Cardinality(Upto(h, c))
    BY <1>3
  <1>11. \A u \in new : First(rows, u) \in Nat
    BY <1>1, FirstFacts
  <1> HIDE DEF urls, rows, new, d, n, next
  <1>12. urls \subseteq Upto(h, d)
    BY <1>1, <1>4, <1>5, <1>9
  <1>13. /\ IsFiniteSet(urls) /\ Cardinality(urls) \in Nat
         /\ Cardinality(urls) <= Cardinality(Upto(h, d))
    BY <1>3, <1>12, FS_Subset, FS_CardinalityType
  <1>14. ASSUME Cardinality(urls) < goal PROVE urls = Upto(h, d)
    <2> DEFINE miss == {i \in Nat : \E u \in new \ next : First(rows, u) = i}
    <2>1. CASE new \subseteq next
      BY <1>1, <1>5, <1>9, <1>12, <2>1
    <2>2. CASE ~(new \subseteq next)
      <3>1. miss \in SUBSET Nat /\ miss # {}
        BY <1>11, <2>2
      <3>2. PICK m \in miss : \A i \in miss : m <= i
        BY <3>1, LeastPlace
      <3>3. PICK u \in new \ next : First(rows, u) = m
        BY <3>2
      <3>4. \A v \in before(u) : v \in next
        <4> SUFFICES ASSUME NEW v \in new, First(rows, v) < First(rows, u), v \notin next
                     PROVE  FALSE
          OBVIOUS
        <4>1. First(rows, v) \in miss
          BY <1>11
        <4>2. m <= First(rows, v) /\ m \in Nat /\ First(rows, v) \in Nat
          BY <1>11, <3>2, <4>1
        <4>3. QED
          BY <3>3, <4>2
      <3>5. Cardinality(before(u)) \in Nat /\ Cardinality(before(u)) >= n
        <4>1. Cardinality(before(u)) \in Nat
          BY <1>1, <1>6, <3>3
        <4>2. ~(Cardinality(before(u)) < n)
          BY <1>4, <3>3
        <4> HIDE DEF before
        <4>3. QED
          BY <1>10, <4>1, <4>2
      <3>6. /\ Upto(h, c) \cup before(u) \subseteq urls
            /\ Upto(h, c) \cap before(u) = {}
            /\ before(u) \subseteq urls
        BY <1>1, <1>9, <3>4
      <3>7. IsFiniteSet(before(u))
        BY <1>13, <3>6, FS_Subset
      <3> HIDE DEF before
      <3>8. Cardinality(Upto(h, c) \cup before(u))
              = Cardinality(Upto(h, c)) + Cardinality(before(u)) - Cardinality({})
        BY <1>3, <3>6, <3>7, FS_Union
      <3>9. Cardinality(Upto(h, c) \cup before(u)) <= Cardinality(urls)
        BY <1>13, <3>6, FS_Subset
      <3>10. Cardinality(Upto(h, c)) + Cardinality(before(u)) <= Cardinality(urls)
        BY <1>3, <3>5, <3>8, <3>9, FS_EmptySet
      <3>11. QED
        BY <1>3, <1>10, <1>13, <1>14, <3>5, <3>10
    <2>3. QED
      BY <2>1, <2>2
  <1>15. ASSUME Cardinality(urls) >= goal PROVE urls = NextUrls(h, {}, goal)
    <2>1. NextUrls(h, {}, goal) = {u \in UrlsOf("hunter", h) : Cardinality(Earlier(h, u)) < goal}
      BY WantedIs
    <2>2. ASSUME NEW u \in UrlsOf("hunter", h)
          PROVE  u \in urls <=> Cardinality(Earlier(h, u)) < goal
      <3>1. CASE u \in Upto(h, c)
        <4>1. Cardinality(Earlier(h, u)) <= Cardinality(Upto(h, c)) /\ u \in urls
          BY <1>6, <1>9, <3>1
        <4>2. QED
          BY <1>3, <1>7, <4>1
      <3>2. CASE u \in new
        <4>1. /\ Cardinality(before(u)) \in Nat
              /\ Cardinality(Earlier(h, u)) = Cardinality(Upto(h, c)) + Cardinality(before(u))
          BY <1>6, <3>2
        <4>2. u \in urls <=> Cardinality(before(u)) < n
          BY <1>1, <1>4, <1>9, <3>2
        <4>3. QED
          BY <1>3, <1>10, <4>1, <4>2
      <3>3. CASE u \notin Upto(h, d)
        <4>1. Cardinality(Earlier(h, u)) >= Cardinality(Upto(h, d)) /\ u \notin urls
          BY <1>6, <1>12, <3>3
        <4>2. QED
          BY <1>3, <1>7, <1>13, <1>15, <4>1
      <3>4. QED
        BY <1>1, <3>1, <3>2, <3>3
    <2>3. urls \subseteq UrlsOf("hunter", h)
      BY <1>8, <1>12
    <2>4. QED
      BY <2>1, <2>2, <2>3
  <1>16. QED
    BY <1>13, <1>14, <1>15 DEF d, urls

\* Fewer than "goal" targets in all: all of them are wanted.
LEMMA AllWanted ==
    ASSUME NEW h \in Seq(Rows), NEW goal \in Nat, Cardinality(Upto(h, Len(h))) < goal
    PROVE  Upto(h, Len(h)) = NextUrls(h, {}, goal)
  <1>1. IsFiniteSet(Upto(h, Len(h))) /\ Cardinality(Upto(h, Len(h))) \in Nat
    BY UptoFinite
  <1>2. UrlsOf("hunter", h) = Upto(h, Len(h))
    BY UptoAll
  <1>3. ASSUME NEW u \in UrlsOf("hunter", h) PROVE Cardinality(Earlier(h, u)) < goal
    <2>1. Earlier(h, u) \subseteq Upto(h, Len(h))
      BY <1>2 DEF Earlier
    <2>2. Cardinality(Earlier(h, u)) <= Cardinality(Upto(h, Len(h)))
      BY <1>1, <2>1, FS_Subset
    <2>3. QED
      BY <1>1, <2>2, EarlierFinite
  <1>4. QED
    BY <1>2, <1>3, WantedIs

\* How many rows are asked for when f is found and "goal" is the limit.
Asked(f, goal) == Min({PageSize, goal - Cardinality(f)})

\* At least one row is asked for and at most a page, and fewer the more is found.
LEMMA AskedFacts ==
    ASSUME NEW f, NEW goal \in Nat, Cardinality(f) \in Nat, Cardinality(f) < goal
    PROVE  /\ Asked(f, goal) \in Nat \ {0}
           /\ \A g : Cardinality(g) \in Nat /\ Cardinality(f) <= Cardinality(g)
                        /\ Cardinality(g) < goal => Asked(g, goal) <= Asked(f, goal)
  <1>1. PageSize \in Nat \ {0}
    BY DiscoverAssumption
  <1>2. Asked(f, goal) = IF PageSize <= goal - Cardinality(f) THEN PageSize ELSE goal - Cardinality(f)
    BY <1>1, MinOfTwo DEF Asked
  <1>3. ASSUME NEW g, Cardinality(g) \in Nat, Cardinality(f) <= Cardinality(g), Cardinality(g) < goal
        PROVE  Asked(g, goal) <= Asked(f, goal)
    <2>1. Asked(g, goal) = IF PageSize <= goal - Cardinality(g) THEN PageSize ELSE goal - Cardinality(g)
      BY <1>1, <1>3, MinOfTwo DEF Asked
    <2>2. QED
      BY <1>1, <1>2, <1>3, <2>1
  <1>4. QED
    BY <1>1, <1>2, <1>3

\* Products that the pages' bounds are made of.
LEMMA Products ==
    ASSUME NEW p \in Nat \ {0}, NEW x \in Nat
    PROVE  /\ p * x \in Nat /\ (p - 1) * x \in Nat
           /\ p * x = (p - 1) * x + x
           /\ \A y \in Nat : y <= x => p * y <= p * x /\ p * y \in Nat /\ (p - 1) * y <= (p - 1) * x
  OBVIOUS

\* What a search that goes on has found: the targets of the first c rows, and
\* the next page begins no later than the row after them.
Reading(h, f, p, goal) ==
    \E c \in 0..Len(h) :
        /\ f = Upto(h, c)
        /\ (p - 1) * Asked(f, goal) <= c
        /\ Cardinality(f) < goal

\* The search has the types it should, knows a prefix of the rows while it
\* runs, and what it must return once it has ended well.
HunterInv ==
    /\ DOMAIN search = Providers /\ DOMAIN found = Providers
    /\ hits["hunter"] \in Seq(Rows)
    /\ limit \in Nat \ {0} /\ page \in Nat \ {0}
    /\ total \in {0, Len(hits["hunter"])}
    /\ search["hunter"] = "run" => Reading(hits["hunter"], found["hunter"], page, limit)
    /\ HunterComplete

\* No further page, in terms of the numbers.
Ends(rows, x, p, sum) == Len(rows) < x \/ (sum > 0 /\ p * x >= sum)

\* One turn of the loop, in terms of its numbers.
LEMMA OneTurn ==
    ASSUME NEW h \in Seq(Rows), NEW f, NEW p \in Nat \ {0}, NEW goal \in Nat \ {0},
           Reading(h, f, p, goal), NEW sum \in {0, Len(h)},
           NEW rows, rows = Page(h, (p - 1) * Asked(f, goal), Min({p * Asked(f, goal), Len(h)})),
           NEW urls, urls = After(rows, f, goal)
    PROVE  /\ Ends(rows, Asked(f, goal), p, sum) \/ Cardinality(urls) >= goal
                  => urls = NextUrls(h, {}, goal)
           /\ ~(Ends(rows, Asked(f, goal), p, sum) \/ Cardinality(urls) >= goal)
                  => Reading(h, urls, p + 1, goal)
  <1>1. PICK c \in 0..Len(h) : /\ f = Upto(h, c)
                                /\ (p - 1) * Asked(f, goal) <= c
                                /\ Cardinality(f) < goal
    BY DEF Reading
  <1> DEFINE x == Asked(f, goal)
             a == (p - 1) * x
             b == Min({p * x, Len(h)})
             d == Later(c, b)
             last == Ends(rows, x, p, sum)
  <1>2. Cardinality(f) \in Nat
    BY <1>1, UptoFinite
  <1>3. x \in Nat \ {0}
    BY <1>1, <1>2, AskedFacts
  <1>4. p * x \in Nat /\ a \in Nat /\ p * x = a + x
    BY <1>3, Products
  <1>5. b = IF p * x <= Len(h) THEN p * x ELSE Len(h)
    BY <1>4, MinOfTwo
  <1>6. a \in 0..c /\ b \in 0..Len(h)
    BY <1>1, <1>4, <1>5
  <1>7. rows = Page(h, a, b)
    OBVIOUS
  <1> HIDE DEF x, a, b
  <1>8. a \in 0..Len(h) /\ b \in 0..Len(h)
    BY <1>6
  <1>9. Len(rows) = IF a + 1 <= b THEN b - a ELSE 0
    BY <1>7, <1>8, PageRows
  <1>10. last => b = Len(h)
    BY <1>3, <1>4, <1>5, <1>6, <1>9 DEF Ends
  <1>11. ~last => p * x <= d
    BY <1>3, <1>4, <1>5, <1>6, <1>9 DEF Ends, Later
  <1>12. d \in Nat /\ c \in Nat /\ d \in 0..Len(h) /\ c <= d
    BY <1>6 DEF Later
  <1>13. /\ Cardinality(urls) \in Nat
         /\ Cardinality(urls) < goal => urls = Upto(h, d)
         /\ Cardinality(urls) >= goal => urls = NextUrls(h, {}, goal)
    <2>1. urls = After(Page(h, a, b), Upto(h, c), goal)
      BY <1>1, <1>7
    <2>2. Cardinality(Upto(h, c)) < goal /\ goal \in Nat
      BY <1>1
    <2> HIDE DEF d
    <2>3. /\ Cardinality(urls) \in Nat
          /\ Cardinality(urls) < goal => urls = Upto(h, Later(c, b))
          /\ Cardinality(urls) >= goal => urls = NextUrls(h, {}, goal)
      BY <1>6, <2>1, <2>2, OnePage
    <2>4. QED
      BY <2>3 DEF d
  <1>14. ASSUME last, Cardinality(urls) < goal PROVE urls = NextUrls(h, {}, goal)
    <2>1. d = Len(h)
      BY <1>6, <1>10, <1>14 DEF Later
    <2>2. QED
      BY <1>13, <1>14, <2>1, AllWanted
  <1>15. ASSUME ~last, Cardinality(urls) < goal PROVE Reading(h, urls, p + 1, goal)
    <2>1. urls = Upto(h, d)
      BY <1>13, <1>15
    <2>2. Cardinality(f) <= Cardinality(urls)
      BY <1>1, <1>12, <2>1, UptoMore
    <2>3. Asked(urls, goal) <= x
      BY <1>1, <1>2, <1>13, <1>15, <2>2, AskedFacts DEF x
    <2>4. Asked(urls, goal) \in Nat
      BY <1>13, <1>15, AskedFacts
    <2>5. p * Asked(urls, goal) <= p * x /\ p * Asked(urls, goal) \in Nat
      BY <1>3, <2>3, <2>4, Products
    <2>6. p * Asked(urls, goal) <= d
      BY <1>4, <1>11, <1>12, <1>15, <2>5
    <2>7. (p + 1) - 1 = p
      OBVIOUS
    <2>8. QED
      BY <1>12, <1>15, <2>1, <2>6, <2>7 DEF Reading
  <1>16. Cardinality(urls) >= goal \/ Cardinality(urls) < goal
    BY <1>13
  <1>17. QED
    BY <1>13, <1>14, <1>15, <1>16 DEF x

\* A search begins with nothing found and the first page.
LEMMA ReadingBegins ==
    ASSUME NEW h \in Seq(Rows), NEW goal \in Nat \ {0}
    PROVE  Reading(h, {}, 1, goal)
  <1>1. Cardinality({}) = 0
    BY FS_EmptySet
  <1>2. Asked({}, goal) \in Nat
    BY <1>1, AskedFacts
  <1>3. (1 - 1) * Asked({}, goal) = 0
    BY <1>2
  <1>4. Upto(h, 0) = {} /\ 0 \in 0..Len(h)
    BY DEF Upto
  <1>5. QED
    BY <1>1, <1>3, <1>4 DEF Reading

\* Steps that leave the search alone.
LEMMA SearchStays ==
    ASSUME HunterInv, UNCHANGED <<hits, search, found, page, total, limit>>
    PROVE  HunterInv'
  BY DEF HunterInv, HunterComplete, Wanted

\* The locals of a search that is not at work.
LEMMA SearchEnds ==
    ASSUME DiscoverForget
    PROVE  HunterInv'
  <1>1. Len(<< >>) = 0 /\ << >> \in Seq(Rows)
    OBVIOUS
  <1>2. hits'["hunter"] = << >> /\ search'["hunter"] = "off"
    BY DEF DiscoverForget, Providers
  <1>3. QED
    BY <1>1, <1>2 DEF DiscoverForget, HunterInv, HunterComplete, Providers

\* Hunter's page.
LEMMA HunterPageInv ==
    ASSUME HunterInv, HunterPage
    PROVE  HunterInv'
  <1> DEFINE h == hits["hunter"]
             f == found["hunter"]
             x == Asked(f, limit)
             rows == Page(h, (page - 1) * x, Min({page * x, Len(h)}))
             urls == After(rows, f, limit)
             sum(r) == Max({total, r})
             over(r) == Ends(rows, x, page, sum(r)) \/ Cardinality(urls) >= limit
  <1>1. AskedFor = x
    BY DEF AskedFor, Asked
  <1>2. PICK reported \in {0, Len(h)} :
            /\ found' = [found EXCEPT !["hunter"] = urls]
            /\ total' = sum(reported)
            /\ IF over(reported)
               THEN /\ search' = [search EXCEPT !["hunter"] = "ok"]
                    /\ UNCHANGED page
               ELSE /\ page' = page + 1
                    /\ UNCHANGED search
    BY <1>1 DEF HunterPage, LastPage, Ends, After, Page
  <1>3. search["hunter"] = "run" /\ UNCHANGED <<hits, limit>>
    BY DEF HunterPage
  <1>4. /\ h \in Seq(Rows) /\ page \in Nat \ {0} /\ limit \in Nat \ {0}
        /\ Reading(h, f, page, limit) /\ total \in {0, Len(h)}
        /\ DOMAIN search = Providers /\ DOMAIN found = Providers
    BY <1>3 DEF HunterInv
  <1>5. sum(reported) \in {0, Len(h)}
    <2>1. sum(reported) = IF total >= reported THEN total ELSE reported
      BY <1>2, <1>4, MaxOfTwo
    <2>2. QED
      BY <1>2, <1>4, <2>1
  <1>6. /\ over(reported) => urls = NextUrls(h, {}, limit)
        /\ ~over(reported) => Reading(h, urls, page + 1, limit)
    BY <1>4, <1>5, OneTurn
  <1>7. /\ found'["hunter"] = urls /\ DOMAIN found' = Providers
        /\ hits' = hits /\ limit' = limit
        /\ total' \in {0, Len(h)}
    BY <1>2, <1>3, <1>4, <1>5 DEF Providers
  <1> HIDE DEF h, urls, over
  <1>8. CASE over(reported)
    <2>1. /\ search'["hunter"] = "ok" /\ DOMAIN search' = Providers /\ page' = page
      BY <1>2, <1>4, <1>8 DEF Providers
    <2>2. QED
      BY <1>4, <1>6, <1>7, <1>8, <2>1 DEF HunterInv, HunterComplete, Wanted, h
  <1>9. CASE ~over(reported)
    <2>1. /\ search' = search /\ page' = page + 1 /\ page' \in Nat \ {0}
      BY <1>2, <1>4, <1>9
    <2>2. QED
      BY <1>3, <1>4, <1>6, <1>7, <1>9, <2>1 DEF HunterInv, HunterComplete, Wanted, h
  <1>10. QED
    BY <1>8, <1>9

\* The other steps of a discovery.
LEMMA SearchStepInv ==
    ASSUME HunterInv, DiscoverStep
    PROVE  HunterInv'
  <1>1. CASE FofaAnswers
    <2>1. /\ search'["hunter"] = search["hunter"] /\ found'["hunter"] = found["hunter"]
          /\ DOMAIN search' = Providers /\ DOMAIN found' = Providers
          /\ UNCHANGED <<hits, page, total, limit>>
      BY <1>1 DEF FofaAnswers, HunterInv, Providers
    <2>2. QED
      BY <2>1 DEF HunterInv, HunterComplete, Wanted
  <1>2. CASE HunterPage
    BY <1>2, HunterPageInv
  <1>3. ASSUME NEW p \in Providers, SearchFails(p) PROVE HunterInv'
    <2>1. /\ search'["hunter"] = IF p = "hunter" THEN "error" ELSE search["hunter"]
          /\ found'["hunter"] = IF p = "hunter" THEN {} ELSE found["hunter"]
          /\ DOMAIN search' = Providers /\ DOMAIN found' = Providers
          /\ UNCHANGED <<hits, page, total, limit>>
      BY <1>3 DEF SearchFails, HunterInv, Providers
    <2>2. QED
      BY <2>1 DEF HunterInv, HunterComplete, Wanted
  <1>4. ASSUME NEW p \in Providers, Receive(p) PROVE HunterInv'
    <2> DEFINE new == IF search[p] = "ok" THEN "received" ELSE "failed"
    <2>0. /\ search' = [search EXCEPT ![p] = new] /\ DOMAIN search = Providers
          /\ UNCHANGED <<hits, found, page, total, limit>>
      BY <1>4 DEF Receive, HunterInv
    <2>1. /\ search'["hunter"] = IF p = "hunter" THEN new ELSE search["hunter"]
          /\ DOMAIN search' = Providers
          /\ UNCHANGED <<hits, found, page, total, limit>>
      BY <2>0 DEF Providers
    <2>2. QED
      BY <2>1 DEF HunterInv, HunterComplete, Wanted
  <1>5. CASE NothingFound \/ SaveFails \/ CommitTargets
    BY <1>5, SearchEnds DEF NothingFound, SaveFails, CommitTargets
  <1>6. CASE SaveTargets
    BY <1>6, SearchStays DEF SaveTargets, locals
  <1>7. QED
    BY <1>1, <1>2, <1>3, <1>4, <1>5, <1>6 DEF DiscoverStep

\* Every step keeps it.
LEMMA HunterNextInv == HunterInv /\ [Next]_vars => HunterInv'
  <1> SUFFICES ASSUME HunterInv, [Next]_vars PROVE HunterInv'
    OBVIOUS
  <1>1. CASE HandleDiscover
    <2>1. PICK configured \in SUBSET Providers : DiscoverBegin(configured)
      BY <1>1 DEF HandleDiscover
    <2>2. /\ hits'["hunter"] \in Seq(Rows) /\ limit' \in Nat \ {0}
          /\ search'["hunter"] \in {"run", "off"} /\ DOMAIN search' = Providers
          /\ found'["hunter"] = {} /\ DOMAIN found' = Providers
          /\ page' = 1 /\ total' = 0
      BY <2>1, DiscoverAssumption DEF DiscoverBegin, Providers
    <2>3. Reading(hits'["hunter"], {}, 1, limit')
      BY <2>2, ReadingBegins
    <2>4. QED
      BY <2>2, <2>3 DEF HunterInv, HunterComplete
  <1>2. CASE HandleFetch
    BY <1>2, SearchStays DEF HandleFetch, discoverVars
  <1>3. CASE DiscoverStep
    BY <1>3, SearchStepInv
  <1>4. CASE UNCHANGED discoverVars
    BY <1>4, SearchStays DEF discoverVars
  <1>5. CASE Death
    BY <1>5, SearchEnds DEF Death, Die
  <1>6. CASE LoadTargets
    BY <1>6, SearchStays DEF LoadTargets, locals
  <1>7. CASE UNCHANGED vars
    BY <1>7, SearchStays DEF vars
  <1>8. QED
    BY <1>1, <1>2, <1>3, <1>4, <1>5, <1>6, <1>7 DEF Next

\* SearchHunter's loop, for every page size and limit and whatever rows Hunter
\* holds: a search that ends without an error returns exactly the first
\* "limit" targets, although its pages shrink and overlap.
THEOREM HunterCompleteHolds == Spec => []HunterComplete
  <1>1. Init => HunterInv
    <2> SUFFICES ASSUME Init PROVE HunterInv
      OBVIOUS
    <2>1. hits["hunter"] = << >> /\ search["hunter"] = "off"
      BY DEF Init, DiscoverInit, Providers
    <2>2. << >> \in Seq(Rows)
      OBVIOUS
    <2>3. QED
      BY <2>1, <2>2 DEF Init, DiscoverInit, HunterInv, HunterComplete, Providers
  <1>2. HunterInv => HunterComplete
    BY DEF HunterInv
  <1>3. QED
    BY <1>1, <1>2, HunterNextInv, PTL DEF Spec

-----------------------------------------------------------------------------
(* The list of a fetch.                                                    *)

\* How many places of I come before i.
Rank(I, i) == Cardinality({j \in I : j < i})

\* The places of I have the ranks from 0 on, each one of them.
LEMMA Ranks ==
    ASSUME NEW n \in Nat, NEW I \in SUBSET (1..n)
    PROVE  /\ IsFiniteSet(I) /\ Cardinality(I) \in Nat
           /\ \A i \in I : Rank(I, i) \in 0..(Cardinality(I) - 1)
           /\ \A i, j \in I : Rank(I, i) = Rank(I, j) => i = j
           /\ \A k \in 1..Cardinality(I) : \E i \in I : Rank(I, i) = k - 1
  <1> DEFINE less(i) == {j \in I : j < i}
             T == 0..(Cardinality(I) - 1)
             f == [i \in I |-> Rank(I, i)]
  <1>1. IsFiniteSet(1..n)
    BY FS_Interval
  <1>2. IsFiniteSet(I) /\ Cardinality(I) \in Nat
    BY <1>1, FS_Subset, FS_CardinalityType
  <1>3. \A i \in I : i \in Nat
    OBVIOUS
  <1>4. \A i \in I : IsFiniteSet(less(i)) /\ Cardinality(less(i)) \in Nat
    <2> SUFFICES ASSUME NEW i \in I PROVE IsFiniteSet(less(i)) /\ Cardinality(less(i)) \in Nat
      OBVIOUS
    <2>1. less(i) \subseteq I
      OBVIOUS
    <2> HIDE DEF less
    <2>2. QED
      BY <1>2, <2>1, FS_Subset, FS_CardinalityType
  <1>5. \A i, j \in I : i < j => Cardinality(less(i)) < Cardinality(less(j))
    <2> SUFFICES ASSUME NEW i \in I, NEW j \in I, i < j
                 PROVE  Cardinality(less(i)) < Cardinality(less(j))
      OBVIOUS
    <2>1. less(i) \subseteq less(j) /\ i \in less(j) /\ i \notin less(i)
      <3>1. \A k \in I : k < i => k < j
        BY <1>3
      <3>2. ~(i < i)
        BY <1>3
      <3>3. QED
        BY <3>1, <3>2
    <2>2. less(i) # less(j)
      BY <2>1
    <2>3. Cardinality(less(i)) \in Nat /\ Cardinality(less(j)) \in Nat /\ IsFiniteSet(less(j))
      BY <1>4
    <2> HIDE DEF less
    <2>4. QED
      BY <2>1, <2>2, <2>3, FS_Subset
  <1>6. \A i \in I : Cardinality(less(i)) < Cardinality(I)
    <2> SUFFICES ASSUME NEW i \in I PROVE Cardinality(less(i)) < Cardinality(I)
      OBVIOUS
    <2>1. less(i) \subseteq I /\ i \notin less(i)
      BY <1>3
    <2>2. less(i) # I /\ Cardinality(less(i)) \in Nat
      BY <1>4, <2>1
    <2> HIDE DEF less
    <2>3. QED
      BY <1>2, <2>1, <2>2, FS_Subset
  <1>7. \A i \in I : Rank(I, i) = Cardinality(less(i))
    BY DEF Rank
  <1> HIDE DEF less
  <1>8. \A i \in I : Rank(I, i) \in T
    BY <1>2, <1>4, <1>6, <1>7
  <1>9. \A i, j \in I : Rank(I, i) = Rank(I, j) => i = j
    <2> SUFFICES ASSUME NEW i \in I, NEW j \in I, Rank(I, i) = Rank(I, j), i # j
                 PROVE  FALSE
      OBVIOUS
    <2>1. i < j \/ j < i
      BY <1>3
    <2>2. Cardinality(less(i)) = Cardinality(less(j)) /\ Cardinality(less(i)) \in Nat
      BY <1>4, <1>7
    <2>3. Cardinality(less(i)) < Cardinality(less(j)) \/ Cardinality(less(j)) < Cardinality(less(i))
      BY <1>5, <2>1
    <2>4. QED
      BY <2>2, <2>3
  <1>10. f \in Injection(I, T)
    BY <1>8, <1>9 DEF Injection, IsInjective
  <1>11. IsFiniteSet(T) /\ Cardinality(T) = Cardinality(I)
    <2> DEFINE c == Cardinality(I)
    <2>1. 0 \in Int /\ c - 1 \in Int /\ (c - 1) - 0 + 1 = c /\ (0 > c - 1 => c = 0)
      BY <1>2
    <2> HIDE DEF c
    <2>2. IsFiniteSet(0..(c - 1)) /\ Cardinality(0..(c - 1)) = c
      BY <2>1, FS_Interval
    <2>3. QED
      BY <2>2 DEF c
  <1>12. f \in Surjection(I, T)
    <2> HIDE DEF f, T
    <2>1. QED
      BY <1>10, <1>11, FS_Injection
  <1>13. \A t \in T : \E i \in I : Rank(I, i) = t
    BY <1>12 DEF Surjection
  <1>14. \A k \in 1..Cardinality(I) : k - 1 \in T
    BY <1>2
  <1>15. QED
    BY <1>2, <1>8, <1>9, <1>13, <1>14

\* Picked has exactly the entries at the places, and no entry twice if they
\* are all different there.
LEMMA PickedFacts ==
    ASSUME NEW S, NEW s \in Seq(S), NEW I \in SUBSET (1..Len(s))
    PROVE  /\ Picked(s, I) \in Seq(S)
           /\ ToSet(Picked(s, I)) = {s[i] : i \in I}
           /\ (\A i, j \in I : s[i] = s[j] => i = j)
                 => Len(Picked(s, I)) = Cardinality(ToSet(Picked(s, I)))
  <1> DEFINE n == Cardinality(I)
             place(k) == CHOOSE i \in I : Rank(I, i) = k - 1
             g == [i \in I |-> s[i]]
             V == {s[i] : i \in I}
  <1>1. /\ IsFiniteSet(I) /\ n \in Nat
        /\ \A i \in I : Rank(I, i) \in 0..(n - 1)
        /\ \A i, j \in I : Rank(I, i) = Rank(I, j) => i = j
        /\ \A k \in 1..n : \E i \in I : Rank(I, i) = k - 1
    <2>1. Len(s) \in Nat
      OBVIOUS
    <2> HIDE DEF place, g, V
    <2>2. QED
      BY <2>1, Ranks
  <1>2. Picked(s, I) = [k \in 1..n |-> s[place(k)]]
    BY DEF Picked, Rank
  <1>3. \A k \in 1..n : place(k) \in I /\ Rank(I, place(k)) = k - 1
    BY <1>1
  <1> HIDE DEF place, n
  <1>3a. \A i \in I : s[i] \in S
    OBVIOUS
  <1>4. \A k \in 1..n : s[place(k)] \in S
    BY <1>3, <1>3a
  <1>5. Picked(s, I) \in Seq(S) /\ Len(Picked(s, I)) = n
    BY <1>1, <1>2, <1>4
  <1>6. \A i \in I : \E k \in 1..n : place(k) = i
    <2> SUFFICES ASSUME NEW i \in I PROVE \E k \in 1..n : place(k) = i
      OBVIOUS
    <2>1. Rank(I, i) \in 0..(n - 1)
      BY <1>1
    <2>2. Rank(I, i) + 1 \in 1..n /\ (Rank(I, i) + 1) - 1 = Rank(I, i)
      BY <1>1, <2>1
    <2>3. place(Rank(I, i) + 1) = i
      BY <1>1, <1>3, <2>2
    <2>4. QED
      BY <2>2, <2>3
  <1>7. ToSet(Picked(s, I)) = {s[place(k)] : k \in 1..n}
    BY <1>2 DEF ToSet
  <1>8. ToSet(Picked(s, I)) = V
    BY <1>3, <1>6, <1>7
  <1>9. ASSUME \A i, j \in I : s[i] = s[j] => i = j
        PROVE  Len(Picked(s, I)) = Cardinality(V)
    <2>1. g \in Bijection(I, V)
      BY <1>9 DEF Bijection, Injection, Surjection, IsInjective
    <2> HIDE DEF g, V
    <2>2. ExistsBijection(I, V)
      BY <2>1 DEF ExistsBijection
    <2>3. QED
      BY <1>1, <1>5, <2>2, FS_Bijection DEF n
  <1>10. QED
    BY <1>5, <1>8, <1>9

\* Every entry comes first somewhere, and once.
LEMMA FirstsFacts ==
    ASSUME NEW S, NEW s \in Seq(S)
    PROVE  /\ Firsts(s) \in SUBSET (1..Len(s))
           /\ \A i \in 1..Len(s) : \E j \in Firsts(s) : s[j] = s[i]
           /\ \A i, j \in Firsts(s) : s[i] = s[j] => i = j
  <1>1. Firsts(s) \in SUBSET (1..Len(s))
    BY DEF Firsts
  <1>2. ASSUME NEW i \in 1..Len(s) PROVE \E j \in Firsts(s) : s[j] = s[i]
    <2> DEFINE P == {j \in 1..Len(s) : s[j] = s[i]}
    <2>1. P \in SUBSET Nat /\ P # {}
      OBVIOUS
    <2>2. PICK m \in P : \A j \in P : m <= j
      BY <2>1, LeastPlace
    <2>3. \A j \in 1..(m - 1) : j \in 1..Len(s) /\ ~(m <= j)
      OBVIOUS
    <2>4. m \in Firsts(s)
      BY <2>2, <2>3 DEF Firsts
    <2>5. QED
      BY <2>4
  <1>3. ASSUME NEW i \in Firsts(s), NEW j \in Firsts(s), s[i] = s[j], i # j PROVE FALSE
    <2>1. i \in 1..Len(s) /\ j \in 1..Len(s)
      BY <1>1
    <2>2. i \in 1..(j - 1) \/ j \in 1..(i - 1)
      BY <1>3, <2>1
    <2>3. QED
      BY <1>3, <2>2 DEF Firsts
  <1>4. QED
    BY <1>1, <1>2, <1>3

\* A finite set written as a sequence.
LEMMA SetToSeqFacts ==
    ASSUME NEW S, IsFiniteSet(S)
    PROVE  SetToSeq(S) \in Seq(S) /\ ToSet(SetToSeq(S)) = S
  <1> DEFINE n == Cardinality(S)
  <1>1. n \in Nat /\ ExistsBijection(1..n, S)
    BY FS_CardinalityType
  <1>2. \E f \in [1..n -> S] : IsInjective(f)
    BY <1>1 DEF ExistsBijection, Bijection, Injection
  <1>3. SetToSeq(S) \in [1..n -> S] /\ IsInjective(SetToSeq(S))
    BY <1>2 DEF SetToSeq
  <1>4. SetToSeq(S) \in Injection(1..n, S)
    BY <1>3 DEF Injection
  <1>5. Cardinality(1..n) = Cardinality(S)
    BY <1>1, FS_Interval
  <1>6. SetToSeq(S) \in Surjection(1..n, S)
    BY <1>4, <1>5, FS_Injection
  <1>7. QED
    BY <1>1, <1>3, <1>6 DEF Surjection, ToSet

\* There are finitely many targets.
LEMMA TargetUrlsFinite == IsFiniteSet(TargetUrls) /\ TargetUrls \subseteq Sources
  <1> DEFINE f == [x \in Providers \X Rows |-> TargetOf[x[1]][x[2]]]
             all == {TargetOf[p][r] : p \in Providers, r \in Rows}
  <1>1. IsFiniteSet(Rows) /\ Urls \subseteq Sources
    BY GatherAssumption
  <1>2. IsFiniteSet(Providers)
    <2>1. IsFiniteSet({}) /\ Providers = ({} \cup {"fofa"}) \cup {"hunter"}
      BY FS_EmptySet DEF Providers
    <2>2. QED
      BY <2>1, FS_AddElement
  <1>3. IsFiniteSet(Providers \X Rows)
    BY <1>1, <1>2, FS_Product
  <1>4. f \in Surjection(Providers \X Rows, all)
    <2>1. \A x \in Providers \X Rows : f[x] \in all
      OBVIOUS
    <2>2. ASSUME NEW u \in all PROVE \E x \in Providers \X Rows : f[x] = u
      <3>1. PICK p \in Providers, r \in Rows : u = TargetOf[p][r]
        BY <2>2
      <3>2. <<p, r>> \in Providers \X Rows /\ f[<<p, r>>] = u
        BY <3>1
      <3>3. QED
        BY <3>2
    <2>3. f \in [Providers \X Rows -> all]
      BY <2>1
    <2> HIDE DEF f, all
    <2>4. QED
      BY <2>2, <2>3 DEF Surjection
  <1> HIDE DEF f, all
  <1>5. IsFiniteSet(all)
    BY <1>3, <1>4, FS_Surjection
  <1>6. TargetUrls \subseteq all /\ TargetUrls \subseteq Sources
    BY <1>1 DEF TargetUrls, Urls, all
  <1>7. QED
    BY <1>5, <1>6, FS_Subset

\* What handleFetch asks: the sources of the request without comments, and all
\* targets, each once.
LEMMA ListFacts ==
    ASSUME NEW m \in Manual
    PROVE  LET l == UniqueSources(MergeProxySources(m))
           IN  /\ l \in Seq(Sources)
               /\ ToSet(l) = (ToSet(m) \ {Comment}) \cup TargetUrls
               /\ Len(l) = Cardinality(ToSet(l))
  <1> DEFINE S   == Sources \cup {Comment}
             ts  == SetToSeq(TargetUrls)
             all == m \o ts
             one == Picked(all, Firsts(all))
             I   == {i \in Firsts(one) : one[i] # Comment}
             l   == Picked(one, I)
  <1>1. m \in Seq(S) /\ Comment \notin Sources
    BY GatherAssumption
  <1>2. ts \in Seq(TargetUrls) /\ ToSet(ts) = TargetUrls /\ TargetUrls \subseteq Sources
    BY TargetUrlsFinite, SetToSeqFacts
  <1>3. ts \in Seq(S)
    BY <1>2
  <1> HIDE DEF ts, S
  <1>4. all \in Seq(S) /\ ToSet(all) = ToSet(m) \cup TargetUrls
    <2>1. /\ all \in Seq(S) /\ Len(all) = Len(m) + Len(ts)
          /\ \A i \in 1..Len(m) : all[i] = m[i]
          /\ \A i \in 1..Len(ts) : all[Len(m) + i] = ts[i]
          /\ Len(m) \in Nat /\ Len(ts) \in Nat
      BY <1>1, <1>3
    <2>2. /\ ToSet(all) = {all[i] : i \in 1..Len(all)}
          /\ ToSet(m) = {m[i] : i \in 1..Len(m)}
          /\ ToSet(ts) = {ts[i] : i \in 1..Len(ts)}
      BY <1>1, <1>3, <2>1 DEF ToSet
    <2> HIDE DEF all
    <2>3. ASSUME NEW i \in 1..Len(all) PROVE all[i] \in ToSet(m) \cup ToSet(ts)
      <3>1. CASE i <= Len(m)
        BY <2>1, <2>2, <3>1
      <3>2. CASE i > Len(m)
        <4>1. i - Len(m) \in 1..Len(ts) /\ Len(m) + (i - Len(m)) = i
          BY <2>1, <3>2
        <4>2. QED
          BY <2>1, <2>2, <4>1
      <3>3. QED
        BY <2>1, <3>1, <3>2
    <2>4. ASSUME NEW i \in 1..Len(m) PROVE m[i] \in ToSet(all)
      <3>1. i \in 1..Len(all)
        BY <2>1
      <3>2. QED
        BY <2>1, <2>2, <3>1
    <2>5. ASSUME NEW i \in 1..Len(ts) PROVE ts[i] \in ToSet(all)
      <3>1. Len(m) + i \in 1..Len(all)
        BY <2>1
      <3>2. QED
        BY <2>1, <2>2, <3>1
    <2>6. ToSet(all) = ToSet(m) \cup ToSet(ts)
      BY <2>2, <2>3, <2>4, <2>5
    <2>7. QED
      BY <1>2, <2>1, <2>6
  <1>5. /\ Firsts(all) \in SUBSET (1..Len(all))
        /\ \A i \in 1..Len(all) : \E j \in Firsts(all) : all[j] = all[i]
    BY <1>4, FirstsFacts
  <1> HIDE DEF all
  <1>6. one \in Seq(S) /\ ToSet(one) = {all[i] : i \in Firsts(all)}
    BY <1>4, <1>5, PickedFacts
  <1>7. ToSet(one) = ToSet(all)
    <2>1. ToSet(all) = {all[i] : i \in 1..Len(all)}
      BY <1>4 DEF ToSet
    <2>2. QED
      BY <1>5, <1>6, <2>1
  <1> HIDE DEF one
  <1>8. /\ Firsts(one) \in SUBSET (1..Len(one))
        /\ \A i \in 1..Len(one) : \E j \in Firsts(one) : one[j] = one[i]
        /\ \A i, j \in Firsts(one) : one[i] = one[j] => i = j
    BY <1>6, FirstsFacts
  <1>9. I \in SUBSET (1..Len(one)) /\ \A i, j \in I : one[i] = one[j] => i = j
    BY <1>8
  <1>10. ToSet(one) = {one[i] : i \in 1..Len(one)}
    BY <1>6 DEF ToSet
  <1>11. {one[i] : i \in I} = ToSet(one) \ {Comment}
    BY <1>8, <1>10
  <1> HIDE DEF I
  <1>12. /\ l \in Seq(S) /\ ToSet(l) = {one[i] : i \in I}
         /\ Len(l) = Cardinality(ToSet(l))
    BY <1>6, <1>9, PickedFacts
  <1> HIDE DEF l
  <1>13. ToSet(l) = (ToSet(m) \ {Comment}) \cup TargetUrls
    BY <1>1, <1>2, <1>4, <1>7, <1>11, <1>12
  <1>14. l \in Seq(Sources)
    <2>1. \A i \in 1..Len(l) : l[i] \in S /\ l[i] \in ToSet(l)
      BY <1>12 DEF ToSet
    <2>2. \A i \in 1..Len(l) : l[i] \in Sources
      BY <1>11, <1>12, <2>1 DEF S
    <2>3. QED
      BY <1>12, <2>2
  <1>15. l = UniqueSources(MergeProxySources(m))
    BY DEF l, I, one, all, ts, UniqueSources, MergeProxySources
  <1>16. QED
    BY <1>12, <1>13, <1>14, <1>15

\* A fetch at work has operationMu, so that no discovery is; and a GUI that is
\* down has no fetch, so that none meets the targets loaded at the next start.
AskingInv == (phase # "idle" => up /\ step = "none") /\ AsksAllTargets

\* Steps of a discovery do not touch the targets while a fetch is at work.
LEMMA DiscoverAside ==
    ASSUME step = "none", DiscoverStep
    PROVE  step' = "none" /\ UNCHANGED <<up, targets>>
  BY DEF DiscoverStep, FofaAnswers, HunterPage, SearchFails, Receive, NothingFound,
         SaveTargets, SaveFails, CommitTargets

\* Steps of a fetch keep its list, and none begins one.
LEMMA FetchKeepsList ==
    ASSUME FetchStep
    PROVE  phase # "idle" /\ (phase' # "idle" => list' = list)
  BY DEF FetchStep, WorkerStep, Take, Answer, SourceFails, Store, WorkerDone, Wait, MergeOne,
         Return, FetchEnd, FetchForget

\* The list stays right when neither it nor what it was made from changes.
LEMMA AskingStays ==
    ASSUME AskingInv, phase' # "idle" => phase # "idle" /\ UNCHANGED <<list, manual, targets, up, step>>
    PROVE  AskingInv'
  BY DEF AskingInv, AsksAllTargets, TargetUrls

LEMMA AskingNextInv == AskingInv /\ [Next]_vars => AskingInv'
  <1> SUFFICES ASSUME AskingInv, [Next]_vars PROVE AskingInv'
    OBVIOUS
  <1>1. CASE HandleDiscover
    BY <1>1, AskingStays DEF HandleDiscover, MutexFree, fetchVars
  <1>2. CASE HandleFetch
    <2>1. PICK m \in Manual : manual' = m /\ FetchBegin(UniqueSources(MergeProxySources(m)))
      BY <1>2 DEF HandleFetch
    <2>2. /\ list' = UniqueSources(MergeProxySources(m)) /\ phase' = "fetch"
          /\ up' /\ step' = "none" /\ targets' = targets
      BY <1>2, <2>1 DEF HandleFetch, FetchBegin, discoverVars
    <2>3. /\ ToSet(list') = (ToSet(m) \ {Comment}) \cup TargetUrls
          /\ Len(list') = Cardinality(ToSet(list'))
      BY <2>2, ListFacts
    <2>4. TargetUrls' = TargetUrls
      BY <2>2 DEF TargetUrls
    <2>5. QED
      BY <2>1, <2>2, <2>3, <2>4 DEF AskingInv, AsksAllTargets
  <1>3. CASE DiscoverStep /\ UNCHANGED <<fetchVars, manual>>
    <2>1. phase' = phase /\ list' = list /\ manual' = manual
      BY <1>3 DEF fetchVars
    <2>2. phase # "idle" => UNCHANGED <<targets, up, step>>
      BY <1>3, DiscoverAside DEF AskingInv
    <2>3. QED
      BY <2>1, <2>2, AskingStays
  <1>4. CASE FetchStep /\ UNCHANGED <<discoverVars, manual>>
    BY <1>4, FetchKeepsList, AskingStays DEF discoverVars
  <1>5. CASE Death
    BY <1>5, AskingStays DEF Death, FetchForget
  <1>6. CASE LoadTargets /\ UNCHANGED <<fetchVars, manual>>
    <2>1. phase' = "idle"
      BY <1>6 DEF LoadTargets, fetchVars, AskingInv
    <2>2. QED
      BY <2>1, AskingStays
  <1>7. CASE UNCHANGED vars
    BY <1>7, AskingStays DEF vars
  <1>8. QED
    BY <1>1, <1>2, <1>3, <1>4, <1>5, <1>6, <1>7 DEF Next

\* handleFetch asks every source it was given and every target there is, each
\* once, and no discovery replaces the targets until it has its answers.
THEOREM AsksAllTargetsHolds == Spec => []AsksAllTargets
  <1>1. Init => AskingInv
    BY DEF Init, FetchInit, AskingInv, AsksAllTargets
  <1>2. AskingInv => AsksAllTargets
    BY DEF AskingInv
  <1>3. QED
    BY <1>1, <1>2, AskingNextInv, PTL DEF Spec

\* The handlers use the fetch as it may be used: every step of discovery and
\* fetching together is a step of FetchSpec or leaves the fetch alone, so that
\* all that is proved of a fetch holds under discoveries and deaths of the GUI.
THEOREM GatherImplementsFetch == Spec => FetchSpec
  <1>1. Init => FetchInit
    BY DEF Init
  <1>2. ASSUME [Next]_vars PROVE [FetchNext]_fetchVars
    <2>1. CASE HandleFetch
      <3>1. PICK m \in Manual : FetchBegin(UniqueSources(MergeProxySources(m)))
        BY <2>1 DEF HandleFetch
      <3>2. UniqueSources(MergeProxySources(m)) \in Seq(Sources)
        BY ListFacts
      <3>3. QED
        BY <3>1, <3>2 DEF FetchNext
    <2>2. CASE UNCHANGED fetchVars
      BY <2>2
    <2>3. CASE FetchStep
      BY <2>3 DEF FetchNext
    <2>4. CASE Death
      BY <2>4 DEF Death, FetchNext
    <2>5. CASE UNCHANGED vars
      BY <2>5 DEF vars, fetchVars
    <2>6. QED
      BY <1>2, <2>1, <2>2, <2>3, <2>4, <2>5 DEF Next, HandleDiscover
  <1>3. [Next]_vars => [FetchNext]_fetchVars
    BY <1>2
  <1>4. QED
    BY <1>1, <1>3, PTL DEF Spec, FetchSpec

=============================================================================
