-------------------------- MODULE Scheduler_proofs --------------------------
(***************************************************************************)
(* The timed list of Scheduler.cpp is sound, for any number of events, of  *)
(* threads and of seconds, shutdown and spurious wake-ups included: its    *)
(* events have one owner each, its head is watched, and it implements      *)
(* EventList.                                                              *)
(***************************************************************************)
EXTENDS Scheduler, Lists_proofs

-----------------------------------------------------------------------------
(* The inductive invariant.                                                *)

\* The events of the list are the pending ones.
PlaceInv == \A e \in Events : place[e] = "pending" <=> e \in ToSet(events)

\* A thread that hands an event over is the only one to hold it, and every
\* handled event is held.
HandlerInv ==
    /\ \A t \in Threads :
          pc[t] = "removed" => holding[t] \in Events /\ place[holding[t]] = "handled"
    /\ \A t, u \in Threads :
          pc[t] = "removed" /\ pc[u] = "removed" /\ holding[t] = holding[u] => t = u
    /\ \A e \in Events :
          place[e] = "handled" => \E t \in Threads : pc[t] = "removed" /\ holding[t] = e

\* A thread decides on a time that has passed.
TimeInv == \A t \in Threads : pc[t] \in {"shift", "removed", "check"} => curr_time[t] <= clock

\* Each thread was created by an insertion, and the handle names one of them.
Created == {t \in Threads : pc[t] # "none"}
Used == {e \in Events : place[e] \notin {"new", "planned"}}

CreationInv ==
    /\ Created # {} => retry_thread_handle \in Threads
    /\ Cardinality(Created) <= Cardinality(Used)

SchedulerInv ==
    /\ TypeOK
    /\ ListIsSound
    /\ PlaceInv
    /\ HandlerInv
    /\ TimeInv
    /\ CreationInv
    /\ HeadIsWatched

(* What keeps a thread from locking the mutex twice: no event comes due    *)
(* between the last shift_event of a round and its check, unless it is     *)
(* linked late in between.                                                 *)
CheckInv ==
    \A t \in Threads : pc[t] = "check" =>
        \A e \in ToSet(events) : scheduled_at[e] > curr_time[t] \/ e \in late

RelockInv == OnlyLateEventsRelock /\ CheckInv

-----------------------------------------------------------------------------
(* The operators on the list.                                              *)

\* The list is in the order of at, without an event twice.
Sorted(list, at) ==
    \A i, j \in 1 .. Len(list) : i < j => list[i] # list[j] /\ at[list[i]] <= at[list[j]]

\* Where the elements of a list are after an insertion at position k.
LEMMA InsertAtFacts ==
    ASSUME NEW s \in Seq(Events), NEW e \in Events, NEW k \in 1 .. Len(s)
    PROVE  /\ InsertAt(s, k, e) \in Seq(Events) /\ Len(InsertAt(s, k, e)) = Len(s) + 1
           /\ \A i \in 1 .. k - 1 : InsertAt(s, k, e)[i] = s[i]
           /\ InsertAt(s, k, e)[k] = e
           /\ \A i \in k .. Len(s) : InsertAt(s, k, e)[i + 1] = s[i]
<1> DEFINE a == SubSeq(s, 1, k - 1)
           b == SubSeq(s, k, Len(s))
           c == a \o <<e>>
<1>1. InsertAt(s, k, e) = c \o b
  BY DEF InsertAt
<1>2. a \in Seq(Events) /\ Len(a) = k - 1 /\ \A i \in 1 .. k - 1 : a[i] = s[i]
  OBVIOUS
<1>3. /\ b \in Seq(Events) /\ Len(b) = Len(s) - k + 1
      /\ \A i \in k .. Len(s) : b[i + 1 - k] = s[i]
  OBVIOUS
<1> HIDE DEF a, b
<1>4. c \in Seq(Events) /\ Len(c) = k /\ c[k] = e /\ \A i \in 1 .. k - 1 : c[i] = s[i]
  BY <1>2
<1> HIDE DEF c
<1>5. c \o b \in Seq(Events) /\ Len(c \o b) = Len(s) + 1
  <2>1. Len(s) \in Nat /\ k \in Nat
    OBVIOUS
  <2>2. c \o b \in Seq(Events) /\ Len(c \o b) = Len(c) + Len(b)
    BY <1>3, <1>4, ConcatProperties, Zenon
  <2> QED
    BY <1>3, <1>4, <2>1, <2>2
<1>6. \A i \in 1 .. k : (c \o b)[i] = c[i]
  BY <1>3, <1>4, ConcatProperties
<1>7. \A i \in k .. Len(s) : (c \o b)[i + 1] = b[i + 1 - k]
  BY <1>3, <1>4, ConcatProperties
<1> QED
  BY <1>1, <1>3, <1>4, <1>5, <1>6, <1>7

\* InsertEvent places the event before the first one that is due later.
InsertedIn(w, list, at, e, k) ==
    /\ w \in Seq(Events) /\ Len(w) = Len(list) + 1
    /\ \A i \in 1 .. k - 1 : w[i] = list[i] /\ at[list[i]] <= at[e]
    /\ w[k] = e
    /\ \A i \in k .. Len(list) : w[i + 1] = list[i] /\ at[e] <= at[list[i]]

\* The insertion keeps the events before and after, and the order of the times.
LEMMA InsertedFacts ==
    ASSUME NEW list \in Seq(Events), NEW at \in [Events -> Int], NEW e \in Events,
           Sorted(list, at)
    PROVE  \E k \in 1 .. Len(list) + 1 : InsertedIn(Inserted(list, at, e), list, at, e, k)
<1> DEFINE later == {k \in 1 .. Len(list) : at[list[k]] > at[e]}
           w == Inserted(list, at, e)
<1>0. /\ Len(list) \in Nat /\ at[e] \in Int
      /\ \A i \in 1 .. Len(list) : list[i] \in Events /\ at[list[i]] \in Int
  OBVIOUS
<1>1. CASE later # {}
  <2> DEFINE k == Min(later)
  <2>1. \E m \in later : \A j \in later : m <= j
    <3> later \in SUBSET Nat
      OBVIOUS
    <3> HIDE DEF later
    <3> QED
      BY <1>1, LeastNatural
  <2>2. k \in later /\ \A j \in later : k <= j
    BY <2>1, Zenon DEF Min
  <2>3. w = InsertAt(list, k, e)
    BY <1>1 DEF Inserted
  <2> HIDE DEF k
  <2>4. k \in 1 .. Len(list) /\ at[list[k]] > at[e]
    BY <2>2
  <2>5. \A i \in 1 .. k - 1 : at[list[i]] <= at[e]
    <3> TAKE i \in 1 .. k - 1
    <3>1. i \in 1 .. Len(list) /\ ~(k <= i)
      BY <1>0, <2>4
    <3>2. ~(at[list[i]] > at[e])
      BY <2>2, <3>1
    <3> QED
      BY <1>0, <3>1, <3>2
  <2>6. \A i \in k .. Len(list) : at[e] <= at[list[i]]
    <3> TAKE i \in k .. Len(list)
    <3>1. i \in 1 .. Len(list) /\ (i = k \/ k < i)
      BY <1>0, <2>4
    <3>2. at[list[k]] <= at[list[i]]
      BY <1>0, <2>4, <3>1 DEF Sorted
    <3> QED
      BY <1>0, <2>4, <3>1, <3>2
  <2> HIDE DEF later
  <2>7. InsertedIn(w, list, at, e, k)
    <3>1. k \in 1 .. Len(list)
      BY <2>4
    <3>2. /\ InsertAt(list, k, e) \in Seq(Events) /\ Len(InsertAt(list, k, e)) = Len(list) + 1
          /\ \A i \in 1 .. k - 1 : InsertAt(list, k, e)[i] = list[i]
          /\ InsertAt(list, k, e)[k] = e
          /\ \A i \in k .. Len(list) : InsertAt(list, k, e)[i + 1] = list[i]
      BY <3>1, InsertAtFacts, Zenon
    <3>3. InsertedIn(InsertAt(list, k, e), list, at, e, k)
      BY <2>5, <2>6, <3>2, Zenon DEF InsertedIn
    <3> HIDE DEF w
    <3> QED
      BY <2>3, <3>3
  <2>8. k \in 1 .. Len(list) + 1
    BY <1>0, <2>4
  <2> QED
    BY <2>7, <2>8
<1>2. CASE later = {}
  <2>1. w = Append(list, e)
    BY <1>2 DEF Inserted
  <2>2. \A i \in 1 .. Len(list) : at[list[i]] <= at[e]
    BY <1>0, <1>2
  <2>3. InsertedIn(w, list, at, e, Len(list) + 1)
    <3> HIDE DEF w
    <3> QED
      BY <1>0, <2>1, <2>2 DEF InsertedIn
  <2>4. Len(list) + 1 \in 1 .. Len(list) + 1
    BY <1>0
  <2> QED
    BY <2>3, <2>4
<1> QED
  BY <1>1, <1>2

\* The members of a list.
LEMMA Members ==
    ASSUME NEW list \in Seq(Events)
    PROVE  /\ Len(list) \in Nat
           /\ \A e : e \in ToSet(list) <=> \E i \in 1 .. Len(list) : list[i] = e
           /\ ToSet(list) \subseteq Events
           /\ \A i \in 1 .. Len(list) : list[i] \in Events
           /\ list = <<>> <=> Len(list) = 0
           /\ list = <<>> <=> ToSet(list) = {}
  BY DEF ToSet

\* What an insertion makes of a sorted list.
LEMMA InsertedSorted ==
    ASSUME NEW list \in Seq(Events), NEW at \in [Events -> Int], NEW e \in Events,
           Sorted(list, at), e \notin ToSet(list), NEW w, w = Inserted(list, at, e)
    PROVE  /\ w \in Seq(Events) /\ Len(w) = Len(list) + 1 /\ w # <<>>
           /\ ToSet(w) = ToSet(list) \cup {e}
           /\ Sorted(w, at)
           /\ w[1] # e => list # <<>> /\ w[1] = list[1]
<1>1. PICK k \in 1 .. Len(list) + 1 : InsertedIn(w, list, at, e, k)
  BY InsertedFacts
<1>2. /\ w \in Seq(Events) /\ Len(w) = Len(list) + 1
      /\ \A i \in 1 .. k - 1 : w[i] = list[i] /\ at[list[i]] <= at[e]
      /\ w[k] = e
      /\ \A i \in k .. Len(list) : w[i + 1] = list[i] /\ at[e] <= at[list[i]]
  BY <1>1 DEF InsertedIn
<1>3. Len(list) \in Nat /\ k \in Nat /\ 1 <= k /\ k <= Len(list) + 1
  OBVIOUS
<1>4. \A i \in 1 .. Len(list) : list[i] # e /\ list[i] \in Events /\ at[list[i]] \in Int
  BY Members
<1>5. \A i \in 1 .. Len(w) : \/ i < k /\ i \in 1 .. k - 1 /\ i \in 1 .. Len(list)
                             \/ i = k
                             \/ k < i /\ i - 1 \in k .. Len(list) /\ i - 1 \in 1 .. Len(list)
  <2> TAKE i \in 1 .. Len(w)
  <2>1. i \in Nat /\ 1 <= i /\ i <= Len(list) + 1
    BY <1>2, <1>3
  <2> QED
    BY <1>3, <2>1
<1>6. \A i \in 1 .. Len(w) : /\ i < k => w[i] = list[i] /\ at[w[i]] <= at[e]
                             /\ k < i => w[i] = list[i - 1] /\ at[e] <= at[w[i]]
  <2> TAKE i \in 1 .. Len(w)
  <2>1. CASE i < k
    BY <1>2, <1>3, <1>5, <2>1
  <2>2. CASE k < i
    <3>1. i - 1 \in k .. Len(list) /\ (i - 1) + 1 = i
      BY <1>2, <1>3, <2>2
    <3>2. w[(i - 1) + 1] = list[i - 1] /\ at[e] <= at[list[i - 1]]
      BY <1>2, <3>1
    <3> QED
      BY <1>3, <2>2, <3>1, <3>2
  <2> QED
    BY <1>3, <2>1, <2>2
<1>7. Sorted(w, at)
  <2> SUFFICES ASSUME NEW i \in 1 .. Len(w), NEW j \in 1 .. Len(w), i < j
               PROVE  w[i] # w[j] /\ at[w[i]] <= at[w[j]]
    BY DEF Sorted
  <2>0. i \in Nat /\ j \in Nat /\ at[e] \in Int
    BY <1>2, <1>3
  <2>1. CASE j < k
    <3>1. i \in 1 .. Len(list) /\ j \in 1 .. Len(list) /\ i < k
      BY <1>3, <1>5, <2>0, <2>1
    <3> QED
      BY <1>6, <2>1, <3>1 DEF Sorted
  <2>2. CASE i < k /\ j = k
    <3>1. i \in 1 .. Len(list) /\ w[i] = list[i] /\ at[w[i]] <= at[e]
      BY <1>3, <1>5, <1>6, <2>0, <2>2
    <3> QED
      BY <1>2, <1>4, <2>2, <3>1
  <2>3. CASE i < k /\ k < j
    <3>1. i \in 1 .. Len(list) /\ j - 1 \in 1 .. Len(list) /\ i < j - 1
      BY <1>3, <1>5, <2>0, <2>3
    <3>2. list[i] # list[j - 1] /\ at[list[i]] <= at[list[j - 1]]
      BY <3>1 DEF Sorted
    <3>3. w[i] = list[i] /\ w[j] = list[j - 1]
      BY <1>6, <2>3
    <3> QED
      BY <3>2, <3>3
  <2>4. CASE i = k
    <3>1. j - 1 \in 1 .. Len(list) /\ w[j] = list[j - 1] /\ at[e] <= at[w[j]]
      BY <1>3, <1>5, <1>6, <2>0, <2>4
    <3> QED
      BY <1>2, <1>4, <2>4, <3>1
  <2>5. CASE k < i
    <3>1. i - 1 \in 1 .. Len(list) /\ j - 1 \in 1 .. Len(list) /\ i - 1 < j - 1 /\ k < j
      BY <1>3, <1>5, <2>0, <2>5
    <3>2. list[i - 1] # list[j - 1] /\ at[list[i - 1]] <= at[list[j - 1]]
      BY <3>1 DEF Sorted
    <3>3. w[i] = list[i - 1] /\ w[j] = list[j - 1]
      BY <1>6, <2>5, <3>1
    <3> QED
      BY <3>2, <3>3
  <2> QED
    BY <1>3, <2>0, <2>1, <2>2, <2>3, <2>4, <2>5
<1>8. ToSet(w) = ToSet(list) \cup {e}
  <2>1. \A x \in ToSet(w) : x \in ToSet(list) \cup {e}
    <3> TAKE x \in ToSet(w)
    <3>1. PICK i \in 1 .. Len(w) : w[i] = x
      BY <1>2, Members
    <3> QED
      BY <1>2, <1>5, <1>6, <3>1, Members
  <2>2. \A x \in ToSet(list) : x \in ToSet(w)
    <3> TAKE x \in ToSet(list)
    <3>1. PICK i \in 1 .. Len(list) : list[i] = x
      BY Members
    <3>2. CASE i < k
      <4> i \in 1 .. k - 1 /\ i \in 1 .. Len(w)
        BY <1>2, <1>3, <3>2
      <4> QED
        BY <1>2, <3>1, Members
    <3>3. CASE ~(i < k)
      <4> i \in k .. Len(list) /\ i + 1 \in 1 .. Len(w)
        BY <1>2, <1>3, <3>3
      <4> QED
        BY <1>2, <3>1, Members
    <3> QED
      BY <3>2, <3>3
  <2>3. e \in ToSet(w)
    <3> k \in 1 .. Len(w)
      BY <1>2, <1>3
    <3> QED
      BY <1>2, Members
  <2> QED
    BY <2>1, <2>2, <2>3
<1>9. w[1] # e => list # <<>> /\ w[1] = list[1]
  <2> HAVE w[1] # e
  <2>1. 1 < k
    BY <1>2, <1>3
  <2>2. 1 \in 1 .. k - 1 /\ 1 \in 1 .. Len(list)
    BY <1>3, <2>1
  <2> QED
    BY <1>2, <2>2, Members
<1>10. w # <<>>
  BY <1>2, <1>3
<1> QED
  BY <1>2, <1>7, <1>8, <1>9, <1>10

\* shift_event takes the earliest event and leaves a sorted list.
LEMMA TailSorted ==
    ASSUME NEW list \in Seq(Events), NEW at, Sorted(list, at), list # <<>>
    PROVE  /\ Tail(list) \in Seq(Events) /\ Len(Tail(list)) = Len(list) - 1
           /\ list[1] \in Events /\ list[1] \in ToSet(list)
           /\ ToSet(Tail(list)) = ToSet(list) \ {list[1]}
           /\ Sorted(Tail(list), at)
           /\ Tail(list) # <<>> => Tail(list)[1] \in ToSet(list) /\ at[list[1]] <= at[Tail(list)[1]]
<1> DEFINE w == Tail(list)
<1>1. /\ w \in Seq(Events) /\ Len(w) = Len(list) - 1 /\ Len(w) \in Nat
      /\ \A i \in 1 .. Len(w) : w[i] = list[i + 1] /\ i + 1 \in 1 .. Len(list)
  OBVIOUS
<1> HIDE DEF w
<1>2. 1 \in 1 .. Len(list) /\ list[1] \in Events /\ list[1] \in ToSet(list)
  BY <1>1, Members
<1>3. ToSet(w) = ToSet(list) \ {list[1]}
  <2>1. \A x \in ToSet(w) : x \in ToSet(list) \ {list[1]}
    <3> TAKE x \in ToSet(w)
    <3>1. PICK i \in 1 .. Len(w) : w[i] = x
      BY <1>1, Members
    <3>2. i + 1 \in 1 .. Len(list) /\ list[i + 1] = x /\ 1 < i + 1
      BY <1>1, <3>1
    <3> QED
      BY <1>2, <3>2, Members DEF Sorted
  <2>2. \A x \in ToSet(list) \ {list[1]} : x \in ToSet(w)
    <3> TAKE x \in ToSet(list) \ {list[1]}
    <3>1. PICK i \in 1 .. Len(list) : list[i] = x
      BY Members
    <3>2. i - 1 \in 1 .. Len(w) /\ (i - 1) + 1 = i
      BY <1>1, <3>1
    <3>3. w[i - 1] = x
      BY <1>1, <3>1, <3>2
    <3> QED
      BY <1>1, <3>2, <3>3, Members
  <2> QED
    BY <2>1, <2>2
<1>4. Sorted(w, at)
  <2> SUFFICES ASSUME NEW i \in 1 .. Len(w), NEW j \in 1 .. Len(w), i < j
               PROVE  w[i] # w[j] /\ at[w[i]] <= at[w[j]]
    BY DEF Sorted
  <2>1. i + 1 \in 1 .. Len(list) /\ j + 1 \in 1 .. Len(list) /\ i + 1 < j + 1
    BY <1>1
  <2> QED
    BY <1>1, <2>1 DEF Sorted
<1>5. w # <<>> => w[1] \in ToSet(list) /\ at[list[1]] <= at[w[1]]
  <2> HAVE w # <<>>
  <2>1. 1 \in 1 .. Len(w)
    BY <1>1
  <2>2. w[1] = list[2] /\ 2 \in 1 .. Len(list) /\ 1 < 2
    BY <1>1, <2>1
  <2> QED
    BY <1>2, <2>2, Members DEF Sorted
<1> QED
  BY <1>1, <1>2, <1>3, <1>4, <1>5 DEF w

\* Flush leaves a sorted list, and the head if that was not flushed.
LEMMA WithoutSorted ==
    ASSUME NEW list \in Seq(Events), NEW at, Sorted(list, at),
           NEW out, out \subseteq ToSet(list), NEW w, w = Without(list, out)
    PROVE  /\ w \in Seq(Events) /\ Len(w) = Len(list) - Cardinality(out)
           /\ IsFiniteSet(out)
           /\ ToSet(w) = ToSet(list) \ out
           /\ Sorted(w, at)
           /\ (list # <<>> /\ list[1] \notin out) => w[1] = list[1]
<1>1. /\ w \in Seq(Events)
      /\ \A n \in 1 .. Len(w) : \E k \in 1 .. Len(list) : w[n] = list[k] /\ list[k] \notin out
      /\ \A k \in 1 .. Len(list) : list[k] \notin out => \E n \in 1 .. Len(w) : w[n] = list[k]
      /\ \A m, n \in 1 .. Len(w) :
            m < n => \E j, k \in 1 .. Len(list) : j < k /\ w[m] = list[j] /\ w[n] = list[k]
  <2>1. w \in Seq(Events) /\ LeftOf(w, list, out)
    BY WithoutFacts
  <2> QED
    BY <2>1, Zenon DEF LeftOf
<1>2. IsFiniteSet(out) /\ Len(w) = Len(list) - Cardinality(out)
  <2>1. \A x \in out : \E i \in 1 .. Len(list) : list[i] = x
    BY Members
  <2>2. \A i, j \in 1 .. Len(list) : i < j => list[i] # list[j]
    BY DEF Sorted
  <2> QED
    BY <2>1, <2>2, WithoutCount
<1>3. ToSet(w) = ToSet(list) \ out
  <2>1. \A x \in ToSet(w) : x \in ToSet(list) \ out
    <3> TAKE x \in ToSet(w)
    <3>1. PICK n \in 1 .. Len(w) : w[n] = x
      BY <1>1, Members
    <3>2. PICK k \in 1 .. Len(list) : x = list[k] /\ list[k] \notin out
      BY <1>1, <3>1
    <3> QED
      BY <3>2, Members
  <2>2. \A x \in ToSet(list) \ out : x \in ToSet(w)
    <3> TAKE x \in ToSet(list) \ out
    <3>1. PICK k \in 1 .. Len(list) : list[k] = x
      BY Members
    <3>2. PICK n \in 1 .. Len(w) : w[n] = x
      BY <1>1, <3>1
    <3> QED
      BY <1>1, <3>2, Members
  <2> QED
    BY <2>1, <2>2
<1>4. Sorted(w, at)
  <2> SUFFICES ASSUME NEW m \in 1 .. Len(w), NEW n \in 1 .. Len(w), m < n
               PROVE  w[m] # w[n] /\ at[w[m]] <= at[w[n]]
    BY DEF Sorted
  <2>1. PICK j, k \in 1 .. Len(list) : j < k /\ w[m] = list[j] /\ w[n] = list[k]
    BY <1>1
  <2> QED
    BY <2>1 DEF Sorted
<1>5. (list # <<>> /\ list[1] \notin out) => w[1] = list[1]
  <2> HAVE list # <<>> /\ list[1] \notin out
  <2>1. 1 \in 1 .. Len(list)
    BY Members
  <2>2. PICK n \in 1 .. Len(w) : w[n] = list[1]
    BY <1>1, <2>1
  <2>3. CASE n = 1
    BY <2>2, <2>3
  <2>4. CASE n # 1
    <3>0. Len(w) \in Nat
      BY <1>1, Members
    <3>1. 1 \in 1 .. Len(w) /\ 1 < n
      BY <2>2, <2>4, <3>0
    <3>2. PICK j, k \in 1 .. Len(list) : j < k /\ w[1] = list[j] /\ w[n] = list[k]
      BY <1>1, <3>1
    <3>3. j \in Nat /\ k \in Nat /\ 1 <= j /\ 1 < k /\ list[k] = list[1]
      BY <2>2, <3>2
    <3> QED
      BY <2>1, <3>3 DEF Sorted
  <2> QED
    BY <2>3, <2>4
<1> QED
  BY <1>1, <1>2, <1>3, <1>4, <1>5

\* The order depends on the times of the listed events only.
LEMMA SortedFrame ==
    ASSUME NEW list \in Seq(Events), NEW at, NEW at2, Sorted(list, at),
           \A e \in ToSet(list) : at2[e] = at[e]
    PROVE  Sorted(list, at2)
<1>1. \A i \in 1 .. Len(list) : at2[list[i]] = at[list[i]]
  BY Members
<1> QED
  BY <1>1 DEF Sorted

-----------------------------------------------------------------------------
(* The threads.                                                            *)

Awake == {"time", "shift", "removed", "check", "woken"}

\* Thread t will look at the head of the list in time.
WatchedBy(t) ==
    \/ pc[t] \in Awake
    \/ pc[t] = "asleep" /\ curr_time[t] + time_to_sleep[t] <= scheduled_at[events[1]]

\* pthread_cond_signal wakes up one sleeper, if there is one, and does nothing
\* else.
LEMMA SignalFacts ==
    ASSUME NEW p \in [Threads -> Points], NEW q \in Signal(p)
    PROVE  /\ q \in [Threads -> Points]
           /\ \A t \in Threads : q[t] = p[t] \/ (p[t] = "asleep" /\ q[t] = "woken")
           /\ \/ q = p /\ \A t \in Threads : p[t] # "asleep"
              \/ \E t \in Threads : q[t] = "woken"
<1>1. CASE \A t \in Threads : p[t] # "asleep"
  <2> q = p
    BY <1>1 DEF Signal
  <2> QED
    BY <1>1
<1>2. CASE ~ \A t \in Threads : p[t] # "asleep"
  <2>1. PICK t \in Threads : p[t] = "asleep" /\ q = [p EXCEPT ![t] = "woken"]
    BY <1>2 DEF Signal
  <2> QED
    BY <2>1 DEF Points
<1> QED
  BY <1>1, <1>2

\* An event that was not inserted yet finds a thread that does not exist yet.
LEMMA ThreadLeft ==
    ASSUME TypeOK, CreationInv, NEW e \in Events, place[e] = "planned"
    PROVE  NewThread \in Threads /\ pc[NewThread] = "none"
<1>1. /\ IsFiniteSet(Events) /\ IsFiniteSet(Threads)
      /\ Cardinality(Events) <= Cardinality(Threads)
  BY SchedulerAssumption
<1>2. IsFiniteSet(Used) /\ Cardinality(Used) <= Cardinality(Events) /\ Used # Events
  <2> Used \subseteq Events /\ e \notin Used
    BY DEF Used
  <2> QED
    BY <1>1, FS_Subset
<1>3. Cardinality(Used) < Cardinality(Events)
  <2>1. Cardinality(Used) # Cardinality(Events)
    <3> Used \subseteq Events
      BY DEF Used
    <3> QED
      BY <1>1, <1>2, FS_Subset
  <2>2. Cardinality(Used) \in Nat /\ Cardinality(Events) \in Nat
    BY <1>1, <1>2, FS_CardinalityType
  <2> QED
    BY <1>2, <2>1, <2>2
<1>4. Created # Threads
  <2> SUFFICES ASSUME Created = Threads PROVE FALSE
    OBVIOUS
  <2>1. Cardinality(Threads) <= Cardinality(Used)
    BY DEF CreationInv
  <2>2. /\ Cardinality(Used) \in Nat /\ Cardinality(Events) \in Nat
        /\ Cardinality(Threads) \in Nat
    BY <1>1, <1>2, FS_CardinalityType
  <2> QED
    BY <1>1, <1>3, <2>1, <2>2
<1>5. \E t \in Threads : pc[t] = "none"
  BY <1>4 DEF Created
<1> QED
  BY <1>5 DEF NewThread

\* ListIsSound says that the list is sorted and counted.
LEMMA SoundMeansSorted ==
    /\ ListIsSound <=> number_of_events = Len(events) /\ Sorted(events, scheduled_at)
    /\ (ListIsSound <=> number_of_events = Len(events) /\ Sorted(events, scheduled_at))'
  BY DEF ListIsSound, Sorted

\* HeadIsWatched in terms of WatchedBy.
LEMMA WatchMeans ==
    /\ HeadIsWatched <=> (events # <<>> /\ ~ is_shutting_down => \E t \in Threads : WatchedBy(t))
    /\ (HeadIsWatched <=> (events # <<>> /\ ~ is_shutting_down => \E t \in Threads : WatchedBy(t)))'
  BY DEF HeadIsWatched, WatchedBy, Awake

\* A thread that moves, but neither takes nor returns an event, preserves the
\* invariant if it goes on watching the head where it did so before.
LEMMA ThreadMoves ==
    ASSUME SchedulerInv, TypeOK',
           NEW t \in Threads, NEW p \in Points \ {"none", "removed"},
           pc[t] \notin {"none", "removed"}, pc' = [pc EXCEPT ![t] = p],
           UNCHANGED <<clock, listVars, place, holding, retry_thread_handle, is_shutting_down>>,
           \A u \in Threads \ {t} :
              curr_time'[u] = curr_time[u] /\ time_to_sleep'[u] = time_to_sleep[u],
           p \in {"shift", "check"} => curr_time'[t] <= clock,
           events # <<>> /\ ~ is_shutting_down => WatchedBy(t)' \/ ~ WatchedBy(t)
    PROVE  SchedulerInv'
<1> USE DEF SchedulerInv
<1>0. /\ \A u \in Threads \ {t} : pc'[u] = pc[u]
      /\ pc'[t] = p
  BY DEF TypeOK
<1>1. ListIsSound'
  BY SoundMeansSorted DEF listVars
<1>2. PlaceInv'
  BY DEF PlaceInv, listVars
<1>3. HandlerInv'
  <2>1. \A u \in Threads : pc'[u] = "removed" <=> pc[u] = "removed"
    BY <1>0
  <2>2. holding' = holding /\ place' = place
    OBVIOUS
  <2> QED
    BY <2>1, <2>2 DEF HandlerInv
<1>4. TimeInv'
  BY <1>0 DEF TimeInv
<1>5. CreationInv'
  <2> Created' = Created /\ Used' = Used
    BY <1>0 DEF Created, Used
  <2> QED
    BY DEF CreationInv
<1>6. HeadIsWatched'
  <2> SUFFICES ASSUME events # <<>>, ~ is_shutting_down
               PROVE  \E u \in Threads : WatchedBy(u)'
    BY WatchMeans DEF listVars
  <2>1. PICK u \in Threads : WatchedBy(u)
    BY WatchMeans
  <2>2. CASE u = t
    BY <2>1, <2>2
  <2>3. CASE u # t
    BY <1>0, <2>1, <2>3 DEF WatchedBy, listVars
  <2> QED
    BY <2>2, <2>3
<1> QED
  BY <1>1, <1>2, <1>3, <1>4, <1>5, <1>6

\* The steps of a retry_thread that leave the list alone.
LEMMA ThreadTimeStep ==
    ASSUME SchedulerInv, NEW t \in Threads, ThreadTime(t)
    PROVE  SchedulerInv'
<1>1. TypeOK'
  BY DEF SchedulerInv, ThreadTime, TypeOK, listVars, Points
<1>2. curr_time'[t] <= clock /\ \A u \in Threads \ {t} : curr_time'[u] = curr_time[u]
  BY DEF SchedulerInv, ThreadTime, TypeOK
<1>3. WatchedBy(t)'
  <2> pc'[t] = "shift"
    BY DEF SchedulerInv, ThreadTime, TypeOK
  <2> QED
    BY DEF WatchedBy, Awake
<1> QED
  BY <1>1, <1>2, <1>3, ThreadMoves DEF ThreadTime, Points

\* See ThreadTimeStep.
LEMMA ThreadTimeoutStep ==
    ASSUME SchedulerInv, NEW t \in Threads, ThreadTimeout(t) \/ ThreadSpuriousWakeup(t)
    PROVE  SchedulerInv'
<1>1. TypeOK'
  BY DEF SchedulerInv, ThreadTimeout, ThreadSpuriousWakeup, TypeOK, listVars, threadVars, Points
<1>2. pc' = [pc EXCEPT ![t] = "woken"] /\ pc[t] = "asleep" /\ pc'[t] = "woken"
  BY DEF SchedulerInv, ThreadTimeout, ThreadSpuriousWakeup, TypeOK
<1>3. WatchedBy(t)'
  BY <1>2 DEF WatchedBy, Awake
<1>4. UNCHANGED <<clock, listVars, place, holding, retry_thread_handle, is_shutting_down,
                  curr_time, time_to_sleep>>
  BY DEF ThreadTimeout, ThreadSpuriousWakeup, threadVars
<1> QED
  BY <1>1, <1>2, <1>3, <1>4, ThreadMoves DEF Points

\* See ThreadTimeStep.
LEMMA ThreadWakeStep ==
    ASSUME SchedulerInv, NEW t \in Threads, ThreadWake(t)
    PROVE  SchedulerInv'
<1>1. TypeOK'
  BY DEF SchedulerInv, ThreadWake, Forget, TypeOK, listVars, Points
<1>2. pc[t] = "woken" /\ pc' = [pc EXCEPT ![t] = IF is_shutting_down THEN "done" ELSE "time"]
  BY DEF ThreadWake
<1>3. \A u \in Threads \ {t} :
         curr_time'[u] = curr_time[u] /\ time_to_sleep'[u] = time_to_sleep[u]
  BY DEF SchedulerInv, TypeOK, ThreadWake, Forget
<1>4. ~ is_shutting_down => WatchedBy(t)'
  <2> HAVE ~ is_shutting_down
  <2> pc'[t] = "time"
    BY <1>2 DEF SchedulerInv, TypeOK
  <2> QED
    BY DEF WatchedBy, Awake
<1> QED
  BY <1>1, <1>2, <1>3, <1>4, ThreadMoves DEF ThreadWake, Points

\* See ThreadTimeStep.
LEMMA ThreadDetachStep ==
    ASSUME SchedulerInv, NEW t \in Threads, ThreadDetach(t)
    PROVE  SchedulerInv'
<1>0. retry_thread_handle \in Threads
  BY DEF SchedulerInv, CreationInv, Created, ThreadDetach
<1>1. TypeOK'
  BY <1>0 DEF SchedulerInv, ThreadDetach, TypeOK, listVars, threadVars, Points
<1>2. ~ WatchedBy(t)
  BY DEF ThreadDetach, WatchedBy, Awake
<1> QED
  BY <1>1, <1>2, ThreadMoves DEF ThreadDetach, Points, threadVars

\* The test after the shift loop: whoever leaves, leaves an empty list or a
\* shutdown, and whoever sleeps, sleeps until the head is due.
LEMMA ThreadCheckStep ==
    ASSUME SchedulerInv, NEW t \in Threads, ThreadCheck(t)
    PROVE  SchedulerInv'
<1> DEFINE gap == get_sleep_time(t)
<1>0. number_of_events # 0 => /\ events # <<>> /\ events[1] \in Events
                              /\ scheduled_at[events[1]] \in Int /\ gap \in Int
                              /\ curr_time[t] + gap = scheduled_at[events[1]]
  <2> HAVE number_of_events # 0
  <2>1. events # <<>> /\ events[1] \in Events
    BY Members DEF SchedulerInv, ListIsSound, TypeOK
  <2> QED
    BY <2>1 DEF SchedulerInv, TypeOK, get_sleep_time
<1>1. number_of_events = 0 => events = <<>>
  BY Members DEF SchedulerInv, ListIsSound, TypeOK
<1> HIDE DEF gap
<1>2. UNCHANGED <<clock, listVars, place, holding, retry_thread_handle, is_shutting_down>>
  BY DEF ThreadCheck
<1>3. CASE \/ number_of_events = 0 /\ pc' = [pc EXCEPT ![t] = "detach"] /\ UNCHANGED mutex
           \/ pc' = [pc EXCEPT ![t] = "time"] /\ mutex' = t
           \/ is_shutting_down /\ pc' = [pc EXCEPT ![t] = "done"] /\ mutex' = t
  <2>0. Forget(t)
    BY <1>3, <1>0 DEF ThreadCheck, SchedulerInv, TypeOK
  <2>1. TypeOK'
    BY <1>3, <2>0 DEF ThreadCheck, Forget, SchedulerInv, TypeOK, listVars, Points
  <2>2. \A u \in Threads \ {t} :
           curr_time'[u] = curr_time[u] /\ time_to_sleep'[u] = time_to_sleep[u]
    BY <2>0 DEF SchedulerInv, TypeOK, Forget
  <2>3. events # <<>> /\ ~ is_shutting_down => WatchedBy(t)'
    <3> HAVE events # <<>> /\ ~ is_shutting_down
    <3> pc'[t] = "time"
      BY <1>1, <1>3 DEF SchedulerInv, TypeOK
    <3> QED
      BY DEF WatchedBy, Awake
  <2>4. pc[t] = "check"
    BY DEF ThreadCheck
  <2>5. \E p \in Points \ {"none", "removed", "shift", "check"} : pc' = [pc EXCEPT ![t] = p]
    BY <1>3 DEF Points
  <2> QED
    BY <1>2, <2>1, <2>2, <2>3, <2>4, <2>5, ThreadMoves
<1>4. CASE /\ number_of_events # 0 /\ gap > 0
           /\ time_to_sleep' = [time_to_sleep EXCEPT ![t] = gap]
           /\ abstime' = [abstime EXCEPT ![t] = clock + gap]
           /\ pc' = [pc EXCEPT ![t] = "asleep"]
           /\ UNCHANGED <<curr_time, mutex>>
  <2>1. gap \in Nat /\ clock + gap \in Nat
    BY <1>0, <1>4 DEF SchedulerInv, TypeOK
  <2>2. UNCHANGED <<late, detached, main>>
    BY DEF ThreadCheck
  <2>3. TypeOK'
    BY <1>2, <1>4, <2>1, <2>2 DEF SchedulerInv, TypeOK, listVars, Points
  <2>4. \A u \in Threads \ {t} :
           curr_time'[u] = curr_time[u] /\ time_to_sleep'[u] = time_to_sleep[u]
    BY <1>4 DEF SchedulerInv, TypeOK
  <2>5. WatchedBy(t)'
    <3>1. pc'[t] = "asleep" /\ time_to_sleep'[t] = gap /\ curr_time'[t] = curr_time[t]
      BY <1>4 DEF SchedulerInv, TypeOK
    <3>2. curr_time'[t] + time_to_sleep'[t] <= scheduled_at'[events'[1]]
      BY <1>0, <1>2, <1>4, <3>1 DEF listVars
    <3> QED
      BY <3>1, <3>2 DEF WatchedBy
  <2>6. pc[t] = "check" /\ "asleep" \in Points \ {"none", "removed", "shift", "check"}
    BY DEF ThreadCheck, Points
  <2> QED
    BY <1>2, <1>4, <2>3, <2>4, <2>5, <2>6, ThreadMoves
<1> QED
  BY <1>3, <1>4 DEF ThreadCheck, gap

-----------------------------------------------------------------------------
(* The steps that change the list.                                         *)

\* shift_event hands the earliest event to the thread.
LEMMA ShiftStep ==
    ASSUME SchedulerInv, NEW t \in Threads, shift_event(t)
    PROVE  SchedulerInv'
<1> USE DEF SchedulerInv
<1>1. CASE ~ FirstIsDue(t)
  <2>1. pc[t] = "shift" /\ pc' = [pc EXCEPT ![t] = "check"] /\ pc'[t] = "check"
    BY <1>1 DEF shift_event, TypeOK
  <2>2. UNCHANGED <<clock, events, number_of_events, scheduled_at, place, late, mutex, holding,
                    retry_thread_handle, is_shutting_down, curr_time, time_to_sleep, abstime,
                    detached, main>>
    BY <1>1 DEF shift_event
  <2>3. TypeOK'
    BY <2>1, <2>2 DEF TypeOK, Points
  <2>4. curr_time'[t] <= clock
    BY <2>1, <2>2 DEF TimeInv
  <2>5. WatchedBy(t)'
    BY <2>1 DEF WatchedBy, Awake
  <2> QED
    BY <2>1, <2>2, <2>3, <2>4, <2>5, ThreadMoves DEF Points, listVars
<1>2. CASE FirstIsDue(t)
  <2> DEFINE e == events[1]
  <2>1. /\ events # <<>> /\ events' = Tail(events)
        /\ number_of_events' = number_of_events - 1
        /\ place' = [place EXCEPT ![e] = "handled"]
        /\ late' = late \ {e}
        /\ holding' = [holding EXCEPT ![t] = e]
        /\ pc' = [pc EXCEPT ![t] = "removed"]
        /\ pc[t] = "shift"
    BY <1>2 DEF shift_event, FirstIsDue
  <2>2. UNCHANGED <<clock, scheduled_at, mutex, retry_thread_handle, is_shutting_down,
                    curr_time, time_to_sleep, abstime, detached, main>>
    BY DEF shift_event
  <2>3. events \in Seq(Events) /\ Sorted(events, scheduled_at) /\ number_of_events = Len(events)
    BY SoundMeansSorted DEF TypeOK
  <2>4. /\ events' \in Seq(Events) /\ Len(events') = Len(events) - 1
        /\ e \in Events /\ e \in ToSet(events)
        /\ ToSet(events') = ToSet(events) \ {e}
        /\ Sorted(events', scheduled_at)
    BY <2>1, <2>3, TailSorted
  <2> HIDE DEF e
  <2>5. Len(events) \in Nat /\ Len(events) # 0
    BY <2>1, <2>3, Members
  <2>6. TypeOK'
    <3>1. number_of_events' \in Nat
      BY <2>1, <2>3, <2>5
    <3>2. place' \in [Events -> {"new", "planned", "pending", "handled", "gone"}]
      BY <2>1, <2>4 DEF TypeOK
    <3>3. holding' \in [Threads -> Events \cup {NoThread}]
      BY <2>1, <2>4 DEF TypeOK
    <3>4. pc' \in [Threads -> Points]
      BY <2>1 DEF TypeOK, Points
    <3>5. late' \subseteq Events
      BY <2>1 DEF TypeOK
    <3> QED
      BY <2>2, <2>4, <3>1, <3>2, <3>3, <3>4, <3>5 DEF TypeOK
  <2>7. ListIsSound'
    <3> Sorted(events', scheduled_at')
      BY <2>2, <2>4
    <3> number_of_events' = Len(events')
      BY <2>1, <2>3, <2>4
    <3> QED
      BY SoundMeansSorted
  <2>8. /\ \A f \in Events \ {e} : place'[f] = place[f]
        /\ place'[e] = "handled"
        /\ \A u \in Threads \ {t} : pc'[u] = pc[u] /\ holding'[u] = holding[u]
        /\ pc'[t] = "removed" /\ holding'[t] = e
    BY <2>1, <2>4 DEF TypeOK
  <2>9. PlaceInv'
    BY <2>4, <2>8 DEF PlaceInv
  <2>10. HandlerInv'
    <3>1. place[e] = "pending"
      BY <2>4 DEF PlaceInv
    <3>2. \A u \in Threads : pc[u] = "removed" => holding[u] # e
      BY <3>1 DEF HandlerInv
    <3>3. \A u \in Threads :
             pc'[u] = "removed" => holding'[u] \in Events /\ place'[holding'[u]] = "handled"
      BY <2>4, <2>8, <3>2 DEF HandlerInv
    <3>4. \A u, v \in Threads :
             pc'[u] = "removed" /\ pc'[v] = "removed" /\ holding'[u] = holding'[v] => u = v
      BY <2>8, <3>2 DEF HandlerInv
    <3>5. \A f \in Events :
             place'[f] = "handled" => \E u \in Threads : pc'[u] = "removed" /\ holding'[u] = f
      <4> TAKE f \in Events
      <4> HAVE place'[f] = "handled"
      <4>1. CASE f = e
        BY <2>8, <4>1
      <4>2. CASE f # e
        <5>1. PICK u \in Threads : pc[u] = "removed" /\ holding[u] = f
          BY <2>8, <4>2 DEF HandlerInv
        <5>2. u # t
          BY <2>1, <5>1
        <5> QED
          BY <2>8, <5>1, <5>2
      <4> QED
        BY <4>1, <4>2
    <3> QED
      BY <3>3, <3>4, <3>5 DEF HandlerInv
  <2>11. TimeInv'
    BY <2>1, <2>2, <2>8 DEF TimeInv
  <2>12. CreationInv'
    <3>1. Created' = Created
      BY <2>1, <2>8 DEF Created
    <3>2. Used' = Used
      BY <2>4, <2>8 DEF Used, PlaceInv
    <3> QED
      BY <2>2, <3>1, <3>2 DEF CreationInv
  <2>13. HeadIsWatched'
    <3> WatchedBy(t)'
      BY <2>8 DEF WatchedBy, Awake
    <3> QED
      BY WatchMeans
  <2> QED
    BY <2>6, <2>7, <2>9, <2>10, <2>11, <2>12, <2>13
<1> QED
  BY <1>1, <1>2

\* event_removed deletes the event the thread holds.
LEMMA RemovedStep ==
    ASSUME SchedulerInv, NEW t \in Threads, event_removed(t)
    PROVE  SchedulerInv'
<1> USE DEF SchedulerInv
<1> DEFINE e == holding[t]
<1>1. /\ pc[t] = "removed" /\ e \in Events /\ place[e] = "handled"
      /\ place' = [place EXCEPT ![e] = "gone"]
      /\ scheduled_at' = [scheduled_at EXCEPT ![e] = 0]
      /\ holding' = [holding EXCEPT ![t] = NoThread]
      /\ pc' = [pc EXCEPT ![t] = "shift"]
  BY DEF event_removed, HandlerInv
<1>2. UNCHANGED <<clock, events, number_of_events, late, mutex, is_shutting_down,
                  retry_thread_handle, curr_time, time_to_sleep, abstime, detached, main>>
  BY DEF event_removed
<1>3. /\ \A f \in Events \ {e} : place'[f] = place[f] /\ scheduled_at'[f] = scheduled_at[f]
      /\ place'[e] = "gone"
      /\ \A u \in Threads \ {t} : pc'[u] = pc[u] /\ holding'[u] = holding[u]
      /\ pc'[t] = "shift"
  BY <1>1 DEF TypeOK
<1>4. \A u \in Threads \ {t} : pc[u] = "removed" => holding[u] # e
  BY <1>1 DEF HandlerInv
<1>5. TypeOK'
  BY <1>1, <1>2 DEF TypeOK, Points
<1> HIDE DEF e
<1>6. e \notin ToSet(events) /\ events \in Seq(Events)
  BY <1>1 DEF PlaceInv, TypeOK
<1>7. ListIsSound'
  <2>1. Sorted(events, scheduled_at)
    BY SoundMeansSorted
  <2>2. \A f \in ToSet(events) : scheduled_at'[f] = scheduled_at[f]
    BY <1>3, <1>6, Members
  <2>3. Sorted(events, scheduled_at')
    BY <1>6, <2>1, <2>2, SortedFrame
  <2> QED
    BY <1>2, <2>3, SoundMeansSorted
<1>8. PlaceInv'
  BY <1>2, <1>3, <1>6 DEF PlaceInv
<1>9. HandlerInv'
  <2>1. \A u \in Threads :
           pc'[u] = "removed" => holding'[u] \in Events /\ place'[holding'[u]] = "handled"
    BY <1>3, <1>4 DEF HandlerInv
  <2>2. \A u, v \in Threads :
           pc'[u] = "removed" /\ pc'[v] = "removed" /\ holding'[u] = holding'[v] => u = v
    BY <1>3 DEF HandlerInv
  <2>3. \A f \in Events :
           place'[f] = "handled" => \E u \in Threads : pc'[u] = "removed" /\ holding'[u] = f
    <3> TAKE f \in Events
    <3> HAVE place'[f] = "handled"
    <3>1. f # e
      BY <1>3
    <3>2. PICK u \in Threads : pc[u] = "removed" /\ holding[u] = f
      BY <1>3, <3>1 DEF HandlerInv
    <3>3. u # t
      BY <3>1, <3>2 DEF e
    <3> QED
      BY <1>3, <3>2, <3>3
  <2> QED
    BY <2>1, <2>2, <2>3 DEF HandlerInv
<1>10. TimeInv'
  BY <1>1, <1>2, <1>3 DEF TimeInv
<1>11. CreationInv'
  <2>1. Created' = Created
    BY <1>1, <1>3 DEF Created
  <2>2. Used' = Used
    BY <1>1, <1>3 DEF Used
  <2> QED
    BY <1>2, <2>1, <2>2 DEF CreationInv
<1>12. HeadIsWatched'
  <2> WatchedBy(t)'
    BY <1>3 DEF WatchedBy, Awake
  <2> QED
    BY WatchMeans
<1> QED
  BY <1>5, <1>7, <1>8, <1>9, <1>10, <1>11, <1>12

\* A wake-up changes nothing that the invariant says about the threads.
LEMMA SignalKeeps ==
    ASSUME TypeOK, HandlerInv, TimeInv, UNCHANGED <<curr_time, clock, holding>>,
           pc' \in Signal(pc) \/ pc' = pc,
           \A e \in Events : place[e] = "handled" <=> place'[e] = "handled"
    PROVE  HandlerInv' /\ TimeInv' /\ Created' = Created
<1>1. \A t \in Threads : pc'[t] = pc[t] \/ (pc[t] = "asleep" /\ pc'[t] = "woken")
  BY SignalFacts DEF TypeOK
<1>2. \A t \in Threads : pc'[t] = "removed" <=> pc[t] = "removed"
  BY <1>1
<1>3. HandlerInv'
  BY <1>2 DEF HandlerInv
<1>4. TimeInv'
  BY <1>1 DEF TimeInv
<1>5. Created' = Created
  BY <1>1 DEF Created
<1> QED
  BY <1>3, <1>4, <1>5

\* A list that has a head keeps being watched when a thread is signalled.
LEMMA SignalWatches ==
    ASSUME TypeOK, HeadIsWatched, UNCHANGED is_shutting_down, events # <<>>,
           pc' \in Signal(pc)
    PROVE  HeadIsWatched'
<1> SUFFICES ASSUME ~ is_shutting_down
             PROVE  \E t \in Threads : WatchedBy(t)'
  BY WatchMeans
<1>1. \/ pc' = pc /\ \A t \in Threads : pc[t] # "asleep"
      \/ \E t \in Threads : pc'[t] = "woken"
  <2> pc \in [Threads -> Points]
    BY DEF TypeOK
  <2> QED
    BY SignalFacts
<1>2. CASE \E t \in Threads : pc'[t] = "woken"
  BY <1>2 DEF WatchedBy, Awake
<1>3. CASE pc' = pc /\ \A t \in Threads : pc[t] # "asleep"
  BY <1>3, WatchMeans DEF WatchedBy
<1> QED
  BY <1>1, <1>2, <1>3

\* A caller that settles when its event is due does not touch the list.
LEMMA PrepareStep ==
    ASSUME SchedulerInv, NEW e \in Events, NEW d \in Delays, Prepare(e, d)
    PROVE  SchedulerInv'
<1> USE DEF SchedulerInv
<1>1. /\ place[e] = "new"
      /\ scheduled_at' = [scheduled_at EXCEPT ![e] = clock + d]
      /\ place' = [place EXCEPT ![e] = "planned"]
      /\ UNCHANGED <<clock, events, number_of_events, late, mutex, is_shutting_down,
                     retry_thread_handle, pc, curr_time, time_to_sleep, abstime, holding,
                     detached, main>>
  BY DEF Prepare, threadVars
<1>2. clock + d \in Int
  BY SchedulerAssumption DEF TypeOK
<1>3. /\ scheduled_at' \in [Events -> Int]
      /\ place' \in [Events -> {"new", "planned", "pending", "handled", "gone"}]
      /\ place'[e] = "planned"
      /\ \A f \in Events \ {e} : place'[f] = place[f] /\ scheduled_at'[f] = scheduled_at[f]
  BY <1>1, <1>2 DEF TypeOK
<1>4. TypeOK'
  BY <1>1, <1>3 DEF TypeOK
<1>5. /\ events \in Seq(Events) /\ e \notin ToSet(events) /\ Sorted(events, scheduled_at)
      /\ \A f \in ToSet(events) : scheduled_at'[f] = scheduled_at[f]
  BY <1>1, <1>3, Members, SoundMeansSorted DEF TypeOK, PlaceInv
<1>6. ListIsSound'
  <2> Sorted(events, scheduled_at')
    BY <1>5, SortedFrame
  <2> QED
    BY <1>1, SoundMeansSorted
<1>7. PlaceInv'
  BY <1>1, <1>3 DEF PlaceInv
<1>8. HandlerInv'
  BY <1>1, <1>3 DEF HandlerInv
<1>9. TimeInv'
  BY <1>1 DEF TimeInv
<1>10. CreationInv'
  <2> Created' = Created /\ Used' = Used
    BY <1>1, <1>3 DEF Created, Used
  <2> QED
    BY <1>1 DEF CreationInv
<1>11. HeadIsWatched'
  <2> SUFFICES ASSUME events # <<>> PROVE HeadIsWatched'
    BY <1>1 DEF HeadIsWatched
  <2>1. events[1] \in ToSet(events)
    BY <1>5, TailSorted
  <2>2. scheduled_at'[events'[1]] = scheduled_at[events[1]]
    BY <1>1, <1>5, <2>1
  <2>3. \A t \in Threads : WatchedBy(t)' <=> WatchedBy(t)
    BY <1>1, <2>2 DEF WatchedBy
  <2> QED
    BY <1>1, <2>3, WatchMeans
<1> QED
  BY <1>4, <1>6, <1>7, <1>8, <1>9, <1>10, <1>11

\* InsertEvent.
LEMMA InsertStep ==
    ASSUME SchedulerInv, NEW e \in Events, InsertEvent(e)
    PROVE  SchedulerInv'
<1> USE DEF SchedulerInv
<1>1. /\ place[e] = "planned"
      /\ place' = [place EXCEPT ![e] = "pending"]
      /\ events' = Inserted(events, scheduled_at, e)
      /\ late' \subseteq late \cup {e}
      /\ number_of_events' = (IF events = <<>> THEN 0 ELSE number_of_events) + 1
      /\ UNCHANGED <<clock, scheduled_at, mutex, is_shutting_down, threadVars, detached, main>>
  BY DEF InsertEvent, MayInsert, Link
<1>3. /\ scheduled_at' = scheduled_at /\ scheduled_at \in [Events -> Int]
      /\ place' \in [Events -> {"new", "planned", "pending", "handled", "gone"}]
      /\ late' \subseteq Events
      /\ place'[e] = "pending"
      /\ \A f \in Events \ {e} : place'[f] = place[f] /\ scheduled_at'[f] = scheduled_at[f]
  BY <1>1 DEF TypeOK
<1>4. /\ events \in Seq(Events) /\ e \notin ToSet(events) /\ Sorted(events, scheduled_at)
      /\ number_of_events = Len(events)
  BY <1>1, SoundMeansSorted DEF TypeOK, PlaceInv
<1>6. /\ events' \in Seq(Events) /\ Len(events') = Len(events) + 1 /\ events' # <<>>
      /\ ToSet(events') = ToSet(events) \cup {e}
      /\ Sorted(events', scheduled_at')
      /\ events'[1] # e => events # <<>> /\ events'[1] = events[1]
  <2>2. ASSUME NEW w, w = Inserted(events, scheduled_at, e)
        PROVE  /\ w \in Seq(Events) /\ Len(w) = Len(events) + 1 /\ w # <<>>
               /\ ToSet(w) = ToSet(events) \cup {e}
               /\ Sorted(w, scheduled_at)
               /\ w[1] # e => events # <<>> /\ w[1] = events[1]
    <3> events \in Seq(Events) /\ Sorted(events, scheduled_at)
      BY <1>4
    <3> QED
      BY <1>3, <1>4, <2>2, InsertedSorted
  <2> QED
    BY <1>1, <2>2, Zenon
<1>7. number_of_events' = Len(events') /\ number_of_events' \in Nat
  BY <1>1, <1>4, <1>6, Members
<1>8. ListIsSound'
  BY <1>6, <1>7, SoundMeansSorted
<1>9. PlaceInv'
  BY <1>3, <1>4, <1>6 DEF PlaceInv
<1>10. /\ IsFiniteSet(Created) /\ Cardinality(Created) \in Nat
       /\ Cardinality(Used') = Cardinality(Used) + 1 /\ Cardinality(Used) \in Nat
  <2>1. IsFiniteSet(Used) /\ IsFiniteSet(Created)
    <3> Used \subseteq Events /\ Created \subseteq Threads
      BY DEF Used, Created
    <3> QED
      BY SchedulerAssumption, FS_Subset
  <2>2. Used' = Used \cup {e} /\ e \notin Used
    BY <1>1, <1>3 DEF Used
  <2> QED
    BY <2>1, <2>2, FS_AddElement, FS_CardinalityType
<1>11. \A f \in Events : place[f] = "handled" <=> place'[f] = "handled"
  BY <1>1, <1>3
<1>12. CASE /\ events = <<>> /\ retry_thread_handle' = NewThread
            /\ pc' = [pc EXCEPT ![NewThread] = "time"]
  <2>1. PICK n \in Threads : n = NewThread /\ pc[n] = "none"
    BY <1>1, ThreadLeft
  <2>2. retry_thread_handle' = n /\ pc' = [pc EXCEPT ![n] = "time"]
    BY <1>12, <2>1
  <2>3. pc' \in [Threads -> Points] /\ pc'[n] = "time"
        /\ \A t \in Threads \ {n} : pc'[t] = pc[t]
    BY <2>1, <2>2 DEF TypeOK, Points
  <2>4. TypeOK'
    BY <1>1, <1>3, <1>6, <1>7, <2>1, <2>2, <2>3 DEF TypeOK, threadVars
  <2>5. \A t \in Threads : pc'[t] = "removed" <=> pc[t] = "removed"
    BY <2>1, <2>3
  <2>6. HandlerInv'
    BY <1>1, <1>3, <1>11, <2>5 DEF HandlerInv, threadVars
  <2>7. TimeInv'
    BY <1>1, <2>3 DEF TimeInv, threadVars
  <2>8. CreationInv'
    <3>1. Created' = Created \cup {n} /\ n \notin Created
      BY <2>1, <2>3 DEF Created
    <3>2. Cardinality(Created') = Cardinality(Created) + 1
      BY <1>10, <3>1, FS_AddElement
    <3>3. Cardinality(Created') <= Cardinality(Used')
      BY <1>10, <3>2 DEF CreationInv
    <3> QED
      BY <2>1, <2>2, <3>3 DEF CreationInv
  <2>9. HeadIsWatched'
    <3> WatchedBy(n)'
      BY <2>3 DEF WatchedBy, Awake
    <3> QED
      BY <2>1, WatchMeans
  <2> QED
    BY <1>8, <1>9, <2>4, <2>6, <2>7, <2>8, <2>9
<1>13. ASSUME events # <<>>, UNCHANGED retry_thread_handle,
              \/ events'[1] = e /\ pc' \in Signal(pc)
              \/ events'[1] # e /\ pc' = pc
       PROVE  SchedulerInv'
  <2>1. pc' \in [Threads -> Points]
    <3>1. pc \in [Threads -> Points]
      BY DEF TypeOK
    <3>2. ASSUME pc' \in Signal(pc) PROVE pc' \in [Threads -> Points]
      BY <3>1, <3>2, SignalFacts
    <3> QED
      BY <1>13, <3>1, <3>2
  <2>2. TypeOK'
    BY <1>1, <1>3, <1>6, <1>7, <1>13, <2>1 DEF TypeOK, threadVars
  <2>3. HandlerInv' /\ TimeInv' /\ Created' = Created
    BY <1>1, <1>11, <1>13, SignalKeeps DEF threadVars
  <2>4. CreationInv'
    BY <1>10, <1>13, <2>3 DEF CreationInv
  <2>5. HeadIsWatched'
    <3>1. CASE events'[1] = e /\ pc' \in Signal(pc)
      BY <1>1, <1>13, <3>1, SignalWatches
    <3>2. CASE events'[1] # e /\ pc' = pc
      <4>1. events'[1] = events[1] /\ events[1] \in ToSet(events)
        BY <1>4, <1>6, <1>13, <3>2, TailSorted
      <4>2. scheduled_at'[events'[1]] = scheduled_at[events[1]]
        BY <1>3, <1>4, <4>1, Members
      <4>3. \A t \in Threads : WatchedBy(t)' <=> WatchedBy(t)
        BY <1>1, <3>2, <4>2 DEF WatchedBy, threadVars
      <4> QED
        BY <1>1, <1>13, <4>3, WatchMeans
    <3> QED
      BY <1>13, <3>1, <3>2
  <2> QED
    BY <1>8, <1>9, <2>2, <2>3, <2>4, <2>5
<1> QED
  BY <1>12, <1>13 DEF InsertEvent

\* Flush.
LEMMA FlushStep ==
    ASSUME SchedulerInv, NEW filter, Flush(filter)
    PROVE  SchedulerInv'
<1> USE DEF SchedulerInv
<1>1. PICK out : out = {e \in ToSet(events) : Owner[e] \in filter}
  OBVIOUS
<1>2. /\ events' = Without(events, out)
      /\ number_of_events' = number_of_events - Cardinality(out)
      /\ place' = [e \in Events |-> IF e \in out THEN "gone" ELSE place[e]]
      /\ late' = late \ out
      /\ pc' \in IF events # <<>> /\ events[1] \in out THEN Signal(pc) ELSE {pc}
      /\ scheduled_at' = [e \in Events |-> IF e \in out THEN 0 ELSE scheduled_at[e]]
      /\ UNCHANGED <<clock, mutex, is_shutting_down, retry_thread_handle,
                     threadVars, detached, main>>
  BY <1>1 DEF Flush
<1>3. out \subseteq ToSet(events)
  BY <1>1
<1>4. /\ events \in Seq(Events) /\ Sorted(events, scheduled_at)
      /\ number_of_events = Len(events)
  BY SoundMeansSorted DEF TypeOK
<1>5. /\ events' \in Seq(Events) /\ Len(events') = Len(events) - Cardinality(out)
      /\ ToSet(events') = ToSet(events) \ out
      /\ Sorted(events', scheduled_at)
      /\ (events # <<>> /\ events[1] \notin out) => events'[1] = events[1]
  <2>1. ASSUME NEW w, w = Without(events, out)
        PROVE  /\ w \in Seq(Events) /\ Len(w) = Len(events) - Cardinality(out)
               /\ ToSet(w) = ToSet(events) \ out
               /\ Sorted(w, scheduled_at)
               /\ (events # <<>> /\ events[1] \notin out) => w[1] = events[1]
    BY <1>3, <1>4, <2>1, WithoutSorted
  <2> QED
    BY <1>2, <2>1, Zenon
<1>6. /\ scheduled_at' \in [Events -> Int]
      /\ place' \in [Events -> {"new", "planned", "pending", "handled", "gone"}]
      /\ \A f \in Events \ out : place'[f] = place[f] /\ scheduled_at'[f] = scheduled_at[f]
      /\ \A f \in Events \cap out : place'[f] = "gone"
  BY <1>2 DEF TypeOK
<1>7. out \subseteq Events
  BY <1>3, <1>4, Members
<1>8. number_of_events' = Len(events') /\ number_of_events' \in Nat
  <2> Len(events') \in Nat
    BY <1>5
  <2> QED
    BY <1>2, <1>4, <1>5
<1>9. ListIsSound'
  <2>1. \A f \in ToSet(events') : scheduled_at'[f] = scheduled_at[f]
    BY <1>4, <1>5, <1>6, Members
  <2>2. Sorted(events', scheduled_at')
    BY <1>5, <2>1, SortedFrame
  <2> QED
    BY <1>8, <2>2, SoundMeansSorted
<1>10. PlaceInv'
  BY <1>5, <1>6, <1>7 DEF PlaceInv
<1>11. \A f \in out : place[f] = "pending"
  BY <1>3, <1>7 DEF PlaceInv
<1>12. \A f \in Events : place[f] = "handled" <=> place'[f] = "handled"
  BY <1>6, <1>11
<1>13. pc' \in Signal(pc) \/ pc' = pc
  BY <1>2
<1>14. TypeOK'
  <2>1. pc \in [Threads -> Points]
    BY DEF TypeOK
  <2>2. ASSUME pc' \in Signal(pc) PROVE pc' \in [Threads -> Points]
    BY <2>1, <2>2, SignalFacts
  <2>3. pc' \in [Threads -> Points]
    BY <1>13, <2>1, <2>2
  <2> QED
    BY <1>2, <1>5, <1>6, <1>8, <2>3 DEF TypeOK, threadVars
<1>15. HandlerInv' /\ TimeInv' /\ Created' = Created
  BY <1>2, <1>12, <1>13, SignalKeeps DEF threadVars
<1>16. CreationInv'
  <2> Used' = Used
    BY <1>6, <1>7, <1>11 DEF Used
  <2> QED
    BY <1>2, <1>15 DEF CreationInv
<1>17. HeadIsWatched'
  <2>1. CASE events = <<>>
    <3> events' = <<>>
      BY <1>4, <1>5, <2>1, Members
    <3> QED
      BY DEF HeadIsWatched
  <2>2. CASE events # <<>> /\ events[1] \in out
    <3> pc' \in Signal(pc)
      BY <1>2, <2>2
    <3> QED
      BY <1>2, <2>2, SignalWatches
  <2>3. CASE events # <<>> /\ events[1] \notin out
    <3>1. pc' = pc /\ events'[1] = events[1]
      BY <1>2, <1>5, <2>3
    <3>2. events[1] \in Events
      BY <1>4, <2>3, Members
    <3>3. scheduled_at'[events'[1]] = scheduled_at[events[1]]
      BY <1>6, <2>3, <3>1, <3>2
    <3>4. \A t \in Threads : WatchedBy(t)' <=> WatchedBy(t)
      BY <1>2, <3>1, <3>3 DEF WatchedBy, threadVars
    <3> QED
      BY <1>2, <2>3, <3>4, WatchMeans
  <2> QED
    BY <2>1, <2>2, <2>3
<1> QED
  BY <1>9, <1>10, <1>14, <1>15, <1>16, <1>17

\* Shutdown wakes a thread up and leaves the list to the threads.
LEMMA ShutdownStep ==
    ASSUME SchedulerInv, Shutdown
    PROVE  SchedulerInv'
<1> USE DEF SchedulerInv
<1>1. /\ is_shutting_down' = TRUE /\ main' = "wait"
      /\ pc' \in Signal(pc) \/ pc' = pc
      /\ UNCHANGED <<clock, events, number_of_events, scheduled_at, place, late, mutex,
                     retry_thread_handle, curr_time, time_to_sleep, abstime, holding, detached>>
  BY DEF Shutdown, listVars, threadVars
<1>2. TypeOK'
  <2>1. pc \in [Threads -> Points]
    BY DEF TypeOK
  <2>2. ASSUME pc' \in Signal(pc) PROVE pc' \in [Threads -> Points]
    BY <2>1, <2>2, SignalFacts
  <2>3. pc' \in [Threads -> Points]
    BY <1>1, <2>1, <2>2
  <2> QED
    BY <1>1, <2>3 DEF TypeOK
<1>3. ListIsSound' /\ PlaceInv'
  BY <1>1 DEF ListIsSound, PlaceInv
<1>4. HandlerInv' /\ TimeInv' /\ Created' = Created
  BY <1>1, SignalKeeps
<1>5. CreationInv'
  BY <1>1, <1>4 DEF CreationInv, Used
<1>6. HeadIsWatched'
  BY <1>1 DEF HeadIsWatched
<1> QED
  BY <1>2, <1>3, <1>4, <1>5, <1>6

\* Time passes, or the main thread waits for the shutdown.
LEMMA QuietStep ==
    ASSUME SchedulerInv, Tick \/ WaitForShutdown \/ Join \/ UNCHANGED vars
    PROVE  SchedulerInv'
<1> USE DEF SchedulerInv
<1>1. /\ UNCHANGED <<events, number_of_events, scheduled_at, place, late, mutex, is_shutting_down, pc,
                     retry_thread_handle, curr_time, time_to_sleep, abstime, holding, detached>>
      /\ clock' \in {clock, clock + 1}
      /\ main' \in {main, "exited", "join"}
  BY DEF Tick, WaitForShutdown, Join, vars, listVars, threadVars
<1>2. TypeOK'
  BY <1>1 DEF TypeOK
<1>3. ListIsSound' /\ PlaceInv' /\ HandlerInv'
  BY <1>1 DEF ListIsSound, PlaceInv, HandlerInv
<1>4. TimeInv'
  <2> clock \in Nat /\ \A t \in Threads : curr_time[t] \in Nat
    BY DEF TypeOK
  <2> QED
    BY <1>1 DEF TimeInv
<1>5. CreationInv'
  BY <1>1 DEF CreationInv, Used, Created
<1>6. HeadIsWatched'
  BY <1>1 DEF HeadIsWatched
<1> QED
  BY <1>2, <1>3, <1>4, <1>5, <1>6

\* At the start there are no events and no threads.
LEMMA SchedulerStarts ==
    ASSUME Init
    PROVE  SchedulerInv
<1>1. TypeOK
  <2>1. events \in Seq(Events) /\ number_of_events \in Nat /\ clock \in Nat
    BY DEF Init
  <2>2. /\ scheduled_at \in [Events -> Int]
        /\ place \in [Events -> {"new", "planned", "pending", "handled", "gone"}]
        /\ late \subseteq Events
    BY DEF Init
  <2>3. /\ pc \in [Threads -> Points]
        /\ curr_time \in [Threads -> Nat]
        /\ time_to_sleep \in [Threads -> Nat]
        /\ abstime \in [Threads -> Nat]
        /\ holding \in [Threads -> Events \cup {NoThread}]
    BY DEF Init, Points
  <2>4. /\ mutex \in Threads \cup {NoThread} /\ retry_thread_handle \in Threads \cup {NoThread}
        /\ is_shutting_down \in BOOLEAN /\ detached \subseteq Threads
        /\ main \in {"running", "wait", "join", "exited"}
    BY DEF Init
  <2> QED
    BY <2>1, <2>2, <2>3, <2>4 DEF TypeOK
<1>2. ListIsSound /\ PlaceInv /\ HandlerInv /\ TimeInv /\ HeadIsWatched
  BY DEF Init, ListIsSound, PlaceInv, HandlerInv, TimeInv, HeadIsWatched, ToSet
<1>3. CreationInv
  <2>1. Created = {} /\ Used = {}
    BY DEF Init, Created, Used
  <2> QED
    BY <2>1, FS_EmptySet DEF CreationInv
<1> QED
  BY <1>1, <1>2, <1>3 DEF SchedulerInv

\* Every step preserves the invariant.
LEMMA SchedulerSteps ==
    ASSUME SchedulerInv, [Next]_vars
    PROVE  SchedulerInv'
<1>1. ASSUME NEW e \in Events, InsertEvent(e) \/ \E d \in Delays : Prepare(e, d)
      PROVE  SchedulerInv'
  BY <1>1, InsertStep, PrepareStep
<1>2. ASSUME FlushWorkflowInstance \/ FlushAll PROVE SchedulerInv'
  BY <1>2, FlushStep DEF FlushWorkflowInstance, FlushAll
<1>3. ASSUME NEW t \in Threads, ThreadStep(t) \/ ThreadSpuriousWakeup(t) PROVE SchedulerInv'
  BY <1>3, ThreadTimeStep, ShiftStep, RemovedStep, ThreadCheckStep, ThreadTimeoutStep,
     ThreadWakeStep, ThreadDetachStep DEF ThreadStep
<1>4. ASSUME Shutdown \/ WaitForShutdown \/ Join \/ Tick \/ UNCHANGED vars PROVE SchedulerInv'
  BY <1>4, ShutdownStep, QuietStep
<1> QED
  BY <1>1, <1>2, <1>3, <1>4 DEF Next

-----------------------------------------------------------------------------
(* The theorems.                                                           *)

(* The inductive invariant of the timed list: the types, the list, who     *)
(* holds which event, and who watches the head (Scheduler.cpp:56-250).     *)
THEOREM TimedListIsSound == Spec => []SchedulerInv
<1>1. Init => SchedulerInv
  BY SchedulerStarts
<1>2. SchedulerInv /\ [Next]_vars => SchedulerInv'
  BY SchedulerSteps
<1> QED
  BY <1>1, <1>2, PTL DEF Spec

(* The list is counted, without repetition and sorted, whoever inserts,    *)
(* shifts or flushes (Scheduler.cpp:56-138, 229-245).                      *)
THEOREM ListAlwaysSound == Spec => []ListIsSound
<1>1. SchedulerInv => ListIsSound
  BY DEF SchedulerInv
<1> QED
  BY <1>1, TimedListIsSound, PTL

(* The head of the list is watched by a thread that is awake, or wakes up  *)
(* in time, although threads come and go (Scheduler.cpp:92, 133, 192-207). *)
THEOREM HeadAlwaysWatched == Spec => []HeadIsWatched
<1>1. SchedulerInv => HeadIsWatched
  BY DEF SchedulerInv
<1> QED
  BY <1>1, TimedListIsSound, PTL

(* No event is freed twice or lost between the list and the threads        *)
(* (Scheduler.cpp:111-130, 173-176).                                       *)
THEOREM EventsHaveOneOwner == Spec => []EventHasOneOwner
<1>1. ASSUME SchedulerInv PROVE EventHasOneOwner
  <2> SUFFICES ASSUME NEW e \in Events
               PROVE  LET handlers == {t \in Threads : pc[t] = "removed" /\ holding[t] = e}
                      IN  CASE place[e] = "pending" -> e \in ToSet(events) /\ handlers = {}
                            [] place[e] = "handled" -> /\ e \notin ToSet(events)
                                                       /\ Cardinality(handlers) = 1
                            [] OTHER -> e \notin ToSet(events) /\ handlers = {}
    BY DEF EventHasOneOwner
  <2> DEFINE handlers == {t \in Threads : pc[t] = "removed" /\ holding[t] = e}
  <2>1. place[e] = "pending" <=> e \in ToSet(events)
    BY <1>1 DEF SchedulerInv, PlaceInv
  <2>2. place[e] # "handled" => handlers = {}
    BY <1>1 DEF SchedulerInv, HandlerInv
  <2>3. place[e] = "handled" => Cardinality(handlers) = 1
    <3> HAVE place[e] = "handled"
    <3>1. PICK t \in Threads : pc[t] = "removed" /\ holding[t] = e
      BY <1>1 DEF SchedulerInv, HandlerInv
    <3>2. handlers = {t}
      BY <1>1, <3>1 DEF SchedulerInv, HandlerInv
    <3> HIDE DEF handlers
    <3> QED
      BY <3>2, FS_Singleton
  <2> HIDE DEF handlers
  <2>4. CASE place[e] = "pending"
    BY <2>1, <2>2, <2>4 DEF handlers
  <2>5. CASE place[e] = "handled"
    BY <2>1, <2>3, <2>5 DEF handlers
  <2>6. CASE place[e] # "pending" /\ place[e] # "handled"
    BY <2>1, <2>2, <2>6 DEF handlers
  <2> QED
    BY <2>4, <2>5, <2>6
<1> QED
  BY <1>1, TimedListIsSound, PTL

-----------------------------------------------------------------------------
(* Only an event linked late makes a thread lock the mutex twice.          *)

\* A step that takes nothing, locks nothing and moves no thread to or from the
\* points the invariant is about.
LEMMA RelockFrame ==
    ASSUME RelockInv, UNCHANGED <<mutex, curr_time>>,
           mutex = NoThread \/ UNCHANGED <<events, late>>,
           \A t \in Threads : pc'[t] = "check" => pc[t] = "check",
           \A t \in Threads : pc[t] = "done" => pc'[t] = "done",
           \A e \in ToSet(events') : /\ e \in ToSet(events)
                                     /\ scheduled_at'[e] = scheduled_at[e]
                                     /\ e \in late => e \in late'
    PROVE  RelockInv'
<1>1. OnlyLateEventsRelock'
  BY SchedulerAssumption DEF RelockInv, OnlyLateEventsRelock
<1>2. CheckInv'
  BY DEF RelockInv, CheckInv
<1> QED
  BY <1>1, <1>2 DEF RelockInv

\* The same for one thread that moves while the list stays as it is.
LEMMA RelockMove ==
    ASSUME RelockInv, TypeOK, UNCHANGED <<events, scheduled_at, late>>,
           NEW t \in Threads, NEW p, pc' = [pc EXCEPT ![t] = p], p # "check", pc[t] # "done",
           \A u \in Threads \ {t} : curr_time'[u] = curr_time[u],
           \/ mutex' = mutex
           \/ mutex' = t /\ (p = "done" \/ (events # <<>> /\ events[1] \in late))
    PROVE  RelockInv'
<1>1. pc'[t] = p /\ \A u \in Threads \ {t} : pc'[u] = pc[u]
  BY DEF TypeOK
<1>2. OnlyLateEventsRelock'
  BY <1>1 DEF RelockInv, OnlyLateEventsRelock
<1>3. CheckInv'
  BY <1>1 DEF RelockInv, CheckInv
<1> QED
  BY <1>2, <1>3 DEF RelockInv

\* An insertion comes too late to be due when a thread checks, or is late.
LEMMA RelockInsert ==
    ASSUME SchedulerInv, RelockInv, NEW e \in Events, InsertEvent(e)
    PROVE  RelockInv'
<1> USE DEF SchedulerInv
<1>1. /\ place[e] = "planned" /\ mutex = NoThread
      /\ place' = [place EXCEPT ![e] = "pending"]
      /\ late' = IF scheduled_at[e] <= clock THEN late \cup {e} ELSE late
      /\ UNCHANGED <<clock, scheduled_at, mutex, curr_time>>
  BY DEF InsertEvent, MayInsert, Link, MutexFree, threadVars
<1>2. \A t \in Threads : /\ pc'[t] = "check" => pc[t] = "check"
                         /\ pc[t] = "done" => pc'[t] = "done"
  <2>1. CASE pc' = [pc EXCEPT ![NewThread] = "time"]
    BY <1>1, <2>1, ThreadLeft DEF TypeOK
  <2>2. CASE pc' \in Signal(pc)
    <3> pc \in [Threads -> Points]
      BY DEF TypeOK
    <3>1. \A t \in Threads : pc'[t] = pc[t] \/ (pc[t] = "asleep" /\ pc'[t] = "woken")
      BY <2>2, SignalFacts
    <3> QED
      BY <3>1
  <2>3. CASE pc' = pc
    BY <2>3
  <2> QED
    BY <2>1, <2>2, <2>3 DEF InsertEvent
<1>3. OnlyLateEventsRelock'
  BY <1>1, SchedulerAssumption DEF OnlyLateEventsRelock
<1>4. CheckInv'
  <2> SUFFICES ASSUME NEW t \in Threads, pc'[t] = "check", NEW f \in ToSet(events')
               PROVE  scheduled_at'[f] > curr_time'[t] \/ f \in late'
    BY DEF CheckInv
  <2>1. SchedulerInv'
    BY InsertStep
  <2>2. f \in Events /\ place'[f] = "pending"
    BY <2>1, Members DEF TypeOK, PlaceInv
  <2>3. CASE f = e
    <3>1. /\ curr_time[t] <= clock /\ clock \in Nat /\ curr_time[t] \in Nat
          /\ scheduled_at[f] \in Int
      BY <1>2, <2>2 DEF TimeInv, TypeOK
    <3> QED
      BY <1>1, <2>3, <3>1
  <2>4. CASE f # e
    <3>1. place[f] = "pending" /\ scheduled_at'[f] = scheduled_at[f]
      BY <1>1, <2>2, <2>4 DEF TypeOK
    <3>2. f \in ToSet(events) /\ pc[t] = "check"
      BY <1>2, <2>2, <3>1 DEF PlaceInv
    <3> QED
      BY <1>1, <3>1, <3>2 DEF RelockInv, CheckInv
  <2> QED
    BY <2>3, <2>4
<1> QED
  BY <1>3, <1>4 DEF RelockInv

\* shift_event goes on to the check only if nothing of the list is due.
LEMMA RelockShift ==
    ASSUME SchedulerInv, RelockInv, NEW t \in Threads, shift_event(t)
    PROVE  RelockInv'
<1> USE DEF SchedulerInv
<1>0. pc[t] = "shift" /\ mutex = NoThread /\ UNCHANGED <<mutex, curr_time, scheduled_at>>
  BY DEF shift_event, MutexFree
<1>00. events \in Seq(Events) /\ Sorted(events, scheduled_at)
  BY SoundMeansSorted DEF TypeOK
<1>1. CASE FirstIsDue(t)
  <2>1. /\ pc' = [pc EXCEPT ![t] = "removed"] /\ events # <<>> /\ events' = Tail(events)
        /\ late' = late \ {events[1]}
    BY <1>1 DEF shift_event, FirstIsDue
  <2>2. ToSet(events') = ToSet(events) \ {events[1]}
    BY <1>00, <2>1, TailSorted
  <2>3. \A u \in Threads : /\ pc'[u] = "check" => pc[u] = "check"
                           /\ pc[u] = "done" => pc'[u] = "done"
    BY <1>0, <2>1 DEF TypeOK
  <2> QED
    BY <1>0, <2>1, <2>2, <2>3, RelockFrame
<1>2. CASE ~ FirstIsDue(t)
  <2>1. pc' = [pc EXCEPT ![t] = "check"] /\ UNCHANGED <<events, late>>
    BY <1>2 DEF shift_event
  <2>2. pc'[t] = "check" /\ \A u \in Threads \ {t} : pc'[u] = pc[u]
    BY <2>1 DEF TypeOK
  <2>3. OnlyLateEventsRelock'
    BY <1>0, SchedulerAssumption DEF OnlyLateEventsRelock
  <2>4. \A e \in ToSet(events) : scheduled_at[e] > curr_time[t]
    <3> TAKE e \in ToSet(events)
    <3>1. PICK i \in 1 .. Len(events) : events[i] = e
      BY <1>00, Members
    <3>2. /\ events # <<>> /\ 1 \in 1 .. Len(events) /\ i \in Nat /\ i >= 1
          /\ events[1] \in Events /\ e \in Events
      BY <1>00, <3>1, Members
    <3>3. /\ scheduled_at[events[1]] \in Int /\ scheduled_at[e] \in Int /\ curr_time[t] \in Nat
      BY <3>2 DEF TypeOK
    <3>4. scheduled_at[events[1]] > curr_time[t]
      BY <1>2, <3>2, <3>3 DEF FirstIsDue
    <3>5. scheduled_at[events[1]] <= scheduled_at[e]
      <4>1. CASE i = 1
        BY <3>1, <3>3, <4>1
      <4>2. CASE i # 1
        <5> 1 < i
          BY <3>2, <4>2
        <5> QED
          BY <1>00, <3>1, <3>2 DEF Sorted
      <4> QED
        BY <4>1, <4>2
    <3> QED
      BY <3>3, <3>4, <3>5
  <2>5. CheckInv'
    BY <1>0, <2>1, <2>2, <2>4 DEF RelockInv, CheckInv
  <2> QED
    BY <2>3, <2>5 DEF RelockInv
<1> QED
  BY <1>1, <1>2

\* A check that finds an event finds it in the future, so that it sleeps, or
\* finds one that was linked late.
LEMMA RelockCheck ==
    ASSUME SchedulerInv, RelockInv, NEW t \in Threads, ThreadCheck(t)
    PROVE  RelockInv'
<1> USE DEF SchedulerInv
<1>1. /\ pc[t] = "check" /\ UNCHANGED <<events, scheduled_at, late>>
      /\ \A u \in Threads \ {t} : curr_time'[u] = curr_time[u]
  BY DEF ThreadCheck, Forget, TypeOK, listVars
<1>2. number_of_events # 0 /\ get_sleep_time(t) <= 0 => events # <<>> /\ events[1] \in late
  <2> HAVE number_of_events # 0 /\ get_sleep_time(t) <= 0
  <2>1. events \in Seq(Events) /\ number_of_events = Len(events)
    BY DEF TypeOK, ListIsSound
  <2>2. events # <<>> /\ events[1] \in ToSet(events) /\ events[1] \in Events
    BY <2>1, Members
  <2>3. scheduled_at[events[1]] > curr_time[t] \/ events[1] \in late
    BY <1>1, <2>2 DEF RelockInv, CheckInv
  <2>4. scheduled_at[events[1]] \in Int /\ curr_time[t] \in Nat
    BY <2>2 DEF TypeOK
  <2> QED
    BY <2>2, <2>3, <2>4 DEF get_sleep_time
<1>3. \E p \in {"detach", "time", "done", "asleep"} :
         /\ pc' = [pc EXCEPT ![t] = p]
         /\ \/ mutex' = mutex
            \/ mutex' = t /\ (p = "done" \/ (events # <<>> /\ events[1] \in late))
  BY <1>2 DEF ThreadCheck
<1> QED
  BY <1>1, <1>3, RelockMove

\* The remaining steps.
LEMMA RelockOthers ==
    ASSUME SchedulerInv, RelockInv,
           \/ \E t \in Threads : \/ ThreadTime(t) \/ event_removed(t) \/ ThreadTimeout(t)
                                 \/ ThreadSpuriousWakeup(t) \/ ThreadWake(t) \/ ThreadDetach(t)
           \/ FlushWorkflowInstance \/ FlushAll
           \/ Shutdown \/ WaitForShutdown \/ Join \/ Tick \/ UNCHANGED vars
    PROVE  RelockInv'
<1> USE DEF SchedulerInv
<1>1. ASSUME NEW t \in Threads,
             \/ ThreadTime(t) \/ ThreadTimeout(t) \/ ThreadSpuriousWakeup(t) \/ ThreadDetach(t)
      PROVE  RelockInv'
  <2>1. \E p \in {"shift", "woken", "done"} : pc' = [pc EXCEPT ![t] = p]
    BY <1>1 DEF ThreadTime, ThreadTimeout, ThreadSpuriousWakeup, ThreadDetach
  <2>2. pc[t] # "done" /\ UNCHANGED <<events, scheduled_at, late, mutex>>
    BY <1>1 DEF ThreadTime, ThreadTimeout, ThreadSpuriousWakeup, ThreadDetach, listVars
  <2>3. \A u \in Threads \ {t} : curr_time'[u] = curr_time[u]
    BY <1>1 DEF ThreadTime, ThreadTimeout, ThreadSpuriousWakeup, ThreadDetach, threadVars, TypeOK
  <2> QED
    BY <2>1, <2>2, <2>3, RelockMove
<1>2. ASSUME NEW t \in Threads, ThreadWake(t) PROVE RelockInv'
  <2>1. /\ pc[t] # "done" /\ UNCHANGED <<events, scheduled_at, late>>
        /\ \A u \in Threads \ {t} : curr_time'[u] = curr_time[u]
    BY <1>2 DEF ThreadWake, Forget, TypeOK, listVars
  <2>2. \E p \in {"done", "time"} : /\ pc' = [pc EXCEPT ![t] = p]
                                    /\ mutex' = mutex \/ (mutex' = t /\ p = "done")
    BY <1>2 DEF ThreadWake
  <2> QED
    BY <2>1, <2>2, RelockMove
<1>3. ASSUME NEW t \in Threads, event_removed(t) PROVE RelockInv'
  <2>1. /\ pc[t] = "removed" /\ holding[t] \in Events /\ holding[t] \notin ToSet(events)
        /\ scheduled_at' = [scheduled_at EXCEPT ![holding[t]] = 0]
        /\ pc' = [pc EXCEPT ![t] = "shift"]
        /\ UNCHANGED <<events, late, mutex, curr_time>>
    BY <1>3 DEF event_removed, HandlerInv, PlaceInv
  <2>2. \A u \in Threads : /\ pc'[u] = "check" => pc[u] = "check"
                           /\ pc[u] = "done" => pc'[u] = "done"
    BY <2>1 DEF TypeOK
  <2>3. \A e \in ToSet(events) : scheduled_at'[e] = scheduled_at[e]
    BY <2>1, Members DEF TypeOK
  <2> QED
    BY <2>1, <2>2, <2>3, RelockFrame
<1>4. ASSUME NEW filter, Flush(filter) PROVE RelockInv'
  <2>1. PICK out : out = {e \in ToSet(events) : Owner[e] \in filter}
    OBVIOUS
  <2>2. /\ events' = Without(events, out)
        /\ pc' \in Signal(pc) \/ pc' = pc
        /\ scheduled_at' = [e \in Events |-> IF e \in out THEN 0 ELSE scheduled_at[e]]
        /\ late' = late \ out /\ mutex = NoThread
        /\ UNCHANGED <<mutex, curr_time>>
    BY <1>4, <2>1 DEF Flush, MutexFree, threadVars
  <2>3. events \in Seq(Events) /\ Sorted(events, scheduled_at) /\ out \subseteq ToSet(events)
    BY <2>1, SoundMeansSorted DEF TypeOK
  <2>4. ToSet(events') = ToSet(events) \ out
    BY <2>2, <2>3, WithoutSorted
  <2>5. \A e \in ToSet(events') : /\ e \in ToSet(events) /\ scheduled_at'[e] = scheduled_at[e]
                                  /\ e \in late => e \in late'
    BY <2>2, <2>3, <2>4, Members
  <2>6. \A u \in Threads : /\ pc'[u] = "check" => pc[u] = "check"
                           /\ pc[u] = "done" => pc'[u] = "done"
    <3>1. pc \in [Threads -> Points]
      BY DEF TypeOK
    <3>2. ASSUME pc' \in Signal(pc)
          PROVE  \A u \in Threads : pc'[u] = pc[u] \/ (pc[u] = "asleep" /\ pc'[u] = "woken")
      BY <3>1, <3>2, SignalFacts
    <3> QED
      BY <2>2, <3>2
  <2> QED
    BY <2>2, <2>5, <2>6, RelockFrame
<1>5. ASSUME Shutdown \/ WaitForShutdown \/ Join \/ Tick \/ UNCHANGED vars
      PROVE  RelockInv'
  <2>1. /\ UNCHANGED <<events, scheduled_at, late, mutex, curr_time>>
        /\ pc' \in Signal(pc) \/ pc' = pc
    BY <1>5 DEF Shutdown, WaitForShutdown, Join, Tick, vars, listVars, threadVars
  <2>2. \A u \in Threads : /\ pc'[u] = "check" => pc[u] = "check"
                           /\ pc[u] = "done" => pc'[u] = "done"
    <3>1. pc \in [Threads -> Points]
      BY DEF TypeOK
    <3>2. ASSUME pc' \in Signal(pc)
          PROVE  \A u \in Threads : pc'[u] = pc[u] \/ (pc[u] = "asleep" /\ pc'[u] = "woken")
      BY <3>1, <3>2, SignalFacts
    <3> QED
      BY <2>1, <3>2
  <2> QED
    BY <2>1, <2>2, RelockFrame
<1> QED
  BY <1>1, <1>2, <1>3, <1>4, <1>5 DEF FlushWorkflowInstance, FlushAll

\* Nor does a caller that only settles when its event is due.
LEMMA RelockPrepare ==
    ASSUME SchedulerInv, RelockInv, NEW e \in Events, NEW d \in Delays, Prepare(e, d)
    PROVE  RelockInv'
<1>1. /\ place[e] = "new" /\ scheduled_at' = [scheduled_at EXCEPT ![e] = clock + d]
      /\ UNCHANGED <<events, late, mutex, curr_time, pc>>
  BY DEF Prepare, threadVars
<1>2. \A f \in ToSet(events) : scheduled_at'[f] = scheduled_at[f]
  BY <1>1, Members DEF SchedulerInv, TypeOK, PlaceInv
<1> QED
  BY <1>1, <1>2, RelockFrame

(* A thread keeps the mutex at the end of a turn (Scheduler.cpp:193) only  *)
(* because of an event that was linked when it was due already, however    *)
(* old the time a thread decides on, and whoever flushes or wakes it up:   *)
(* no other order of steps makes a thread lock the mutex twice.            *)
THEOREM OnlyLateEventsLockOut == Spec => []OnlyLateEventsRelock
<1>1. Init => RelockInv
  BY SchedulerAssumption DEF Init, RelockInv, OnlyLateEventsRelock, CheckInv
<1>2. SchedulerInv /\ RelockInv /\ [Next]_vars => RelockInv'
  <2> SUFFICES ASSUME SchedulerInv, RelockInv, [Next]_vars PROVE RelockInv'
    OBVIOUS
  <2>1. CASE \E e \in Events : InsertEvent(e) \/ \E d \in Delays : Prepare(e, d)
    BY <2>1, RelockInsert, RelockPrepare
  <2>2. CASE \E t \in Threads : shift_event(t)
    BY <2>2, RelockShift
  <2>3. CASE \E t \in Threads : ThreadCheck(t)
    BY <2>3, RelockCheck
  <2>4. CASE \/ \E t \in Threads : \/ ThreadTime(t) \/ event_removed(t) \/ ThreadTimeout(t)
                                   \/ ThreadSpuriousWakeup(t) \/ ThreadWake(t) \/ ThreadDetach(t)
             \/ FlushWorkflowInstance \/ FlushAll
             \/ Shutdown \/ WaitForShutdown \/ Join \/ Tick \/ UNCHANGED vars
    BY <2>4, RelockOthers
  <2> QED
    BY <2>1, <2>2, <2>3, <2>4 DEF Next, ThreadStep
<1>3. RelockInv => OnlyLateEventsRelock
  BY DEF RelockInv
<1> QED
  BY <1>1, <1>2, <1>3, TimedListIsSound, PTL DEF Spec

-----------------------------------------------------------------------------
(* The list implements EventList.                                          *)

\* The events in the hands of the threads.
Handled == {holding[t] : t \in {u \in Threads : pc[u] = "removed"}}
Due == [e \in ToSet(events) |-> scheduled_at[e]]

\* A step that changes neither the list, nor the times of its events, nor who
\* holds an event, is a stutter of the abstract list.
LEMMA AbstractStutter ==
    ASSUME UNCHANGED <<events, clock, holding>>,
           \A e \in ToSet(events) : scheduled_at'[e] = scheduled_at[e],
           \A t \in Threads : pc'[t] = "removed" <=> pc[t] = "removed"
    PROVE  UNCHANGED Abstract!eventVars
<1>1. Due' = Due
  BY DEF Due
<1>2. Handled' = Handled
  BY DEF Handled
<1> QED
  BY <1>1, <1>2 DEF Abstract!eventVars, Due, Handled

\* A signal keeps the threads that hold an event.
LEMMA SignalKeepsHolders ==
    ASSUME TypeOK, pc' \in Signal(pc) \/ pc' = pc
    PROVE  \A t \in Threads : pc'[t] = "removed" <=> pc[t] = "removed"
<1>1. pc \in [Threads -> Points]
  BY DEF TypeOK
<1>2. ASSUME pc' \in Signal(pc)
      PROVE  \A t \in Threads : pc'[t] = pc[t] \/ (pc[t] = "asleep" /\ pc'[t] = "woken")
  BY <1>1, <1>2, SignalFacts
<1> QED
  BY <1>2

\* InsertEvent is an insertion of the abstract list.
LEMMA InsertRefines ==
    ASSUME SchedulerInv, NEW e \in Events, InsertEvent(e)
    PROVE  Abstract!Next
<1> USE DEF SchedulerInv
<1>1. SchedulerInv'
  BY InsertStep
<1>2. /\ place[e] = "planned"
      /\ place' = [place EXCEPT ![e] = "pending"]
      /\ UNCHANGED <<clock, scheduled_at, holding>>
  BY DEF InsertEvent, MayInsert, Link, threadVars
<1>3. ToSet(events') = ToSet(events) \cup {e} /\ e \notin ToSet(events)
  <2>1. ToSet(events') \subseteq Events /\ ToSet(events) \subseteq Events
    BY <1>1, Members DEF TypeOK
  <2>2. \A f \in Events : f \in ToSet(events') <=> f \in ToSet(events) \/ f = e
    BY <1>1, <1>2 DEF PlaceInv, TypeOK
  <2> QED
    BY <1>2, <2>1, <2>2 DEF PlaceInv
<1>4. \A t \in Threads : pc'[t] = "removed" <=> pc[t] = "removed"
  <2>1. CASE pc' = [pc EXCEPT ![NewThread] = "time"]
    BY <1>2, <2>1, ThreadLeft DEF TypeOK
  <2>2. CASE pc' \in Signal(pc) \/ pc' = pc
    BY <2>2, SignalKeepsHolders
  <2> QED
    BY <2>1, <2>2 DEF InsertEvent
<1>5. Handled' = Handled
  BY <1>2, <1>4 DEF Handled
<1>6. e \notin Handled
  BY <1>2 DEF Handled, HandlerInv
<1>7. \A f \in ToSet(events) : f \in Events /\ f # e /\ scheduled_at'[f] = scheduled_at[f]
  BY <1>2, <1>3, Members DEF TypeOK
<1>8. /\ DOMAIN Due = ToSet(events) /\ DOMAIN Due' = ToSet(events')
      /\ e \in DOMAIN Due'
      /\ Due' = [f \in DOMAIN Due \cup {e} |-> IF f = e THEN Due'[e] ELSE Due[f]]
  BY <1>3, <1>7 DEF Due
<1>9. Abstract!Insert(e, Due'[e])
  BY <1>2, <1>3, <1>5, <1>6, <1>8 DEF Abstract!Insert, Abstract!Pending, Due, Handled
<1> QED
  BY <1>8, <1>9 DEF Abstract!Next, Due

\* shift_event is an alarm of the abstract list, or nothing to it.
LEMMA ShiftRefines ==
    ASSUME SchedulerInv, NEW t \in Threads, shift_event(t)
    PROVE  Abstract!Next \/ UNCHANGED Abstract!eventVars
<1> USE DEF SchedulerInv
<1>1. CASE ~ FirstIsDue(t)
  <2>1. \A u \in Threads : pc'[u] = "removed" <=> pc[u] = "removed"
    BY <1>1 DEF shift_event, TypeOK
  <2> QED
    BY <1>1, <2>1, AbstractStutter DEF shift_event
<1>2. CASE FirstIsDue(t)
  <2>0. PICK e \in Events : e = events[1]
    BY <1>2, Members DEF FirstIsDue, TypeOK
  <2>1. /\ events # <<>> /\ events' = Tail(events)
        /\ holding' = [holding EXCEPT ![t] = e]
        /\ pc' = [pc EXCEPT ![t] = "removed"]
        /\ pc[t] = "shift"
        /\ scheduled_at[e] <= curr_time[t]
        /\ UNCHANGED <<scheduled_at, clock>>
    BY <1>2, <2>0 DEF shift_event, FirstIsDue
  <2>2. events \in Seq(Events) /\ Sorted(events, scheduled_at)
    BY SoundMeansSorted DEF TypeOK
  <2>3. e \in ToSet(events) /\ ToSet(events') = ToSet(events) \ {e}
    BY <2>0, <2>1, <2>2, TailSorted
  <2>4. scheduled_at[e] <= clock
    BY <2>1 DEF TimeInv, TypeOK
  <2>5. \A f \in ToSet(events) : scheduled_at[e] <= scheduled_at[f]
    <3> TAKE f \in ToSet(events)
    <3>1. PICK i \in 1 .. Len(events) : events[i] = f
      BY <2>2, Members
    <3>2. 1 \in 1 .. Len(events) /\ i \in Nat /\ (i = 1 \/ 1 < i) /\ scheduled_at[e] \in Int
      BY <2>1, <2>2, <3>1, Members DEF TypeOK
    <3> QED
      BY <2>0, <2>2, <3>1, <3>2 DEF Sorted
  <2>6. Handled' = Handled \cup {e}
    <3>1. /\ pc'[t] = "removed" /\ holding'[t] = e
          /\ \A u \in Threads \ {t} : pc'[u] = pc[u] /\ holding'[u] = holding[u]
      BY <2>1 DEF TypeOK
    <3> QED
      BY <2>1, <3>1 DEF Handled
  <2>7. /\ DOMAIN Due = ToSet(events) /\ Due[e] = scheduled_at[e]
        /\ \A f \in ToSet(events) : Due[f] = scheduled_at[f]
        /\ Due' = [f \in ToSet(events) \ {e} |-> Due[f]]
    BY <2>1, <2>3 DEF Due
  <2>8. Abstract!Fire(e)
    BY <2>1, <2>3, <2>4, <2>5, <2>6, <2>7
       DEF Abstract!Fire, Abstract!Pending, Abstract!Restrict, Due, Handled
  <2> QED
    BY <2>8 DEF Abstract!Next
<1> QED
  BY <1>1, <1>2

\* event_removed is the end of an alarm of the abstract list.
LEMMA RemovedRefines ==
    ASSUME SchedulerInv, NEW t \in Threads, event_removed(t)
    PROVE  Abstract!Next
<1> USE DEF SchedulerInv
<1>0. PICK e \in Events : e = holding[t]
  BY DEF event_removed, HandlerInv
<1>1. /\ pc[t] = "removed" /\ place[e] = "handled"
      /\ scheduled_at' = [scheduled_at EXCEPT ![e] = 0]
      /\ holding' = [holding EXCEPT ![t] = NoThread]
      /\ pc' = [pc EXCEPT ![t] = "shift"]
      /\ UNCHANGED <<events, clock>>
  BY <1>0 DEF event_removed, HandlerInv
<1>2. Due' = Due
  <2> \A f \in ToSet(events) : scheduled_at'[f] = scheduled_at[f]
    BY <1>1, Members DEF TypeOK, PlaceInv
  <2> QED
    BY <1>1 DEF Due
<1>3. e \in Handled
  BY <1>0, <1>1 DEF Handled
<1>4. Handled' = Handled \ {e}
  <2>1. /\ pc'[t] # "removed"
        /\ \A u \in Threads \ {t} : pc'[u] = pc[u] /\ holding'[u] = holding[u]
    BY <1>1 DEF TypeOK
  <2>2. \A u \in Threads \ {t} : pc[u] = "removed" => holding[u] # e
    BY <1>0, <1>1 DEF HandlerInv
  <2> QED
    BY <1>0, <2>1, <2>2 DEF Handled
<1>5. Abstract!Release(e)
  BY <1>1, <1>2, <1>3, <1>4 DEF Abstract!Release, Due, Handled
<1> QED
  BY <1>5 DEF Abstract!Next

\* Flush is a flush of the abstract list.
LEMMA FlushRefines ==
    ASSUME SchedulerInv, NEW filter, Flush(filter)
    PROVE  Abstract!Next
<1> USE DEF SchedulerInv
<1>1. PICK out : out = {e \in ToSet(events) : Owner[e] \in filter}
  OBVIOUS
<1>2. /\ events' = Without(events, out)
      /\ pc' \in Signal(pc) \/ pc' = pc
      /\ scheduled_at' = [e \in Events |-> IF e \in out THEN 0 ELSE scheduled_at[e]]
      /\ UNCHANGED <<clock, holding>>
  BY <1>1 DEF Flush, threadVars
<1>3. events \in Seq(Events) /\ Sorted(events, scheduled_at) /\ out \subseteq ToSet(events)
  BY <1>1, SoundMeansSorted DEF TypeOK
<1>4. ToSet(events') = ToSet(events) \ out
  BY <1>2, <1>3, WithoutSorted
<1>5. \A e \in ToSet(events') : scheduled_at'[e] = scheduled_at[e]
  BY <1>2, <1>3, <1>4, Members
<1>6. Handled' = Handled
  BY <1>2, SignalKeepsHolders DEF Handled
<1>7. DOMAIN Due = ToSet(events) /\ Due' = [f \in ToSet(events) \ out |-> Due[f]]
  BY <1>4, <1>5 DEF Due
<1>8. Abstract!Flush(out)
  BY <1>2, <1>3, <1>6, <1>7
     DEF Abstract!Flush, Abstract!Pending, Abstract!Restrict, Due, Handled
<1>9. out \in SUBSET DOMAIN Due
  BY <1>3, <1>7
<1> QED
  BY <1>8, <1>9 DEF Abstract!Next, Abstract!Pending, Due

(* The threads, the linked list and the mutex implement EventList: an      *)
(* event leaves the list once, by a flush or, earliest first and never     *)
(* early, by an alarm (Scheduler.cpp:56-138, 160-245).                     *)
THEOREM ListImplementsEventList == Spec => ImplementsEventList
<1>1. Init => Abstract!Init
  <2> SUFFICES ASSUME Init PROVE Abstract!Init
    OBVIOUS
  <2>1. Due = <<>>
    BY DEF Init, Due, ToSet
  <2>2. Handled = {}
    BY DEF Init, Handled
  <2> QED
    BY <2>1, <2>2 DEF Init, Abstract!Init, Due, Handled
<1>2. SchedulerInv /\ [Next]_vars => [Abstract!Next]_(Abstract!eventVars)
  <2> SUFFICES ASSUME SchedulerInv, [Next]_vars
               PROVE  Abstract!Next \/ UNCHANGED Abstract!eventVars
    OBVIOUS
  <2> USE DEF SchedulerInv
  <2>1. CASE \E e \in Events : InsertEvent(e)
    BY <2>1, InsertRefines
  <2>7. ASSUME NEW e \in Events, NEW d \in Delays, Prepare(e, d)
        PROVE  UNCHANGED Abstract!eventVars
    <3>1. /\ place[e] = "new" /\ scheduled_at' = [scheduled_at EXCEPT ![e] = clock + d]
          /\ UNCHANGED <<events, clock, holding, pc>>
      BY <2>7 DEF Prepare, threadVars
    <3>2. \A f \in ToSet(events) : scheduled_at'[f] = scheduled_at[f]
      BY <3>1, Members DEF TypeOK, PlaceInv
    <3> QED
      BY <3>1, <3>2, AbstractStutter
  <2>2. CASE \E t \in Threads : shift_event(t) \/ event_removed(t)
    BY <2>2, ShiftRefines, RemovedRefines
  <2>3. CASE FlushWorkflowInstance \/ FlushAll
    BY <2>3, FlushRefines DEF FlushWorkflowInstance, FlushAll
  <2>4. ASSUME NEW t \in Threads,
               \/ ThreadTime(t) \/ ThreadTimeout(t) \/ ThreadSpuriousWakeup(t)
               \/ ThreadWake(t) \/ ThreadDetach(t) \/ ThreadCheck(t)
        PROVE  UNCHANGED Abstract!eventVars
    <3>1. UNCHANGED <<events, scheduled_at, clock, holding>>
      BY <2>4 DEF ThreadTime, ThreadTimeout, ThreadSpuriousWakeup, ThreadWake, ThreadDetach,
                  ThreadCheck, listVars, threadVars
    <3>2. \E p \in Points \ {"removed"} : pc' = [pc EXCEPT ![t] = p]
      BY <2>4 DEF ThreadTime, ThreadTimeout, ThreadSpuriousWakeup, ThreadWake, ThreadDetach,
                  ThreadCheck, Points
    <3>3. pc[t] # "removed"
      BY <2>4 DEF ThreadTime, ThreadTimeout, ThreadSpuriousWakeup, ThreadWake, ThreadDetach,
                  ThreadCheck
    <3>4. \A u \in Threads : pc'[u] = "removed" <=> pc[u] = "removed"
      BY <3>2, <3>3 DEF TypeOK
    <3> QED
      BY <3>1, <3>4, AbstractStutter
  <2>5. CASE Shutdown \/ WaitForShutdown \/ Join \/ UNCHANGED vars
    <3>1. /\ UNCHANGED <<events, scheduled_at, clock, holding>>
          /\ pc' \in Signal(pc) \/ pc' = pc
      BY <2>5 DEF Shutdown, WaitForShutdown, Join, vars, listVars, threadVars
    <3> QED
      BY <3>1, SignalKeepsHolders, AbstractStutter
  <2>6. CASE Tick
    <3>1. UNCHANGED <<events, scheduled_at, holding, pc>> /\ clock' = clock + 1
      BY <2>6 DEF Tick, listVars, threadVars
    <3>2. Due' = Due /\ Handled' = Handled
      BY <3>1 DEF Due, Handled
    <3> QED
      BY <3>1, <3>2 DEF Abstract!Next, Abstract!Tick, Due, Handled
  <2> QED
    BY <2>1, <2>2, <2>3, <2>4, <2>5, <2>6, <2>7 DEF Next, ThreadStep
<1> QED
  BY <1>1, <1>2, TimedListIsSound, PTL DEF Spec, ImplementsEventList, Abstract!Spec
=============================================================================
