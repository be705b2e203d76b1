----------------------------- MODULE Locks_proofs -----------------------------
(***************************************************************************)
(* Theorems about the mutexes, for any number of threads and of signals:   *)
(* in every circle of waiting threads there is a flush of the Retrier, a   *)
(* signal handler, or the mutex of an event list that was not unlocked.    *)
(***************************************************************************)
EXTENDS Locks, FiniteSetTheorems, TLAPS

-----------------------------------------------------------------------------
(* Programs: sequences of locks and unlocks.                               *)

Ops == [op : {"lock", "unlock"}, on : Mutexes] \cup [op : {"take"}, on : Lists]

Zero == [m \in Mutexes |-> 0]

\* How an operation changes the number a of times that m is locked into b; a
\* mutex that is taken is not counted.
Becomes(o, m, a, b) ==
    IF o.on = m /\ o.op # "take"
    THEN (IF o.op = "lock" THEN b = a + 1 ELSE a = b + 1)
    ELSE a = b

\* The heights of a program: how often each mutex is locked before each of its
\* operations, if none is locked at the end.
Heights(s) ==
    {h \in [1 .. (Len(s) + 1) -> [Mutexes -> Nat]] :
        /\ h[Len(s) + 1] = Zero
        /\ \A k \in 1 .. Len(s) : \A m \in Mutexes : Becomes(s[k], m, h[k][m], h[k + 1][m])}

\* The order in which mutexes are locked: a connection goes from the registry
\* to an instance, an instance to the pool, the retries and the caches, a
\* schedule from its table to its events.
Rank(m) ==
    CASE m \in {"registry", "retrier_lock"} -> 0
      [] m \in {"instance", "wfs"} -> 1
      [] OTHER -> 2

\* A thread that holds m may lock n: it goes up, or m is recursive, or it is
\* in a flush of the Retrier, where any order but m itself is found.
MayLock(m, n, flushing) ==
    \/ Rank(m) < Rank(n)
    \/ m = n /\ m \in Recursive
    \/ flushing /\ m # n

\* The locks of the program, from the k-th operation on, are taken in order by
\* a thread that also holds the mutexes in outer.
Ordered(s, h, outer, k) ==
    \A i \in k .. Len(s) : s[i].op # "unlock" =>
        \A m \in Mutexes : h[i][m] > 0 \/ m \in outer =>
            MayLock(m, s[i].on, h[i]["retrier"] > 0 \/ "retrier" \in outer)

\* Every unlock has its lock, and the locks are in order.
WellNested(s, outer) ==
    /\ s \in Seq(Ops)
    /\ \E h \in Heights(s) : h[1] = Zero /\ Ordered(s, h, outer, 1)

\* Doing nothing.
LEMMA NothingNested == ASSUME NEW outer PROVE WellNested(<<>>, outer)
<1> DEFINE h == [k \in 1 .. 1 |-> Zero]
<1>1. <<>> \in Seq(Ops) /\ Len(<<>>) = 0
  OBVIOUS
<1>2. Zero \in [Mutexes -> Nat]
  BY DEF Zero
<1>3. h \in Heights(<<>>)
  BY <1>1, <1>2 DEF Heights
<1>4. h[1] = Zero /\ Ordered(<<>>, h, outer, 1)
  BY <1>1 DEF Ordered
<1> QED
  BY <1>1, <1>3, <1>4 DEF WellNested

\* The change does not depend on what is held already.
LEMMA BecomesShifts ==
    ASSUME NEW o, NEW m, NEW x \in Nat, NEW y \in Nat, NEW c \in Nat, Becomes(o, m, x, y)
    PROVE  Becomes(o, m, x + c, y + c)
  BY DEF Becomes

\* One program after another.
LEMMA JoinHeights ==
    ASSUME NEW a \in Seq(Ops), NEW b \in Seq(Ops), NEW g \in Heights(a), NEW h \in Heights(b)
    PROVE  \E f \in Heights(a \o b) :
              /\ \A k \in 1 .. Len(a) : \A m \in Mutexes : f[k][m] = g[k][m] + h[1][m]
              /\ \A k \in 1 .. (Len(b) + 1) : f[Len(a) + k] = h[k]
<1> DEFINE s == a \o b
           f == [k \in 1 .. (Len(s) + 1) |->
                   IF k <= Len(a) THEN [m \in Mutexes |-> g[k][m] + h[1][m]] ELSE h[k - Len(a)]]
<1>1. /\ s \in Seq(Ops) /\ Len(s) = Len(a) + Len(b) /\ Len(a) \in Nat /\ Len(b) \in Nat
      /\ \A k \in 1 .. Len(a) : s[k] = a[k]
      /\ \A k \in 1 .. Len(b) : s[Len(a) + k] = b[k]
  OBVIOUS
<1> HIDE DEF s
<1>2. /\ g \in [1 .. (Len(a) + 1) -> [Mutexes -> Nat]] /\ g[Len(a) + 1] = Zero
      /\ \A k \in 1 .. Len(a) : \A m \in Mutexes : Becomes(a[k], m, g[k][m], g[k + 1][m])
      /\ h \in [1 .. (Len(b) + 1) -> [Mutexes -> Nat]] /\ h[Len(b) + 1] = Zero
      /\ \A k \in 1 .. Len(b) : \A m \in Mutexes : Becomes(b[k], m, h[k][m], h[k + 1][m])
  BY DEF Heights
<1>3. f \in [1 .. (Len(s) + 1) -> [Mutexes -> Nat]]
  <2>1. ASSUME NEW k \in 1 .. (Len(s) + 1), k <= Len(a)
        PROVE  [m \in Mutexes |-> g[k][m] + h[1][m]] \in [Mutexes -> Nat]
    <3>1. k \in 1 .. (Len(a) + 1) /\ 1 \in 1 .. (Len(b) + 1)
      BY <1>1, <2>1
    <3>2. g[k] \in [Mutexes -> Nat] /\ h[1] \in [Mutexes -> Nat]
      BY <1>2, <3>1
    <3> QED
      BY <3>2
  <2>2. ASSUME NEW k \in 1 .. (Len(s) + 1), ~(k <= Len(a)) PROVE h[k - Len(a)] \in [Mutexes -> Nat]
    <3>1. k - Len(a) \in 1 .. (Len(b) + 1)
      BY <1>1, <2>2
    <3> QED
      BY <1>2, <3>1
  <2> QED
    BY <2>1, <2>2
<1>4. \A k \in 1 .. Len(a) : \A m \in Mutexes : f[k][m] = g[k][m] + h[1][m]
  BY <1>1
<1>5. \A k \in 1 .. (Len(b) + 1) : f[Len(a) + k] = h[k]
  BY <1>1
<1> HIDE DEF f
<1>6. f[Len(s) + 1] = Zero
  <2>1. Len(b) + 1 \in 1 .. (Len(b) + 1) /\ Len(s) + 1 = Len(a) + (Len(b) + 1)
    BY <1>1
  <2> QED
    BY <1>2, <1>5, <2>1
<1>7. ASSUME NEW k \in 1 .. Len(s), NEW m \in Mutexes PROVE Becomes(s[k], m, f[k][m], f[k + 1][m])
  <2>1. CASE k < Len(a)
    <3>1. k \in 1 .. Len(a) /\ k + 1 \in 1 .. Len(a) /\ 1 \in 1 .. (Len(b) + 1)
      BY <1>1, <2>1
    <3>2. Becomes(a[k], m, g[k][m], g[k + 1][m]) /\ s[k] = a[k]
      BY <1>1, <1>2, <3>1
    <3>3. f[k][m] = g[k][m] + h[1][m] /\ f[k + 1][m] = g[k + 1][m] + h[1][m]
      BY <1>4, <3>1
    <3>4. k \in 1 .. (Len(a) + 1) /\ k + 1 \in 1 .. (Len(a) + 1)
      BY <1>1, <3>1
    <3>5. g[k] \in [Mutexes -> Nat] /\ g[k + 1] \in [Mutexes -> Nat] /\ h[1] \in [Mutexes -> Nat]
      BY <1>2, <3>1, <3>4
    <3>6. g[k][m] \in Nat /\ g[k + 1][m] \in Nat /\ h[1][m] \in Nat
      BY <3>5
    <3> QED
      BY <3>2, <3>3, <3>6, BecomesShifts
  <2>2. CASE k = Len(a)
    <3>1. k \in 1 .. Len(a) /\ k \in 1 .. (Len(a) + 1) /\ 1 \in 1 .. (Len(b) + 1)
      BY <1>1, <2>2
    <3>2. Becomes(a[k], m, g[k][m], g[k + 1][m]) /\ s[k] = a[k]
      BY <1>1, <1>2, <3>1
    <3>3. f[k][m] = g[k][m] + h[1][m] /\ f[k + 1] = h[1] /\ g[k + 1][m] = 0
      BY <1>2, <1>4, <1>5, <2>2, <3>1 DEF Zero
    <3>4. g[k][m] \in Nat /\ h[1][m] \in Nat
      BY <1>1, <1>2, <3>1
    <3> QED
      BY <3>2, <3>3, <3>4 DEF Becomes
  <2>3. CASE k > Len(a)
    <3> DEFINE i == k - Len(a)
    <3>1. i \in 1 .. Len(b) /\ i + 1 \in 1 .. (Len(b) + 1) /\ i \in 1 .. (Len(b) + 1)
          /\ k = Len(a) + i /\ k + 1 = Len(a) + (i + 1)
      BY <1>1, <2>3
    <3> HIDE DEF i
    <3>2. s[k] = b[i] /\ f[k] = h[i] /\ f[k + 1] = h[i + 1]
      BY <1>1, <1>5, <3>1
    <3> QED
      BY <1>2, <3>1, <3>2
  <2> QED
    BY <1>1, <2>1, <2>2, <2>3
<1>8. f \in Heights(s)
  BY <1>3, <1>6, <1>7 DEF Heights
<1> QED
  BY <1>4, <1>5, <1>8 DEF s

\* One well-nested program after another.
LEMMA SequenceNested ==
    ASSUME NEW outer, NEW a, NEW b, WellNested(a, outer), WellNested(b, outer)
    PROVE  WellNested(a \o b, outer)
<1>1. a \in Seq(Ops) /\ b \in Seq(Ops)
  BY DEF WellNested
<1>2. PICK g \in Heights(a) : g[1] = Zero /\ Ordered(a, g, outer, 1)
  BY DEF WellNested
<1>3. PICK h \in Heights(b) : h[1] = Zero /\ Ordered(b, h, outer, 1)
  BY DEF WellNested
<1>4. PICK f \in Heights(a \o b) :
         /\ \A k \in 1 .. Len(a) : \A m \in Mutexes : f[k][m] = g[k][m] + h[1][m]
         /\ \A k \in 1 .. (Len(b) + 1) : f[Len(a) + k] = h[k]
  BY <1>1, JoinHeights
<1> DEFINE s == a \o b
<1>5. /\ s \in Seq(Ops) /\ Len(s) = Len(a) + Len(b) /\ Len(a) \in Nat /\ Len(b) \in Nat
      /\ \A k \in 1 .. Len(a) : s[k] = a[k]
      /\ \A k \in 1 .. Len(b) : s[Len(a) + k] = b[k]
  BY <1>1
<1>6. f \in Heights(s)
  BY <1>4
<1> HIDE DEF s
<1>7. /\ f \in [1 .. (Len(s) + 1) -> [Mutexes -> Nat]]
      /\ g \in [1 .. (Len(a) + 1) -> [Mutexes -> Nat]]
  BY <1>2, <1>6 DEF Heights
<1>8. \A k \in 1 .. Len(a) : f[k] = g[k]
  <2> SUFFICES ASSUME NEW k \in 1 .. Len(a) PROVE f[k] = g[k]
    OBVIOUS
  <2>1. f[k] \in [Mutexes -> Nat] /\ g[k] \in [Mutexes -> Nat]
    BY <1>5, <1>7
  <2>2. \A m \in Mutexes : f[k][m] = g[k][m] /\ g[k][m] \in Nat
    BY <1>3, <1>4, <2>1 DEF Zero
  <2> QED
    BY <2>1, <2>2
<1>9. f[1] = Zero
  <2>1. CASE Len(a) = 0
    BY <1>3, <1>4, <1>5, <2>1
  <2>2. CASE Len(a) # 0
    BY <1>2, <1>5, <1>8, <2>2
  <2> QED
    BY <2>1, <2>2
<1>10. Ordered(s, f, outer, 1)
  <2> SUFFICES ASSUME NEW i \in 1 .. Len(s), s[i].op # "unlock", NEW m \in Mutexes,
                      f[i][m] > 0 \/ m \in outer
               PROVE  MayLock(m, s[i].on, f[i]["retrier"] > 0 \/ "retrier" \in outer)
    BY DEF Ordered
  <2>1. CASE i <= Len(a)
    <3>1. i \in 1 .. Len(a)
      BY <1>5, <2>1
    <3>2. s[i] = a[i] /\ f[i] = g[i]
      BY <1>5, <1>8, <3>1
    <3> QED
      BY <1>2, <3>1, <3>2 DEF Ordered
  <2>2. CASE i > Len(a)
    <3> DEFINE j == i - Len(a)
    <3>1. j \in 1 .. Len(b) /\ j \in 1 .. (Len(b) + 1) /\ i = Len(a) + j
      BY <1>5, <2>2
    <3> HIDE DEF j
    <3>2. s[i] = b[j] /\ f[i] = h[j]
      BY <1>4, <1>5, <3>1
    <3> QED
      BY <1>3, <3>1, <3>2 DEF Ordered
  <2> QED
    BY <1>5, <2>1, <2>2
<1>11. WellNested(s, outer)
  BY <1>5, <1>6, <1>9, <1>10 DEF WellNested
<1> QED
  BY <1>11 DEF s

\* A section around a well-nested body, if its mutex may be locked here.
LEMMA SectionNested ==
    ASSUME NEW outer, NEW n \in Mutexes, NEW body, WellNested(body, outer \cup {n}),
           \A m \in outer : MayLock(m, n, "retrier" \in outer)
    PROVE  WellNested(Section(n, body), outer)
<1> DEFINE s == Section(n, body)
           L == Len(body)
<1>1. body \in Seq(Ops)
  BY DEF WellNested
<1>2. PICK g \in Heights(body) : g[1] = Zero /\ Ordered(body, g, outer \cup {n}, 1)
  BY DEF WellNested
<1>3. /\ s \in Seq(Ops) /\ Len(s) = L + 2 /\ L \in Nat
      /\ s[1] = [op |-> "lock", on |-> n] /\ s[L + 2] = [op |-> "unlock", on |-> n]
      /\ \A k \in 1 .. L : s[k + 1] = body[k]
  <2> DEFINE x == [op |-> "lock", on |-> n]
             y == [op |-> "unlock", on |-> n]
  <2>1. x \in Ops /\ y \in Ops
    BY DEF Ops
  <2> HIDE DEF x, y
  <2>2. s = <<x>> \o body \o <<y>>
    BY DEF Section, x, y
  <2>3. /\ s \in Seq(Ops) /\ Len(s) = L + 2 /\ L \in Nat
        /\ s[1] = x /\ s[L + 2] = y
        /\ \A k \in 1 .. L : s[k + 1] = body[k]
    BY <1>1, <2>1, <2>2
  <2> QED
    BY <2>3 DEF x, y
<1> HIDE DEF s
<1>4. /\ g \in [1 .. (L + 1) -> [Mutexes -> Nat]] /\ g[L + 1] = Zero
      /\ \A k \in 1 .. L : \A m \in Mutexes : Becomes(body[k], m, g[k][m], g[k + 1][m])
  BY DEF Heights
<1> HIDE DEF L
<1> DEFINE up(v) == [m \in Mutexes |-> IF m = n THEN v[m] + 1 ELSE v[m]]
           h == [k \in 1 .. (L + 3) |-> IF k = 1 \/ k = L + 3 THEN Zero ELSE up(g[k - 1])]
<1>5. /\ h[1] = Zero /\ h[L + 3] = Zero
      /\ \A k \in 1 .. (L + 1) : h[k + 1] = up(g[k])
  BY <1>3
<1>6. h \in [1 .. (Len(s) + 1) -> [Mutexes -> Nat]]
  <2>1. Zero \in [Mutexes -> Nat]
    BY DEF Zero
  <2>2. ASSUME NEW k \in 1 .. (L + 3), k # 1, k # L + 3 PROVE up(g[k - 1]) \in [Mutexes -> Nat]
    <3>1. k - 1 \in 1 .. (L + 1)
      BY <1>3, <2>2
    <3>2. g[k - 1] \in [Mutexes -> Nat]
      BY <1>4, <3>1
    <3> QED
      BY <3>2
  <2>3. Len(s) + 1 = L + 3
    BY <1>3
  <2> HIDE DEF up
  <2> QED
    BY <2>1, <2>2, <2>3
<1> HIDE DEF h
<1>7. ASSUME NEW k \in 1 .. Len(s), NEW m \in Mutexes PROVE Becomes(s[k], m, h[k][m], h[k + 1][m])
  <2>1. CASE k = 1
    <3>1. 1 \in 1 .. (L + 1) /\ h[1][m] = 0 /\ h[2] = up(Zero)
      BY <1>2, <1>3, <1>5 DEF Zero
    <3> QED
      BY <1>3, <2>1, <3>1 DEF Becomes, Zero
  <2>2. CASE k = L + 2
    <3>1. L + 1 \in 1 .. (L + 1) /\ k = (L + 1) + 1 /\ k + 1 = L + 3
      BY <1>3, <2>2
    <3>2. h[k] = up(Zero) /\ h[k + 1] = Zero
      BY <1>4, <1>5, <3>1
    <3> QED
      BY <1>3, <2>2, <3>2 DEF Becomes, Zero
  <2>3. CASE k # 1 /\ k # L + 2
    <3> DEFINE i == k - 1
    <3>1. /\ i \in 1 .. L /\ k = i + 1 /\ k + 1 = (i + 1) + 1
          /\ i \in 1 .. (L + 1) /\ i + 1 \in 1 .. (L + 1)
      BY <1>3, <2>3
    <3> HIDE DEF i
    <3>2. s[k] = body[i] /\ h[k] = up(g[i]) /\ h[k + 1] = up(g[i + 1])
      BY <1>3, <1>5, <3>1
    <3>3. Becomes(body[i], m, g[i][m], g[i + 1][m])
      BY <1>4, <3>1
    <3>4. g[i] \in [Mutexes -> Nat] /\ g[i + 1] \in [Mutexes -> Nat]
      BY <1>4, <3>1
    <3>5. g[i][m] \in Nat /\ g[i + 1][m] \in Nat
      BY <3>4
    <3>6. \A c \in {0, 1} : Becomes(body[i], m, g[i][m] + c, g[i + 1][m] + c)
      BY <3>3, <3>5, BecomesShifts
    <3> QED
      BY <3>2, <3>3, <3>6
  <2> QED
    BY <2>1, <2>2, <2>3
<1>8. h \in Heights(s)
  BY <1>3, <1>5, <1>6, <1>7 DEF Heights
<1>9. Ordered(s, h, outer, 1)
  <2> SUFFICES ASSUME NEW i \in 1 .. Len(s), s[i].op # "unlock", NEW m \in Mutexes,
                      h[i][m] > 0 \/ m \in outer
               PROVE  MayLock(m, s[i].on, h[i]["retrier"] > 0 \/ "retrier" \in outer)
    BY DEF Ordered
  <2>1. CASE i = 1
    <3>1. h[i][m] = 0 /\ h[i]["retrier"] = 0 /\ s[i].on = n
      BY <1>3, <1>5, <2>1 DEF Zero, Mutexes
    <3> QED
      BY <3>1
  <2>2. CASE i # 1
    <3> DEFINE j == i - 1
    <3>1. i # L + 2
      BY <1>3
    <3>2. j \in 1 .. L /\ j \in 1 .. (L + 1) /\ i = j + 1
      BY <1>3, <2>2, <3>1
    <3> HIDE DEF j
    <3>3. s[i] = body[j] /\ h[i] = up(g[j])
      BY <1>3, <1>5, <3>2
    <3>4. g[j] \in [Mutexes -> Nat] /\ "retrier" \in Mutexes
      BY <1>4, <3>2 DEF Mutexes
    <3>5. g[j][m] \in Nat /\ g[j]["retrier"] \in Nat
      BY <3>4
    <3>6. g[j][m] > 0 \/ m \in outer \cup {n}
      BY <3>3
    <3>7. MayLock(m, body[j].on, g[j]["retrier"] > 0 \/ "retrier" \in outer \cup {n})
      BY <1>2, <3>2, <3>3, <3>6 DEF Ordered, L
    <3>8. (g[j]["retrier"] > 0 \/ "retrier" \in outer \cup {n})
            <=> (h[i]["retrier"] > 0 \/ "retrier" \in outer)
      BY <3>3, <3>4, <3>5
    <3> QED
      BY <3>3, <3>7, <3>8 DEF MayLock
  <2> QED
    BY <2>1, <2>2
<1>10. WellNested(s, outer)
  BY <1>3, <1>5, <1>8, <1>9 DEF WellNested
<1> QED
  BY <1>10 DEF s

\* A mutex locked around no call.
LEMMA LeafNested ==
    ASSUME NEW outer, NEW n \in Mutexes, \A m \in outer : MayLock(m, n, "retrier" \in outer)
    PROVE  WellNested(Leaf(n), outer)
  BY NothingNested, SectionNested DEF Leaf

\* A mutex taken for good by a thread that holds nothing.
LEMMA TakeNested == ASSUME NEW n \in Lists PROVE WellNested(Take(n), {})
<1> DEFINE x == [op |-> "take", on |-> n]
           s == <<x>>
           h == [k \in 1 .. 2 |-> Zero]
<1>1. x \in Ops /\ x.op = "take"
  BY DEF Ops
<1> HIDE DEF x
<1>2. s \in Seq(Ops) /\ Len(s) = 1 /\ s[1] = x
  BY <1>1
<1>3. Zero \in [Mutexes -> Nat]
  BY DEF Zero
<1> HIDE DEF s
<1>4. h \in [1 .. (Len(s) + 1) -> [Mutexes -> Nat]] /\ h[1] = Zero /\ h[2] = Zero
  BY <1>2, <1>3
<1> HIDE DEF h
<1>5. h \in Heights(s)
  <2>1. \A k \in 1 .. Len(s) : k = 1
    BY <1>2
  <2>2. \A m \in Mutexes : Becomes(s[1], m, h[1][m], h[2][m])
    BY <1>1, <1>2, <1>4 DEF Becomes
  <2> QED
    BY <1>2, <1>4, <2>1, <2>2 DEF Heights
<1>6. Ordered(s, h, {}, 1)
  <2>1. \A i \in 1 .. Len(s) : i = 1
    BY <1>2
  <2>2. \A m \in Mutexes : ~ (h[1][m] > 0)
    BY <1>4 DEF Zero
  <2> QED
    BY <2>1, <2>2 DEF Ordered
<1>7. WellNested(s, {})
  BY <1>2, <1>4, <1>5, <1>6 DEF WellNested
<1> QED
  BY <1>7 DEF s, x, Take

-----------------------------------------------------------------------------
(* The threads of the engine, the requests and the signal handlers.        *)

\* Where the operations of an instance are called: with no mutex held, or in a
\* flush of the Retrier.
Callers == {{}, {"retrier"}, {"retrier_lock", "retrier"}}

\* What TaskRestart and the deletion of an instance lock, wherever called.
LEMMA InstanceNested ==
    ASSUME NEW outer \in Callers
    PROVE  /\ WellNested(TaskRestart, outer) /\ WellNested(Start, outer)
           /\ WellNested(DeleteInstance, outer)
<1>1. /\ outer = {} \/ "retrier" \in outer
      /\ \A m \in outer : m \in {"retrier", "retrier_lock"}
  BY DEF Callers
<1>2. {"instance", "pool", "registry", "wfs", "events"} \in SUBSET Mutexes
  BY DEF Mutexes
<1>3. \A n \in {"instance", "pool", "registry", "wfs", "events"} : \A m \in outer :
         MayLock(m, n, "retrier" \in outer)
  BY <1>1 DEF MayLock
<1>4. WellNested(Section("instance", Leaf("pool")), outer)
  <2>1. \A m \in outer \cup {"instance"} : MayLock(m, "pool", "retrier" \in outer \cup {"instance"})
    BY <1>3 DEF MayLock, Rank
  <2>2. WellNested(Leaf("pool"), outer \cup {"instance"})
    BY <1>2, <2>1, LeafNested
  <2> QED
    BY <1>2, <1>3, <2>2, SectionNested
<1>5. WellNested(ScheduledWorkflowInstanceStop, outer)
  <2> DEFINE wfs == outer \cup {"wfs"}
  <2>1. \A m \in wfs : MayLock(m, "events", "retrier" \in wfs)
    BY <1>3 DEF MayLock, Rank
  <2>2. \A m \in wfs : MayLock(m, "wfs", "retrier" \in wfs)
    BY <1>3 DEF MayLock, Recursive
  <2>3. WellNested(InsertEvent, wfs) /\ wfs \cup {"wfs"} = wfs
    BY <1>2, <2>1, LeafNested DEF InsertEvent
  <2>4. WellNested(ScheduleWorkflow, wfs)
    <3> HIDE DEF wfs
    <3> QED
      BY <1>2, <2>2, <2>3, SectionNested DEF ScheduleWorkflow
  <2> QED
    BY <1>2, <1>3, <2>4, SectionNested DEF ScheduledWorkflowInstanceStop
<1>6. WellNested(DeleteInstance, outer)
  BY <1>2, <1>3, <1>5, LeafNested, SequenceNested DEF DeleteInstance
<1> QED
  BY <1>4, <1>6 DEF TaskRestart, Start

\* A flush of the Retrier calls them with the mutex of the list held.
LEMMA FlushNested ==
    /\ WellNested(FlushRetrier, {})
    /\ WellNested(Section("retrier_lock", FlushRetrier), {})
<1>1. {"retrier", "retrier_lock"} \in SUBSET Mutexes
  BY DEF Mutexes
<1> DEFINE body == TaskRestart \o DeleteInstance
<1>2. ASSUME NEW outer \in Callers PROVE WellNested(body, outer)
  BY InstanceNested, SequenceNested
<1>3. /\ {} \cup {"retrier"} \in Callers /\ {} \cup {"retrier_lock"} = {"retrier_lock"}
      /\ {"retrier_lock"} \cup {"retrier"} \in Callers
  BY DEF Callers
<1> HIDE DEF body
<1>4. WellNested(Section("retrier", body), {})
  BY <1>1, <1>2, <1>3, SectionNested
<1>5. WellNested(Section("retrier", body), {"retrier_lock"})
  <2>1. \A m \in {"retrier_lock"} : MayLock(m, "retrier", "retrier" \in {"retrier_lock"})
    BY DEF MayLock, Rank
  <2> QED
    BY <1>1, <1>2, <1>3, <2>1, SectionNested
<1>6. WellNested(Section("retrier_lock", Section("retrier", body)), {})
  BY <1>1, <1>3, <1>5, SectionNested
<1> QED
  BY <1>4, <1>6 DEF FlushRetrier, body

\* What every thread does in one round, and the handlers, are well nested.
LEMMA ProgramsNested ==
    /\ \A p \in Rounds : WellNested(p, {})
    /\ \A h \in Handlers : WellNested(h, {})
<1>1. \A n \in Mutexes : WellNested(Leaf(n), {})
  BY LeafNested
<1>2. {"registry", "instance", "pool", "retrier", "events", "wfs", "caches"} \in SUBSET Mutexes
  BY DEF Mutexes
<1>3. {} \in Callers
  BY DEF Callers
<1>4. /\ WellNested(TaskRestart, {}) /\ WellNested(Start, {}) /\ WellNested(DeleteInstance, {})
  BY <1>3, InstanceNested
<1>5. WellNested(NewInstance, {})
  BY <1>1, <1>2, SequenceNested DEF NewInstance, GetWorkflow
<1>6. ASSUME NEW n \in {"caches", "retrier", "pool"} PROVE WellNested(Leaf(n), {} \cup {"instance"})
  <2>1. \A m \in {} \cup {"instance"} : MayLock(m, n, "retrier" \in {} \cup {"instance"})
    BY DEF MayLock, Rank
  <2> QED
    BY <1>2, <2>1, LeafNested
<1>7. WellNested(TaskExecute, {})
  BY <1>2, <1>6, SectionNested DEF TaskExecute, GetTask
<1>8. WellNested(TaskStop, {})
  <2>1. WellNested(GetTask \o InsertTask \o Leaf("pool"), {} \cup {"instance"})
    <3>1. /\ WellNested(GetTask, {} \cup {"instance"}) /\ WellNested(InsertTask, {} \cup {"instance"})
          /\ WellNested(Leaf("pool"), {} \cup {"instance"})
      BY <1>6 DEF GetTask, InsertTask
    <3>2. WellNested(GetTask \o InsertTask, {} \cup {"instance"})
      BY ONLY <3>1, SequenceNested
    <3> QED
      BY ONLY <3>1, <3>2, SequenceNested
  <2> QED
    BY <1>2, <2>1, SectionNested DEF TaskStop
<1>9. WellNested(Section("registry", Leaf("instance")), {})
  <2>1. \A m \in {} \cup {"registry"} : MayLock(m, "instance", "retrier" \in {} \cup {"registry"})
    BY DEF MayLock, Rank
  <2>2. WellNested(Leaf("instance"), {} \cup {"registry"})
    BY <1>2, <2>1, LeafNested
  <2> QED
    BY <1>2, <2>2, SectionNested
<1>10. ASSUME NEW outer, outer = {} \cup {"wfs"}
       PROVE  /\ WellNested(Leaf("events"), outer)
              /\ WellNested(Section("wfs", Leaf("events")), outer)
              /\ WellNested(Section("wfs", Leaf("events")), {})
  <2>1. /\ \A m \in outer : MayLock(m, "events", "retrier" \in outer)
        /\ \A m \in outer : MayLock(m, "wfs", "retrier" \in outer)
    BY <1>10 DEF MayLock, Rank, Recursive
  <2>2. WellNested(Leaf("events"), outer)
    BY <1>2, <2>1, LeafNested
  <2>3. outer = outer \cup {"wfs"}
    BY <1>10
  <2>4. WellNested(Section("wfs", Leaf("events")), outer)
    <3>1. WellNested(Leaf("events"), outer \cup {"wfs"}) /\ "wfs" \in Mutexes
      BY <1>2, <2>2, <2>3
    <3> QED
      BY ONLY <2>1, <3>1, SectionNested
  <2> QED
    BY <1>2, <1>10, <2>2, <2>4, SectionNested
<1>11. WellNested(Reload, {})
  <2>1. WellNested(FlushSchedules \o ScheduleWorkflow, {} \cup {"wfs"})
    BY <1>10, SequenceNested DEF FlushSchedules, ScheduleWorkflow, InsertEvent
  <2>2. WellNested(Section("wfs", FlushSchedules \o ScheduleWorkflow), {})
    BY <1>2, <2>1, SectionNested
  <2>3. WellNested(ReloadCaches, {})
    BY <1>1, <1>2 DEF ReloadCaches
  <2> QED
    BY <2>2, <2>3, SequenceNested DEF Reload
<1>12. /\ WellNested(Leaf("pool"), {}) /\ WellNested(Leaf("retrier"), {})
       /\ WellNested(Leaf("events"), {}) /\ WellNested(Leaf("wfs"), {})
       /\ WellNested(Leaf("registry"), {})
  BY <1>1, <1>2
<1>13. WellNested(Fork, {})
  <2>1. WellNested(Leaf("pool") \o TaskExecute, {})
    BY ONLY <1>7, <1>12, SequenceNested
  <2>2. WellNested(Leaf("pool") \o TaskExecute \o Leaf("pool"), {})
    BY ONLY <1>12, <2>1, SequenceNested
  <2> QED
    BY ONLY <1>4, <2>2, SequenceNested DEF Fork
<1>14. WellNested(Gather, {})
  <2>1. WellNested(Leaf("pool") \o TaskStop, {})
    BY ONLY <1>8, <1>12, SequenceNested
  <2> QED
    BY ONLY <1>4, <2>1, SequenceNested DEF Gather
<1>15. WellNested(Retry, {})
  <2>1. WellNested(Leaf("retrier") \o TaskRestart, {})
    BY ONLY <1>4, <1>12, SequenceNested
  <2> QED
    BY ONLY <1>4, <2>1, SequenceNested DEF Retry
<1>16. WellNested(Alarm, {})
  <2>1. WellNested(Leaf("events") \o NewInstance, {})
    BY ONLY <1>5, <1>12, SequenceNested
  <2>2. WellNested(Leaf("events") \o NewInstance \o Leaf("wfs"), {})
    BY ONLY <1>12, <2>1, SequenceNested
  <2>3. WellNested(Leaf("events") \o NewInstance \o Leaf("wfs") \o Start, {})
    BY ONLY <1>4, <2>2, SequenceNested
  <2> QED
    BY ONLY <1>4, <2>3, SequenceNested DEF Alarm
<1>17. WellNested(Launch, {})
  <2>1. WellNested(NewInstance \o Start, {})
    BY ONLY <1>4, <1>5, SequenceNested
  <2>2. WellNested(NewInstance \o Start \o Leaf("registry"), {})
    BY ONLY <1>12, <2>1, SequenceNested
  <2> QED
    BY ONLY <1>4, <2>2, SequenceNested DEF Launch
<1>18. WellNested(SendStatus, {}) /\ WellNested(SendStatusScheduler, {})
  BY <1>9, <1>10 DEF SendStatus, SendStatusScheduler
<1>19. \A p \in Cancel \cup Shutdown : WellNested(p, {})
  BY <1>12, <1>18, FlushNested DEF Cancel, Shutdown
<1>20. \A m \in Lists : \A p \in Idle(m) : WellNested(p, {})
  <2> SUFFICES ASSUME NEW m \in Lists PROVE \A p \in Idle(m) : WellNested(p, {})
    OBVIOUS
  <2>1. WellNested(Leaf(m), {}) /\ WellNested(Take(m), {})
    BY <1>12, TakeNested DEF Lists
  <2>2. WellNested(LoopBack(m), {})
    BY ONLY <2>1, SequenceNested DEF LoopBack
  <2> QED
    BY <2>1, <2>2 DEF Idle
<1>21. \A p \in Rounds : WellNested(p, {})
  <2> HIDE DEF Fork, Gather, Retry, Alarm, Launch, Cancel, SendStatus, SendStatusScheduler, Shutdown
  <2>1. \A p \in Idle("retrier") \cup Idle("events") : WellNested(p, {})
    BY <1>20 DEF Lists
  <2> QED
    BY <1>13, <1>14, <1>15, <1>16, <1>17, <1>18, <1>19, <2>1 DEF Rounds
<1> QED
  BY <1>11, <1>21, FlushNested DEF Handlers

-----------------------------------------------------------------------------
(* The invariant.                                                          *)

\* How often the thread has locked each mutex that it will unlock.
Own(t) == [m \in Mutexes |-> IF owner[m] = t /\ m \notin kept THEN depth[m] ELSE 0]

LocksTypeOK ==
    /\ todo \in [Threads -> Seq(Ops)]
    /\ below \in [Threads -> Nat \cup {None}]
    /\ owner \in [Mutexes -> Threads \cup {None}]
    /\ depth \in [Mutexes -> Nat]
    /\ \A m \in Mutexes : owner[m] = None <=> depth[m] = 0
    /\ kept \subseteq Lists /\ \A m \in kept : owner[m] # None

\* What a handler has interrupted is the end of what is to be done, and the
\* last operation of a handler is an unlock.
HandlerInv(t) ==
    below[t] # None =>
        /\ below[t] \in Nat /\ below[t] < Len(todo[t])
        /\ todo[t][Len(todo[t]) - below[t]].op = "unlock"

\* Where the program of the thread itself begins, after that of a handler.
OwnPart(t) == IF below[t] = None THEN 1 ELSE Len(todo[t]) - below[t] + 1

\* What the thread has locked is what it will unlock, and it will lock in order.
ProgramInv(t) ==
    \E h \in Heights(todo[t]) : h[1] = Own(t) /\ Ordered(todo[t], h, {}, OwnPart(t))

LocksInv == LocksTypeOK /\ \A t \in Threads : HandlerInv(t) /\ ProgramInv(t)

\* A thread that has not changed, when no mutex it owns has.
LEMMA OthersKeep ==
    ASSUME NEW t \in Threads, HandlerInv(t), ProgramInv(t),
           todo'[t] = todo[t], below'[t] = below[t],
           \A m \in Mutexes : /\ owner'[m] = t <=> owner[m] = t
                              /\ owner[m] = t => (depth'[m] = depth[m]
                                                   /\ (m \in kept' <=> m \in kept))
    PROVE  HandlerInv(t)' /\ ProgramInv(t)'
<1>1. Own(t)' = Own(t)
  BY DEF Own
<1> QED
  BY <1>1 DEF HandlerInv, ProgramInv, OwnPart

\* The rest of a program after its first operation.
LEMMA TailHeights ==
    ASSUME NEW s \in Seq(Ops), s # <<>>, NEW h \in Heights(s), NEW k \in Nat, k > 0,
           Ordered(s, h, {}, k), NEW i \in Nat, i > 0, i >= k - 1
    PROVE  /\ Tail(s) \in Seq(Ops) /\ Len(Tail(s)) = Len(s) - 1 /\ Len(s) > 0
           /\ \A j \in 1 .. Len(Tail(s)) : Tail(s)[j] = s[j + 1]
           /\ \A m \in Mutexes : Becomes(s[1], m, h[1][m], h[2][m])
           /\ h[1] \in [Mutexes -> Nat] /\ h[2] \in [Mutexes -> Nat]
           /\ \E g \in Heights(Tail(s)) : g[1] = h[2] /\ Ordered(Tail(s), g, {}, i)
<1> DEFINE r == Tail(s)
           L == Len(s)
<1>1. /\ r \in Seq(Ops) /\ Len(r) = L - 1 /\ L > 0 /\ L \in Nat
      /\ \A j \in 1 .. Len(r) : r[j] = s[j + 1]
  OBVIOUS
<1>2. /\ h \in [1 .. (L + 1) -> [Mutexes -> Nat]] /\ h[L + 1] = Zero
      /\ \A j \in 1 .. L : \A m \in Mutexes : Becomes(s[j], m, h[j][m], h[j + 1][m])
  BY DEF Heights
<1> DEFINE g == [j \in 1 .. L |-> h[j + 1]]
<1> HIDE DEF r, L
<1>3. g \in [1 .. (Len(r) + 1) -> [Mutexes -> Nat]]
  <2>1. \A j \in 1 .. L : j + 1 \in 1 .. (L + 1)
    BY <1>1
  <2>2. Len(r) + 1 = L
    BY <1>1
  <2> QED
    BY <1>2, <2>1, <2>2
<1>4. \A j \in 1 .. L : g[j] = h[j + 1]
  OBVIOUS
<1> HIDE DEF g
<1>5. g[Len(r) + 1] = Zero /\ g[1] = h[2]
  BY <1>1, <1>2, <1>4
<1>6. ASSUME NEW j \in 1 .. Len(r), NEW m \in Mutexes PROVE Becomes(r[j], m, g[j][m], g[j + 1][m])
  <2>1. j + 1 \in 1 .. L /\ j \in 1 .. L
    BY <1>1
  <2>2. r[j] = s[j + 1] /\ g[j] = h[j + 1] /\ g[j + 1] = h[(j + 1) + 1]
    BY <1>1, <1>4, <2>1
  <2> QED
    BY <1>2, <2>1, <2>2
<1>7. g \in Heights(r)
  BY <1>3, <1>5, <1>6 DEF Heights
<1>8. Ordered(r, g, {}, i)
  <2> SUFFICES ASSUME NEW j \in i .. Len(r), r[j].op # "unlock", NEW m \in Mutexes, g[j][m] > 0
               PROVE  MayLock(m, r[j].on, g[j]["retrier"] > 0 \/ "retrier" \in {})
    BY DEF Ordered
  <2>1. j + 1 \in k .. L /\ j \in 1 .. Len(r) /\ j \in 1 .. L
    BY <1>1
  <2>2. r[j] = s[j + 1] /\ g[j] = h[j + 1]
    BY <1>1, <1>4, <2>1
  <2> QED
    BY <2>1, <2>2 DEF Ordered, L
<1>9. 1 \in 1 .. L /\ 1 \in 1 .. (L + 1) /\ 2 \in 1 .. (L + 1)
  BY <1>1
<1>10. /\ \A m \in Mutexes : Becomes(s[1], m, h[1][m], h[2][m])
       /\ h[1] \in [Mutexes -> Nat] /\ h[2] \in [Mutexes -> Nat]
  BY <1>2, <1>9
<1> QED
  BY <1>1, <1>5, <1>7, <1>8, <1>10 DEF r, L

-----------------------------------------------------------------------------
(* The steps.                                                              *)

\* A thread begins a round: it holds nothing.
LEMMA BeginKeeps ==
    ASSUME LocksInv, NEW t \in Threads, Begin(t)
    PROVE  LocksInv'
<1>1. PICK p \in Rounds :
         /\ todo[t] = <<>> /\ below[t] = None
         /\ todo' = [todo EXCEPT ![t] = p]
         /\ below' = below /\ owner' = owner /\ depth' = depth /\ kept' = kept
  BY DEF Begin, InHandler
<1>2. LocksTypeOK /\ \A u \in Threads : HandlerInv(u) /\ ProgramInv(u)
  BY DEF LocksInv
<1>3. p \in Seq(Ops) /\ \E h \in Heights(p) : h[1] = Zero /\ Ordered(p, h, {}, 1)
  BY ProgramsNested DEF WellNested
<1>4. /\ todo'[t] = p /\ todo' \in [Threads -> Seq(Ops)]
      /\ \A u \in Threads \ {t} : todo'[u] = todo[u]
  BY <1>1, <1>2, <1>3 DEF LocksTypeOK
<1>5. LocksTypeOK'
  BY <1>1, <1>2, <1>4 DEF LocksTypeOK
<1>6. Own(t)' = Zero
  <2>1. PICK h \in Heights(todo[t]) : h[1] = Own(t)
    BY <1>2 DEF ProgramInv
  <2>2. Own(t) = Zero
    BY <1>1, <2>1 DEF Heights
  <2> QED
    BY <1>1, <2>2 DEF Own
<1>7. HandlerInv(t)' /\ ProgramInv(t)'
  BY <1>1, <1>3, <1>4, <1>6 DEF HandlerInv, ProgramInv, OwnPart
<1>8. ASSUME NEW u \in Threads, u # t PROVE HandlerInv(u)' /\ ProgramInv(u)'
  BY <1>1, <1>2, <1>4, <1>8, OthersKeep
<1> QED
  BY <1>5, <1>7, <1>8 DEF LocksInv

\* A signal handler begins, on top of what the thread does.
LEMMA SignalKeeps ==
    ASSUME LocksInv, NEW t \in Threads, Signal(t)
    PROVE  LocksInv'
<1>1. PICK a \in Handlers :
         /\ below[t] = None
         /\ todo' = [todo EXCEPT ![t] = a \o todo[t]]
         /\ below' = [below EXCEPT ![t] = Len(todo[t])]
         /\ owner' = owner /\ depth' = depth /\ kept' = kept
  BY DEF Signal, InHandler
<1>2. LocksTypeOK /\ \A u \in Threads : HandlerInv(u) /\ ProgramInv(u)
  BY DEF LocksInv
<1> DEFINE b == todo[t]
           s == a \o b
<1>3. a \in Seq(Ops) /\ b \in Seq(Ops)
  BY <1>2, ProgramsNested DEF WellNested, LocksTypeOK
<1>4. Len(a) > 0 /\ a[Len(a)].op = "unlock"
  <2>1. \A x \in Seq(Ops), m \in Mutexes :
           LET y == Section(m, x)
           IN  y \in Seq(Ops) /\ Len(y) > 0 /\ y[Len(y)].op = "unlock"
    <3> SUFFICES ASSUME NEW x \in Seq(Ops), NEW m \in Mutexes
                 PROVE  LET y == Section(m, x)
                        IN  y \in Seq(Ops) /\ Len(y) > 0 /\ y[Len(y)].op = "unlock"
      OBVIOUS
    <3> DEFINE lo == [op |-> "lock", on |-> m]
               un == [op |-> "unlock", on |-> m]
               y == <<lo>> \o x \o <<un>>
    <3>1. lo \in Ops /\ un \in Ops /\ un.op = "unlock"
      BY DEF Ops
    <3> HIDE DEF lo, un
    <3>2. y \in Seq(Ops) /\ Len(y) > 0 /\ y[Len(y)] = un
      BY <3>1
    <3> QED
      BY <3>1, <3>2 DEF Section, lo, un
  <2>2. CASE a = FlushRetrier
    <3>1. TaskRestart \in Seq(Ops) /\ DeleteInstance \in Seq(Ops) /\ "retrier" \in Mutexes
      BY InstanceNested DEF WellNested, Callers, Mutexes
    <3>2. TaskRestart \o DeleteInstance \in Seq(Ops)
      BY <3>1
    <3> QED
      BY <2>1, <2>2, <3>1, <3>2 DEF FlushRetrier
  <2>3. CASE a = Reload
    <3> DEFINE x == Section("wfs", FlushSchedules \o ScheduleWorkflow)
    <3>1. /\ <<>> \in Seq(Ops) /\ {"wfs", "events", "caches"} \in SUBSET Mutexes
      BY DEF Mutexes
    <3>2. Leaf("events") \in Seq(Ops)
      BY <2>1, <3>1 DEF Leaf
    <3>3. Section("wfs", Leaf("events")) \in Seq(Ops)
      BY <2>1, <3>1, <3>2
    <3>4. Leaf("events") \o Section("wfs", Leaf("events")) \in Seq(Ops)
      BY <3>2, <3>3
    <3>5. x \in Seq(Ops)
      BY <2>1, <3>1, <3>4 DEF FlushSchedules, ScheduleWorkflow, InsertEvent
    <3> DEFINE y == Leaf("caches")
    <3>6. y \in Seq(Ops) /\ Len(y) > 0 /\ y[Len(y)].op = "unlock"
      BY <2>1, <3>1 DEF Leaf
    <3>7. a = x \o y
      BY <2>3 DEF Reload, ReloadCaches
    <3> HIDE DEF x, y
    <3>8. a[Len(a)] = y[Len(y)] /\ Len(a) > 0
      BY <3>5, <3>6, <3>7
    <3> QED
      BY <3>6, <3>8
  <2> QED
    BY <2>2, <2>3 DEF Handlers
<1>5. PICK g \in Heights(a) : g[1] = Zero
  BY ProgramsNested DEF WellNested
<1>6. PICK h \in Heights(b) : h[1] = Own(t) /\ Ordered(b, h, {}, 1)
  BY <1>1, <1>2 DEF ProgramInv, OwnPart
<1> HIDE DEF b
<1>7. PICK f \in Heights(s) :
         /\ \A k \in 1 .. Len(a) : \A m \in Mutexes : f[k][m] = g[k][m] + h[1][m]
         /\ \A k \in 1 .. (Len(b) + 1) : f[Len(a) + k] = h[k]
  BY <1>3, JoinHeights
<1>8. /\ s \in Seq(Ops) /\ Len(s) = Len(a) + Len(b) /\ Len(a) \in Nat /\ Len(b) \in Nat
      /\ \A k \in 1 .. Len(a) : s[k] = a[k]
      /\ \A k \in 1 .. Len(b) : s[Len(a) + k] = b[k]
  BY <1>3
<1>9. /\ todo'[t] = s /\ todo' \in [Threads -> Seq(Ops)]
      /\ below'[t] = Len(b) /\ below' \in [Threads -> Nat \cup {None}]
      /\ \A u \in Threads \ {t} : todo'[u] = todo[u] /\ below'[u] = below[u]
  BY <1>1, <1>2, <1>8 DEF LocksTypeOK, b
<1> HIDE DEF s
<1>10. LocksTypeOK'
  BY <1>1, <1>2, <1>9 DEF LocksTypeOK
<1>11. HandlerInv(t)'
  <2>1. /\ Len(b) < Len(s) /\ Len(s) - Len(b) = Len(a) /\ Len(a) \in 1 .. Len(a)
    BY <1>4, <1>8
  <2>2. s[Len(a)].op = "unlock"
    BY <1>4, <1>8, <2>1
  <2> QED
    BY <1>8, <1>9, <2>1, <2>2 DEF HandlerInv
<1>12. Own(t)' = Own(t) /\ Own(t) = h[1]
  BY <1>1, <1>6 DEF Own
<1>13. f[1] = h[1]
  <2>1. /\ f \in [1 .. (Len(s) + 1) -> [Mutexes -> Nat]]
        /\ h \in [1 .. (Len(b) + 1) -> [Mutexes -> Nat]]
    BY DEF Heights
  <2>2. 1 \in 1 .. (Len(s) + 1) /\ 1 \in 1 .. (Len(b) + 1) /\ 1 \in 1 .. Len(a)
    BY <1>4, <1>8
  <2>3. f[1] \in [Mutexes -> Nat] /\ h[1] \in [Mutexes -> Nat]
    BY <2>1, <2>2
  <2>4. \A m \in Mutexes : f[1][m] = h[1][m]
    BY <1>5, <1>7, <2>2, <2>3 DEF Zero
  <2> QED
    BY <2>3, <2>4
<1>14. Ordered(s, f, {}, Len(a) + 1)
  <2> SUFFICES ASSUME NEW i \in (Len(a) + 1) .. Len(s), s[i].op # "unlock", NEW m \in Mutexes,
                      f[i][m] > 0
               PROVE  MayLock(m, s[i].on, f[i]["retrier"] > 0 \/ "retrier" \in {})
    BY DEF Ordered
  <2> DEFINE j == i - Len(a)
  <2>1. j \in 1 .. Len(b) /\ j \in 1 .. (Len(b) + 1) /\ i = Len(a) + j
    BY <1>8
  <2> HIDE DEF j
  <2>2. s[i] = b[j] /\ f[i] = h[j]
    BY <1>7, <1>8, <2>1
  <2> QED
    BY <1>6, <2>1, <2>2 DEF Ordered
<1>15. ProgramInv(t)'
  <2>1. Len(b) # None /\ Len(s) - Len(b) + 1 = Len(a) + 1
    BY <1>8, LocksAssumption
  <2>2. OwnPart(t)' = Len(a) + 1
    BY <1>9, <2>1 DEF OwnPart
  <2> QED
    BY <1>7, <1>9, <1>12, <1>13, <1>14, <2>2 DEF ProgramInv
<1>16. ASSUME NEW u \in Threads, u # t PROVE HandlerInv(u)' /\ ProgramInv(u)'
  BY <1>1, <1>2, <1>9, <1>16, OthersKeep
<1> QED
  BY <1>10, <1>11, <1>15, <1>16 DEF LocksInv

\* The first operation of a thread is done: the rest of its program is as
\* before, whether a handler ends with it or not.
LEMMA StepKeeps ==
    ASSUME LocksInv, NEW t \in Threads, todo[t] # <<>>,
           todo' = [todo EXCEPT ![t] = Tail(todo[t])],
           below' \in [Threads -> Nat \cup {None}],
           below'[t] = (IF Head(todo[t]).op = "unlock" /\ Len(Tail(todo[t])) = below[t]
                        THEN None ELSE below[t]),
           \A u \in Threads \ {t} : below'[u] = below[u],
           owner' \in [Mutexes -> Threads \cup {None}], depth' \in [Mutexes -> Nat],
           \A m \in Mutexes : owner'[m] = None <=> depth'[m] = 0,
           \A u \in Threads \ {t} : \A m \in Mutexes :
              /\ owner'[m] = u <=> owner[m] = u
              /\ owner[m] = u => (depth'[m] = depth[m] /\ (m \in kept' <=> m \in kept)),
           kept' \subseteq Lists, \A m \in kept' : owner'[m] # None,
           Own(t)' \in [Mutexes -> Nat],
           \A m \in Mutexes : Becomes(todo[t][1], m, Own(t)[m], Own(t)'[m])
    PROVE  LocksInv'
<1>1. LocksTypeOK /\ \A u \in Threads : HandlerInv(u) /\ ProgramInv(u)
  BY DEF LocksInv
<1> DEFINE s == todo[t]
           k == OwnPart(t)
           i == OwnPart(t)'
<1>2. s \in Seq(Ops) /\ s # <<>>
  BY <1>1 DEF LocksTypeOK
<1>3. PICK h \in Heights(s) : h[1] = Own(t) /\ Ordered(s, h, {}, k)
  BY <1>1 DEF ProgramInv
<1>4. /\ todo'[t] = Tail(s) /\ Len(Tail(s)) = Len(s) - 1 /\ Len(s) \in Nat /\ Len(s) > 0
      /\ Tail(s) \in Seq(Ops) /\ \A j \in 1 .. Len(Tail(s)) : Tail(s)[j] = s[j + 1]
      /\ Head(s) = s[1]
      /\ todo' \in [Threads -> Seq(Ops)] /\ \A u \in Threads \ {t} : todo'[u] = todo[u]
  BY <1>1, <1>2 DEF LocksTypeOK
<1> HIDE DEF s
<1>5. None \notin Nat
  BY LocksAssumption
<1>6. k \in Nat /\ k > 0 /\ i \in Nat /\ i > 0 /\ i >= k - 1 /\ HandlerInv(t)'
  <2>1. CASE below[t] = None
    <3>1. below'[t] = None
      BY <2>1
    <3>2. k = 1 /\ i = 1
      BY <2>1, <3>1 DEF OwnPart
    <3> HIDE DEF k, i
    <3> QED
      BY <3>1, <3>2 DEF HandlerInv
  <2>2. CASE below[t] # None
    <3>1. below[t] \in Nat /\ below[t] < Len(s) /\ s[Len(s) - below[t]].op = "unlock"
      BY <1>1, <2>2 DEF HandlerInv, s
    <3>2. k = Len(s) - below[t] + 1
      BY <2>2 DEF OwnPart, s
    <3>3. CASE below'[t] = None
      <4>1. Len(Tail(s)) = below[t]
        BY <2>2, <3>3 DEF s
      <4>2. i = 1
        BY <3>3 DEF OwnPart
      <4> HIDE DEF i, k
      <4>3. k = 2
        BY <1>4, <3>1, <3>2, <4>1
      <4> QED
        BY <3>3, <4>2, <4>3 DEF HandlerInv
    <3>4. CASE below'[t] # None
      <4>1. below'[t] = below[t]
        BY <3>4
      <4>2. Len(Tail(s)) # below[t]
        <5>1. SUFFICES ASSUME Len(Tail(s)) = below[t] PROVE FALSE
          BY <5>1
        <5>2. Len(s) - below[t] = 1
          BY <1>4, <3>1, <5>1
        <5>3. Head(s).op = "unlock"
          BY <1>4, <3>1, <5>2
        <5> QED
          BY <3>4, <5>1, <5>3 DEF s
      <4>3. i = Len(Tail(s)) - below[t] + 1
        BY <1>4, <3>4, <4>1 DEF OwnPart
      <4> HIDE DEF i, k
      <4>4. k \in Nat /\ k > 0 /\ i \in Nat /\ i > 0 /\ i >= k - 1 /\ below[t] < Len(Tail(s))
        <5> DEFINE n == Len(Tail(s))
                   l == Len(s)
                   b == below[t]
        <5>1. /\ n = l - 1 /\ l \in Nat /\ b \in Nat /\ b < l /\ n # b
              /\ k = l - b + 1 /\ i = n - b + 1
          BY <1>4, <3>1, <3>2, <4>2, <4>3
        <5> HIDE DEF n, l, b
        <5>2. k \in Nat /\ k > 0 /\ i \in Nat /\ i > 0 /\ i >= k - 1 /\ b < n
          BY ONLY <5>1
        <5> QED
          BY <5>2 DEF n, b
      <4>5. Tail(s)[Len(Tail(s)) - below[t]] = s[Len(s) - below[t]]
        <5> DEFINE j == Len(Tail(s)) - below[t]
        <5>1. j \in 1 .. Len(Tail(s)) /\ j + 1 = Len(s) - below[t]
          <6> DEFINE n == Len(Tail(s))
                     l == Len(s)
                     b == below[t]
          <6>1. n = l - 1 /\ l \in Nat /\ b \in Nat /\ b < n /\ j = n - b
            BY <1>4, <3>1, <4>4
          <6> HIDE DEF n, l, b, j
          <6>2. j \in 1 .. n /\ j + 1 = l - b
            BY ONLY <6>1
          <6> QED
            BY <6>2 DEF n, l, b
        <5> HIDE DEF j
        <5>2. \A x \in 1 .. Len(Tail(s)) : Tail(s)[x] = s[x + 1]
          BY <1>4
        <5>3. Tail(s)[j] = s[j + 1]
          BY ONLY <5>1, <5>2
        <5> QED
          BY <5>1, <5>3 DEF j
      <4> QED
        BY <1>4, <3>1, <4>1, <4>4, <4>5 DEF HandlerInv
    <3> QED
      BY <3>3, <3>4
  <2> QED
    BY <2>1, <2>2
<1> HIDE DEF k, i
<1>7. /\ \A m \in Mutexes : Becomes(s[1], m, h[1][m], h[2][m])
      /\ h[1] \in [Mutexes -> Nat] /\ h[2] \in [Mutexes -> Nat]
      /\ \E g \in Heights(Tail(s)) : g[1] = h[2] /\ Ordered(Tail(s), g, {}, i)
  BY <1>2, <1>3, <1>6, TailHeights
<1>8. h[2] = Own(t)'
  <2>1. ASSUME NEW m \in Mutexes PROVE h[2][m] = Own(t)'[m]
    <3>1. Becomes(s[1], m, h[1][m], h[2][m]) /\ Becomes(s[1], m, h[1][m], Own(t)'[m])
      BY <1>3, <1>7 DEF s
    <3>2. h[1][m] \in Nat /\ h[2][m] \in Nat /\ Own(t)'[m] \in Nat
      BY <1>7
    <3> QED
      BY <3>1, <3>2 DEF Becomes
  <2> QED
    BY <1>7, <2>1
<1>9. ProgramInv(t)'
  BY <1>4, <1>7, <1>8 DEF ProgramInv, i
<1>10. LocksTypeOK'
  BY <1>4 DEF LocksTypeOK
<1>11. ASSUME NEW u \in Threads, u # t PROVE HandlerInv(u)' /\ ProgramInv(u)'
  BY <1>1, <1>4, <1>11, OthersKeep
<1> QED
  BY <1>6, <1>9, <1>10, <1>11 DEF LocksInv

\* A mutex is locked.
LEMMA LockKeeps ==
    ASSUME LocksInv, NEW t \in Threads, Lock(t)
    PROVE  LocksInv'
<1> DEFINE m == Wants(t)
           o == todo[t][1]
<1>1. /\ m # None /\ Free(t, m)
      /\ owner' = [owner EXCEPT ![m] = t]
      /\ depth' = [depth EXCEPT ![m] = @ + 1]
      /\ todo' = [todo EXCEPT ![t] = Tail(todo[t])]
      /\ kept' = IF Head(todo[t]).op = "take" THEN kept \cup {m} ELSE kept
      /\ below' = below
  BY DEF Lock
<1>2. LocksTypeOK
  BY DEF LocksInv
<1>3. /\ todo[t] # <<>> /\ o.op # "unlock" /\ m = o.on /\ m \in Mutexes /\ Head(todo[t]) = o
      /\ o.op = "take" => m \in Lists
      /\ o.op # "take" => o.op = "lock"
  <2>1. todo[t] # <<>> /\ Head(todo[t]).op # "unlock" /\ m = Head(todo[t]).on
    BY <1>1 DEF Wants
  <2>2. todo[t] \in Seq(Ops)
    BY <1>2 DEF LocksTypeOK
  <2>3. Head(todo[t]) = o /\ o \in Ops
    BY <2>1, <2>2
  <2>4. Lists \subseteq Mutexes
    BY DEF Lists, Mutexes
  <2> QED
    BY <2>1, <2>3, <2>4 DEF Ops
<1> HIDE DEF m, o
<1>4. (owner[m] = None \/ owner[m] = t) /\ m \notin kept
  <2>1. owner[m] = None \/ (m \in Recursive /\ owner[m] = t)
    BY <1>1 DEF Free
  <2>2. kept \subseteq Lists /\ \A n \in kept : owner[n] # None
    BY <1>2 DEF LocksTypeOK
  <2> QED
    BY <2>1, <2>2 DEF Recursive, Lists
<1>5. /\ owner \in [Mutexes -> Threads \cup {None}] /\ depth \in [Mutexes -> Nat]
      /\ \A n \in Mutexes : owner[n] = None <=> depth[n] = 0
      /\ None \notin Threads
  BY <1>2, LocksAssumption DEF LocksTypeOK
<1>6. /\ owner'[m] = t /\ depth'[m] = depth[m] + 1 /\ depth[m] \in Nat
      /\ \A n \in Mutexes \ {m} : owner'[n] = owner[n] /\ depth'[n] = depth[n]
      /\ owner' \in [Mutexes -> Threads \cup {None}] /\ depth' \in [Mutexes -> Nat]
  BY <1>1, <1>3, <1>5
<1>7. \A n \in Mutexes : owner'[n] = None <=> depth'[n] = 0
  BY <1>5, <1>6
<1>8. \A u \in Threads \ {t} : \A n \in Mutexes :
         /\ owner'[n] = u <=> owner[n] = u
         /\ owner[n] = u => (depth'[n] = depth[n] /\ (n \in kept' <=> n \in kept))
  <2>1. \A n \in Mutexes \ {m} : n \in kept' <=> n \in kept
    BY <1>1
  <2> QED
    BY <1>4, <1>5, <1>6, <2>1
<1>9. Own(t)' \in [Mutexes -> Nat]
  BY <1>6 DEF Own
<1>10. ASSUME NEW n \in Mutexes PROVE Becomes(o, n, Own(t)[n], Own(t)'[n])
  <2>1. /\ Own(t)[n] = (IF owner[n] = t /\ n \notin kept THEN depth[n] ELSE 0)
        /\ Own(t)'[n] = (IF owner'[n] = t /\ n \notin kept' THEN depth'[n] ELSE 0)
    BY DEF Own
  <2>2. CASE n = m /\ o.op = "lock"
    <3>1. kept' = kept
      BY <1>1, <1>3, <2>2
    <3>2. Own(t)[n] = depth[m] /\ Own(t)'[n] = depth[m] + 1
      BY <1>4, <1>5, <1>6, <2>1, <2>2, <3>1
    <3> QED
      BY <1>3, <2>2, <3>2 DEF Becomes
  <2>3. CASE n = m /\ o.op = "take"
    <3>1. n \in kept' /\ n \notin Recursive
      BY <1>1, <1>3, <2>3 DEF Recursive, Lists
    <3>2. owner[n] = None
      BY <1>1, <2>3, <3>1 DEF Free
    <3>3. Own(t)[n] = 0 /\ Own(t)'[n] = 0
      BY <1>5, <2>1, <3>1, <3>2
    <3> QED
      BY <2>3, <3>3 DEF Becomes
  <2>4. CASE n # m
    <3>1. n \in kept' <=> n \in kept
      BY <1>1, <2>4
    <3> QED
      BY <1>3, <1>6, <2>1, <2>4, <3>1 DEF Becomes
  <2> QED
    BY <1>3, <2>2, <2>3, <2>4
<1>11. /\ below' \in [Threads -> Nat \cup {None}]
       /\ below'[t] = (IF Head(todo[t]).op = "unlock" /\ Len(Tail(todo[t])) = below[t]
                       THEN None ELSE below[t])
       /\ \A u \in Threads \ {t} : below'[u] = below[u]
  BY <1>1, <1>2, <1>3 DEF LocksTypeOK
<1>12. /\ todo[t] # <<>> /\ todo' = [todo EXCEPT ![t] = Tail(todo[t])]
       /\ \A n \in Mutexes : Becomes(todo[t][1], n, Own(t)[n], Own(t)'[n])
  BY <1>1, <1>3, <1>10 DEF o
<1>13. kept' \subseteq Lists /\ \A n \in kept' : owner'[n] # None
  <2>1. kept \subseteq Lists /\ \A n \in kept : owner[n] # None
    BY <1>2 DEF LocksTypeOK
  <2>2. kept' \subseteq kept \cup {m} /\ kept' \subseteq Lists /\ Lists \subseteq Mutexes
    BY <1>1, <1>3, <2>1 DEF Lists, Mutexes
  <2>3. owner'[m] # None
    BY <1>5, <1>6
  <2> QED
    BY <1>6, <2>1, <2>2, <2>3
<1> QED
  BY ONLY LocksInv, t \in Threads, <1>6, <1>7, <1>8, <1>9, <1>11, <1>12, <1>13, StepKeeps

\* A mutex is unlocked, by the thread that owns it.
LEMMA UnlockKeeps ==
    ASSUME LocksInv, NEW t \in Threads, Unlock(t)
    PROVE  LocksInv' /\ owner[Head(todo[t]).on] = t
<1> DEFINE o == todo[t][1]
           m == Head(todo[t]).on
<1>1. /\ todo[t] # <<>> /\ Head(todo[t]).op = "unlock"
      /\ depth' = [depth EXCEPT ![m] = @ - 1]
      /\ owner' = [owner EXCEPT ![m] = IF depth[m] = 1 THEN None ELSE t]
      /\ todo' = [todo EXCEPT ![t] = Tail(todo[t])]
      /\ below' = [below EXCEPT ![t] = IF Len(Tail(todo[t])) = @ THEN None ELSE @]
      /\ kept' = kept
  BY DEF Unlock
<1>2. LocksTypeOK /\ ProgramInv(t)
  BY DEF LocksInv
<1>3. o.op = "unlock" /\ m = o.on /\ m \in Mutexes /\ Head(todo[t]) = o /\ todo[t] \in Seq(Ops)
      /\ Len(todo[t]) > 0
  <2>1. todo[t] \in Seq(Ops)
    BY <1>2 DEF LocksTypeOK
  <2>2. Head(todo[t]) = o /\ o \in Ops /\ Len(todo[t]) > 0
    BY <1>1, <2>1
  <2> QED
    BY <1>1, <2>1, <2>2 DEF Ops
<1> HIDE DEF m, o
<1>4. /\ owner \in [Mutexes -> Threads \cup {None}] /\ depth \in [Mutexes -> Nat]
      /\ \A n \in Mutexes : owner[n] = None <=> depth[n] = 0
      /\ None \notin Threads
  BY <1>2, LocksAssumption DEF LocksTypeOK
<1>5. Own(t)[m] > 0
  <2>1. PICK h \in Heights(todo[t]) : h[1] = Own(t)
    BY <1>2 DEF ProgramInv
  <2>2. 1 \in 1 .. Len(todo[t]) /\ 2 \in 1 .. (Len(todo[t]) + 1)
    BY <1>3
  <2>3. Becomes(o, m, h[1][m], h[1 + 1][m]) /\ h[2] \in [Mutexes -> Nat]
    BY <1>3, <2>2 DEF Heights, o
  <2>4. h[2][m] \in Nat /\ h[1][m] = h[2][m] + 1
    BY <1>3, <2>3 DEF Becomes
  <2> QED
    BY <2>1, <2>4
<1>6. owner[m] = t /\ m \notin kept /\ depth[m] \in Nat /\ depth[m] > 0
  BY <1>3, <1>4, <1>5 DEF Own
<1>7. /\ owner'[m] = (IF depth[m] = 1 THEN None ELSE t) /\ depth'[m] = depth[m] - 1
      /\ \A n \in Mutexes \ {m} : owner'[n] = owner[n] /\ depth'[n] = depth[n]
      /\ owner' \in [Mutexes -> Threads \cup {None}] /\ depth' \in [Mutexes -> Nat]
  BY <1>1, <1>3, <1>4, <1>6
<1>8. \A n \in Mutexes : owner'[n] = None <=> depth'[n] = 0
  BY <1>4, <1>6, <1>7
<1>9. \A u \in Threads \ {t} : \A n \in Mutexes :
         /\ owner'[n] = u <=> owner[n] = u
         /\ owner[n] = u => (depth'[n] = depth[n] /\ (n \in kept' <=> n \in kept))
  BY <1>1, <1>4, <1>6, <1>7
<1>10. Own(t)' \in [Mutexes -> Nat]
  BY <1>7 DEF Own
<1>11. ASSUME NEW n \in Mutexes PROVE Becomes(o, n, Own(t)[n], Own(t)'[n])
  <2>1. /\ Own(t)[n] = (IF owner[n] = t /\ n \notin kept THEN depth[n] ELSE 0)
        /\ Own(t)'[n] = (IF owner'[n] = t /\ n \notin kept THEN depth'[n] ELSE 0)
    BY <1>1 DEF Own
  <2>2. CASE n = m
    <3>1. Own(t)[n] = depth[m] /\ Own(t)'[n] = depth[m] - 1
      BY <1>4, <1>6, <1>7, <2>1, <2>2
    <3> QED
      BY <1>3, <1>6, <2>2, <3>1 DEF Becomes
  <2>3. CASE n # m
    BY <1>3, <1>7, <2>1, <2>3 DEF Becomes
  <2> QED
    BY <2>2, <2>3
<1>12. /\ below' \in [Threads -> Nat \cup {None}]
       /\ below'[t] = (IF Head(todo[t]).op = "unlock" /\ Len(Tail(todo[t])) = below[t]
                       THEN None ELSE below[t])
       /\ \A u \in Threads \ {t} : below'[u] = below[u]
  BY <1>1, <1>2 DEF LocksTypeOK
<1>13. /\ todo[t] # <<>> /\ todo' = [todo EXCEPT ![t] = Tail(todo[t])]
       /\ \A n \in Mutexes : Becomes(todo[t][1], n, Own(t)[n], Own(t)'[n])
  BY <1>1, <1>11 DEF o
<1>14. kept' \subseteq Lists /\ \A n \in kept' : owner'[n] # None
  <2>1. kept \subseteq Lists /\ \A n \in kept : owner[n] # None
    BY <1>2 DEF LocksTypeOK
  <2>2. m \notin kept /\ Lists \subseteq Mutexes
    BY <1>6 DEF Lists, Mutexes
  <2> QED
    BY <1>1, <1>7, <2>1, <2>2
<1>15. LocksInv'
  BY ONLY LocksInv, t \in Threads, <1>7, <1>8, <1>9, <1>10, <1>12, <1>13, <1>14, StepKeeps
<1> QED
  BY <1>6, <1>15 DEF m

\* Nobody holds a mutex at the start.
LEMMA LocksInit == Init => LocksInv
<1> SUFFICES ASSUME Init PROVE LocksInv
  OBVIOUS
<1>1. LocksTypeOK
  BY DEF Init, LocksTypeOK
<1>2. ASSUME NEW t \in Threads PROVE HandlerInv(t) /\ ProgramInv(t)
  <2>1. todo[t] = <<>> /\ below[t] = None
    BY DEF Init
  <2>2. Own(t) = Zero
    BY DEF Init, Own, Zero
  <2>3. \E h \in Heights(<<>>) : h[1] = Zero /\ Ordered(<<>>, h, {}, 1)
    BY NothingNested DEF WellNested
  <2> QED
    BY <2>1, <2>2, <2>3 DEF HandlerInv, ProgramInv, OwnPart
<1> QED
  BY <1>1, <1>2 DEF LocksInv

\* Every step keeps the invariant.
LEMMA LocksStep == LocksInv /\ [Next]_vars => LocksInv'
<1> SUFFICES ASSUME LocksInv, [Next]_vars PROVE LocksInv'
  OBVIOUS
<1>1. CASE Next
  <2>1. PICK t \in Threads : Begin(t) \/ Lock(t) \/ Unlock(t) \/ Signal(t)
    BY <1>1 DEF Next
  <2> QED
    BY <2>1, BeginKeeps, LockKeeps, UnlockKeeps, SignalKeeps
<1>2. CASE UNCHANGED vars
  BY <1>2 DEF vars, LocksInv, LocksTypeOK, HandlerInv, ProgramInv, OwnPart, Own
<1> QED
  BY <1>1, <1>2

-----------------------------------------------------------------------------
(* The theorems.                                                           *)

\* The inductive invariant: at any point of any thread, interrupted or not,
\* what it holds is what the rest of its program unlocks.
THEOREM LocksAlwaysSound == Spec => []LocksInv
  BY LocksInit, LocksStep, PTL DEF Spec

\* In a circle of waiting threads without a signal handler, without a mutex that
\* was kept, and without a flush unless the thread waits for itself, whoever is waited for waits for a mutex
\* of a higher rank.
LEMMA RanksGrow ==
    ASSUME LocksInv, NEW T \in SUBSET Threads, CircularWait(T),
           \A t \in T : /\ ~ InHandler(t) /\ Wants(t) \notin kept
                       /\ ~ (InFlush(t) /\ Cardinality(T) > 1),
           NEW t \in T
    PROVE  owner[Wants(t)] \in T /\ Rank(Wants(t)) < Rank(Wants(owner[Wants(t)]))
<1> DEFINE n == Wants(t)
           u == owner[n]
           m == Wants(u)
<1>1. LocksTypeOK /\ \A x \in Threads : HandlerInv(x) /\ ProgramInv(x)
  BY DEF LocksInv
<1>2. u \in T /\ u \in Threads /\ m # None /\ ~ Free(u, m) /\ below[u] = None
      /\ n # None /\ t \in Threads
  BY DEF CircularWait, Blocked, InHandler
<1>3. ASSUME NEW x \in Threads, Wants(x) # None
      PROVE  /\ todo[x] \in Seq(Ops) /\ Len(todo[x]) > 0
             /\ todo[x][1].op # "unlock" /\ todo[x][1].on = Wants(x) /\ Wants(x) \in Mutexes
  <2>1. todo[x] # <<>> /\ Head(todo[x]).op # "unlock" /\ Wants(x) = Head(todo[x]).on
    BY <1>3 DEF Wants
  <2>2. todo[x] \in Seq(Ops)
    BY <1>1 DEF LocksTypeOK
  <2>3. Head(todo[x]) = todo[x][1] /\ todo[x][1] \in Ops /\ Len(todo[x]) > 0
    BY <2>1, <2>2
  <2>4. Lists \subseteq Mutexes
    BY DEF Lists, Mutexes
  <2> QED
    BY <2>1, <2>2, <2>3, <2>4 DEF Ops
<1>4. n \in Mutexes /\ m \in Mutexes
  BY <1>2, <1>3
<1>5. PICK h \in Heights(todo[u]) : h[1] = Own(u) /\ Ordered(todo[u], h, {}, 1)
  BY <1>1, <1>2 DEF ProgramInv, OwnPart
<1> HIDE DEF n, m, u
<1>6. owner[n] = u /\ n \notin kept /\ None \notin Threads
  BY LocksAssumption DEF u, n
<1>7. Own(u)[n] > 0 /\ (Own(u)["retrier"] > 0 => InFlush(u))
  <2>1. depth[n] \in Nat /\ depth[n] # 0
    BY <1>1, <1>2, <1>4, <1>6 DEF LocksTypeOK
  <2>2. Own(u)[n] = depth[n]
    BY <1>4, <1>6 DEF Own
  <2>3. Own(u)["retrier"] = IF owner["retrier"] = u /\ "retrier" \notin kept
                            THEN depth["retrier"] ELSE 0
    BY DEF Own, Mutexes
  <2> QED
    BY <2>1, <2>2, <2>3 DEF InFlush
<1>8. MayLock(n, m, InFlush(u))
  <2>1. todo[u][1].op # "unlock" /\ todo[u][1].on = m /\ Len(todo[u]) > 0 /\ Len(todo[u]) \in Nat
    BY <1>2, <1>3 DEF m
  <2>2. 1 \in 1 .. Len(todo[u])
    BY <2>1
  <2>3. MayLock(n, m, h[1]["retrier"] > 0 \/ "retrier" \in {})
    BY <1>4, <1>5, <1>7, <2>1, <2>2 DEF Ordered
  <2> QED
    BY <1>5, <1>7, <2>3 DEF MayLock
<1>9. ~ (n = m /\ n \in Recursive)
  BY <1>2, <1>6 DEF Free
<1>10. ~ (InFlush(u) /\ n # m)
  <2>1. SUFFICES ASSUME InFlush(u), n # m PROVE FALSE
    BY <2>1
  <2>2. t # u
    BY <2>1 DEF n, m
  <2>3. IsFiniteSet(T) /\ ~ (Cardinality(T) > 1) /\ Cardinality(T) \in Nat
    <3>1. IsFiniteSet(T)
      BY LocksAssumption, FS_Subset
    <3> QED
      BY <1>2, <2>1, <3>1, FS_CardinalityType
  <2>4. {t, u} \in SUBSET T
    BY <1>2
  <2>5. Cardinality({t} \cup {u}) = Cardinality({t}) + 1 /\ Cardinality({t}) = 1 /\ IsFiniteSet({t})
    BY <2>2, FS_Singleton, FS_AddElement
  <2>6. {t, u} = {t} \cup {u}
    OBVIOUS
  <2>7. Cardinality({t, u}) <= Cardinality(T)
    BY <2>3, <2>4, FS_Subset
  <2> QED
    BY <2>3, <2>5, <2>6, <2>7
<1>11. Rank(n) < Rank(m)
  BY <1>8, <1>9, <1>10 DEF MayLock
<1> QED
  BY <1>2, <1>11 DEF n, m, u

\* Threads wait for each other in a circle, whatever number of them is at work,
\* only if one of them flushes the Retrier, whose Flush calls TaskRestart with
\* the mutex of the list held (Scheduler.cpp:97-138), was interrupted by a
\* signal whose handler locks mutexes (evqueue.cpp:63-93), or waits for the
\* mutex of an event list that a retry_thread did not unlock
\* (Scheduler.cpp:193, 204 and 215): the other mutexes are always locked in the
\* order of Rank, and are unlocked again.
THEOREM LockOrder == Spec => []CirclesAreKnown
<1>1. LocksInv => CirclesAreKnown
  <2> SUFFICES ASSUME LocksInv, NEW T \in SUBSET Threads, CircularWait(T),
                      \A t \in T : /\ ~ InHandler(t) /\ Wants(t) \notin kept
                                  /\ ~ (InFlush(t) /\ Cardinality(T) > 1)
               PROVE  FALSE
    BY DEF CirclesAreKnown
  <2> DEFINE next(t) == owner[Wants(t)]
             r(t) == Rank(Wants(t))
  <2>1. \A t \in T : next(t) \in T /\ r(t) < r(next(t))
    BY RanksGrow
  <2>2. \A t \in T : r(t) \in 0 .. 2
    BY DEF Rank
  <2>3. PICK t \in T : TRUE
    BY DEF CircularWait
  <2> HIDE DEF next, r
  <2>4. r(t) >= 0 /\ r(next(t)) >= 1 /\ r(next(next(t))) >= 2 /\ r(next(next(next(t)))) >= 3
    BY <2>1, <2>2, <2>3
  <2> QED
    BY <2>1, <2>2, <2>3, <2>4
<1> QED
  BY <1>1, LocksAlwaysSound, PTL
=============================================================================
