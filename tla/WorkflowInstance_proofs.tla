----------------------- MODULE WorkflowInstance_proofs -----------------------
(***************************************************************************)
(* Theorems about a workflow instance, for every document, every outcome   *)
(* of its tasks and any number of restarts: the counters match the tasks,  *)
(* the instance is deleted once and nothing is left of it then, jobs run   *)
(* in the order of the document, the row is current, failed tasks are      *)
(* executed as often as their policy says, and success means that all is   *)
(* done.                                                                   *)
(***************************************************************************)
EXTENDS WorkflowInstance, Lists_proofs

-----------------------------------------------------------------------------
(* The inductive invariant, in parts.                                      *)

Statuses == {"none", "QUEUED", "EXECUTING", "TERMINATED", "ABORTED"}

\* The instances; that no counter goes below 0 is a consequence of
\* CountersMatch.
InstanceType ==
    [status : [Tasks -> Statuses], retval : [Tasks -> Retvals \cup {0}],
     level : [Tasks -> Nat],
     delay : [Tasks -> Nat \cup {Absent}], times : [Tasks -> Nat \cup {Absent}],
     present : SUBSET Tasks, skipped : SUBSET Jobs,
     wf : {"NEW", "EXECUTING", "TERMINATED"},
     running_tasks : Int, retrying_tasks : Int, error_tasks : Nat,
     is_cancelling : BOOLEAN, pool : SUBSET Tasks, retrier : SUBSET Tasks]

\* The tasks that running_tasks is about, and what the counters say; n more are
\* counted in the middle of an operation.
Active(w) == {t \in Tasks : w.status[t] \in {"QUEUED", "EXECUTING"}}

Counted(w, n) ==
    /\ w.running_tasks = Cardinality(Active(w)) + n
    /\ w.retrying_tasks = Cardinality(w.retrier)
    /\ w.pool = {t \in Tasks : w.status[t] = "QUEUED"}

\* Templates of loops are never run, and a task that is or was run is in the
\* document.
InDocument(w) ==
    /\ \A t \in Tasks : t \notin CloneTasks \cup LoopedTasks => t \in w.present
    /\ \A t \in Tasks : w.status[t] \in {"QUEUED", "EXECUTING", "TERMINATED"} =>
          t \in w.present /\ t \notin LoopedTasks

\* The Retrier holds tasks that have failed.
RetriesFailed(w) == \A t \in w.retrier : w.status[t] = "TERMINATED" /\ w.retval[t] # 0

\* The job has tasks, and all have succeeded.
Succeeded(w, job) == (\E t \in w.present : JobOf[t] = job) /\ JobSucceeded(w, job)

\* A task is touched only when the job above its own has succeeded, or, at the
\* root, when the instance has been started.
InOrder(w) ==
    \A t \in Tasks : w.status[t] # "none" =>
        /\ \E job \in Jobs : t \in TasksBelow(job)
        /\ \A job \in Jobs : t \in TasksBelow(job) =>
              IF job = Root THEN w.wf # "NEW" ELSE Succeeded(w, job)

Sound(w) == w \in InstanceType /\ InDocument(w) /\ RetriesFailed(w) /\ InOrder(w)

InstanceInv == Sound(wi) /\ Counted(wi, 0) /\ NothingAfterTheEnd /\ SavedIsCurrent

-----------------------------------------------------------------------------
(* The document.                                                           *)

\* FlattenSeq appends one sequence after the other.
LEMMA FlattenUnfolds ==
    ASSUME NEW S, NEW seqs \in Seq(Seq(S)), Len(seqs) # 0
    PROVE  \E g \in [1 .. Len(seqs) -> Seq(S)] :
              /\ g[1] = seqs[1]
              /\ \A i \in 1 .. Len(seqs) : i # 1 => g[i] = g[i - 1] \o seqs[i]
              /\ FlattenSeq(seqs) = g[Len(seqs)]
<1> DEFINE n == Len(seqs)
           F == [p \in (1 .. n) \X Seq(S) |-> p[2] \o seqs[p[1]]]
<1>1. n \in Nat /\ 1 \in Nat /\ 1 \in 1 .. n /\ seqs[1] \in Seq(S)
  OBVIOUS
<1>2. F \in [(1 .. n) \X Seq(S) -> Seq(S)]
  OBVIOUS
<1>3. FlattenSeq(seqs) = (CHOOSE g : g = [i \in 1 .. n |-> IF i = 1 THEN seqs[i]
                                                          ELSE g[i - 1] \o seqs[i]])[n]
  BY DEF FlattenSeq
<1>4. \A i \in 1 .. n : seqs[i] \in Seq(S)
  OBVIOUS
<1>5. ASSUME NEW i \in 1 .. n, i # 1, NEW x \in Seq(S) PROVE F[<<i, x>>] = x \o seqs[i]
  BY <1>5
<1> HIDE DEF n, F
<1> DEFINE Eq2(g) == g = [i \in 1 .. n |-> IF i = 1 THEN seqs[i] ELSE g[i - 1] \o seqs[i]]
           flatten == CHOOSE g : Eq2(g)
<1>6. PICK h : Solves(h, 1, n, seqs[1], F)
  BY <1>1, <1>2, RecursionExists
<1>7. h \in [1 .. n -> Seq(S)]
  BY <1>1, <1>2, <1>6, RecursionType
<1>8. \A i \in 1 .. n : i # 1 => i - 1 \in 1 .. n
  BY <1>1
<1>9. Eq2(h)
  BY <1>5, <1>6, <1>7, <1>8 DEF Solves
<1>10. Eq2(flatten)
  BY <1>9
<1>11. FlattenSeq(seqs) = flatten[n]
  BY <1>3
<1> HIDE DEF flatten
<1>12. flatten[1] = seqs[1] /\ \A i \in 1 .. n : i # 1 => flatten[i] = flatten[i - 1] \o seqs[i]
  BY <1>1, <1>10
<1>13. \A i \in 1 .. n : flatten[i] \in Seq(S)
  <2> DEFINE Bad == {i \in 1 .. n : flatten[i] \notin Seq(S)}
  <2>1. SUFFICES ASSUME Bad # {} PROVE FALSE
    BY <2>1
  <2>2. Bad \in SUBSET Nat
    BY <1>1
  <2>3. PICK m \in Bad : \A k \in Bad : m <= k
    BY <2>1, <2>2, LeastNatural
  <2>4. m # 1
    BY <1>1, <1>12, <2>3
  <2>5. m \in 1 .. n /\ m - 1 \in 1 .. n /\ m - 1 \notin Bad
    BY <1>1, <2>3, <2>4
  <2>6. flatten[m - 1] \in Seq(S) /\ seqs[m] \in Seq(S)
    BY <1>4, <2>5
  <2>7. flatten[m - 1] \o seqs[m] \in Seq(S)
    BY <2>6
  <2> QED
    BY <1>12, <2>3, <2>4, <2>5, <2>7
<1>14. flatten \in [1 .. n -> Seq(S)]
  BY <1>10, <1>13
<1> QED
  BY <1>11, <1>12, <1>14 DEF n

\* Flattening sequences over a set gives a sequence over the set.
LEMMA FlattenType ==
    ASSUME NEW S, NEW seqs \in Seq(Seq(S))
    PROVE  FlattenSeq(seqs) \in Seq(S)
<1>1. CASE Len(seqs) = 0
  BY <1>1 DEF FlattenSeq
<1>2. CASE Len(seqs) # 0
  <2>1. Len(seqs) \in 1 .. Len(seqs)
    BY <1>2
  <2>2. PICK g \in [1 .. Len(seqs) -> Seq(S)] : FlattenSeq(seqs) = g[Len(seqs)]
    BY <1>2, FlattenUnfolds
  <2> QED
    BY ONLY <2>1, <2>2
<1> QED
  BY <1>1, <1>2

\* matching_nodes_index is a natural number, 0 at first and the same after a
\* template that is not looped.
IndexFacts(templates, looped) ==
    /\ \A k \in 0 .. Len(templates) : NodesIndex(templates, looped, k) \in Nat
    /\ NodesIndex(templates, looped, 0) = 0
    /\ \A k \in 1 .. Len(templates) : templates[k] \notin looped =>
          NodesIndex(templates, looped, k) = NodesIndex(templates, looped, k - 1)

\* So it is, whatever is looped.
LEMMA NodesIndexFacts ==
    ASSUME NEW T, NEW looped, NEW templates \in Seq(T),
           \A l \in looped : Len(Clones[l]) \in Nat
    PROVE  IndexFacts(templates, looped)
<1> DEFINE n == Len(templates)
           F == [p \in (0 .. n) \X Nat |->
                   IF templates[p[1]] \in looped
                   THEN 1 + (IF p[2] > Len(Clones[templates[p[1]]])
                             THEN p[2] ELSE Len(Clones[templates[p[1]]]))
                   ELSE p[2]]
           Eq2(g) == g = [i \in 0 .. n |->
                            IF i = 0 THEN 0
                            ELSE IF templates[i] \in looped
                                 THEN 1 + (IF g[i - 1] > Len(Clones[templates[i]])
                                           THEN g[i - 1] ELSE Len(Clones[templates[i]]))
                                 ELSE g[i - 1]]
           index == CHOOSE g : Eq2(g)
<1>1. n \in Nat /\ 0 \in Nat
  OBVIOUS
<1>2. F \in [(0 .. n) \X Nat -> Nat]
  OBVIOUS
<1>3. ASSUME NEW i \in 0 .. n, NEW x \in Nat
      PROVE  F[<<i, x>>] = IF templates[i] \in looped
                           THEN 1 + (IF x > Len(Clones[templates[i]])
                                     THEN x ELSE Len(Clones[templates[i]]))
                           ELSE x
  OBVIOUS
<1> HIDE DEF F, n
<1>4. PICK h : Solves(h, 0, n, 0, F)
  BY <1>1, <1>2, RecursionExists
<1>5. h \in [0 .. n -> Nat]
  BY <1>1, <1>2, <1>4, RecursionType
<1>6. \A i \in 0 .. n : i # 0 => i - 1 \in 0 .. n
  BY <1>1
<1>7. Eq2(h)
  <2>1. \A i \in 0 .. n : h[i] = IF i = 0 THEN 0 ELSE F[<<i, h[i - 1]>>]
    BY <1>4 DEF Solves
  <2>2. ASSUME NEW i \in 0 .. n, i # 0
        PROVE  h[i] = IF templates[i] \in looped
                      THEN 1 + (IF h[i - 1] > Len(Clones[templates[i]])
                                THEN h[i - 1] ELSE Len(Clones[templates[i]]))
                      ELSE h[i - 1]
    <3>1. h[i - 1] \in Nat
      BY <1>5, <1>6, <2>2
    <3>2. h[i] = F[<<i, h[i - 1]>>]
      BY <2>1, <2>2
    <3> QED
      BY <1>3, <3>1, <3>2
  <2> QED
    BY <1>5, <2>1, <2>2
<1>8. Eq2(index)
  BY <1>7
<1>9. \A i \in 0 .. n : index[i] \in Nat
  <2> DEFINE Bad == {i \in 0 .. n : index[i] \notin Nat}
  <2> HIDE DEF index
  <2>1. SUFFICES ASSUME Bad # {} PROVE FALSE
    BY <2>1
  <2>2. Bad \in SUBSET Nat
    OBVIOUS
  <2>3. PICK m \in Bad : \A i \in Bad : m <= i
    BY <2>1, <2>2, LeastNatural
  <2>4. CASE m = 0
    BY <1>1, <1>8, <2>4
  <2>5. CASE m # 0
    <3>1. m \in 0 .. n /\ m - 1 \in 0 .. n /\ m - 1 \notin Bad
      BY <1>1, <2>3, <2>5
    <3>2. index[m - 1] \in Nat
      BY <3>1
    <3>3. index[m] \in Nat
      BY <1>8, <2>5, <3>1, <3>2
    <3> QED
      BY <2>3, <3>3
  <2> QED
    BY <2>4, <2>5
<1>10. \A k : NodesIndex(templates, looped, k) = index[k]
  BY DEF NodesIndex, n
<1> HIDE DEF index
<1>11. index[0] = 0 /\ \A k \in 1 .. n : templates[k] \notin looped => index[k] = index[k - 1]
  BY <1>1, <1>8
<1> QED
  BY <1>9, <1>10, <1>11 DEF n, IndexFacts

\* A sequence is one over the set of its elements.
LEMMA SequenceRange ==
    ASSUME NEW S, NEW s \in Seq(S)
    PROVE  /\ s \in Seq(ToSet(s)) /\ ToSet(s) \in SUBSET S
           /\ \A x : x \in ToSet(s) <=> \E i \in 1 .. Len(s) : x = s[i]
<1>1. DOMAIN s = 1 .. Len(s) /\ Len(s) \in Nat /\ \A i \in 1 .. Len(s) : s[i] \in S
  OBVIOUS
<1>2. \A x : x \in ToSet(s) <=> \E i \in 1 .. Len(s) : x = s[i]
  BY <1>1 DEF ToSet
<1> QED
  BY <1>1, <1>2

\* The nodes that a template is run for are the template or clones of it.
LEMMA NodesType ==
    ASSUME NEW T, NEW looped, NEW templates \in Seq(T),
           \A l \in looped : Clones[l] \in Seq(T),
           NEW k \in 1 .. Len(templates)
    PROVE  Nodes(templates, looped, k) \in
             Seq(IF templates[k] \in looped THEN ToSet(Clones[templates[k]]) ELSE {templates[k]})
<1>1. CASE templates[k] \notin looped
  BY <1>1 DEF Nodes
<1>2. CASE templates[k] \in looped
  <2> DEFINE c == Clones[templates[k]]
             from == NodesIndex(templates, looped, k - 1)
             S == ToSet(c)
  <2>1. c \in Seq(S) /\ Len(c) \in Nat
    BY <1>2, SequenceRange
  <2>2. \A l \in looped : Len(Clones[l]) \in Nat
    OBVIOUS
  <2>3. from \in Nat
    <3>1. k - 1 \in 0 .. Len(templates)
      OBVIOUS
    <3> QED
      BY <2>2, <3>1, NodesIndexFacts DEF IndexFacts
  <2>4. Nodes(templates, looped, k) = SubSeq(c, from + 1, Len(c))
    BY <1>2 DEF Nodes
  <2> HIDE DEF c, from, S
  <2>5. SubSeq(c, from + 1, Len(c)) \in Seq(S)
    <3>1. from + 1 \in Nat \ {0} /\ \A i \in from + 1 .. Len(c) : c[i] \in S
      BY <2>1, <2>3
    <3> QED
      BY <2>1, <2>3, <3>1
  <2> QED
    BY <1>2, <2>4, <2>5 DEF c, S
<1> QED
  BY <1>1, <1>2

\* The jobs and tasks below a job are jobs and tasks.
LEMMA BelowType ==
    /\ \A job \in Jobs : TasksIn(job) \in SUBSET Tasks
    /\ \A job \in Jobs : JobsBelow(job) \in SUBSET Jobs
    /\ \A job \in Jobs : TasksBelow(job) \in SUBSET Tasks
    /\ CloneTasks \in SUBSET (Tasks \ LoopedTasks)
<1>1. ASSUME NEW l \in LoopedTasks PROVE ToSet(Clones[l]) \in SUBSET (Tasks \ LoopedTasks)
  BY InstanceAssumption, SequenceRange
<1>2. ASSUME NEW l \in LoopedJobs PROVE ToSet(Clones[l]) \in SUBSET Jobs
  <2>1. Clones[l] \in Seq(Jobs \ LoopedJobs)
    BY InstanceAssumption
  <2> QED
    BY <2>1, SequenceRange
<1>3. ASSUME NEW job \in Jobs
      PROVE  ToSet(TasksOf[job]) \in SUBSET Tasks /\ ToSet(Subjobs[job]) \in SUBSET Jobs
  <2>1. TasksOf[job] \in Seq(Tasks) /\ Subjobs[job] \in Seq(Jobs)
    BY InstanceAssumption
  <2> QED
    BY <2>1, SequenceRange
<1>4. \A job \in Jobs : TasksIn(job) \in SUBSET Tasks
  BY <1>1, <1>3 DEF TasksIn
<1>5. \A job \in Jobs : JobsBelow(job) \in SUBSET Jobs
  BY <1>2, <1>3 DEF JobsBelow
<1>6. \A job \in Jobs : TasksBelow(job) \in SUBSET Tasks
  BY <1>4, <1>5 DEF TasksBelow
<1> QED
  BY <1>1, <1>4, <1>5, <1>6 DEF CloneTasks

\* The run of a job evaluates its tasks and the clones of its loops.
LEMMA RunType ==
    ASSUME NEW job \in Jobs
    PROVE  run(job) \in Seq(TasksIn(job))
<1> DEFINE ts == TasksOf[job]
           S == TasksIn(job)
           part == [k \in 1 .. Len(ts) |->
                      (IF ts[k] \in LoopedTasks THEN <<ts[k]>> ELSE <<>>)
                        \o Nodes(ts, LoopedTasks, k)]
<1>1. ts \in Seq(Tasks) /\ \A l \in LoopedTasks : Clones[l] \in Seq(Tasks)
  <2>1. \A l \in LoopedTasks : Clones[l] \in Seq(Tasks \ LoopedTasks)
    BY InstanceAssumption
  <2> QED
    BY <2>1, InstanceAssumption
<1>2. ASSUME NEW k \in 1 .. Len(ts)
      PROVE  /\ ts[k] \in S
             /\ ts[k] \in LoopedTasks => ToSet(Clones[ts[k]]) \in SUBSET S
  <2>1. ts[k] \in ToSet(ts)
    BY <1>1, SequenceRange
  <2> QED
    BY <2>1 DEF TasksIn
<1> HIDE DEF ts, S
<1>3. ASSUME NEW k \in 1 .. Len(ts) PROVE part[k] \in Seq(S)
  <2>1. Nodes(ts, LoopedTasks, k) \in
          Seq(IF ts[k] \in LoopedTasks THEN ToSet(Clones[ts[k]]) ELSE {ts[k]})
    BY <1>1, NodesType
  <2>2. Nodes(ts, LoopedTasks, k) \in Seq(S)
    BY <1>2, <2>1
  <2>3. (IF ts[k] \in LoopedTasks THEN <<ts[k]>> ELSE <<>>) \in Seq(S)
    BY <1>2
  <2> QED
    BY <2>2, <2>3
<1>4. part \in Seq(Seq(S))
  BY <1>1, <1>3
<1> HIDE DEF part
<1>5. FlattenSeq(part) \in Seq(S)
  BY <1>4, FlattenType
<1> QED
  BY <1>5 DEF run, part, ts, S

\* A pass over a job evaluates jobs below it and tasks of theirs.
LEMMA EvaluatedType ==
    ASSUME NEW job \in Jobs, NEW skip \in SUBSET Conditional
    PROVE  Evaluated[job][skip] \in Seq(JobsBelow(job) \cup TasksBelow(job))
<1> DEFINE js == Subjobs[job]
           S == JobsBelow(job) \cup TasksBelow(job)
           ran(k) == Nodes(js, LoopedJobs \ skip, k)
           runs(k) == [i \in 1 .. Len(ran(k)) |-> run(ran(k)[i])]
           part == [k \in 1 .. Len(js) |->
                      IF js[k] \in skip THEN <<js[k]>>
                      ELSE <<js[k]>> \o FlattenSeq(runs(k))]
<1>1. js \in Seq(Jobs) /\ \A l \in LoopedJobs \ skip : Clones[l] \in Seq(Jobs)
  <2>1. \A l \in LoopedJobs : Clones[l] \in Seq(Jobs \ LoopedJobs)
    BY InstanceAssumption
  <2> QED
    BY <2>1, InstanceAssumption
<1>2. ASSUME NEW k \in 1 .. Len(js)
      PROVE  /\ js[k] \in JobsBelow(job)
             /\ js[k] \in LoopedJobs \ skip => ToSet(Clones[js[k]]) \in SUBSET JobsBelow(job)
  <2>1. js[k] \in ToSet(js)
    BY <1>1, SequenceRange
  <2> QED
    BY <2>1 DEF JobsBelow
<1>3. ASSUME NEW j \in JobsBelow(job) PROVE run(j) \in Seq(S)
  <2>1. j \in Jobs
    BY BelowType
  <2>2. run(j) \in Seq(TasksIn(j))
    BY <2>1, RunType
  <2>3. TasksIn(j) \in SUBSET S
    BY DEF TasksBelow
  <2> QED
    BY <2>2, <2>3
<1>4. JobsBelow(job) \in SUBSET S
  OBVIOUS
<1> HIDE DEF js, S
<1>5. ASSUME NEW k \in 1 .. Len(js) PROVE part[k] \in Seq(S)
  <2>1. ran(k) \in Seq(IF js[k] \in LoopedJobs \ skip THEN ToSet(Clones[js[k]]) ELSE {js[k]})
    BY <1>1, NodesType
  <2>2. ran(k) \in Seq(JobsBelow(job))
    BY <1>2, <2>1
  <2> HIDE DEF ran
  <2>3. runs(k) \in Seq(Seq(S))
    BY <1>3, <2>2
  <2> HIDE DEF runs
  <2>4. FlattenSeq(runs(k)) \in Seq(S)
    BY <2>3, FlattenType
  <2>5. <<js[k]>> \in Seq(S)
    BY <1>2, <1>4
  <2> QED
    BY <2>4, <2>5
<1>6. part = [k \in 1 .. Len(js) |-> part[k]]
  OBVIOUS
<1> HIDE DEF part
<1>7. part \in Seq(Seq(S))
  <2>1. Len(js) \in Nat
    BY <1>1
  <2>2. [k \in 1 .. Len(js) |-> part[k]] \in Seq(Seq(S))
    BY <1>5, <2>1
  <2> QED
    BY <1>6, <2>2
<1>8. FlattenSeq(part) \in Seq(S)
  BY <1>7, FlattenType
<1>9. Evaluated[job][skip] = FlattenSeq(part)
  BY DEF Evaluated, part, js
<1> QED
  BY <1>8, <1>9 DEF S

\* What a pass over a job may enqueue, append to the document and expand, and
\* where it may fail.
PassOver(pass, w, job) ==
    /\ pass.enqueued \in SUBSET (TasksBelow(job) \ LoopedTasks)
    /\ \A t \in pass.enqueued : w.status[t] # "TERMINATED"
    /\ pass.enqueued \cap CloneTasks \in SUBSET pass.appended
    /\ pass.skipped \in SUBSET Jobs
    /\ pass.appended \in SUBSET TasksBelow(job)
    /\ pass.expanded \in SUBSET LoopedTasks
    /\ pass.failed \in Tasks => pass.failed \in TasksBelow(job)

\* What is evaluated before an exception has been evaluated.
LEMMA CutType ==
    ASSUME NEW S, NEW items \in Seq(S), NEW I \in SUBSET (1 .. Len(items)),
           NEW cut, cut = IF I # {} THEN Min(I) ELSE 0
    PROVE  ToSet(IF cut = 0 THEN items ELSE SubSeq(items, 1, cut - 1)) \in SUBSET ToSet(items)
<1>1. CASE I = {}
  BY <1>1
<1>2. CASE I # {}
  <2>1. I \in SUBSET Nat
    OBVIOUS
  <2>2. \E m \in I : \A k \in I : m <= k
    BY <1>2, <2>1, LeastNatural
  <2>3. Min(I) \in I
    BY <2>2 DEF Min
  <2>4. cut \in 1 .. Len(items)
    BY <1>2, <2>3
  <2>5. ASSUME NEW i \in 1 .. cut - 1 PROVE items[i] \in ToSet(items)
    <3>1. i \in 1 .. Len(items)
      BY <2>4
    <3> QED
      BY <3>1, SequenceRange
  <2>6. SubSeq(items, 1, cut - 1) \in Seq(ToSet(items))
    <3>1. 1 \in Int /\ cut - 1 \in Int
      BY <2>4
    <3> QED
      BY <2>5, <3>1, SubSeqProperties
  <2>7. ToSet(SubSeq(items, 1, cut - 1)) \in SUBSET ToSet(items)
    <3> DEFINE sub == SubSeq(items, 1, cut - 1)
               T == ToSet(items)
    <3>1. sub \in Seq(T)
      BY <2>6
    <3> HIDE DEF sub, T
    <3>2. ToSet(sub) \in SUBSET T
      BY <3>1, SequenceRange
    <3> QED
      BY <3>2 DEF sub, T
  <2> QED
    BY <2>4, <2>7
<1> QED
  BY <1>1, <1>2

\* Every pass that XPath makes possible is one over the job.
LEMMA PassesType ==
    ASSUME NEW w, NEW job \in Jobs, NEW pass \in Passes(w, job)
    PROVE  PassOver(pass, w, job)
<1>1. PICK skip \in SUBSET (Conditional \cap ToSet(Subjobs[job])) :
         pass \in {Pass(w, job, skip, fail) :
                     fail \in {None} \cup ((Fallible \cap ToSet(Evaluated[job][skip])) \ skip)}
  BY DEF Passes
<1>2. PICK fail \in {None} \cup ((Fallible \cap ToSet(Evaluated[job][skip])) \ skip) :
         pass = Pass(w, job, skip, fail)
  BY <1>1
<1> DEFINE items == Evaluated[job][skip]
           cut == SelectInSeq(items, LAMBDA x : x = fail)
           done == ToSet(IF cut = 0 THEN items ELSE SubSeq(items, 1, cut - 1))
           S == JobsBelow(job) \cup TasksBelow(job)
<1>3. items \in Seq(S)
  BY EvaluatedType
<1>4. done \in SUBSET ToSet(items)
  <2> DEFINE I == {i \in 1 .. Len(items) : items[i] = fail}
  <2> HIDE DEF items, S
  <2>1. cut = IF I # {} THEN Min(I) ELSE 0
    BY DEF SelectInSeq
  <2>2. I \in SUBSET (1 .. Len(items))
    OBVIOUS
  <2> HIDE DEF I, cut
  <2> QED
    BY <1>3, <2>1, <2>2, CutType
<1>5. ToSet(items) \in SUBSET S
  <2> HIDE DEF items, S
  <2> QED
    BY <1>3, SequenceRange
<1>6. /\ pass.enqueued = {t \in (done \cap Tasks) \ LoopedTasks : w.status[t] # "TERMINATED"}
      /\ pass.skipped = done \cap skip
      /\ pass.appended = (done \cup {fail}) \cap CloneTasks
      /\ pass.expanded = {t \in done \cap LoopedTasks : fail \notin ToSet(Clones[t])}
      /\ pass.failed = fail
  BY <1>2 DEF Pass
<1> HIDE DEF items, cut, done
<1>7. /\ \A t \in Tasks : t \in S => t \in TasksBelow(job)
      /\ CloneTasks \in SUBSET Tasks /\ None \notin Tasks
      /\ Conditional \in SUBSET Jobs
  BY InstanceAssumption, BelowType
<1>8. done \in SUBSET S /\ (fail \in Tasks => fail \in S)
  BY <1>2, <1>4, <1>5, <1>7 DEF items
<1> HIDE DEF S
<1> QED
  BY <1>1, <1>6, <1>7, <1>8 DEF PassOver

\* The document is a tree, in terms of JobOf.
LEMMA TreeFacts ==
    /\ \A j, k \in Jobs : \A t \in TasksBelow(j) : t \in TasksBelow(k) => j = k
    /\ \A j \in Jobs : \A t \in TasksBelow(j) :
          JobOf[t] \in Jobs /\ JobOf[t] # j /\ JobOf[t] # Root
    /\ \A j, k \in Jobs : \A t \in TasksBelow(j) : \A u \in TasksBelow(k) :
          JobOf[t] = JobOf[u] => j = k
<1>1. ASSUME NEW j \in Jobs, NEW t \in TasksBelow(j)
      PROVE  JobOf[t] \in JobsBelow(j) /\ t \in TasksIn(JobOf[t]) /\ JobOf[t] \in Jobs
  <2>1. PICK k \in JobsBelow(j) : t \in TasksIn(k)
    BY DEF TasksBelow
  <2>2. k \in Jobs /\ t \in Tasks
    BY <2>1, BelowType
  <2>3. \A i \in Jobs : t \in TasksIn(i) => i = k
    BY <2>1, <2>2, DocumentAssumption
  <2>4. JobOf[t] = k
    BY <2>1, <2>2, <2>3 DEF JobOf
  <2> QED
    BY <2>1, <2>2, <2>4
<1>2. ASSUME NEW j \in Jobs, NEW k \in Jobs, NEW t \in TasksBelow(j), NEW u \in TasksBelow(k),
             JobOf[t] = JobOf[u]
      PROVE  j = k
  BY <1>1, <1>2, DocumentAssumption
<1>3. ASSUME NEW j \in Jobs, NEW t \in TasksBelow(j)
      PROVE  JobOf[t] \in Jobs /\ JobOf[t] # j /\ JobOf[t] # Root
  BY <1>1, DocumentAssumption
<1> QED
  BY <1>2, <1>3

-----------------------------------------------------------------------------
(* What the private operations do to an instance.                          *)

\* Sets of tasks are finite.
LEMMA TasksFinite ==
    ASSUME NEW S \in SUBSET Tasks
    PROVE  IsFiniteSet(S) /\ Cardinality(S) \in Nat /\ (Cardinality(S) = 0 <=> S = {})
  BY InstanceAssumption, FS_Subset, FS_CardinalityType, FS_EmptySet

\* The attributes of the retries, which only retry_task writes.
SameAttrs(v, w) == v.level = w.level /\ v.delay = w.delay /\ v.times = w.times

\* What enqueue_task touches.
Enqueues(v, w, set, good) ==
    /\ v \in InstanceType
    /\ \A t \in Tasks : v.status[t] = IF t \in good THEN "QUEUED"
                                      ELSE IF t \in set THEN "ABORTED" ELSE w.status[t]
    /\ v.running_tasks = w.running_tasks + Cardinality(good)
    /\ v.pool = w.pool \cup good
    /\ v.retval = w.retval /\ v.present = w.present /\ v.wf = w.wf
    /\ v.retrying_tasks = w.retrying_tasks /\ v.retrier = w.retrier
    /\ v.is_cancelling = w.is_cancelling /\ SameAttrs(v, w)
    /\ v.skipped = w.skipped /\ v.error_tasks = w.error_tasks + Cardinality(set \ good)

\* enqueue_task enqueues some tasks of the set and aborts the others.
LEMMA EnqueueEffect ==
    ASSUME NEW w \in InstanceType, NEW set \in SUBSET Tasks
    PROVE  \E good \in SUBSET set : Enqueues(enqueue_task(w, set), w, set, good)
<1> DEFINE bad == IF w.is_cancelling THEN set ELSE set \cap UnknownQueue
           good == set \ bad
           status == [t \in Tasks |-> CASE t \in bad -> "ABORTED"
                                        [] t \in good -> "QUEUED"
                                        [] OTHER -> w.status[t]]
           v == [w EXCEPT !.status = status,
                          !.error_tasks = @ + Cardinality(bad),
                          !.running_tasks = @ + Cardinality(good),
                          !.pool = @ \cup good]
<1>1. v = enqueue_task(w, set)
  BY DEF enqueue_task
<1>2. bad \in SUBSET set /\ good \in SUBSET set
  OBVIOUS
<1>3. Cardinality(bad) \in Nat /\ Cardinality(good) \in Nat
  BY <1>2, TasksFinite
<1>4. status \in [Tasks -> Statuses]
  BY DEF InstanceType, Statuses
<1>5. \A t \in Tasks : status[t] = IF t \in good THEN "QUEUED"
                                   ELSE IF t \in set THEN "ABORTED" ELSE w.status[t]
  OBVIOUS
<1> HIDE DEF bad, good, status
<1>6. /\ v.status = status /\ v.running_tasks = w.running_tasks + Cardinality(good)
      /\ v.pool = w.pool \cup good
      /\ v.retval = w.retval /\ v.present = w.present /\ v.wf = w.wf
      /\ v.retrying_tasks = w.retrying_tasks /\ v.retrier = w.retrier
      /\ v.is_cancelling = w.is_cancelling /\ SameAttrs(v, w)
      /\ v.skipped = w.skipped /\ v.error_tasks = w.error_tasks + Cardinality(bad)
  BY DEF InstanceType, SameAttrs
<1>7. v \in InstanceType
  <2>1. /\ w.running_tasks + Cardinality(good) \in Int
        /\ w.error_tasks + Cardinality(bad) \in Nat
        /\ w.pool \cup good \in SUBSET Tasks
    BY <1>2, <1>3 DEF InstanceType
  <2> DEFINE r == w.running_tasks + Cardinality(good)
             e == w.error_tasks + Cardinality(bad)
             p == w.pool \cup good
  <2>2. v = [w EXCEPT !.status = status, !.error_tasks = e, !.running_tasks = r, !.pool = p]
    BY DEF InstanceType
  <2> HIDE DEF r, e, p, v
  <2>3. [w EXCEPT !.status = status, !.error_tasks = e, !.running_tasks = r, !.pool = p]
          \in InstanceType
    <3>1. r \in Int /\ e \in Nat /\ p \in SUBSET Tasks
      BY <2>1 DEF r, e, p
    <3> QED
      BY <1>4, <3>1 DEF InstanceType
  <2> QED
    BY <2>2, <2>3
<1> HIDE DEF v
<1>8. bad = set \ good
  BY <1>2 DEF good
<1>9. Enqueues(v, w, set, good)
  BY <1>5, <1>6, <1>7, <1>8 DEF Enqueues
<1> QED
  BY <1>1, <1>2, <1>9

\* The attributes that retry_task writes have their types.
LEMMA RetriedType ==
    ASSUME NEW w \in InstanceType, NEW t \in Tasks
    PROVE  /\ Retried(w, t).level \in Nat
           /\ Retried(w, t).delay \in Nat \cup {Absent}
           /\ Retried(w, t).times \in Nat \cup {Absent}
<1> DEFINE Attrs == [level : Nat, delay : Nat \cup {Absent}, times : Nat \cup {Absent},
                     d : Nat \cup {Absent}, n : Nat \cup {Absent}]
           levels == Policy[t].levels
           attrs == [level |-> w.level[t], delay |-> w.delay[t],
                     times |-> w.times[t], d |-> w.delay[t], n |-> w.times[t]]
           begin == Policy[t].schedule /\ w.level[t] = 0
           first == IF begin THEN schedule_update(levels, attrs) ELSE attrs
           upd == IF Policy[t].schedule /\ first.n = 0 THEN schedule_update(levels, first)
                  ELSE first
           LevelType == [delay : Nat, times : Nat]
<1>1. levels \in Seq(LevelType)
  BY InstanceAssumption
<1>2. attrs \in Attrs
  BY DEF InstanceType
<1> HIDE DEF levels, attrs, Attrs, LevelType
<1>3. ASSUME NEW a \in Attrs
      PROVE  schedule_update(levels, a) \in Attrs /\ schedule_update(levels, a).n \in Nat
  <2> DEFINE l == a.level + 1
  <2>1. l \in Nat \ {0} /\ Len(levels) \in Nat
    BY <1>1 DEF Attrs
  <2> HIDE DEF l
  <2>2. CASE l > Len(levels)
    <3> DEFINE r == [a EXCEPT !.level = l, !.d = 0, !.n = 0]
    <3>1. schedule_update(levels, a) = r
      BY <2>2 DEF schedule_update, l
    <3>2. r \in Attrs /\ r.n = 0
      BY <2>1 DEF Attrs
    <3> QED
      BY <3>1, <3>2
  <2>3. CASE ~(l > Len(levels))
    <3>1. l \in 1 .. Len(levels)
      BY <2>1, <2>3
    <3>2. levels[l] \in LevelType
      BY <1>1, <3>1
    <3>3. levels[l].delay \in Nat /\ levels[l].times \in Nat
      BY <3>2 DEF LevelType
    <3>4. schedule_update(levels, a) = [level |-> l,
              delay |-> levels[l].delay, times |-> levels[l].times,
              d |-> levels[l].delay, n |-> levels[l].times]
      BY <2>3 DEF schedule_update, l
    <3> QED
      BY <2>1, <3>3, <3>4 DEF Attrs
  <2> QED
    BY <2>2, <2>3
<1>4. first \in Attrs /\ (begin => first.n \in Nat) /\ (~ begin => first = attrs)
  BY <1>2, <1>3
<1> HIDE DEF first, begin
<1>5. upd \in Attrs /\ (begin => upd.n \in Nat)
      /\ (~ begin => upd = attrs \/ upd.n \in Nat)
  BY <1>3, <1>4
<1> HIDE DEF upd
<1>6. attrs.n = w.times[t] /\ attrs.times = w.times[t] /\ w.times[t] \in Nat \cup {Absent}
  BY DEF attrs, InstanceType
<1>7. begin \/ (w.delay[t] # Absent /\ w.times[t] # Absent) => upd.n \in Nat
  BY <1>5, <1>6
<1> DEFINE becomes(what, a, n) ==
             [what |-> what, level |-> a.level, delay |-> a.delay, times |-> n]
           none == ~ begin /\ (w.delay[t] = Absent \/ w.times[t] = Absent)
           leave == Policy[t].retval # 0 /\ Policy[t].retval # w.retval[t]
<1>8. Retried(w, t) =
        CASE none -> becomes("error", attrs, attrs.times)
          [] (begin \/ (w.delay[t] # Absent /\ w.times[t] # Absent)) /\ (upd.d = 0 \/ upd.n = 0) ->
                becomes("error", upd, upd.times)
          [] OTHER -> IF leave THEN becomes("left", upd, upd.times)
                      ELSE becomes("retry", upd, upd.n - 1)
  BY DEF Retried, attrs, begin, first, upd, levels
<1>9. \/ Retried(w, t) = becomes("error", attrs, attrs.times)
      \/ Retried(w, t) = becomes("error", upd, upd.times)
      \/ Retried(w, t) = becomes("left", upd, upd.times)
      \/ Retried(w, t) = becomes("retry", upd, upd.n - 1) /\ upd.n \in Nat /\ upd.n # 0
  <2> HIDE DEF becomes, leave
  <2> QED
    BY <1>7, <1>8
<1>10. ASSUME NEW a \in Attrs, NEW what, NEW n \in Nat \cup {Absent}
       PROVE  LET r == becomes(what, a, n)
              IN  r.level \in Nat /\ r.delay \in Nat \cup {Absent} /\ r.times \in Nat \cup {Absent}
  BY DEF Attrs
<1>11. attrs.times \in Nat \cup {Absent} /\ upd.times \in Nat \cup {Absent}
  BY <1>2, <1>5 DEF Attrs
<1> HIDE DEF becomes
<1> QED
  <2>1. upd.n \in Nat /\ upd.n # 0 => upd.n - 1 \in Nat \cup {Absent}
    OBVIOUS
  <2> QED
    BY <1>2, <1>5, <1>9, <1>10, <1>11, <2>1

\* What retry_task touches, but for the attributes of the tasks.
Retries(v, w, again) ==
    /\ v \in InstanceType
    /\ v.status = w.status /\ v.retval = w.retval /\ v.present = w.present
    /\ v.wf = w.wf /\ v.is_cancelling = w.is_cancelling
    /\ v.running_tasks = w.running_tasks /\ v.pool = w.pool
    /\ v.retrier = w.retrier \cup again
    /\ v.retrying_tasks = w.retrying_tasks + Cardinality(again)

\* retry_task hands some tasks of the set to the Retrier.
LEMMA RetryEffect ==
    ASSUME NEW w \in InstanceType, NEW set \in SUBSET Tasks
    PROVE  \E again \in SUBSET set : Retries(retry_task(w, set), w, again)
<1> DEFINE r == [t \in set |-> Retried(w, t)]
           to(what) == {t \in set : r[t].what = what}
           level == [t \in Tasks |-> IF t \in set THEN r[t].level ELSE w.level[t]]
           delay == [t \in Tasks |-> IF t \in set THEN r[t].delay ELSE w.delay[t]]
           times == [t \in Tasks |-> IF t \in set THEN r[t].times ELSE w.times[t]]
           again == to("retry")
           error == w.error_tasks + Cardinality(to("error"))
           retrier == w.retrier \cup again
           retrying == w.retrying_tasks + Cardinality(again)
           v == [w EXCEPT !.level = level, !.delay = delay, !.times = times,
                          !.error_tasks = error, !.retrier = retrier, !.retrying_tasks = retrying]
<1>1. v = retry_task(w, set)
  BY DEF retry_task, InstanceType
<1>2. again \in SUBSET set /\ to("error") \in SUBSET set
  OBVIOUS
<1>3. Cardinality(again) \in Nat /\ Cardinality(to("error")) \in Nat
  <2> HIDE DEF to
  <2> QED
    BY <1>2, TasksFinite
<1>4. \A t \in set : /\ r[t].level \in Nat /\ r[t].delay \in Nat \cup {Absent}
                      /\ r[t].times \in Nat \cup {Absent}
  BY RetriedType
<1> HIDE DEF r, to
<1>5. /\ level \in [Tasks -> Nat] /\ delay \in [Tasks -> Nat \cup {Absent}]
      /\ times \in [Tasks -> Nat \cup {Absent}]
  BY <1>4 DEF InstanceType
<1>6. error \in Nat /\ retrier \in SUBSET Tasks /\ retrying \in Int
  BY <1>2, <1>3 DEF InstanceType
<1> HIDE DEF level, delay, times, again, error, retrier, retrying
<1>7. v \in InstanceType
  BY <1>5, <1>6 DEF InstanceType
<1>8. /\ v.status = w.status /\ v.retval = w.retval /\ v.present = w.present
      /\ v.wf = w.wf /\ v.is_cancelling = w.is_cancelling
      /\ v.running_tasks = w.running_tasks /\ v.pool = w.pool
      /\ v.retrier = retrier /\ v.retrying_tasks = retrying
  BY DEF InstanceType
<1> HIDE DEF v
<1>9. Retries(v, w, again)
  BY <1>7, <1>8 DEF Retries, retrier, retrying
<1> QED
  BY <1>1, <1>2, <1>9

\* What run_subjobs touches.
Passed(v, w, pass, good) ==
    /\ v \in InstanceType
    /\ \A t \in Tasks : v.status[t] = IF t \in good THEN "QUEUED"
                                      ELSE IF t \in pass.enqueued THEN "ABORTED"
                                      ELSE IF t = pass.failed /\ t \in LoopedTasks THEN "ABORTED"
                                      ELSE w.status[t]
    /\ v.running_tasks = w.running_tasks + Cardinality(good)
    /\ v.pool = w.pool \cup good
    /\ v.present = (w.present \cup pass.appended) \ pass.expanded
    /\ v.retval = w.retval /\ v.wf = w.wf
    /\ v.retrying_tasks = w.retrying_tasks /\ v.retrier = w.retrier
    /\ v.is_cancelling = w.is_cancelling /\ SameAttrs(v, w)
    /\ v.skipped = w.skipped \cup pass.skipped
    /\ v.error_tasks = w.error_tasks + (IF pass.failed = None THEN 0 ELSE 1)
                        + Cardinality(pass.enqueued \ good)

\* run_subjobs enqueues some tasks of the pass and aborts the others.
LEMMA SubjobsEffect ==
    ASSUME NEW w \in InstanceType, NEW job \in Jobs, NEW pass, PassOver(pass, w, job)
    PROVE  \E good \in SUBSET pass.enqueued : Passed(run_subjobs(w, pass), w, pass, good)
<1> DEFINE present == (w.present \cup pass.appended) \ pass.expanded
           skipped == w.skipped \cup pass.skipped
           error == w.error_tasks + (IF pass.failed = None THEN 0 ELSE 1)
           status == [t \in Tasks |-> IF t = pass.failed /\ t \in LoopedTasks
                                      THEN "ABORTED" ELSE w.status[t]]
           u == [w EXCEPT !.present = present, !.skipped = skipped, !.error_tasks = error,
                          !.status = status]
           v == enqueue_task(u, pass.enqueued)
<1>1. v = run_subjobs(w, pass)
  BY DEF run_subjobs, InstanceType
<1>2. /\ pass.enqueued \in SUBSET Tasks /\ present \in SUBSET Tasks
      /\ skipped \in SUBSET Jobs /\ error \in Nat
      /\ status \in [Tasks -> Statuses]
  BY BelowType DEF PassOver, InstanceType, Statuses
<1>3. \A t \in Tasks : status[t] = IF t = pass.failed /\ t \in LoopedTasks
                                   THEN "ABORTED" ELSE w.status[t]
  OBVIOUS
<1> HIDE DEF status, skipped, error, present
<1>4. u \in InstanceType
  BY <1>2 DEF InstanceType
<1>5. /\ u.status = status /\ u.present = present
      /\ u.retval = w.retval /\ u.wf = w.wf
      /\ u.retrying_tasks = w.retrying_tasks /\ u.retrier = w.retrier
      /\ u.running_tasks = w.running_tasks /\ u.pool = w.pool
      /\ u.is_cancelling = w.is_cancelling /\ SameAttrs(u, w)
      /\ u.skipped = skipped /\ u.error_tasks = error
  BY DEF InstanceType, SameAttrs
<1> HIDE DEF u
<1>6. PICK good \in SUBSET pass.enqueued : Enqueues(v, u, pass.enqueued, good)
  BY <1>2, <1>4, EnqueueEffect
<1> HIDE DEF v
<1>7. Passed(v, w, pass, good)
  BY <1>3, <1>5, <1>6 DEF Enqueues, Passed, SameAttrs, present, skipped, error
<1> QED
  BY <1>1, <1>7

-----------------------------------------------------------------------------
(* What keeps an instance sound.                                           *)

\* Steps that run no subjobs keep the order, if no task is touched that was
\* not before and what has succeeded stays so.
LEMMA OrderFrame ==
    ASSUME NEW w, NEW v, InOrder(w), v.present = w.present, w.wf # "NEW" => v.wf # "NEW",
           \A t \in Tasks : v.status[t] # "none" => w.status[t] # "none",
           \A t \in Tasks : w.status[t] = "TERMINATED" /\ w.retval[t] = 0
                              => v.status[t] = "TERMINATED" /\ v.retval[t] = 0,
           w.present \in SUBSET Tasks
    PROVE  InOrder(v)
<1>1. ASSUME NEW job \in Jobs, Succeeded(w, job) PROVE Succeeded(v, job)
  BY <1>1 DEF Succeeded, JobSucceeded
<1> QED
  BY <1>1 DEF InOrder

\* The sum of two disjoint sets of tasks.
LEMMA CountUnion ==
    ASSUME NEW A \in SUBSET Tasks, NEW B \in SUBSET Tasks, A \cap B = {}
    PROVE  Cardinality(A \cup B) = Cardinality(A) + Cardinality(B)
<1>1. IsFiniteSet(A) /\ IsFiniteSet(B) /\ Cardinality(A) \in Nat /\ Cardinality(B) \in Nat
  BY TasksFinite
<1>2. Cardinality(A \cup B) = Cardinality(A) + Cardinality(B) - Cardinality(A \cap B)
  BY <1>1, FS_Union
<1>3. Cardinality(A \cap B) = 0
  BY FS_EmptySet
<1> QED
  BY <1>1, <1>2, <1>3

\* One task less.
LEMMA CountRemove ==
    ASSUME NEW A \in SUBSET Tasks, NEW t \in A
    PROVE  Cardinality(A \ {t}) = Cardinality(A) - 1
<1>1. IsFiniteSet(A)
  BY TasksFinite
<1> QED
  BY <1>1, FS_RemoveElement

\* The counters of a sound instance are numbers, and its tasks are tasks.
LEMMA SoundType ==
    ASSUME NEW w \in InstanceType
    PROVE  /\ w.present \in SUBSET Tasks /\ w.retrier \in SUBSET Tasks /\ w.pool \in SUBSET Tasks
           /\ w.running_tasks \in Int /\ w.retrying_tasks \in Int
           /\ Active(w) \in SUBSET Tasks
           /\ \A t \in Tasks : w.status[t] \in Statuses
  BY DEF InstanceType, Active

\* Tasks of the set that were not under way, and that are enqueued, are counted.
LEMMA EnqueueCounted ==
    ASSUME NEW w, NEW v, NEW n \in Int, NEW good \in SUBSET Tasks,
           w \in InstanceType, v \in InstanceType, Counted(w, n),
           \A t \in good : v.status[t] = "QUEUED" /\ t \notin Active(w),
           \A t \in Tasks \ good : /\ t \in Active(w) <=> t \in Active(v)
                                   /\ w.status[t] = "QUEUED" <=> v.status[t] = "QUEUED",
           v.running_tasks = w.running_tasks + Cardinality(good),
           v.pool = w.pool \cup good,
           v.retrying_tasks = Cardinality(v.retrier)
    PROVE  Counted(v, n)
<1>1. Active(v) = Active(w) \cup good /\ Active(w) \cap good = {}
  BY DEF Active
<1>2. Cardinality(Active(v)) = Cardinality(Active(w)) + Cardinality(good)
  BY <1>1, SoundType, CountUnion
<1>3. Cardinality(Active(w)) \in Nat /\ Cardinality(good) \in Nat
  BY SoundType, TasksFinite
<1>4. v.running_tasks = Cardinality(Active(v)) + n
  BY <1>2, <1>3 DEF Counted
<1>5. v.pool = {t \in Tasks : v.status[t] = "QUEUED"}
  BY DEF Counted
<1> QED
  BY <1>4, <1>5 DEF Counted

\* One task that is no longer under way: it is still to be subtracted.
LEMMA StopCounted ==
    ASSUME NEW w, NEW v, NEW t \in Tasks,
           w \in InstanceType, v \in InstanceType, Counted(w, 0),
           t \in Active(w), t \notin Active(v),
           \A u \in Tasks \ {t} : v.status[u] = w.status[u],
           v.running_tasks = w.running_tasks,
           v.pool = w.pool \ {t},
           v.retrying_tasks = Cardinality(v.retrier)
    PROVE  Counted(v, 1)
<1>1. Active(v) = Active(w) \ {t}
  BY DEF Active
<1>2. Cardinality(Active(v)) = Cardinality(Active(w)) - 1
  BY <1>1, SoundType, CountRemove
<1>3. Cardinality(Active(w)) \in Nat
  BY SoundType, TasksFinite
<1>4. v.running_tasks = Cardinality(Active(v)) + 1
  BY <1>2, <1>3 DEF Counted
<1>5. v.status[t] # "QUEUED"
  BY DEF Active
<1>6. v.pool = {u \in Tasks : v.status[u] = "QUEUED"}
  BY <1>5 DEF Counted
<1> QED
  BY <1>4, <1>6 DEF Counted

\* The last line of an operation takes the task off running_tasks.
LEMMA Decrement ==
    ASSUME NEW w, Sound(w), Counted(w, 1), NEW v, v = [w EXCEPT !.running_tasks = @ - 1]
    PROVE  Sound(v) /\ Counted(v, 0) /\ v.wf = w.wf
<1>1. w \in InstanceType
  BY DEF Sound
<1> DEFINE n == w.running_tasks - 1
<1>2. n \in Int /\ v = [w EXCEPT !.running_tasks = n]
  BY <1>1 DEF InstanceType
<1> HIDE DEF n
<1>3. v \in InstanceType
  BY <1>1, <1>2 DEF InstanceType
<1>4. /\ v.status = w.status /\ v.retval = w.retval /\ v.present = w.present /\ v.wf = w.wf
      /\ v.retrier = w.retrier /\ v.pool = w.pool /\ v.retrying_tasks = w.retrying_tasks
      /\ v.running_tasks = n
  BY <1>1, <1>2 DEF InstanceType
<1>5. InOrder(v)
  BY <1>4 DEF Sound, InOrder, Succeeded, JobSucceeded
<1>6. InDocument(v) /\ RetriesFailed(v)
  BY <1>4 DEF Sound, InDocument, RetriesFailed
<1>7. Active(v) = Active(w) /\ Cardinality(Active(w)) \in Nat
  BY <1>1, <1>4, SoundType, TasksFinite DEF Active
<1>8. Counted(v, 0)
  BY <1>4, <1>7 DEF Counted, n
<1> QED
  BY <1>3, <1>4, <1>5, <1>6, <1>8 DEF Sound

\* Running the subjobs of a job that has just succeeded, none of whose tasks
\* has been touched, keeps an instance sound: no task is enqueued twice.
LEMMA SubjobsSound ==
    ASSUME NEW w, Sound(w), NEW n \in Int, Counted(w, n), NEW job \in Jobs,
           NEW pass, PassOver(pass, w, job),
           \A t \in TasksBelow(job) : w.status[t] = "none",
           IF job = Root THEN w.wf # "NEW" ELSE Succeeded(w, job),
           NEW v, v = run_subjobs(w, pass)
    PROVE  Sound(v) /\ Counted(v, n) /\ v.wf = w.wf
<1>1. w \in InstanceType /\ InDocument(w) /\ RetriesFailed(w) /\ InOrder(w)
  BY DEF Sound
<1>2. PICK good \in SUBSET pass.enqueued : Passed(v, w, pass, good)
  BY <1>1, SubjobsEffect
<1>3. /\ TasksBelow(job) \in SUBSET Tasks
      /\ pass.enqueued \in SUBSET TasksBelow(job) /\ good \in SUBSET TasksBelow(job)
      /\ pass.enqueued \cap LoopedTasks = {}
      /\ pass.appended \in SUBSET TasksBelow(job) /\ pass.expanded \in SUBSET LoopedTasks
      /\ pass.failed \in Tasks => pass.failed \in TasksBelow(job)
  BY <1>2, BelowType DEF PassOver
<1>4. v \in InstanceType /\ v.wf = w.wf
  BY <1>2 DEF Passed
\* Only tasks below the job are touched, and of these some are QUEUED.
<1>5. ASSUME NEW t \in Tasks, t \notin TasksBelow(job) PROVE v.status[t] = w.status[t]
  BY <1>2, <1>3, <1>5 DEF Passed
<1>6. ASSUME NEW t \in TasksBelow(job)
      PROVE  v.status[t] = IF t \in good THEN "QUEUED"
                           ELSE IF t \in pass.enqueued \/ (t = pass.failed /\ t \in LoopedTasks)
                                THEN "ABORTED" ELSE "none"
  BY <1>2, <1>3 DEF Passed
<1>7. Counted(v, n)
  <2>1. good \in SUBSET Tasks
    BY <1>3
  <2>2. \A t \in good : v.status[t] = "QUEUED" /\ t \notin Active(w)
    BY <1>3, <1>6 DEF Active
  <2>3. \A t \in Tasks \ good : /\ t \in Active(w) <=> t \in Active(v)
                                /\ w.status[t] = "QUEUED" <=> v.status[t] = "QUEUED"
    BY <1>5, <1>6 DEF Active
  <2>4. v.retrying_tasks = Cardinality(v.retrier)
    BY <1>2 DEF Passed, Counted
  <2>5. v.running_tasks = w.running_tasks + Cardinality(good) /\ v.pool = w.pool \cup good
    BY <1>2 DEF Passed
  <2> QED
    BY <1>1, <1>4, <2>1, <2>2, <2>3, <2>4, <2>5, EnqueueCounted
<1>8. v.present = (w.present \cup pass.appended) \ pass.expanded /\ v.retval = w.retval
      /\ v.retrier = w.retrier
  BY <1>2 DEF Passed
<1>9. InDocument(v)
  <2>1. ASSUME NEW t \in Tasks, t \notin CloneTasks \cup LoopedTasks PROVE t \in v.present
    BY <1>1, <1>3, <1>8, <2>1 DEF InDocument
  <2>2. ASSUME NEW t \in Tasks, v.status[t] \in {"QUEUED", "EXECUTING", "TERMINATED"}
        PROVE  t \in v.present /\ t \notin LoopedTasks
    <3>1. CASE t \in TasksBelow(job)
      <4>1. t \in good
        BY <1>6, <2>2, <3>1
      <4>2. t \in CloneTasks => t \in pass.appended
        BY <4>1 DEF PassOver
      <4>3. t \notin LoopedTasks
        BY <1>3, <4>1
      <4> QED
        BY <1>3, <1>8, <2>1, <4>2, <4>3
    <3>2. CASE t \notin TasksBelow(job)
      BY <1>1, <1>3, <1>5, <1>8, <2>2, <3>2 DEF InDocument
    <3> QED
      BY <3>1, <3>2
  <2> QED
    BY <2>1, <2>2 DEF InDocument
<1>10. RetriesFailed(v)
  <2> SUFFICES ASSUME NEW t \in v.retrier
               PROVE  v.status[t] = "TERMINATED" /\ v.retval[t] # 0
    BY DEF RetriesFailed
  <2>1. t \in Tasks /\ w.status[t] = "TERMINATED" /\ w.retval[t] # 0
    BY <1>1, <1>8, SoundType DEF RetriesFailed
  <2>2. t \notin TasksBelow(job)
    BY <2>1
  <2> QED
    BY <1>5, <1>8, <2>1, <2>2
\* Jobs that have succeeded have tasks that are not below this one, so that
\* the pass appends nothing to them.
<1>11. ASSUME NEW k \in Jobs, Succeeded(w, k) PROVE Succeeded(v, k)
  <2>1. PICK u \in w.present : JobOf[u] = k
    BY <1>11 DEF Succeeded
  <2>2. u \in Tasks /\ w.status[u] = "TERMINATED"
    BY <1>1, <1>11, <2>1, SoundType DEF Succeeded, JobSucceeded
  <2>3. PICK p \in Jobs : u \in TasksBelow(p)
    BY <1>1, <2>2 DEF InOrder
  <2>4. p # job
    BY <2>2, <2>3
  <2>5. \A t \in TasksBelow(job) : JobOf[t] # k
    BY <2>1, <2>3, <2>4, TreeFacts
  <2>6. u \notin LoopedTasks
    BY <1>1, <2>2 DEF InDocument
  <2>7. u \in v.present
    BY <1>3, <1>8, <2>6
  <2>8. ASSUME NEW t \in v.present, JobOf[t] = k
        PROVE  v.status[t] = "TERMINATED" /\ v.retval[t] = 0
    <3>1. t \notin TasksBelow(job) /\ t \in w.present
      BY <1>3, <1>8, <2>5, <2>8
    <3>2. t \in Tasks /\ w.status[t] = "TERMINATED" /\ w.retval[t] = 0
      BY <1>1, <1>11, <2>8, <3>1, SoundType DEF Succeeded, JobSucceeded
    <3> QED
      BY <1>5, <1>8, <3>1, <3>2
  <2> QED
    BY <2>1, <2>7, <2>8 DEF Succeeded, JobSucceeded
<1>12. InOrder(v)
  <2> SUFFICES ASSUME NEW t \in Tasks, v.status[t] # "none"
               PROVE  /\ \E k \in Jobs : t \in TasksBelow(k)
                      /\ \A k \in Jobs : t \in TasksBelow(k) =>
                            IF k = Root THEN v.wf # "NEW" ELSE Succeeded(v, k)
    BY DEF InOrder
  <2>1. CASE t \in TasksBelow(job)
    <3>1. \A k \in Jobs : t \in TasksBelow(k) => k = job
      BY <2>1, TreeFacts
    <3> QED
      BY <1>4, <1>11, <2>1, <3>1
  <2>2. CASE t \notin TasksBelow(job)
    <3>1. w.status[t] # "none"
      BY <1>5, <2>2
    <3> QED
      BY <1>1, <1>4, <1>11, <3>1 DEF InOrder
  <2> QED
    BY <2>1, <2>2
<1> QED
  BY <1>4, <1>7, <1>9, <1>10, <1>12 DEF Sound

\* When an operation ends the instance, nothing of it is left.
LEMMA EndedFacts ==
    ASSUME NEW u, Sound(u), Counted(u, 0), NEW v, v = workflow_ended(u)
    PROVE  /\ Sound(v) /\ Counted(v, 0)
           /\ u.wf # "TERMINATED" /\ v.wf = "TERMINATED" =>
                 v.pool = {} /\ v.retrier = {} /\ \A t \in Tasks : v.status[t] # "EXECUTING"
<1>1. u \in InstanceType
  BY DEF Sound
<1>2. CASE u.running_tasks = 0 /\ u.retrying_tasks = 0
  <2>1. v = [u EXCEPT !.wf = "TERMINATED"]
    BY <1>2 DEF workflow_ended
  <2>2. v \in InstanceType
    BY <1>1, <2>1 DEF InstanceType
  <2>3. /\ v.status = u.status /\ v.retval = u.retval /\ v.present = u.present
        /\ v.retrier = u.retrier /\ v.pool = u.pool /\ v.retrying_tasks = u.retrying_tasks
        /\ v.running_tasks = u.running_tasks /\ v.wf = "TERMINATED"
    BY <1>1, <2>1 DEF InstanceType
  <2>4. InOrder(v)
    BY <2>3 DEF Sound, InOrder, Succeeded, JobSucceeded
  <2>5. InDocument(v) /\ RetriesFailed(v)
    BY <2>3 DEF Sound, InDocument, RetriesFailed
  <2>6. Active(v) = Active(u)
    BY <2>3 DEF Active
  <2>7. Counted(v, 0)
    BY <2>3, <2>6 DEF Counted
  <2>8. Active(v) = {} /\ v.retrier = {}
    <3>1. /\ Active(u) \in SUBSET Tasks /\ u.retrier \in SUBSET Tasks
          /\ Cardinality(Active(u)) \in Nat
      BY <1>1, SoundType, TasksFinite
    <3>2. Cardinality(Active(u)) = 0 /\ Cardinality(u.retrier) = 0
      BY <1>2, <3>1 DEF Counted
    <3> QED
      BY <2>3, <2>6, <3>1, <3>2, TasksFinite
  <2>9. v.pool = {} /\ \A t \in Tasks : v.status[t] # "EXECUTING"
    BY <2>7, <2>8 DEF Counted, Active
  <2> QED
    BY <2>2, <2>4, <2>5, <2>7, <2>8, <2>9 DEF Sound
<1>3. CASE ~(u.running_tasks = 0 /\ u.retrying_tasks = 0)
  BY <1>3 DEF workflow_ended
<1> QED
  BY <1>2, <1>3

-----------------------------------------------------------------------------
(* The public operations.                                                  *)

\* Whoever holds a task of an instance holds it before the end.
LEMMA NotEnded ==
    ASSUME InstanceInv, NEW t \in Tasks,
           t \in wi.pool \/ t \in wi.retrier \/ wi.status[t] = "EXECUTING"
    PROVE  wi.wf # "TERMINATED"
  BY DEF InstanceInv, NothingAfterTheEnd

\* The end of every operation: if the instance was sound before the end is
\* looked for, all is well after it.
LEMMA FinishPreserves ==
    ASSUME InstanceInv, wi.wf # "TERMINATED",
           NEW STATE u, Sound(u), Counted(u, 0), u.wf # "TERMINATED", Finish(u)
    PROVE  InstanceInv'
<1> DEFINE v == workflow_ended(u)
<1>1. /\ wi' = v /\ saved' = record_savepoint(v, saved, FALSE)
      /\ deleted' = deleted + (IF v.wf = "TERMINATED" THEN 1 ELSE 0)
  BY DEF Finish
<1>2. /\ Sound(v) /\ Counted(v, 0)
      /\ v.wf = "TERMINATED" =>
            v.pool = {} /\ v.retrier = {} /\ \A t \in Tasks : v.status[t] # "EXECUTING"
  BY EndedFacts
<1> HIDE DEF v
<1>3. deleted = 0
  BY DEF InstanceInv, NothingAfterTheEnd
<1>4. NothingAfterTheEnd'
  BY <1>1, <1>2, <1>3 DEF NothingAfterTheEnd
<1>5. SavedIsCurrent'
  <2>1. (Level = 3 \/ (Level = 2 /\ v.wf = "TERMINATED")) =>
           record_savepoint(v, saved, FALSE) = [kind |-> "doc", doc |-> DocOf(v)]
    BY DEF record_savepoint
  <2>2. DocOf(wi)' = DocOf(v)
    BY <1>1 DEF DocOf
  <2>3. ASSUME Level = 3 \/ (Level = 2 /\ wi'.wf = "TERMINATED")
        PROVE  saved'.kind = "doc" /\ saved'.doc = DocOf(v)
    <3>1. saved' = [kind |-> "doc", doc |-> DocOf(v)]
      BY <1>1, <2>1, <2>3
    <3> QED
      BY <3>1
  <2> QED
    BY <2>2, <2>3 DEF SavedIsCurrent
<1>6. Sound(wi') /\ Counted(wi', 0)
  BY <1>1, <1>2
<1> QED
  BY <1>4, <1>5, <1>6 DEF InstanceInv

\* A task of the Retrier is enqueued again, or aborted.
LEMMA TaskRestartPreserves ==
    ASSUME InstanceInv, NEW t \in Tasks, TaskRestart(t)
    PROVE  InstanceInv'
<1> DEFINE e == enqueue_task(wi, {t})
           u == [e EXCEPT !.retrying_tasks = @ - 1, !.retrier = @ \ {t}]
<1>1. /\ Sound(wi) /\ Counted(wi, 0) /\ wi \in InstanceType
      /\ InDocument(wi) /\ RetriesFailed(wi) /\ InOrder(wi)
  BY DEF InstanceInv, Sound
<1>2. t \in wi.retrier /\ wi.status[t] = "TERMINATED" /\ wi.retval[t] # 0
  BY <1>1 DEF TaskRestart, RetriesFailed
<1>3. wi.wf # "TERMINATED"
  BY <1>2, NotEnded
<1>4. PICK good \in SUBSET {t} : Enqueues(e, wi, {t}, good)
  <2>1. {t} \in SUBSET Tasks
    OBVIOUS
  <2> QED
    BY <1>1, <2>1, EnqueueEffect
<1>5. e \in InstanceType
  BY <1>4 DEF Enqueues
<1> HIDE DEF e
<1>6. u \in InstanceType
  <2> DEFINE n == e.retrying_tasks - 1
             r == e.retrier \ {t}
  <2>1. n \in Int /\ r \in SUBSET Tasks
    BY <1>5, SoundType
  <2>2. u = [e EXCEPT !.retrying_tasks = n, !.retrier = r]
    BY <1>5 DEF InstanceType
  <2> HIDE DEF n, r, u
  <2>3. [e EXCEPT !.retrying_tasks = n, !.retrier = r] \in InstanceType
    BY <1>5, <2>1 DEF InstanceType
  <2> QED
    BY <2>2, <2>3
<1>7. /\ u.status = e.status /\ u.retval = e.retval /\ u.present = e.present /\ u.wf = e.wf
      /\ u.retrier = e.retrier \ {t} /\ u.pool = e.pool
      /\ u.retrying_tasks = e.retrying_tasks - 1 /\ u.running_tasks = e.running_tasks
  BY <1>5 DEF InstanceType
<1> HIDE DEF u
<1>8. /\ \A s \in Tasks : u.status[s] = IF s \in good THEN "QUEUED"
                                        ELSE IF s = t THEN "ABORTED" ELSE wi.status[s]
      /\ u.retval = wi.retval /\ u.present = wi.present /\ u.wf = wi.wf
      /\ u.retrier = wi.retrier \ {t} /\ u.pool = wi.pool \cup good
      /\ u.retrying_tasks = wi.retrying_tasks - 1
      /\ u.running_tasks = wi.running_tasks + Cardinality(good)
  BY <1>4, <1>7 DEF Enqueues
<1>9. u.retrying_tasks = Cardinality(u.retrier)
  <2>1. Cardinality(wi.retrier \ {t}) = Cardinality(wi.retrier) - 1
    BY <1>1, <1>2, SoundType, CountRemove
  <2> QED
    BY <1>1, <1>8, <2>1 DEF Counted
<1>10. Counted(u, 0)
  <2>1. good \in SUBSET Tasks /\ 0 \in Int
    OBVIOUS
  <2>2. \A s \in good : u.status[s] = "QUEUED" /\ s \notin Active(wi)
    BY <1>2, <1>8 DEF Active
  <2>3. \A s \in Tasks \ good : /\ s \in Active(wi) <=> s \in Active(u)
                                /\ wi.status[s] = "QUEUED" <=> u.status[s] = "QUEUED"
    BY <1>2, <1>8 DEF Active
  <2>4. /\ u.running_tasks = wi.running_tasks + Cardinality(good)
        /\ u.pool = wi.pool \cup good
    BY <1>8
  <2> QED
    BY ONLY <1>1, <1>6, <1>9, <2>1, <2>2, <2>3, <2>4, EnqueueCounted
<1>11. InDocument(u)
  BY <1>1, <1>2, <1>8 DEF InDocument
<1>12. RetriesFailed(u)
  <2>1. \A s \in u.retrier : s \in Tasks /\ s # t /\ s \in wi.retrier
    BY <1>1, <1>8, SoundType
  <2> QED
    BY <1>1, <1>8, <2>1 DEF RetriesFailed
<1>13. InOrder(u)
  <2>1. /\ u.present = wi.present /\ (wi.wf # "NEW" => u.wf # "NEW")
        /\ wi.present \in SUBSET Tasks
    BY <1>1, <1>8, SoundType
  <2>2. \A s \in Tasks : u.status[s] # "none" => wi.status[s] # "none"
    BY <1>2, <1>8
  <2>3. \A s \in Tasks : wi.status[s] = "TERMINATED" /\ wi.retval[s] = 0
                           => u.status[s] = "TERMINATED" /\ u.retval[s] = 0
    BY <1>2, <1>8
  <2> QED
    BY ONLY <1>1, <2>1, <2>2, <2>3, OrderFrame
<1>14. Sound(u) /\ u.wf # "TERMINATED"
  BY <1>3, <1>6, <1>8, <1>11, <1>12, <1>13 DEF Sound
<1>15. Finish(u)
  BY DEF TaskRestart, u, e
<1> QED
  BY <1>3, <1>10, <1>14, <1>15, FinishPreserves

\* A task that has left the pool and is not queued any more: what TaskAbort
\* and TaskExecute have in common.
LEMMA DequeuedSound ==
    ASSUME InstanceInv, NEW t \in Tasks, t \in wi.pool,
           NEW u, u \in InstanceType, u.status[t] \in {"EXECUTING", "ABORTED"},
           \A s \in Tasks \ {t} : u.status[s] = wi.status[s],
           u.retval = wi.retval, u.present = wi.present, u.wf = wi.wf,
           u.retrier = wi.retrier
    PROVE  Sound(u) /\ u.wf # "TERMINATED" /\ t \in Active(wi)
<1>1. /\ Counted(wi, 0) /\ wi \in InstanceType
      /\ InDocument(wi) /\ RetriesFailed(wi) /\ InOrder(wi)
  BY DEF InstanceInv, Sound
<1>2. wi.status[t] = "QUEUED"
  BY <1>1 DEF Counted
<1>3. InDocument(u)
  BY <1>1, <1>2 DEF InDocument
<1>4. RetriesFailed(u)
  <2>1. \A s \in u.retrier : s \in Tasks /\ s # t
    BY <1>1, <1>2, SoundType DEF RetriesFailed
  <2> QED
    BY <1>1, <2>1 DEF RetriesFailed
<1>5. InOrder(u)
  <2>1. wi.present \in SUBSET Tasks
    BY <1>1, SoundType
  <2>2. \A s \in Tasks : u.status[s] # "none" => wi.status[s] # "none"
    BY <1>2
  <2>3. \A s \in Tasks : wi.status[s] = "TERMINATED" /\ wi.retval[s] = 0
                           => u.status[s] = "TERMINATED" /\ u.retval[s] = 0
    BY <1>2
  <2>4. u.present = wi.present /\ (wi.wf # "NEW" => u.wf # "NEW")
    OBVIOUS
  <2> QED
    BY ONLY <1>1, <2>1, <2>2, <2>3, <2>4, OrderFrame
<1> QED
  BY <1>2, <1>3, <1>4, <1>5, NotEnded DEF Sound, Active

\* The Forker finds nothing to execute.
LEMMA TaskAbortPreserves ==
    ASSUME InstanceInv, NEW t \in Tasks, TaskAbort(t)
    PROVE  InstanceInv'
<1>1. wi \in InstanceType /\ t \in wi.pool /\ Counted(wi, 0)
  BY DEF InstanceInv, Sound, TaskAbort
<1> DEFINE status == [wi.status EXCEPT ![t] = "ABORTED"]
           pool == wi.pool \ {t}
           error == wi.error_tasks + 1
           x == [wi EXCEPT !.pool = pool, !.status = status, !.error_tasks = error]
           u == [x EXCEPT !.running_tasks = @ - 1]
<1>2. Finish(u)
  BY <1>1 DEF TaskAbort, Dequeued, InstanceType
<1>3. /\ status \in [Tasks -> Statuses] /\ pool \in SUBSET Tasks /\ error \in Nat
      /\ status[t] = "ABORTED" /\ \A s \in Tasks \ {t} : status[s] = wi.status[s]
  BY <1>1 DEF InstanceType, Statuses
<1> HIDE DEF status, error, pool
<1>4. x \in InstanceType
  BY <1>1, <1>3 DEF InstanceType
<1>5. /\ x.status = status /\ x.pool = pool /\ x.retval = wi.retval /\ x.present = wi.present
      /\ x.wf = wi.wf /\ x.retrier = wi.retrier /\ x.retrying_tasks = wi.retrying_tasks
      /\ x.running_tasks = wi.running_tasks
  BY <1>1 DEF InstanceType
<1> HIDE DEF x
<1>6. Sound(x) /\ x.wf # "TERMINATED" /\ t \in Active(wi)
  BY <1>1, <1>3, <1>4, <1>5, DequeuedSound
<1>7. Counted(x, 1)
  <2>1. t \notin Active(x)
    BY <1>3, <1>5 DEF Active
  <2>2. /\ \A s \in Tasks \ {t} : x.status[s] = wi.status[s]
        /\ x.running_tasks = wi.running_tasks /\ x.pool = wi.pool \ {t}
        /\ x.retrying_tasks = Cardinality(x.retrier)
    BY <1>1, <1>3, <1>5 DEF pool, Counted
  <2> QED
    BY ONLY t \in Tasks, <1>1, <1>4, <1>6, <2>1, <2>2, StopCounted
<1>8. Sound(u) /\ Counted(u, 0) /\ u.wf = x.wf
  BY ONLY <1>6, <1>7, u = [x EXCEPT !.running_tasks = @ - 1], Decrement
<1> HIDE DEF u
<1> QED
  BY <1>1, <1>2, <1>6, <1>8, NotEnded, FinishPreserves

\* The Forker has started the monitor of the task.
LEMMA TaskExecutePreserves ==
    ASSUME InstanceInv, NEW t \in Tasks, TaskExecute(t)
    PROVE  InstanceInv'
<1>1. wi \in InstanceType /\ t \in wi.pool /\ Counted(wi, 0)
  BY DEF InstanceInv, Sound, TaskExecute
<1> DEFINE status == [wi.status EXCEPT ![t] = "EXECUTING"]
           pool == wi.pool \ {t}
           x == [wi EXCEPT !.pool = pool, !.status = status]
<1>2. Finish(x)
  BY <1>1 DEF TaskExecute, Dequeued, InstanceType
<1>3. /\ status \in [Tasks -> Statuses] /\ pool \in SUBSET Tasks
      /\ status[t] = "EXECUTING" /\ \A s \in Tasks \ {t} : status[s] = wi.status[s]
  BY <1>1 DEF InstanceType, Statuses
<1> HIDE DEF status, pool
<1>4. x \in InstanceType
  BY <1>1, <1>3 DEF InstanceType
<1>5. /\ x.status = status /\ x.pool = pool /\ x.retval = wi.retval /\ x.present = wi.present
      /\ x.wf = wi.wf /\ x.retrier = wi.retrier /\ x.retrying_tasks = wi.retrying_tasks
      /\ x.running_tasks = wi.running_tasks
  BY <1>1 DEF InstanceType
<1> HIDE DEF x
<1>6. Sound(x) /\ x.wf # "TERMINATED" /\ t \in Active(wi)
  BY <1>1, <1>3, <1>4, <1>5, DequeuedSound
<1>7. Counted(x, 0)
  <2>1. Active(x) = Active(wi)
    BY <1>3, <1>5, <1>6 DEF Active
  <2>2. x.pool = {s \in Tasks : x.status[s] = "QUEUED"}
    BY <1>1, <1>3, <1>5 DEF pool, Counted
  <2> QED
    BY <1>1, <1>5, <2>1, <2>2 DEF Counted
<1> QED
  BY <1>1, <1>2, <1>6, <1>7, NotEnded, FinishPreserves

\* Handing failed tasks to retry_task keeps an instance sound.
LEMMA RetrySound ==
    ASSUME NEW w, Sound(w), NEW n \in Int, Counted(w, n), NEW set \in SUBSET Tasks,
           \A t \in set : w.status[t] = "TERMINATED" /\ w.retval[t] # 0 /\ t \notin w.retrier,
           NEW v, v = retry_task(w, set)
    PROVE  /\ Sound(v) /\ Counted(v, n)
           /\ v.status = w.status /\ v.retval = w.retval /\ v.present = w.present
           /\ v.wf = w.wf
<1>1. w \in InstanceType /\ InDocument(w) /\ RetriesFailed(w) /\ InOrder(w)
  BY DEF Sound
<1>2. PICK again \in SUBSET set : Retries(v, w, again)
  BY <1>1, RetryEffect
<1>3. /\ v \in InstanceType
      /\ v.status = w.status /\ v.retval = w.retval /\ v.present = w.present
      /\ v.wf = w.wf /\ v.running_tasks = w.running_tasks /\ v.pool = w.pool
      /\ v.retrier = w.retrier \cup again
      /\ v.retrying_tasks = w.retrying_tasks + Cardinality(again)
  BY <1>2 DEF Retries
<1>4. Cardinality(w.retrier \cup again) = Cardinality(w.retrier) + Cardinality(again)
  <2>1. w.retrier \in SUBSET Tasks /\ again \in SUBSET Tasks /\ w.retrier \cap again = {}
    BY <1>1, SoundType
  <2> QED
    BY ONLY <2>1, CountUnion
<1>5. Active(v) = Active(w)
  BY <1>3 DEF Active
<1>6. Counted(v, n)
  BY <1>3, <1>4, <1>5 DEF Counted
<1>7. InDocument(v)
  BY <1>1, <1>3 DEF InDocument
<1>8. RetriesFailed(v)
  BY <1>1, <1>3 DEF RetriesFailed
<1>9. InOrder(v)
  BY <1>1, <1>3 DEF InOrder, Succeeded, JobSucceeded
<1> QED
  BY <1>3, <1>6, <1>7, <1>8, <1>9 DEF Sound

\* An executing task has ended: it is still counted as running.
LEMMA EndedTaskSound ==
    ASSUME InstanceInv, NEW t \in Tasks, wi.status[t] = "EXECUTING",
           NEW u, u \in InstanceType, u.status[t] \in {"TERMINATED", "ABORTED"},
           \A s \in Tasks \ {t} : u.status[s] = wi.status[s] /\ u.retval[s] = wi.retval[s],
           u.present = wi.present, u.wf = wi.wf, u.pool = wi.pool,
           u.retrier = wi.retrier, u.retrying_tasks = wi.retrying_tasks,
           u.running_tasks = wi.running_tasks
    PROVE  Sound(u) /\ Counted(u, 1) /\ t \notin u.retrier
<1>1. /\ Counted(wi, 0) /\ wi \in InstanceType
      /\ InDocument(wi) /\ RetriesFailed(wi) /\ InOrder(wi)
  BY DEF InstanceInv, Sound
<1>2. InDocument(u)
  BY <1>1 DEF InDocument
<1>3. t \notin wi.retrier
  BY <1>1 DEF RetriesFailed
<1>4. RetriesFailed(u)
  <2>1. \A s \in u.retrier : s \in Tasks /\ s # t
    BY <1>1, <1>3, SoundType
  <2> QED
    BY <1>1, <2>1 DEF RetriesFailed
<1>5. InOrder(u)
  <2>1. wi.present \in SUBSET Tasks
    BY <1>1, SoundType
  <2>2. \A s \in Tasks : u.status[s] # "none" => wi.status[s] # "none"
    OBVIOUS
  <2>3. \A s \in Tasks : wi.status[s] = "TERMINATED" /\ wi.retval[s] = 0
                           => u.status[s] = "TERMINATED" /\ u.retval[s] = 0
    OBVIOUS
  <2>4. u.present = wi.present /\ (wi.wf # "NEW" => u.wf # "NEW")
    OBVIOUS
  <2> QED
    BY ONLY <1>1, <2>1, <2>2, <2>3, <2>4, OrderFrame
<1>6. Counted(u, 1)
  <2>1. t \in Active(wi) /\ t \notin Active(u)
    BY DEF Active
  <2>2. /\ \A s \in Tasks \ {t} : u.status[s] = wi.status[s]
        /\ u.running_tasks = wi.running_tasks
        /\ u.pool = wi.pool \ {t}
        /\ u.retrying_tasks = Cardinality(u.retrier)
    BY <1>1 DEF Counted
  <2> QED
    BY ONLY t \in Tasks, <1>1, u \in InstanceType, <2>1, <2>2, StopCounted
<1> QED
  BY <1>2, <1>3, <1>4, <1>5, <1>6 DEF Sound

\* What TaskStop does to the task, before the subjobs: it terminates the task,
\* aborts it, or hands it to retry_task.
LEMMA StoppedSound ==
    ASSUME InstanceInv, NEW t \in Tasks, wi.status[t] = "EXECUTING",
           NEW ret \in Retvals, NEW ok \in BOOLEAN, NEW v, v = Stopped(t, ret, ok)
    PROVE  /\ Sound(v) /\ Counted(v, 1)
           /\ \A s \in Tasks \ {t} : v.status[s] = wi.status[s]
           /\ v.present = wi.present /\ v.wf = wi.wf
<1>1. wi \in InstanceType
  BY DEF InstanceInv, Sound
<1> DEFINE status == [wi.status EXCEPT ![t] = "TERMINATED"]
           retval == [wi.retval EXCEPT ![t] = ret]
           w == [wi EXCEPT !.status = status, !.retval = retval]
           aborted == [status EXCEPT ![t] = "ABORTED"]
           error == wi.error_tasks + 1
           x == [w EXCEPT !.status = aborted, !.error_tasks = error]
<1>2. /\ status \in [Tasks -> Statuses] /\ aborted \in [Tasks -> Statuses]
      /\ retval \in [Tasks -> Retvals \cup {0}] /\ error \in Nat
      /\ status[t] = "TERMINATED" /\ retval[t] = ret /\ aborted[t] = "ABORTED"
      /\ \A s \in Tasks \ {t} : /\ status[s] = wi.status[s] /\ aborted[s] = wi.status[s]
                                /\ retval[s] = wi.retval[s]
  BY <1>1 DEF InstanceType, Statuses
<1>3. v = CASE ret = 0 /\ ok -> w
            [] ret = 0 /\ ~ ok -> x
            [] ret # 0 /\ wi.is_cancelling -> w
            [] OTHER -> retry_task(w, {t})
  BY <1>1 DEF Stopped, InstanceType
<1> HIDE DEF status, retval, aborted, error
<1>4. w \in InstanceType
  BY <1>1, <1>2 DEF InstanceType
<1>5. /\ w.status = status /\ w.retval = retval /\ w.present = wi.present /\ w.wf = wi.wf
      /\ w.pool = wi.pool /\ w.retrier = wi.retrier /\ w.retrying_tasks = wi.retrying_tasks
      /\ w.running_tasks = wi.running_tasks
  BY <1>1 DEF InstanceType
<1> HIDE DEF w
<1>6. x \in InstanceType
  BY <1>2, <1>4 DEF InstanceType
<1>7. /\ x.status = aborted /\ x.retval = retval /\ x.present = wi.present /\ x.wf = wi.wf
      /\ x.pool = wi.pool /\ x.retrier = wi.retrier /\ x.retrying_tasks = wi.retrying_tasks
      /\ x.running_tasks = wi.running_tasks
  BY <1>4, <1>5 DEF InstanceType
<1> HIDE DEF x
<1>8. Sound(w) /\ Counted(w, 1) /\ t \notin w.retrier
  BY <1>2, <1>4, <1>5, EndedTaskSound
<1>9. Sound(x) /\ Counted(x, 1)
  BY <1>2, <1>6, <1>7, EndedTaskSound
<1>10. CASE v = w
  BY <1>2, <1>5, <1>8, <1>10
<1>11. CASE v = x
  BY <1>2, <1>7, <1>9, <1>11
<1>12. CASE ret # 0 /\ v = retry_task(w, {t})
  <2>1. /\ {t} \in SUBSET Tasks /\ 1 \in Int
        /\ \A s \in {t} : w.status[s] = "TERMINATED" /\ w.retval[s] # 0 /\ s \notin w.retrier
    BY <1>2, <1>5, <1>8, <1>12
  <2>2. /\ Sound(v) /\ Counted(v, 1)
        /\ v.status = w.status /\ v.present = w.present /\ v.wf = w.wf
    BY ONLY <1>8, <1>12, <2>1, RetrySound
  <2> QED
    BY <1>2, <1>5, <2>2
<1> QED
  BY <1>3, <1>10, <1>11, <1>12

\* The Gatherer reports the end of a task; if all tasks of its job have
\* succeeded, the subjobs are run, and none of them has been touched before.
LEMMA TaskStopPreserves ==
    ASSUME InstanceInv, NEW t \in Tasks, NEW ret \in Retvals, NEW ok \in BOOLEAN,
           TaskStop(t, ret, ok)
    PROVE  InstanceInv'
<1> DEFINE w == Stopped(t, ret, ok)
           j == JobOf[t]
<1>1. /\ wi.status[t] = "EXECUTING" /\ wi \in InstanceType
      /\ InDocument(wi) /\ InOrder(wi)
  BY DEF InstanceInv, Sound, TaskStop
<1>2. wi.wf # "TERMINATED"
  BY <1>1, NotEnded
<1>3. \/ /\ JobSucceeded(w, j)
         /\ \E pass \in Passes(w, j) :
               Finish([run_subjobs(w, pass) EXCEPT !.running_tasks = @ - 1])
      \/ Finish([w EXCEPT !.running_tasks = @ - 1])
  BY DEF TaskStop
<1>4. /\ Sound(w) /\ Counted(w, 1)
      /\ \A s \in Tasks \ {t} : w.status[s] = wi.status[s]
      /\ w.present = wi.present /\ w.wf = wi.wf
  BY <1>1, StoppedSound
<1>5. PICK p \in Jobs : t \in TasksBelow(p)
  BY <1>1 DEF InOrder
<1>6. j \in Jobs /\ j # Root
  BY <1>5, TreeFacts
<1>7. t \in wi.present
  BY <1>1 DEF InDocument
<1>8. \A s \in TasksBelow(j) : s \in Tasks /\ s # t /\ wi.status[s] = "none"
  <2>1. \A s \in TasksBelow(j) : s \in Tasks
    BY <1>6, BelowType
  <2>2. \A s \in TasksBelow(j) : JobOf[s] # j
    BY <1>6, TreeFacts
  <2>3. ~ Succeeded(wi, j)
    BY <1>1, <1>7 DEF Succeeded, JobSucceeded
  <2>4. \A s \in TasksBelow(j) : wi.status[s] = "none"
    BY <1>1, <1>6, <2>1, <2>3 DEF InOrder
  <2> QED
    BY <2>1, <2>2, <2>4
<1> HIDE DEF w
<1>9. CASE /\ JobSucceeded(w, j)
           /\ \E pass \in Passes(w, j) :
                 Finish([run_subjobs(w, pass) EXCEPT !.running_tasks = @ - 1])
  <2>1. PICK pass \in Passes(w, j) :
           Finish([run_subjobs(w, pass) EXCEPT !.running_tasks = @ - 1])
    BY <1>9
  <2> DEFINE x == run_subjobs(w, pass)
             u == [x EXCEPT !.running_tasks = @ - 1]
  <2>2. /\ PassOver(pass, w, j) /\ 1 \in Int
        /\ \A s \in TasksBelow(j) : w.status[s] = "none"
        /\ IF j = Root THEN w.wf # "NEW" ELSE Succeeded(w, j)
    BY <1>4, <1>6, <1>7, <1>8, <1>9, PassesType DEF Succeeded
  <2>3. Sound(x) /\ Counted(x, 1) /\ x.wf = w.wf
    BY ONLY <1>4, <1>6, <2>2, SubjobsSound
  <2> HIDE DEF x
  <2>4. Sound(u) /\ Counted(u, 0) /\ u.wf = x.wf
    BY ONLY <2>3, u = [x EXCEPT !.running_tasks = @ - 1], Decrement
  <2>5. Finish(u)
    BY <2>1 DEF x
  <2> HIDE DEF u
  <2> QED
    BY <1>2, <1>4, <2>3, <2>4, <2>5, FinishPreserves
<1>10. CASE Finish([w EXCEPT !.running_tasks = @ - 1])
  <2> DEFINE u == [w EXCEPT !.running_tasks = @ - 1]
  <2>1. Sound(u) /\ Counted(u, 0) /\ u.wf = w.wf
    BY ONLY <1>4, u = [w EXCEPT !.running_tasks = @ - 1], Decrement
  <2>2. Finish(u)
    BY <1>10
  <2> HIDE DEF u
  <2> QED
    BY <1>2, <1>4, <2>1, <2>2, FinishPreserves
<1> QED
  BY <1>3, <1>9, <1>10

\* The instance is started: the subjobs of the root have not been touched.
LEMMA StartPreserves ==
    ASSUME InstanceInv, Start
    PROVE  InstanceInv'
<1> DEFINE w == [wi EXCEPT !.wf = "EXECUTING"]
<1>1. /\ Counted(wi, 0) /\ wi \in InstanceType /\ wi.wf = "NEW"
      /\ InDocument(wi) /\ RetriesFailed(wi) /\ InOrder(wi)
  BY DEF InstanceInv, Sound, Start
<1>2. PICK pass \in Passes(wi, Root) : Finish(run_subjobs(w, pass))
  BY DEF Start
<1>3. w \in InstanceType
  BY <1>1 DEF InstanceType
<1>4. /\ w.status = wi.status /\ w.retval = wi.retval /\ w.present = wi.present
      /\ w.pool = wi.pool /\ w.retrier = wi.retrier /\ w.retrying_tasks = wi.retrying_tasks
      /\ w.running_tasks = wi.running_tasks /\ w.wf = "EXECUTING"
  BY <1>1 DEF InstanceType
<1> HIDE DEF w
<1>5. InDocument(w) /\ RetriesFailed(w)
  BY <1>1, <1>4 DEF InDocument, RetriesFailed
<1>6. InOrder(w)
  BY <1>1, <1>4 DEF InOrder, Succeeded, JobSucceeded
<1>7. Sound(w)
  BY <1>3, <1>5, <1>6 DEF Sound
<1>8. Counted(w, 0)
  <2>1. Active(w) = Active(wi)
    BY <1>4 DEF Active
  <2> QED
    BY <1>1, <1>4, <2>1 DEF Counted
<1>9. Root \in Jobs /\ PassOver(pass, wi, Root)
  BY <1>2, InstanceAssumption, PassesType
<1>10. PassOver(pass, w, Root)
  BY <1>4, <1>9 DEF PassOver
<1>11. \A t \in TasksBelow(Root) : w.status[t] = "none"
  <2>1. \A t \in TasksBelow(Root) : t \in Tasks
    BY <1>9, BelowType
  <2> QED
    BY <1>1, <1>4, <1>9, <2>1 DEF InOrder
<1> DEFINE u == run_subjobs(w, pass)
<1>12. Sound(u) /\ Counted(u, 0) /\ u.wf = w.wf
  <2>1. 0 \in Int /\ (IF Root = Root THEN w.wf # "NEW" ELSE Succeeded(w, Root))
    BY <1>4
  <2> QED
    BY ONLY <1>7, <1>8, <1>9, <1>10, <1>11, <2>1, SubjobsSound
<1>13. Finish(u)
  BY <1>2
<1> HIDE DEF u
<1> QED
  BY <1>1, <1>4, <1>12, <1>13, FinishPreserves

\* A cancellation only marks the instance, and the mark is not in the row.
LEMMA CancelPreserves ==
    ASSUME InstanceInv, Cancel
    PROVE  InstanceInv'
<1>1. /\ Counted(wi, 0) /\ wi \in InstanceType /\ wi.wf # "TERMINATED"
      /\ InDocument(wi) /\ RetriesFailed(wi) /\ InOrder(wi)
  BY DEF InstanceInv, Sound, Cancel
<1> DEFINE w == [wi EXCEPT !.is_cancelling = TRUE]
<1>2. wi' = w /\ saved' = saved /\ deleted' = deleted
  BY DEF Cancel
<1>3. w \in InstanceType
  BY <1>1 DEF InstanceType
<1>4. /\ w.status = wi.status /\ w.retval = wi.retval /\ w.present = wi.present
      /\ w.pool = wi.pool /\ w.retrier = wi.retrier /\ w.retrying_tasks = wi.retrying_tasks
      /\ w.running_tasks = wi.running_tasks /\ w.wf = wi.wf
      /\ DocOf(w) = DocOf(wi)
  BY <1>1 DEF InstanceType, DocOf
<1> HIDE DEF w
<1>5. InDocument(w) /\ RetriesFailed(w)
  BY <1>1, <1>4 DEF InDocument, RetriesFailed
<1>6. InOrder(w)
  BY <1>1, <1>4 DEF InOrder, Succeeded, JobSucceeded
<1>7. Sound(w)
  BY <1>3, <1>5, <1>6 DEF Sound
<1>8. Counted(w, 0)
  <2>1. Active(w) = Active(wi)
    BY <1>4 DEF Active
  <2> QED
    BY <1>1, <1>4, <2>1 DEF Counted
<1>9. NothingAfterTheEnd'
  BY <1>1, <1>2, <1>4 DEF InstanceInv, NothingAfterTheEnd
<1>10. SavedIsCurrent'
  <2>1. DocOf(wi)' = DocOf(wi)
    BY <1>2, <1>4 DEF DocOf
  <2> QED
    BY <1>2, <1>4, <2>1 DEF InstanceInv, SavedIsCurrent
<1> QED
  BY <1>2, <1>7, <1>8, <1>9, <1>10 DEF InstanceInv

\* What is resumed from the document of a sound instance is sound: every task
\* that was queued or executing is counted again, and no other.
LEMMA ResumeSound ==
    ASSUME NEW w, Sound(w), Counted(w, 0), NEW v, v = Resume(DocOf(w))
    PROVE  Sound(v) /\ Counted(v, 0) /\ v.wf = w.wf
<1>1. w \in InstanceType /\ InDocument(w) /\ RetriesFailed(w) /\ InOrder(w)
  BY DEF Sound
<1>2. w.present \in SUBSET Tasks /\ \A t \in Tasks : w.status[t] \in Statuses
  BY <1>1, SoundType
<1> DEFINE f == FreshInstance(DocOf(w))
           queued == {t \in w.present : w.status[t] = "QUEUED"}
           executing == {t \in w.present : w.status[t] = "EXECUTING"}
           failed == {t \in w.present : w.status[t] = "TERMINATED" /\ w.retval[t] # 0}
           e == enqueue_task(f, queued)
           c == [e EXCEPT !.running_tasks = @ + Cardinality(executing)]
<1>3. v = retry_task(c, failed)
  BY DEF Resume, DocOf
<1>4. f \in InstanceType
  BY <1>1 DEF FreshInstance, DocOf, InstanceType
<1>5. /\ f.status = w.status /\ f.retval = w.retval /\ f.present = w.present /\ f.wf = w.wf
      /\ f.running_tasks = 0 /\ f.retrying_tasks = 0 /\ f.pool = {} /\ f.retrier = {}
  BY DEF FreshInstance, DocOf
<1> HIDE DEF f
<1>6. /\ queued \in SUBSET Tasks /\ executing \in SUBSET Tasks /\ failed \in SUBSET Tasks
      /\ queued = {t \in Tasks : w.status[t] = "QUEUED"}
      /\ executing = {t \in Tasks : w.status[t] = "EXECUTING"}
  BY <1>1, <1>2 DEF InDocument
<1>7. \A t \in failed : w.status[t] = "TERMINATED" /\ w.retval[t] # 0
  OBVIOUS
<1> HIDE DEF queued, executing, failed
<1>8. PICK good \in SUBSET queued : Enqueues(e, f, queued, good)
  BY <1>4, <1>6, EnqueueEffect
<1> HIDE DEF e
<1>9. /\ e \in InstanceType /\ e.running_tasks = Cardinality(good)
      /\ \A t \in Tasks : e.status[t] = IF t \in good THEN "QUEUED"
                                        ELSE IF t \in queued THEN "ABORTED" ELSE w.status[t]
      /\ e.pool = good /\ e.retval = w.retval /\ e.present = w.present /\ e.wf = w.wf
      /\ e.retrying_tasks = 0 /\ e.retrier = {}
  <2>1. good \in SUBSET Tasks
    BY <1>6, <1>8
  <2>2. Cardinality(good) \in Nat
    BY <2>1, TasksFinite
  <2> QED
    BY <1>5, <1>8, <2>2 DEF Enqueues
<1>10. /\ c \in InstanceType /\ c.running_tasks = Cardinality(good) + Cardinality(executing)
       /\ c.status = e.status /\ c.retval = e.retval /\ c.present = e.present /\ c.wf = e.wf
       /\ c.pool = e.pool /\ c.retrying_tasks = e.retrying_tasks /\ c.retrier = e.retrier
  <2> DEFINE n == e.running_tasks + Cardinality(executing)
  <2>1. Cardinality(executing) \in Nat
    BY <1>6, TasksFinite
  <2>2. n \in Int /\ n = Cardinality(good) + Cardinality(executing)
    BY <1>9, <2>1, SoundType
  <2>3. c = [e EXCEPT !.running_tasks = n]
    BY <1>9 DEF InstanceType
  <2> HIDE DEF n, c
  <2>4. c \in InstanceType
    BY <1>9, <2>2, <2>3 DEF InstanceType
  <2> QED
    BY <1>9, <2>2, <2>3, <2>4 DEF InstanceType
<1> HIDE DEF c
<1>11. \A t \in Tasks : c.status[t] = IF t \in good THEN "QUEUED"
                                      ELSE IF t \in queued THEN "ABORTED" ELSE w.status[t]
  BY <1>9, <1>10
<1>12. Counted(c, 0)
  <2>1. Active(c) = good \cup executing /\ good \cap executing = {}
    BY <1>6, <1>8, <1>11 DEF Active
  <2>2. good \in SUBSET Tasks
    BY <1>6, <1>8
  <2>3. Cardinality(good \cup executing) = Cardinality(good) + Cardinality(executing)
    BY ONLY <1>6, <2>1, <2>2, CountUnion
  <2>4. Cardinality(Active(c)) \in Nat
    BY <1>10, SoundType, TasksFinite
  <2>5. c.pool = {t \in Tasks : c.status[t] = "QUEUED"}
    BY <1>6, <1>8, <1>9, <1>10, <1>11
  <2>6. Cardinality({}) = 0
    BY FS_EmptySet
  <2> QED
    BY <1>9, <1>10, <2>1, <2>3, <2>4, <2>5, <2>6 DEF Counted
<1>13. InDocument(c)
  BY <1>1, <1>6, <1>8, <1>9, <1>10, <1>11 DEF InDocument
<1>14. RetriesFailed(c)
  BY <1>9, <1>10 DEF RetriesFailed
<1>15. InOrder(c)
  <2>1. c.present = w.present /\ (w.wf # "NEW" => c.wf # "NEW")
    BY <1>9, <1>10
  <2>2. \A s \in Tasks : c.status[s] # "none" => w.status[s] # "none"
    BY <1>6, <1>8, <1>11
  <2>3. \A s \in Tasks : w.status[s] = "TERMINATED" /\ w.retval[s] = 0
                           => c.status[s] = "TERMINATED" /\ c.retval[s] = 0
    BY <1>6, <1>8, <1>9, <1>10, <1>11
  <2> QED
    BY ONLY <1>1, <1>2, <2>1, <2>2, <2>3, OrderFrame
<1>16. Sound(c)
  BY <1>10, <1>13, <1>14, <1>15 DEF Sound
<1>17. \A t \in failed : c.status[t] = "TERMINATED" /\ c.retval[t] # 0 /\ t \notin c.retrier
  BY <1>6, <1>7, <1>8, <1>9, <1>10, <1>11
<1>18. Sound(v) /\ Counted(v, 0) /\ v.wf = c.wf
  <2>1. 0 \in Int
    OBVIOUS
  <2> QED
    BY ONLY <1>3, <1>6, <1>12, <1>16, <1>17, <2>1, RetrySound
<1> QED
  BY <1>9, <1>10, <1>18

\* The engine is stopped and the next one resumes the instance.
LEMMA RestartPreserves ==
    ASSUME InstanceInv, Restart
    PROVE  InstanceInv'
<1> DEFINE row == record_savepoint(wi, saved, TRUE)
           r == Resume(row.doc)
           v == workflow_ended(r)
<1>1. /\ Sound(wi) /\ Counted(wi, 0) /\ wi.wf # "TERMINATED" /\ deleted = 0
  BY DEF InstanceInv, Restart, NothingAfterTheEnd
<1>2. /\ wi' = v
      /\ saved' = IF Level <= 1 THEN [row EXCEPT !.kind = "none"]
                  ELSE record_savepoint(v, row, FALSE)
      /\ deleted' = deleted + (IF v.wf = "TERMINATED" THEN 1 ELSE 0)
  BY DEF Restart
<1>3. row.doc = DocOf(wi)
  BY <1>1 DEF record_savepoint
<1> HIDE DEF row
<1>4. Sound(r) /\ Counted(r, 0) /\ r.wf = wi.wf
  BY <1>1, <1>3, ResumeSound
<1> HIDE DEF r
<1>5. /\ Sound(v) /\ Counted(v, 0)
      /\ v.wf = "TERMINATED" =>
            v.pool = {} /\ v.retrier = {} /\ \A t \in Tasks : v.status[t] # "EXECUTING"
  BY <1>1, <1>4, EndedFacts
<1> HIDE DEF v
<1>6. NothingAfterTheEnd'
  BY <1>1, <1>2, <1>5 DEF NothingAfterTheEnd
<1>7. SavedIsCurrent'
  <2>1. (Level = 3 \/ (Level = 2 /\ v.wf = "TERMINATED")) =>
           record_savepoint(v, row, FALSE) = [kind |-> "doc", doc |-> DocOf(v)]
    BY DEF record_savepoint
  <2>2. DocOf(wi)' = DocOf(v)
    BY <1>2 DEF DocOf
  <2>3. ASSUME Level = 3 \/ (Level = 2 /\ wi'.wf = "TERMINATED")
        PROVE  saved'.kind = "doc" /\ saved'.doc = DocOf(v)
    <3>1. ~ (Level <= 1)
      BY <2>3
    <3>2. saved' = [kind |-> "doc", doc |-> DocOf(v)]
      BY <1>2, <2>1, <2>3, <3>1
    <3> QED
      BY <3>2
  <2> QED
    BY <2>2, <2>3 DEF SavedIsCurrent
<1> QED
  BY <1>2, <1>5, <1>6, <1>7 DEF InstanceInv

\* A new instance.
LEMMA InitInv == Init => InstanceInv
<1> SUFFICES ASSUME Init PROVE InstanceInv
  OBVIOUS
<1>1. wi = FreshInstance(NewDocument)
  BY DEF Init
<1>2. /\ \A t \in Tasks : wi.status[t] = "none"
      /\ wi.present = Tasks \ CloneTasks /\ wi.wf = "NEW"
      /\ wi.running_tasks = 0 /\ wi.retrying_tasks = 0 /\ wi.pool = {} /\ wi.retrier = {}
  BY <1>1 DEF FreshInstance, NewDocument
<1>3. wi \in InstanceType
  <2> DEFINE status == [t \in Tasks |-> "none"]
             retval == [t \in Tasks |-> 0]
             delay == [t \in Tasks |-> Policy[t].delay]
             times == [t \in Tasks |-> Policy[t].times]
  <2>1. /\ status \in [Tasks -> Statuses] /\ retval \in [Tasks -> Retvals \cup {0}]
        /\ retval \in [Tasks -> Nat]
        /\ delay \in [Tasks -> Nat \cup {Absent}] /\ times \in [Tasks -> Nat \cup {Absent}]
    BY InstanceAssumption DEF Statuses
  <2>2. wi = [status |-> status, retval |-> retval, level |-> retval,
              delay |-> delay, times |-> times, present |-> Tasks \ CloneTasks,
              skipped |-> {}, wf |-> "NEW", running_tasks |-> 0, retrying_tasks |-> 0,
              error_tasks |-> 0, is_cancelling |-> FALSE, pool |-> {}, retrier |-> {}]
    BY <1>1 DEF FreshInstance, NewDocument
  <2> HIDE DEF status, retval, delay, times
  <2> QED
    BY <2>1, <2>2 DEF InstanceType
<1>4. InDocument(wi) /\ RetriesFailed(wi) /\ InOrder(wi)
  BY <1>2 DEF InDocument, RetriesFailed, InOrder
<1>5. Counted(wi, 0)
  <2>1. Active(wi) = {} /\ {t \in Tasks : wi.status[t] = "QUEUED"} = {}
    BY <1>2 DEF Active
  <2>2. Cardinality({}) = 0
    BY FS_EmptySet
  <2> QED
    BY <1>2, <2>1, <2>2 DEF Counted
<1>6. NothingAfterTheEnd
  BY <1>2 DEF NothingAfterTheEnd, Init
<1>7. SavedIsCurrent
  <2>1. DocOf(wi) = NewDocument
    BY <1>1 DEF DocOf, FreshInstance, NewDocument
  <2>2. Level = 3 => saved.kind = "doc" /\ saved.doc = NewDocument
    BY DEF Init
  <2> QED
    BY <1>2, <2>1, <2>2 DEF SavedIsCurrent
<1> QED
  BY <1>3, <1>4, <1>5, <1>6, <1>7 DEF InstanceInv, Sound

\* Every operation preserves the invariant.
LEMMA InstanceStep == InstanceInv /\ [Next]_vars => InstanceInv'
<1> SUFFICES ASSUME InstanceInv, [Next]_vars PROVE InstanceInv'
  OBVIOUS
<1>1. CASE Start
  BY <1>1, StartPreserves
<1>2. CASE Cancel
  BY <1>2, CancelPreserves
<1>3. CASE Forker
  <2>1. PICK t \in Tasks : TaskExecute(t) \/ TaskAbort(t)
    BY <1>3 DEF Forker
  <2> QED
    BY <2>1, TaskExecutePreserves, TaskAbortPreserves
<1>4. CASE Gatherer
  <2>1. PICK t \in Tasks, ret \in Retvals, ok \in BOOLEAN : TaskStop(t, ret, ok)
    BY <1>4 DEF Gatherer
  <2> QED
    BY <2>1, TaskStopPreserves
<1>5. CASE Retrier
  <2>1. PICK t \in Tasks : TaskRestart(t)
    BY <1>5 DEF Retrier
  <2> QED
    BY <2>1, TaskRestartPreserves
<1>6. CASE Restart
  BY <1>6, RestartPreserves
<1>7. CASE UNCHANGED vars
  <2>1. wi' = wi /\ saved' = saved /\ deleted' = deleted
    BY <1>7 DEF vars
  <2>2. NothingAfterTheEnd' /\ SavedIsCurrent'
    BY <2>1 DEF InstanceInv, NothingAfterTheEnd, SavedIsCurrent, DocOf
  <2> QED
    BY <2>1, <2>2 DEF InstanceInv
<1> QED
  BY <1>1, <1>2, <1>3, <1>4, <1>5, <1>6, <1>7 DEF Next

-----------------------------------------------------------------------------
(* The theorems.                                                           *)

\* The inductive invariant: whatever the tasks return, whenever the instance
\* is cancelled or the engine restarted, every operation leaves a sound
\* document, counters that match it, and a row that is current.
THEOREM InstanceIsSound == Spec => []InstanceInv
  BY InitInv, InstanceStep, PTL DEF Spec

\* running_tasks and retrying_tasks, which decide when the instance ends, are
\* the numbers of the tasks that are queued or executing and of those the
\* Retrier holds, and the pool holds exactly the queued ones: enqueue_task,
\* TaskExecute, TaskStop, TaskRestart and Resume never count a task twice or
\* forget one (WorkflowInstance.cpp:399, 434, 580, 607, 1070, 1398).
THEOREM CountersAlwaysMatch == Spec => []CountersMatch
<1>1. InstanceInv => CountersMatch
  <2> SUFFICES ASSUME InstanceInv PROVE CountersMatch
    OBVIOUS
  <2>1. Counted(wi, 0) /\ wi \in InstanceType
    BY DEF InstanceInv, Sound
  <2>2. Active(wi) = {t \in Tasks : wi.status[t] = "QUEUED"}
                       \cup {t \in Tasks : wi.status[t] = "EXECUTING"}
    BY DEF Active
  <2>3. Cardinality(Active(wi)) \in Nat
    BY <2>1, SoundType, TasksFinite
  <2> QED
    BY <2>1, <2>2, <2>3 DEF Counted, CountersMatch
<1> QED
  BY <1>1, InstanceIsSound, PTL

\* workflow_ended tells exactly one caller to delete the instance, and no
\* queue, monitor or timer refers to it then, so that nothing uses the deleted
\* object (WorkflowInstance.cpp:1467-1486).
THEOREM EndIsFinal == Spec => []NothingAfterTheEnd
<1>1. InstanceInv => NothingAfterTheEnd
  BY DEF InstanceInv
<1> QED
  BY <1>1, InstanceIsSound, PTL

\* TaskStop runs the subjobs of a job once all its tasks have succeeded, and
\* none of their tasks is queued, executed or aborted before, in whatever order
\* the tasks of the job end, fail and are retried, and across restarts
\* (WorkflowInstance.cpp:556-578).
THEOREM JobsRunInOrder == Spec => []SubjobsInOrder
<1>1. ASSUME NEW j \in Jobs, NEW s \in ToSet(Subjobs[j])
      PROVE  Expected(s) \in SUBSET TasksBelow(j)
  <2> DEFINE jobs == IF s \in LoopedJobs THEN ToSet(Clones[s]) ELSE {s}
             ts == UNION {ToSet(TasksOf[k]) : k \in jobs}
  <2>1. jobs \in SUBSET JobsBelow(j)
    BY DEF JobsBelow
  <2> HIDE DEF jobs
  <2>2. ASSUME NEW t \in ts PROVE \E k \in JobsBelow(j) : t \in ToSet(TasksOf[k])
    BY <2>1
  <2>3. ts \in SUBSET TasksBelow(j)
    BY <2>2 DEF TasksBelow, TasksIn
  <2>4. ASSUME NEW t \in ts \cap LoopedTasks
        PROVE  ToSet(Clones[t]) \in SUBSET TasksBelow(j)
    <3>1. PICK k \in JobsBelow(j) : t \in ToSet(TasksOf[k])
      BY <2>2
    <3>2. ToSet(Clones[t]) \in SUBSET TasksIn(k)
      BY <2>4, <3>1 DEF TasksIn
    <3> QED
      BY <3>1, <3>2 DEF TasksBelow
  <2>5. Expected(s) = (ts \ LoopedTasks) \cup UNION {ToSet(Clones[t]) : t \in ts \cap LoopedTasks}
    BY DEF Expected, jobs
  <2> HIDE DEF ts
  <2> QED
    BY <2>3, <2>4, <2>5
<1>2. InstanceInv => SubjobsInOrder
  <2> SUFFICES ASSUME InstanceInv, NEW j \in Jobs, j # Root, NEW s \in ToSet(Subjobs[j]),
                      NEW t \in Expected(s), wi.status[t] # "none",
                      NEW u \in wi.present, JobOf[u] = j
               PROVE  HasRun(u)
    BY DEF SubjobsInOrder
  <2>1. t \in TasksBelow(j) /\ t \in Tasks
    BY <1>1, BelowType
  <2>2. Succeeded(wi, j)
    BY <2>1 DEF InstanceInv, Sound, InOrder
  <2> QED
    BY <2>2 DEF Succeeded, JobSucceeded, HasRun
<1> QED
  BY <1>2, InstanceIsSound, PTL

\* With savepoint level 3 the row is the document after every operation, so
\* that a crash between two of them loses nothing; with level 2 it is, once the
\* instance has ended (WorkflowInstance.cpp:1488-1582).
THEOREM RowIsCurrent == Spec => []SavedIsCurrent
<1>1. InstanceInv => SavedIsCurrent
  BY DEF InstanceInv
<1> QED
  BY <1>1, InstanceIsSound, PTL

\* What the type invariant says of the row, the restarts and the executions.
RestType ==
    /\ saved.kind \in {"none", "empty", "doc"}
    /\ restarts \in 0 .. MaxRestarts
    /\ tries \in [Tasks -> Nat]

\* Every operation keeps it.
LEMMA RestStep == RestType /\ [Next]_vars => RestType'
<1> SUFFICES ASSUME RestType, [Next]_vars PROVE RestType'
  OBVIOUS
<1>1. ASSUME NEW STATE u, Finish(u) PROVE saved'.kind \in {"none", "empty", "doc"}
  <2> DEFINE w == workflow_ended(u)
  <2>1. saved' = record_savepoint(w, saved, FALSE)
    BY <1>1 DEF Finish
  <2> HIDE DEF w
  <2>2. record_savepoint(w, saved, FALSE).kind \in {"none", "empty", "doc"}
    BY DEF RestType, record_savepoint
  <2> QED
    BY <2>1, <2>2
<1>2. CASE Start
  BY <1>1, <1>2 DEF Start, RestType
<1>3. CASE Cancel
  BY <1>3 DEF Cancel, RestType
<1>4. CASE Forker
  <2>1. PICK t \in Tasks : TaskExecute(t) \/ TaskAbort(t)
    BY <1>4 DEF Forker
  <2>2. CASE TaskExecute(t)
    BY <1>1, <2>2 DEF TaskExecute, RestType
  <2>3. CASE TaskAbort(t)
    BY <1>1, <2>3 DEF TaskAbort, RestType
  <2> QED
    BY <2>1, <2>2, <2>3
<1>5. CASE Gatherer
  <2>1. PICK t \in Tasks, ret \in Retvals, ok \in BOOLEAN : TaskStop(t, ret, ok)
    BY <1>5 DEF Gatherer
  <2> QED
    BY <1>1, <2>1 DEF TaskStop, RestType
<1>6. CASE Retrier
  <2>1. PICK t \in Tasks : TaskRestart(t)
    BY <1>6 DEF Retrier
  <2> QED
    BY <1>1, <2>1 DEF TaskRestart, RestType
<1>7. CASE Restart
  <2> DEFINE row == record_savepoint(wi, saved, TRUE)
  <2>1. row = [kind |-> "doc", doc |-> DocOf(wi)]
    BY <1>7 DEF record_savepoint, Restart
  <2>2. /\ saved' = IF Level <= 1 THEN [row EXCEPT !.kind = "none"]
                    ELSE record_savepoint(wi', row, FALSE)
        /\ restarts < MaxRestarts /\ restarts' = restarts + 1 /\ tries' = tries
    BY <1>7 DEF Restart
  <2> HIDE DEF row
  <2>3. record_savepoint(wi', row, FALSE).kind \in {"none", "empty", "doc"}
    BY <2>1 DEF record_savepoint
  <2>4. saved'.kind \in {"none", "empty", "doc"}
    BY <2>1, <2>2, <2>3
  <2>5. restarts' \in 0 .. MaxRestarts
    BY <2>2, InstanceAssumption DEF RestType
  <2> QED
    BY <2>2, <2>4, <2>5 DEF RestType
<1>8. CASE UNCHANGED vars
  BY <1>8 DEF vars, RestType
<1> QED
  BY <1>2, <1>3, <1>4, <1>5, <1>6, <1>7, <1>8 DEF Next

\* The document, the counters, the row and the numbers of executions keep their
\* types; in particular running_tasks -= 1 in TaskExecute and TaskStop, and
\* retrying_tasks -= 1 in TaskRestart, never go below zero, which follows from
\* CountersMatch (WorkflowInstance.cpp:399, 434, 580, 607).
THEOREM InstanceTypes == Spec => []TypeOK
<1>1. Init => RestType
  BY InstanceAssumption DEF Init, RestType
<1>2. Spec => []RestType
  BY <1>1, RestStep, PTL DEF Spec
<1>3. InstanceInv /\ RestType => TypeOK
  <2> SUFFICES ASSUME InstanceInv, RestType PROVE TypeOK
    OBVIOUS
  <2>1. wi \in InstanceType /\ Counted(wi, 0)
    BY DEF InstanceInv, Sound
  <2>2. /\ wi.running_tasks \in Nat /\ wi.retrying_tasks \in Nat
    <3>1. Cardinality(Active(wi)) \in Nat /\ Cardinality(wi.retrier) \in Nat
      BY <2>1, SoundType, TasksFinite
    <3> QED
      BY <2>1, <3>1 DEF Counted
  <2>3. deleted \in Nat
    BY DEF InstanceInv, NothingAfterTheEnd
  <2> QED
    BY <2>1, <2>2, <2>3 DEF TypeOK, InstanceType, Statuses, RestType
<1> QED
  BY <1>2, <1>3, InstanceIsSound, PTL

-----------------------------------------------------------------------------
(* The retries of a task.                                                  *)

\* What the attributes of a task, level l, delay d and times n, still allow:
\* the rest of the level and the levels behind it.
ToCome(t, l, d, n) ==
    LET p == Policy[t]
    IN  IF ~ p.schedule THEN (IF d \in {Absent, 0} \/ n = Absent THEN 0 ELSE n)
        ELSE IF l = 0 THEN Budget(p)
        ELSE IF l <= Len(p.levels) THEN n + (Budget(p) - RetriesUpTo(p.levels, l))
        ELSE 0

\* The attributes are those of the level, or, past the last one, of the last.
Consistent(t, l, d, n) ==
    LET p == Policy[t]
    IN  p.schedule =>
          /\ l \in 1 .. Len(p.levels) => d = p.levels[l].delay /\ n \in 0 .. p.levels[l].times
          /\ l = 0 \/ Len(p.levels) = 0 => d = p.delay /\ n = p.times
          /\ l > Len(p.levels) /\ Len(p.levels) > 0 => n = 0

\* A schedule without levels does not hide retry attributes of the task: once
\* the schedule is over, a resume would use these.
Bare(p) ==
    p.schedule /\ p.levels = <<>> => p.delay \in {Absent, 0} \/ p.times \in {Absent, 0}

\* A level that allows retries has a delay, and no level before it but the
\* first is empty: retry_task gives up at an empty level.
Usable(p) ==
    p.schedule => \A k \in 1 .. Len(p.levels) : p.levels[k].times > 0 =>
        p.levels[k].delay > 0 /\ \A i \in 2 .. k : p.levels[i].times > 0

\* The task is to be executed again, whatever its attributes say.
Due(w, t) == w.status[t] \in {"none", "QUEUED"} \/ t \in w.retrier

GivenUp(w, t) ==
    /\ w.status[t] = "TERMINATED" /\ w.retval[t] # 0
    /\ t \notin w.retrier /\ ~ w.is_cancelling
    /\ Policy[t].retval \in {0, w.retval[t]}

\* The executions and the retries to come make up the budget; less may be left
\* when a task is aborted or resumed.
RetryOK(w, n, r, t) ==
    LET left == ToCome(t, w.level[t], w.delay[t], w.times[t])
        sum == n + left + (IF Due(w, t) THEN 1 ELSE 0)
    IN  (r = 0 \/ Bare(Policy[t])) =>
          /\ Consistent(t, w.level[t], w.delay[t], w.times[t])
          /\ Due(w, t) \/ w.status[t] = "EXECUTING" =>
                ~ Policy[t].schedule \/ w.level[t] <= Len(Policy[t].levels)
          /\ sum <= 1 + Budget(Policy[t])
          /\ r = 0 /\ w.status[t] # "ABORTED" => sum = 1 + Budget(Policy[t])
          /\ r = 0 /\ GivenUp(w, t) /\ Usable(Policy[t]) => left = 0

\* All tasks, executed as often as f says.
RetriesOK(w, f, r) == \A t \in Tasks : RetryOK(w, f[t], r, t)

RetryInv == RetriesOK(wi, tries, restarts)

\* The levels of a schedule, as the constructor has copied them.
LEMMA PolicyType ==
    ASSUME NEW t \in Tasks
    PROVE  /\ Policy[t].schedule \in BOOLEAN
           /\ Policy[t].levels \in Seq([delay : Nat, times : Nat])
           /\ Len(Policy[t].levels) \in Nat
           /\ \A k \in 1 .. Len(Policy[t].levels) :
                 Policy[t].levels[k].delay \in Nat /\ Policy[t].levels[k].times \in Nat
           /\ Policy[t].delay \in Nat \cup {Absent} /\ Policy[t].times \in Nat \cup {Absent}
<1>1. /\ Policy[t].schedule \in BOOLEAN /\ Policy[t].levels \in Seq([delay : Nat, times : Nat])
      /\ Policy[t].delay \in Nat \cup {Absent} /\ Policy[t].times \in Nat \cup {Absent}
  BY InstanceAssumption
<1>2. ASSUME NEW k \in 1 .. Len(Policy[t].levels)
      PROVE  Policy[t].levels[k].delay \in Nat /\ Policy[t].levels[k].times \in Nat
  <2> DEFINE levels == Policy[t].levels
             LevelType == [delay : Nat, times : Nat]
  <2>1. levels \in Seq(LevelType) /\ k \in 1 .. Len(levels)
    BY <1>1
  <2> HIDE DEF levels, LevelType
  <2>2. levels[k] \in LevelType
    BY <2>1
  <2> QED
    BY <2>2 DEF levels, LevelType
<1>3. Len(Policy[t].levels) \in Nat
  BY <1>1
<1> QED
  BY ONLY <1>1, <1>2, <1>3

\* The retries of the first levels of a schedule add up.
LEMMA RetriesAddUp ==
    ASSUME NEW levels, Len(levels) \in Nat,
           \A k \in 1 .. Len(levels) : levels[k].times \in Nat
    PROVE  /\ RetriesUpTo(levels, 0) = 0
           /\ \A k \in 0 .. Len(levels) : RetriesUpTo(levels, k) \in Nat
           /\ \A k \in 1 .. Len(levels) :
                 RetriesUpTo(levels, k) = RetriesUpTo(levels, k - 1) + levels[k].times
<1> DEFINE n == Len(levels)
           F == [p \in (0 .. n) \X Nat |-> IF p[1] = 0 THEN 0 ELSE p[2] + levels[p[1]].times]
           Eq2(g) == g = [i \in 0 .. n |-> IF i = 0 THEN 0 ELSE g[i - 1] + levels[i].times]
           total == CHOOSE g : Eq2(g)
<1>1. n \in Nat /\ 0 \in Nat
  OBVIOUS
<1>2. F \in [(0 .. n) \X Nat -> Nat]
  OBVIOUS
<1>3. ASSUME NEW i \in 0 .. n, i # 0, NEW x \in Nat PROVE F[<<i, x>>] = x + levels[i].times
  BY <1>3
<1> HIDE DEF F, n
<1>4. PICK h : Solves(h, 0, n, 0, F)
  BY <1>1, <1>2, RecursionExists
<1>5. h \in [0 .. n -> Nat]
  BY <1>1, <1>2, <1>4, RecursionType
<1>6. \A i \in 0 .. n : i # 0 => i - 1 \in 0 .. n
  BY <1>1
<1>7. Eq2(h)
  <2>1. \A i \in 0 .. n : h[i] = IF i = 0 THEN 0 ELSE F[<<i, h[i - 1]>>]
    BY <1>4 DEF Solves
  <2>2. ASSUME NEW i \in 0 .. n, i # 0 PROVE h[i] = h[i - 1] + levels[i].times
    <3>1. h[i - 1] \in Nat
      BY <1>5, <1>6, <2>2
    <3> QED
      BY <1>3, <2>1, <2>2, <3>1
  <2> QED
    BY <1>5, <2>1, <2>2
<1>8. Eq2(total)
  BY <1>7
<1> HIDE DEF total
<1>9. total[0] = 0 /\ \A i \in 1 .. n : total[i] = total[i - 1] + levels[i].times
  BY <1>1, <1>8
<1>10. \A i \in 0 .. n : total[i] \in Nat
  <2> DEFINE Bad == {i \in 0 .. n : total[i] \notin Nat}
  <2>1. SUFFICES ASSUME Bad # {} PROVE FALSE
    BY <2>1
  <2>2. Bad \in SUBSET Nat
    OBVIOUS
  <2>3. PICK m \in Bad : \A i \in Bad : m <= i
    BY <2>1, <2>2, LeastNatural
  <2>4. m # 0
    BY <1>9, <2>3
  <2>5. m \in 1 .. n /\ m - 1 \in 0 .. n /\ m - 1 \notin Bad
    BY <1>1, <2>3, <2>4
  <2>6. total[m - 1] \in Nat /\ levels[m].times \in Nat
    BY <2>5 DEF n
  <2> QED
    BY <1>9, <2>3, <2>5, <2>6
<1>11. ASSUME NEW i \in 0 .. n PROVE RetriesUpTo(levels, i) = total[i]
  BY DEF RetriesUpTo, n, total
<1>12. 0 \in 0 .. n /\ \A i \in 1 .. n : i \in 0 .. n /\ i - 1 \in 0 .. n
  BY <1>1
<1> DEFINE up(i) == RetriesUpTo(levels, i)
<1>13. \A i \in 0 .. n : up(i) = total[i]
  BY <1>11
<1> HIDE DEF up
<1>14. /\ up(0) = 0 /\ \A i \in 0 .. n : up(i) \in Nat
       /\ \A i \in 1 .. n : up(i) = up(i - 1) + levels[i].times
  BY <1>9, <1>10, <1>12, <1>13
<1> QED
  BY <1>14 DEF up, n

\* Later levels only add, and levels without retries add nothing.
LEMMA RetriesGrow ==
    ASSUME NEW levels, Len(levels) \in Nat,
           \A k \in 1 .. Len(levels) : levels[k].times \in Nat,
           NEW l \in 0 .. Len(levels)
    PROVE  /\ RetriesUpTo(levels, l) <= RetriesUpTo(levels, Len(levels))
           /\ (\A k \in (l + 1) .. Len(levels) : levels[k].times = 0) =>
                 RetriesUpTo(levels, Len(levels)) = RetriesUpTo(levels, l)
<1> DEFINE n == Len(levels)
           up(k) == RetriesUpTo(levels, k)
           empty == \A i \in (l + 1) .. n : levels[i].times = 0
           Wrong == {k \in l .. n : ~ (up(l) <= up(k) /\ (empty => up(k) = up(l)))}
<1>1. /\ n \in Nat /\ l \in Nat /\ l <= n
      /\ \A k \in 0 .. n : up(k) \in Nat
      /\ \A k \in 1 .. n : up(k) = up(k - 1) + levels[k].times /\ levels[k].times \in Nat
  BY RetriesAddUp
<1>2. SUFFICES ASSUME Wrong # {} PROVE FALSE
  BY <1>1, <1>2
<1> HIDE DEF up
<1>3. Wrong \in SUBSET Nat
  BY <1>1
<1>4. PICK m \in Wrong : \A k \in Wrong : m <= k
  BY <1>2, <1>3, LeastNatural
<1>5. m # l
  BY <1>1, <1>4
<1>6. m \in (l + 1) .. n /\ m \in 1 .. n /\ m - 1 \in l .. n /\ m - 1 \in 0 .. n /\ m - 1 \notin Wrong
  BY <1>1, <1>4, <1>5
<1>7. up(m) = up(m - 1) + levels[m].times /\ up(m - 1) \in Nat /\ levels[m].times \in Nat /\ up(l) \in Nat
  BY <1>1, <1>6
<1>8. up(l) <= up(m)
  BY <1>6, <1>7
<1>9. empty => up(m) = up(l)
  <2>1. empty => levels[m].times = 0
    BY <1>6
  <2> HIDE DEF empty
  <2> QED
    BY <1>6, <1>7, <2>1
<1> QED
  BY <1>4, <1>8, <1>9

\* The budget of a task with a schedule, and what is left of it from level l
\* on: it is a number, and nothing is left behind the last level, or behind a
\* level that is empty, if the schedule is usable.
LEMMA ScheduleBudget ==
    ASSUME NEW t \in Tasks, Policy[t].schedule
    PROVE  LET p == Policy[t]
               m == Len(p.levels)
               up(k) == RetriesUpTo(p.levels, k)
           IN  /\ Budget(p) = up(m) /\ Budget(p) \in Nat
               /\ up(0) = 0 /\ \A k \in 0 .. m : up(k) \in Nat /\ up(k) <= up(m)
               /\ \A k \in 1 .. m : up(k) = up(k - 1) + p.levels[k].times
               /\ Usable(p) => \A k \in 2 .. m : p.levels[k].times = 0 => up(k) = up(m)
<1> DEFINE p == Policy[t]
           levels == p.levels
           m == Len(levels)
           up(k) == RetriesUpTo(levels, k)
<1>1. m \in Nat /\ \A k \in 1 .. m : levels[k].delay \in Nat /\ levels[k].times \in Nat
  BY PolicyType
<1>2. Budget(p) = up(m)
  BY DEF Budget
<1>3. Usable(p) => \A k \in 1 .. m : levels[k].times > 0 =>
                      \A i \in 2 .. k : levels[i].times > 0
  BY DEF Usable
<1> HIDE DEF levels, p
<1>4. /\ up(0) = 0 /\ \A k \in 0 .. m : up(k) \in Nat
      /\ \A k \in 1 .. m : up(k) = up(k - 1) + levels[k].times
  BY <1>1, RetriesAddUp
<1>5. \A k \in 0 .. m : up(k) <= up(m)
  BY <1>1, RetriesGrow
<1>6. ASSUME Usable(p), NEW k \in 2 .. m, levels[k].times = 0 PROVE up(k) = up(m)
  <2>1. k \in 0 .. m
    BY <1>1
  <2>2. ASSUME NEW i \in (k + 1) .. m PROVE levels[i].times = 0
    <3>1. i \in 1 .. m /\ k \in 2 .. i
      BY <1>1
    <3> QED
      BY <1>1, <1>3, <1>6, <3>1
  <2> QED
    BY <1>1, <2>1, <2>2, RetriesGrow
<1>7. m \in 0 .. m
  BY <1>1
<1> HIDE DEF up, m
<1>8. Budget(p) \in Nat
  BY <1>2, <1>4, <1>7
<1> QED
  BY <1>2, <1>4, <1>5, <1>6, <1>8 DEF p, levels, m, up

\* The budget is a number.
LEMMA BudgetType ==
    ASSUME NEW t \in Tasks
    PROVE  Budget(Policy[t]) \in Nat
<1>1. CASE Policy[t].schedule
  BY <1>1, ScheduleBudget
<1>2. CASE ~ Policy[t].schedule
  BY <1>2, PolicyType DEF Budget, Absent
<1> QED
  BY <1>1, <1>2

\* So are the retries to come.
LEMMA ToComeType ==
    ASSUME NEW t \in Tasks, NEW l \in Nat, NEW d \in Nat \cup {Absent}, NEW n \in Nat \cup {Absent},
           Consistent(t, l, d, n)
    PROVE  ToCome(t, l, d, n) \in Nat
<1> DEFINE p == Policy[t]
<1>1. CASE ~ p.schedule
  BY <1>1 DEF ToCome, Absent
<1>2. CASE p.schedule /\ l \in 1 .. Len(p.levels)
  <2>1. n \in Nat
    BY <1>2, PolicyType DEF Consistent
  <2> DEFINE up(k) == RetriesUpTo(p.levels, k)
  <2>2. Budget(p) \in Nat /\ up(l) \in Nat /\ up(l) <= Budget(p)
    <3>1. l \in 0 .. Len(p.levels)
      BY <1>2
    <3> QED
      BY <1>2, <3>1, ScheduleBudget
  <2>3. ToCome(t, l, d, n) = n + (Budget(p) - up(l))
    BY <1>2, PolicyType DEF ToCome
  <2> HIDE DEF p, up
  <2> QED
    BY <2>1, <2>2, <2>3
<1>3. CASE p.schedule /\ l \notin 1 .. Len(p.levels)
  BY <1>3, PolicyType, BudgetType DEF ToCome
<1> QED
  BY <1>1, <1>2, <1>3

\* The attributes as retry_task reads them, and as it has updated them when it
\* decides.
AttrsOf(w, t) ==
    [level |-> w.level[t], delay |-> w.delay[t], times |-> w.times[t],
     d |-> w.delay[t], n |-> w.times[t]]
Begins(w, t) == Policy[t].schedule /\ w.level[t] = 0
FirstOf(w, t) ==
    IF Begins(w, t) THEN schedule_update(Policy[t].levels, AttrsOf(w, t)) ELSE AttrsOf(w, t)
UpdatedOf(w, t) ==
    IF Policy[t].schedule /\ FirstOf(w, t).n = 0
    THEN schedule_update(Policy[t].levels, FirstOf(w, t)) ELSE FirstOf(w, t)

\* The attributes have not been lost, and what they allow is what was allowed
\* before: they are those of a level, or nothing is left.
Settled(w, t, a) ==
    LET p == Policy[t]
        left == ToCome(t, a.level, a.delay, a.times)
    IN  /\ Consistent(t, a.level, a.delay, a.times)
        /\ left = ToCome(t, w.level[t], w.delay[t], w.times[t])
        /\ \/ /\ a.d = a.delay /\ a.n = a.times
              /\ p.schedule => a.level \in 1 .. Len(p.levels)
              /\ p.schedule /\ Usable(p) /\ (a.d = 0 \/ a.n = 0) => left = 0
           \/ (a.d = 0 \/ a.n = 0) /\ left = 0

AttrsType ==
    [level : Nat, delay : Nat \cup {Absent}, times : Nat \cup {Absent},
     d : Nat \cup {Absent}, n : Nat \cup {Absent}]

\* schedule_update goes to the next level, or past the last one, where it leaves
\* the attributes alone.
LEMMA UpdateEffect ==
    ASSUME NEW levels, NEW a \in AttrsType, NEW l \in Nat, a.level = l, Len(levels) \in Nat,
           \A k \in 1 .. Len(levels) : levels[k].delay \in Nat /\ levels[k].times \in Nat,
           NEW v, v = schedule_update(levels, a)
    PROVE  /\ v \in AttrsType /\ v.level = l + 1
           /\ l + 1 <= Len(levels) =>
                /\ v.delay = levels[l + 1].delay /\ v.times = levels[l + 1].times
                /\ v.d = v.delay /\ v.n = v.times
           /\ ~ (l + 1 <= Len(levels)) =>
                v.delay = a.delay /\ v.times = a.times /\ v.d = 0 /\ v.n = 0
<1> DEFINE k == l + 1
<1>1. k \in Nat /\ k >= 1
  OBVIOUS
<1>2. CASE k > Len(levels)
  <2>1. v = [a EXCEPT !.level = k, !.d = 0, !.n = 0]
    BY <1>2 DEF schedule_update
  <2> HIDE DEF k
  <2>2. /\ v \in AttrsType /\ v.level = k
        /\ v.delay = a.delay /\ v.times = a.times /\ v.d = 0 /\ v.n = 0
    <3>1. /\ a.delay \in Nat \cup {Absent} /\ a.times \in Nat \cup {Absent}
          /\ v = [level |-> k, delay |-> a.delay, times |-> a.times, d |-> 0, n |-> 0]
      BY <2>1 DEF AttrsType
    <3> QED
      BY <1>1, <3>1 DEF AttrsType
  <2> QED
    BY <1>1, <1>2, <2>2 DEF k
<1>3. CASE ~ (k > Len(levels))
  <2>1. v = [level |-> k, delay |-> levels[k].delay, times |-> levels[k].times,
             d |-> levels[k].delay, n |-> levels[k].times]
    BY <1>3 DEF schedule_update
  <2>2. levels[k].delay \in Nat /\ levels[k].times \in Nat
    BY <1>1, <1>3
  <2> HIDE DEF k
  <2>3. /\ v \in AttrsType /\ v.level = k
        /\ v.delay = levels[k].delay /\ v.times = levels[k].times
        /\ v.d = v.delay /\ v.n = v.times
    BY <1>1, <2>1, <2>2 DEF AttrsType
  <2> QED
    BY <1>1, <1>3, <2>3 DEF k
<1> QED
  BY <1>2, <1>3

\* The attributes of a level that is entered when all levels before it are used
\* up: what they allow is what these have left.
LEMMA LevelEntered ==
    ASSUME NEW t \in Tasks, Policy[t].schedule,
           NEW l \in 1 .. Len(Policy[t].levels)
    PROVE  LET p == Policy[t]
               d == p.levels[l].delay
               n == p.levels[l].times
           IN  /\ Consistent(t, l, d, n)
               /\ ToCome(t, l, d, n) = Budget(p) - RetriesUpTo(p.levels, l - 1)
               /\ Usable(p) /\ l > 1 /\ (d = 0 \/ n = 0) => ToCome(t, l, d, n) = 0
<1> DEFINE p == Policy[t]
           m == Len(p.levels)
           d == p.levels[l].delay
           n == p.levels[l].times
           up(k) == RetriesUpTo(p.levels, k)
           left == ToCome(t, l, d, n)
<1>1. m \in Nat /\ d \in Nat /\ n \in Nat /\ l \in Nat /\ l >= 1 /\ l <= m
  BY PolicyType
<1>2. /\ Budget(p) = up(m) /\ Budget(p) \in Nat
      /\ \A k \in 0 .. m : up(k) \in Nat
      /\ \A k \in 1 .. m : up(k) = up(k - 1) + p.levels[k].times
      /\ Usable(p) => \A k \in 2 .. m : p.levels[k].times = 0 => up(k) = up(m)
  BY ScheduleBudget
<1>3. Consistent(t, l, d, n)
  BY <1>1 DEF Consistent
<1>4. left = n + (Budget(p) - up(l))
  BY <1>1 DEF ToCome
<1>5. l \in 0 .. m /\ l - 1 \in 0 .. m /\ l \in 1 .. m /\ (l > 1 => l \in 2 .. m)
  BY <1>1
<1>6. Usable(p) /\ d = 0 => n = 0
  BY <1>1, <1>5 DEF Usable
<1> HIDE DEF up, left
<1>7. up(l) = up(l - 1) + n /\ up(l) \in Nat /\ up(l - 1) \in Nat
  BY <1>2, <1>5
<1>8. Usable(p) /\ l > 1 /\ n = 0 => up(l) = up(m)
  BY <1>2, <1>5
<1> HIDE DEF p, m, d, n
<1>9. left = Budget(p) - up(l - 1)
  BY <1>1, <1>2, <1>4, <1>7
<1>10. Usable(p) /\ l > 1 /\ n = 0 => left = 0
  BY <1>1, <1>2, <1>4, <1>7, <1>8
<1> QED
  BY <1>3, <1>6, <1>9, <1>10 DEF p, m, d, n, up, left

\* Whether the schedule begins, goes on with its level, goes to the next one or
\* ends, retry_task neither grants retries nor takes any away before it decides.
LEMMA RetrySettles ==
    ASSUME NEW w \in InstanceType, NEW t \in Tasks,
           Consistent(t, w.level[t], w.delay[t], w.times[t]),
           Policy[t].schedule /\ w.level[t] > Len(Policy[t].levels) => Bare(Policy[t]),
           Begins(w, t) \/ (w.delay[t] # Absent /\ w.times[t] # Absent)
    PROVE  /\ Settled(w, t, UpdatedOf(w, t))
           /\ UpdatedOf(w, t).level \in Nat /\ UpdatedOf(w, t).n \in Nat /\ UpdatedOf(w, t).d \in Nat
<1> DEFINE p == Policy[t]
           levels == p.levels
           m == Len(levels)
           l == w.level[t]
           a == AttrsOf(w, t)
           first == FirstOf(w, t)
           upd == UpdatedOf(w, t)
           before == ToCome(t, l, w.delay[t], w.times[t])
           up(k) == RetriesUpTo(levels, k)
<1>1. l \in Nat /\ w.delay[t] \in Nat \cup {Absent} /\ w.times[t] \in Nat \cup {Absent}
  BY DEF InstanceType
<1>2. /\ m \in Nat /\ \A k \in 1 .. m : levels[k].delay \in Nat /\ levels[k].times \in Nat
      /\ p.schedule \in BOOLEAN
  BY PolicyType
<1>3. /\ a.level = l /\ a.delay = w.delay[t] /\ a.times = w.times[t]
      /\ a.d = w.delay[t] /\ a.n = w.times[t]
      /\ a \in AttrsType
  BY <1>1 DEF AttrsOf, AttrsType
\* What the updates make of a record past the last level.
<1>4. ASSUME NEW x \in AttrsType, NEW i \in Nat, i >= m, x.level = i,
             NEW v, v = schedule_update(levels, x)
      PROVE  /\ v.level = i + 1 /\ v.delay = x.delay /\ v.times = x.times /\ v.d = 0 /\ v.n = 0
             /\ v \in AttrsType
  <2>1. ~ (i + 1 <= m)
    BY <1>2, <1>4
  <2> HIDE DEF levels
  <2> QED
    BY <1>2, <1>4, <2>1, UpdateEffect
\* What they make of it at a level that is not the last.
<1>5. ASSUME NEW x \in AttrsType, NEW i \in Nat, i < m, x.level = i,
             NEW v, v = schedule_update(levels, x)
      PROVE  /\ v.level = i + 1 /\ v.delay = levels[i + 1].delay /\ v.times = levels[i + 1].times
             /\ v.d = v.delay /\ v.n = v.times
             /\ v \in AttrsType
  <2>1. i + 1 <= m
    BY <1>2, <1>5
  <2> HIDE DEF levels
  <2> QED
    BY <1>2, <1>5, <2>1, UpdateEffect
<1>6. CASE ~ p.schedule
  <2>1. upd = a
    BY <1>6 DEF UpdatedOf, FirstOf, Begins
  <2>2. Settled(w, t, a)
    BY <1>3, <1>6 DEF Settled
  <2> QED
    BY <1>1, <1>3, <1>6, <2>1, <2>2 DEF Begins
<1>7. CASE p.schedule
  <2>1. /\ Budget(p) = up(m) /\ Budget(p) \in Nat /\ up(0) = 0
        /\ \A k \in 0 .. m : up(k) \in Nat
        /\ \A k \in 1 .. m : up(k) = up(k - 1) + levels[k].times
    BY <1>7, ScheduleBudget
  <2>2. upd = IF first.n = 0 THEN schedule_update(levels, first) ELSE first
    BY <1>7 DEF UpdatedOf
  <2>3. ASSUME NEW k \in 1 .. m
        PROVE  /\ Consistent(t, k, levels[k].delay, levels[k].times)
               /\ ToCome(t, k, levels[k].delay, levels[k].times) = Budget(p) - up(k - 1)
               /\ Usable(p) /\ k > 1 /\ (levels[k].delay = 0 \/ levels[k].times = 0)
                    => ToCome(t, k, levels[k].delay, levels[k].times) = 0
    BY <1>7, LevelEntered
  \* The next level is entered when this one is used up.
  <2>4. ASSUME NEW k \in 1 .. m, upd.level = k, upd.delay = levels[k].delay,
               upd.times = levels[k].times, upd.d = upd.delay, upd.n = upd.times,
               before = Budget(p) - up(k - 1), k > 1 \/ levels[k].times # 0
        PROVE  Settled(w, t, upd) /\ upd.level \in Nat /\ upd.n \in Nat /\ upd.d \in Nat
    <3>1. levels[k].delay \in Nat /\ levels[k].times \in Nat
      BY <1>2
    <3>2. Usable(p) /\ levels[k].times # 0 => levels[k].delay # 0
      BY <1>7, <3>1 DEF Usable
    <3> DEFINE left == ToCome(t, upd.level, upd.delay, upd.times)
    <3>3. /\ Consistent(t, upd.level, upd.delay, upd.times) /\ left = before
          /\ Usable(p) /\ (upd.d = 0 \/ upd.n = 0) => left = 0
      BY <2>3, <2>4, <3>2
    <3>4. upd.d = upd.delay /\ upd.n = upd.times /\ upd.level \in 1 .. m
      BY <2>4
    <3> HIDE DEF upd
    <3> QED
      BY <1>2, <2>4, <3>1, <3>3, <3>4 DEF Settled
  \* The schedule is over.
  <2>5. ASSUME Consistent(t, upd.level, upd.delay, upd.times), upd.level \in Nat, upd.level > m,
               before = 0, upd.d = 0 \/ upd.n = 0, upd.d \in Nat, upd.n \in Nat
        PROVE  Settled(w, t, upd) /\ upd.level \in Nat /\ upd.n \in Nat /\ upd.d \in Nat
    <3>1. ToCome(t, upd.level, upd.delay, upd.times) = 0
      BY <1>2, <1>7, <2>5 DEF ToCome
    <3> HIDE DEF upd
    <3> QED
      BY <2>5, <3>1 DEF Settled
  <2>6. CASE l = 0
    <3>1. first = schedule_update(levels, a) /\ before = Budget(p)
      BY <1>7, <2>6 DEF FirstOf, Begins, ToCome
    <3>2. CASE m = 0
      <4>1. /\ first.level = 1 /\ first.delay = a.delay /\ first.times = a.times /\ first.n = 0
            /\ first \in AttrsType
        <5>1. 0 \in Nat /\ a.level = 0 /\ a \in AttrsType /\ 0 >= m
          BY <1>3, <2>6, <3>2
        <5> HIDE DEF first, a, m, levels
        <5> QED
          BY ONLY <1>4, <3>1, <5>1
      <4>2. upd = schedule_update(levels, first)
        BY <2>2, <4>1
      <4>3. upd.level = 2 /\ upd.delay = a.delay /\ upd.times = a.times /\ upd.d = 0 /\ upd.n = 0
        <5> HIDE DEF first, upd
        <5> QED
          BY <1>4, <3>2, <4>1, <4>2
      <4>4. Consistent(t, 2, a.delay, a.times)
        BY <1>3, <1>7, <2>6, <3>2 DEF Consistent
      <4>5. before = 0
        BY <2>1, <3>1, <3>2
      <4> QED
        BY <2>5, <3>2, <4>3, <4>4, <4>5
    <3>3. CASE m > 0
      <4>1. /\ first.level = 1 /\ first.delay = levels[1].delay /\ first.times = levels[1].times
            /\ first.d = first.delay /\ first.n = first.times
            /\ first \in AttrsType
        BY <1>3, <1>5, <2>6, <3>1, <3>3
      <4>2. 1 \in 1 .. m /\ 0 \in 0 .. m /\ up(1) = levels[1].times
        BY <1>2, <2>1, <3>3
      <4>3. CASE levels[1].times # 0
        <5>1. upd = first
          BY <2>2, <4>1, <4>3
        <5>2. before = Budget(p) - up(1 - 1)
          BY <2>1, <3>1
        <5> QED
          BY <2>4, <4>1, <4>2, <4>3, <5>1, <5>2
      <4>4. CASE levels[1].times = 0
        <5>1. upd = schedule_update(levels, first)
          BY <2>2, <4>1, <4>4
        <5>2. CASE m = 1
          <6>1. /\ upd.level = 2 /\ upd.delay = levels[1].delay /\ upd.times = 0
                /\ upd.d = 0 /\ upd.n = 0
            <7> HIDE DEF first, upd
            <7> QED
              BY <1>4, <4>1, <4>4, <5>1, <5>2
          <6>2. Consistent(t, 2, levels[1].delay, 0)
            BY <1>7, <5>2 DEF Consistent
          <6>3. before = 0
            BY <2>1, <3>1, <4>2, <4>4, <5>2
          <6> QED
            BY <2>5, <5>2, <6>1, <6>2, <6>3
        <5>3. CASE m > 1
          <6>1. /\ upd.level = 2 /\ upd.delay = levels[2].delay /\ upd.times = levels[2].times
                /\ upd.d = upd.delay /\ upd.n = upd.times
            <7> HIDE DEF first, upd
            <7> QED
              BY <1>5, <4>1, <5>1, <5>3
          <6>2. before = Budget(p) - up(2 - 1) /\ 2 \in 1 .. m
            BY <1>2, <2>1, <3>1, <4>2, <4>4, <5>3
          <6> QED
            BY <2>4, <6>1, <6>2
        <5>4. m = 1 \/ m > 1
          <6>1. m \in Nat
            BY <1>2
          <6> HIDE DEF m
          <6> QED
            BY <3>3, <6>1
        <5> QED
          BY <5>2, <5>3, <5>4
      <4> QED
        BY <4>3, <4>4
    <3> QED
      BY <1>2, <3>2, <3>3
  <2>7. CASE l # 0
    <3>1. first = a /\ w.delay[t] \in Nat /\ w.times[t] \in Nat
      BY <1>1, <2>7 DEF FirstOf, Begins
    <3>2. CASE l <= m
      <4>1. /\ l \in 1 .. m /\ w.delay[t] = levels[l].delay
            /\ w.times[t] \in 0 .. levels[l].times
            /\ before = w.times[t] + (Budget(p) - up(l))
        BY <1>1, <1>2, <1>7, <2>7, <3>2 DEF Consistent, ToCome
      <4>2. CASE w.times[t] # 0
        <5>1. upd = a
          BY <1>3, <2>2, <3>1, <4>2
        <5>2. Usable(p) => ~ (a.d = 0 \/ a.n = 0)
          BY <1>2, <1>3, <1>7, <4>1, <4>2 DEF Usable
        <5>3. Settled(w, t, a)
          BY <1>3, <4>1, <5>2 DEF Settled
        <5> QED
          BY <1>1, <1>3, <3>1, <5>1, <5>3
      <4>3. CASE w.times[t] = 0 /\ l < m
        <5>1. upd = schedule_update(levels, a)
          BY <1>3, <2>2, <3>1, <4>3
        <5>2. /\ upd.level = l + 1 /\ upd.delay = levels[l + 1].delay
              /\ upd.times = levels[l + 1].times /\ upd.d = upd.delay /\ upd.n = upd.times
          <6> HIDE DEF upd
          <6> QED
            BY <1>1, <1>3, <1>5, <4>3, <5>1
        <5>3. before = Budget(p) - up((l + 1) - 1) /\ l + 1 \in 1 .. m /\ l + 1 > 1
          <6>1. l \in 0 .. m /\ (l + 1) - 1 = l
            BY <1>1, <1>2, <3>2
          <6>2. up(l) \in Nat
            BY <2>1, <6>1
          <6>3. l + 1 \in 1 .. m /\ l + 1 > 1
            BY <1>1, <1>2, <2>7, <4>3
          <6> HIDE DEF up, before
          <6>4. before = Budget(p) - up(l)
            BY <2>1, <4>1, <4>3, <6>2
          <6> QED
            BY <6>1, <6>3, <6>4
        <5> QED
          BY <2>4, <5>2, <5>3
      <4>4. CASE w.times[t] = 0 /\ l = m
        <5>1. upd = schedule_update(levels, a)
          BY <1>3, <2>2, <3>1, <4>4
        <5>2. /\ upd.level = l + 1 /\ upd.delay = a.delay /\ upd.times = 0
              /\ upd.d = 0 /\ upd.n = 0
          <6> HIDE DEF upd
          <6> QED
            BY <1>1, <1>3, <1>4, <4>4, <5>1
        <5>3. Consistent(t, l + 1, a.delay, 0)
          BY <1>1, <1>2, <1>7, <2>7, <4>4 DEF Consistent
        <5>4. before = 0
          BY <2>1, <4>1, <4>4
        <5> QED
          BY <1>1, <2>5, <4>4, <5>2, <5>3, <5>4
      <4> QED
        BY <1>1, <1>2, <3>2, <4>2, <4>3, <4>4
    <3>3. CASE l > m
      <4>1. before = 0 /\ Bare(p)
        BY <1>1, <1>2, <1>7, <2>7, <3>3 DEF ToCome
      <4>2. CASE w.times[t] = 0
        <5>1. upd = schedule_update(levels, a)
          BY <1>3, <2>2, <3>1, <4>2
        <5>2. /\ upd.level = l + 1 /\ upd.delay = a.delay /\ upd.times = a.times
              /\ upd.d = 0 /\ upd.n = 0
          <6>1. l >= m
            BY <1>1, <1>2, <3>3
          <6> HIDE DEF upd
          <6> QED
            BY <1>1, <1>3, <1>4, <5>1, <6>1
        <5>3. Consistent(t, l + 1, a.delay, a.times)
          BY <1>1, <1>2, <1>3, <1>7, <2>7, <3>3, <4>2 DEF Consistent
        <5> QED
          BY <1>1, <1>2, <2>5, <3>3, <4>1, <5>2, <5>3
      <4>3. CASE w.times[t] # 0
        <5>1. upd = a
          BY <1>3, <2>2, <3>1, <4>3
        <5>2. m = 0 /\ w.delay[t] = p.delay /\ w.times[t] = p.times
          BY <1>1, <1>2, <1>7, <3>3, <4>3 DEF Consistent
        <5>3. levels = <<>>
          <6>1. levels \in Seq([delay : Nat, times : Nat])
            BY PolicyType
          <6> HIDE DEF levels
          <6> QED
            BY <5>2, <6>1
        <5>4. w.delay[t] = 0
          BY <1>7, <3>1, <4>1, <4>3, <5>2, <5>3 DEF Bare, Absent
        <5> QED
          BY <1>1, <1>3, <2>5, <3>1, <3>3, <4>1, <5>1, <5>4
      <4> QED
        BY <4>2, <4>3
    <3> QED
      BY <1>1, <1>2, <3>2, <3>3
  <2> QED
    BY <2>6, <2>7
<1> QED
  BY <1>2, <1>6, <1>7

\* What retry_task decides: it plans a retry and takes it off the budget, or
\* leaves the budget as it is; it gives up only when, in a usable schedule,
\* nothing is left.
LEMMA RetriedOutcome ==
    ASSUME NEW w \in InstanceType, NEW t \in Tasks,
           Consistent(t, w.level[t], w.delay[t], w.times[t]),
           Policy[t].schedule /\ w.level[t] > Len(Policy[t].levels) => Bare(Policy[t]),
           NEW r, r = Retried(w, t)
    PROVE  LET left == ToCome(t, r.level, r.delay, r.times)
           IN  /\ r.what \in {"error", "left", "retry"}
               /\ Consistent(t, r.level, r.delay, r.times)
               /\ left + (IF r.what = "retry" THEN 1 ELSE 0)
                    = ToCome(t, w.level[t], w.delay[t], w.times[t])
               /\ r.what = "retry" => ~ Policy[t].schedule \/ r.level <= Len(Policy[t].levels)
               /\ r.what = "error" /\ Usable(Policy[t]) => left = 0
               /\ r.what = "left" => Policy[t].retval # 0 /\ Policy[t].retval # w.retval[t]
<1> DEFINE p == Policy[t]
           m == Len(p.levels)
           a == AttrsOf(w, t)
           upd == UpdatedOf(w, t)
           before == ToCome(t, w.level[t], w.delay[t], w.times[t])
           left == ToCome(t, r.level, r.delay, r.times)
           becomes(what, x, n) ==
             [what |-> what, level |-> x.level, delay |-> x.delay, times |-> n]
           none == ~ Begins(w, t) /\ (w.delay[t] = Absent \/ w.times[t] = Absent)
           leave == p.retval # 0 /\ p.retval # w.retval[t]
<1>1. /\ w.level[t] \in Nat /\ w.delay[t] \in Nat \cup {Absent} /\ w.times[t] \in Nat \cup {Absent}
  BY DEF InstanceType
<1>2. /\ m \in Nat /\ \A k \in 1 .. m : p.levels[k].delay \in Nat /\ p.levels[k].times \in Nat
      /\ p.schedule \in BOOLEAN
  BY PolicyType
<1>3. before \in Nat
  BY <1>1, ToComeType
<1>4. r = CASE none -> becomes("error", a, a.times)
            [] (Begins(w, t) \/ (w.delay[t] # Absent /\ w.times[t] # Absent))
               /\ (upd.d = 0 \/ upd.n = 0) -> becomes("error", upd, upd.times)
            [] OTHER -> IF leave THEN becomes("left", upd, upd.times)
                        ELSE becomes("retry", upd, upd.n - 1)
  BY DEF Retried, AttrsOf, Begins, FirstOf, UpdatedOf
<1>5. CASE none
  <2>1. r = becomes("error", a, a.times)
    <3>1. ~ (Begins(w, t) \/ (w.delay[t] # Absent /\ w.times[t] # Absent))
      BY <1>5
    <3> HIDE DEF becomes, leave, upd, a, none
    <3> QED
      BY <1>4, <1>5, <3>1
  <2>2. /\ r.what = "error" /\ r.level = w.level[t] /\ r.delay = w.delay[t] /\ r.times = w.times[t]
    BY <2>1 DEF AttrsOf
  <2>3. before = 0
    <3>1. CASE ~ p.schedule
      <4>1. w.delay[t] \in {Absent, 0} \/ w.times[t] = Absent
        BY <1>5
      <4> QED
        BY <3>1, <4>1 DEF ToCome
    <3>2. CASE p.schedule
      <4>1. w.level[t] # 0
        BY <1>5, <3>2 DEF Begins
      <4>2. ~ (w.level[t] \in 1 .. m)
        BY <1>2, <1>5, <3>2 DEF Consistent, Absent
      <4>3. ~ (w.level[t] <= m)
        BY <1>1, <1>2, <4>1, <4>2
      <4> QED
        BY <3>2, <4>1, <4>3 DEF ToCome
    <3> QED
      BY <1>2, <3>1, <3>2
  <2> QED
    BY <1>3, <2>2, <2>3
<1>6. CASE ~ none
  <2>1. Begins(w, t) \/ (w.delay[t] # Absent /\ w.times[t] # Absent)
    BY <1>6
  <2>2. Settled(w, t, upd) /\ upd.level \in Nat /\ upd.n \in Nat /\ upd.d \in Nat
    BY <2>1, RetrySettles
  <2> DEFINE rest == ToCome(t, upd.level, upd.delay, upd.times)
  <2> HIDE DEF upd
  <2>3. /\ Consistent(t, upd.level, upd.delay, upd.times) /\ rest = before
        /\ \/ /\ upd.d = upd.delay /\ upd.n = upd.times
              /\ p.schedule => upd.level \in 1 .. m
              /\ p.schedule /\ Usable(p) /\ (upd.d = 0 \/ upd.n = 0) => rest = 0
           \/ (upd.d = 0 \/ upd.n = 0) /\ rest = 0
    BY <2>2 DEF Settled
  <2>4. CASE upd.d = 0 \/ upd.n = 0
    <3>1. r = becomes("error", upd, upd.times)
      <4> HIDE DEF becomes, leave, a, none
      <4> QED
        BY <1>4, <1>6, <2>1, <2>4
    <3>2. r.what = "error" /\ r.level = upd.level /\ r.delay = upd.delay /\ r.times = upd.times
      BY <3>1
    <3>3. ASSUME Usable(p) PROVE rest = 0
      <4>1. CASE p.schedule
        BY <2>3, <2>4, <3>3, <4>1
      <4>2. CASE ~ p.schedule
        <5>1. upd.d = upd.delay /\ upd.n = upd.times => rest = 0
          BY <2>4, <4>2 DEF ToCome
        <5> QED
          BY <2>3, <5>1
      <4> QED
        BY <1>2, <4>1, <4>2
    <3> HIDE DEF rest, before
    <3>4. left = rest
      BY <3>2 DEF rest
    <3> QED
      BY <1>3, <2>3, <3>2, <3>3, <3>4 DEF before
  <2>5. CASE ~ (upd.d = 0 \/ upd.n = 0)
    <3>1. /\ upd.d = upd.delay /\ upd.n = upd.times /\ upd.d # 0 /\ upd.n # 0
          /\ p.schedule => upd.level \in 1 .. m
      BY <2>3, <2>5
    <3>2. CASE leave
      <4>1. r = becomes("left", upd, upd.times)
        <5> HIDE DEF becomes, a, none, leave
        <5> QED
          BY <1>4, <1>6, <2>5, <3>2
      <4>2. r.what = "left" /\ r.level = upd.level /\ r.delay = upd.delay /\ r.times = upd.times
        BY <4>1
      <4> HIDE DEF rest, before
      <4>3. left = rest
        BY <4>2 DEF rest
      <4> QED
        BY <1>3, <2>3, <3>2, <4>2, <4>3 DEF before
    <3>3. CASE ~ leave
      <4>1. r = becomes("retry", upd, upd.n - 1)
        <5> HIDE DEF becomes, a, none, leave
        <5> QED
          BY <1>4, <1>6, <2>5, <3>3
      <4>2. r.what = "retry" /\ r.level = upd.level /\ r.delay = upd.delay /\ r.times = upd.n - 1
        BY <4>1
      <4>3. CASE ~ p.schedule
        <5>1. rest = upd.n
          BY <2>2, <3>1, <4>3 DEF ToCome, Absent
        <5>2. left = upd.n - 1
          BY <2>2, <3>1, <4>2, <4>3 DEF ToCome, Absent
        <5>3. Consistent(t, r.level, r.delay, r.times)
          BY <4>3 DEF Consistent
        <5>4. left + 1 = before
          BY <2>2, <2>3, <5>1, <5>2
        <5> QED
          BY <4>2, <4>3, <5>3, <5>4
      <4>4. CASE p.schedule
        <5>1. upd.level \in 1 .. m /\ upd.level # 0 /\ upd.level <= m /\ upd.level \in 0 .. m
          BY <1>2, <3>1, <4>4
        <5> DEFINE behind == Budget(p) - RetriesUpTo(p.levels, upd.level)
        <5>2. behind \in Int
          BY <4>4, <5>1, ScheduleBudget
        <5>3. rest = upd.n + behind
          BY <3>1, <4>4, <5>1 DEF ToCome
        <5>4. left = (upd.n - 1) + behind
          BY <4>2, <4>4, <5>1 DEF ToCome
        <5>5. Consistent(t, r.level, r.delay, r.times)
          <6>1. upd.delay = p.levels[upd.level].delay /\ upd.times \in 0 .. p.levels[upd.level].times
            BY <2>3, <4>4, <5>1 DEF Consistent
          <6>2. upd.n - 1 \in 0 .. p.levels[upd.level].times
            BY <1>2, <2>2, <3>1, <5>1, <6>1
          <6> QED
            BY <1>2, <4>2, <5>1, <6>1, <6>2 DEF Consistent
        <5> HIDE DEF behind, left, rest, before
        <5>6. left + 1 = before
          BY <2>2, <2>3, <5>2, <5>3, <5>4
        <5> QED
          BY <4>2, <5>1, <5>5, <5>6 DEF left, before
      <4> QED
        BY <1>2, <4>3, <4>4
    <3> QED
      BY <3>2, <3>3
  <2> QED
    BY <2>4, <2>5
<1> QED
  BY <1>5, <1>6

-----------------------------------------------------------------------------
(* The operations and the retries.                                         *)

\* The numbers that RetryOK adds.
LEMMA RetryTypes ==
    ASSUME NEW w \in InstanceType, NEW t \in Tasks,
           Consistent(t, w.level[t], w.delay[t], w.times[t])
    PROVE  /\ ToCome(t, w.level[t], w.delay[t], w.times[t]) \in Nat
           /\ Budget(Policy[t]) \in Nat /\ w.level[t] \in Nat
<1>1. /\ w.level[t] \in Nat /\ w.delay[t] \in Nat \cup {Absent} /\ w.times[t] \in Nat \cup {Absent}
  BY DEF InstanceType
<1> QED
  BY <1>1, ToComeType, BudgetType

\* A step that leaves the attributes of a task alone: an execution takes the
\* place of a task that was due.
LEMMA RetryKept ==
    ASSUME NEW w \in InstanceType, NEW v, NEW t \in Tasks, NEW n \in Nat, NEW k \in Nat,
           NEW r \in Nat, NEW q \in Nat, RetryOK(w, n, r, t), q = 0 => r = 0,
           v.level[t] = w.level[t], v.delay[t] = w.delay[t], v.times[t] = w.times[t],
           Due(v, t) \/ v.status[t] = "EXECUTING" => Due(w, t) \/ w.status[t] = "EXECUTING",
           k + (IF Due(v, t) THEN 1 ELSE 0) <= n + (IF Due(w, t) THEN 1 ELSE 0),
           v.status[t] # "ABORTED" /\ q = 0 =>
              /\ w.status[t] # "ABORTED"
              /\ k + (IF Due(v, t) THEN 1 ELSE 0) = n + (IF Due(w, t) THEN 1 ELSE 0),
           GivenUp(v, t) /\ q = 0 => GivenUp(w, t)
    PROVE  RetryOK(v, k, q, t)
<1> SUFFICES ASSUME q = 0 \/ Bare(Policy[t])
             PROVE  LET left == ToCome(t, w.level[t], w.delay[t], w.times[t])
                        sum == k + left + (IF Due(v, t) THEN 1 ELSE 0)
                    IN  /\ Consistent(t, w.level[t], w.delay[t], w.times[t])
                        /\ Due(v, t) \/ v.status[t] = "EXECUTING" =>
                              ~ Policy[t].schedule \/ w.level[t] <= Len(Policy[t].levels)
                        /\ sum <= 1 + Budget(Policy[t])
                        /\ q = 0 /\ v.status[t] # "ABORTED" => sum = 1 + Budget(Policy[t])
                        /\ q = 0 /\ GivenUp(v, t) /\ Usable(Policy[t]) => left = 0
  BY DEF RetryOK
<1> DEFINE left == ToCome(t, w.level[t], w.delay[t], w.times[t])
           was == IF Due(w, t) THEN 1 ELSE 0
           is == IF Due(v, t) THEN 1 ELSE 0
<1>1. /\ Consistent(t, w.level[t], w.delay[t], w.times[t])
      /\ Due(w, t) \/ w.status[t] = "EXECUTING" =>
            ~ Policy[t].schedule \/ w.level[t] <= Len(Policy[t].levels)
      /\ n + left + was <= 1 + Budget(Policy[t])
      /\ r = 0 /\ w.status[t] # "ABORTED" => n + left + was = 1 + Budget(Policy[t])
      /\ r = 0 /\ GivenUp(w, t) /\ Usable(Policy[t]) => left = 0
  BY DEF RetryOK
<1>2. left \in Nat /\ Budget(Policy[t]) \in Nat
  BY <1>1, RetryTypes
<1>3. was \in Nat /\ is \in Nat /\ k + is <= n + was
  OBVIOUS
<1>4. v.status[t] # "ABORTED" /\ q = 0 => w.status[t] # "ABORTED" /\ k + is = n + was
  OBVIOUS
<1> HIDE DEF left, was, is
<1>5. k + left + is <= 1 + Budget(Policy[t])
  BY <1>1, <1>2, <1>3
<1>6. q = 0 /\ v.status[t] # "ABORTED" => k + left + is = 1 + Budget(Policy[t])
  BY <1>1, <1>2, <1>3, <1>4
<1> QED
  BY <1>1, <1>5, <1>6 DEF left, is

\* A failed task that retry_task has looked at: after an execution, or, when
\* the instance is resumed, once more.
LEMMA RetryAgain ==
    ASSUME NEW w \in InstanceType, NEW x \in InstanceType, NEW v, NEW t \in Tasks, NEW n \in Nat,
           NEW r \in Nat, NEW q \in Nat, RetryOK(w, n, r, t),
           q = 0 => r = 0 /\ w.status[t] = "EXECUTING" /\ ~ Due(w, t),
           x.level[t] = w.level[t], x.delay[t] = w.delay[t], x.times[t] = w.times[t],
           v.status[t] = "TERMINATED", v.retval[t] = x.retval[t],
           v.level[t] = Retried(x, t).level, v.delay[t] = Retried(x, t).delay,
           v.times[t] = Retried(x, t).times,
           t \in v.retrier <=> Retried(x, t).what = "retry"
    PROVE  RetryOK(v, n, q, t)
<1> DEFINE p == Policy[t]
           a == Retried(x, t)
           left == ToCome(t, a.level, a.delay, a.times)
           before == ToCome(t, w.level[t], w.delay[t], w.times[t])
           was == IF Due(w, t) THEN 1 ELSE 0
           is == IF Due(v, t) THEN 1 ELSE 0
<1> SUFFICES ASSUME q = 0 \/ Bare(p)
             PROVE  /\ Consistent(t, a.level, a.delay, a.times)
                    /\ Due(v, t) => ~ p.schedule \/ a.level <= Len(p.levels)
                    /\ n + left + is <= 1 + Budget(p)
                    /\ q = 0 => n + left + is = 1 + Budget(p)
                    /\ GivenUp(v, t) /\ Usable(p) => left = 0
  BY DEF RetryOK
<1>1. /\ Consistent(t, w.level[t], w.delay[t], w.times[t])
      /\ w.status[t] = "EXECUTING" => ~ p.schedule \/ w.level[t] <= Len(p.levels)
      /\ n + before + was <= 1 + Budget(p)
      /\ r = 0 /\ w.status[t] # "ABORTED" => n + before + was = 1 + Budget(p)
  BY DEF RetryOK
<1>2. before \in Nat /\ Budget(p) \in Nat /\ w.level[t] \in Nat /\ Len(p.levels) \in Nat
  BY <1>1, RetryTypes, PolicyType
<1>3. p.schedule /\ x.level[t] > Len(p.levels) => Bare(p)
  <2>1. CASE Bare(p)
    BY <2>1
  <2>2. CASE q = 0
    BY <1>1, <1>2, <2>2
  <2> QED
    BY <2>1, <2>2
<1>4. /\ a.what \in {"error", "left", "retry"}
      /\ Consistent(t, a.level, a.delay, a.times)
      /\ left + (IF a.what = "retry" THEN 1 ELSE 0) = before
      /\ a.what = "retry" => ~ p.schedule \/ a.level <= Len(p.levels)
      /\ a.what = "error" /\ Usable(p) => left = 0
      /\ a.what = "left" => p.retval # 0 /\ p.retval # x.retval[t]
  <2>1. Consistent(t, x.level[t], x.delay[t], x.times[t])
    BY <1>1
  <2> QED
    BY <1>3, <2>1, RetriedOutcome
<1>5. Due(v, t) <=> a.what = "retry"
  BY DEF Due
<1>6. left \in Nat
  <2>1. a.level \in Nat /\ a.delay \in Nat \cup {Absent} /\ a.times \in Nat \cup {Absent}
    BY RetriedType
  <2> QED
    BY <1>4, <2>1, ToComeType
<1> HIDE DEF a, left, before
<1>7. left + is = before
  BY <1>4, <1>5
<1>8. is \in Nat /\ was \in Nat
  OBVIOUS
<1>9. q = 0 => was = 0 /\ w.status[t] # "ABORTED" /\ r = 0
  OBVIOUS
<1> HIDE DEF is, was
<1>10. n + left + is <= 1 + Budget(p)
  BY <1>1, <1>2, <1>6, <1>7, <1>8
<1>11. q = 0 => n + left + is = 1 + Budget(p)
  BY <1>1, <1>2, <1>6, <1>7, <1>8, <1>9
<1>12. GivenUp(v, t) => a.what = "error"
  BY <1>4, <1>5 DEF GivenUp, Due
<1> QED
  BY <1>4, <1>5, <1>10, <1>11, <1>12

\* The parts of an instance that RetryOK is about.
LEMMA RetryFrame ==
    ASSUME NEW w, NEW v, NEW t, NEW n, NEW r,
           v.status = w.status, v.retval = w.retval, v.retrier = w.retrier,
           v.is_cancelling = w.is_cancelling, SameAttrs(v, w), RetryOK(w, n, r, t)
    PROVE  RetryOK(v, n, r, t)
  BY DEF RetryOK, Due, GivenUp, SameAttrs

\* retry_task writes what it has decided into the attributes of the tasks of the
\* set, and hands those to be retried to the Retrier; it leaves the others alone.
LEMMA RetryWrites ==
    ASSUME NEW w \in InstanceType, NEW set \in SUBSET Tasks, NEW v, v = retry_task(w, set)
    PROVE  /\ v \in InstanceType /\ v.status = w.status /\ v.retval = w.retval
           /\ v.is_cancelling = w.is_cancelling /\ v.present = w.present /\ v.wf = w.wf
           /\ v.skipped = w.skipped
           /\ v.error_tasks = 0 =>
                 w.error_tasks = 0 /\ \A t \in set : Retried(w, t).what # "error"
           /\ \A t \in set : /\ v.level[t] = Retried(w, t).level
                             /\ v.delay[t] = Retried(w, t).delay
                             /\ v.times[t] = Retried(w, t).times
                             /\ t \notin w.retrier =>
                                   (t \in v.retrier <=> Retried(w, t).what = "retry")
           /\ \A t \in Tasks \ set : /\ v.level[t] = w.level[t] /\ v.delay[t] = w.delay[t]
                                     /\ v.times[t] = w.times[t]
                                     /\ t \in v.retrier <=> t \in w.retrier
<1> DEFINE r == [t \in set |-> Retried(w, t)]
           to(what) == {t \in set : r[t].what = what}
           level == [t \in Tasks |-> IF t \in set THEN r[t].level ELSE w.level[t]]
           delay == [t \in Tasks |-> IF t \in set THEN r[t].delay ELSE w.delay[t]]
           times == [t \in Tasks |-> IF t \in set THEN r[t].times ELSE w.times[t]]
           error == w.error_tasks + Cardinality(to("error"))
           retrier == w.retrier \cup to("retry")
           retrying == w.retrying_tasks + Cardinality(to("retry"))
<1>1. v = [w EXCEPT !.level = level, !.delay = delay, !.times = times,
                    !.error_tasks = error, !.retrier = retrier, !.retrying_tasks = retrying]
  BY DEF retry_task, InstanceType
<1>2. \E again \in SUBSET set : Retries(v, w, again)
  BY RetryEffect
<1>3. /\ v \in InstanceType /\ v.status = w.status /\ v.retval = w.retval
      /\ v.is_cancelling = w.is_cancelling /\ v.present = w.present /\ v.wf = w.wf
  BY <1>2 DEF Retries
<1>4. /\ \A t \in set : /\ level[t] = Retried(w, t).level /\ delay[t] = Retried(w, t).delay
                        /\ times[t] = Retried(w, t).times
                        /\ t \notin w.retrier =>
                              (t \in retrier <=> Retried(w, t).what = "retry")
      /\ \A t \in Tasks \ set : /\ level[t] = w.level[t] /\ delay[t] = w.delay[t]
                                /\ times[t] = w.times[t]
                                /\ t \in retrier <=> t \in w.retrier
  OBVIOUS
<1>5. error = 0 => w.error_tasks = 0 /\ \A t \in set : Retried(w, t).what # "error"
  <2> DEFINE E == to("error")
  <2>1. E \in SUBSET Tasks /\ \A t \in set : Retried(w, t).what = "error" => t \in E
    OBVIOUS
  <2>2. w.error_tasks \in Nat /\ error = w.error_tasks + Cardinality(E)
    BY DEF InstanceType
  <2> HIDE DEF E, error, to
  <2>3. Cardinality(E) \in Nat /\ (Cardinality(E) = 0 => E = {})
    BY <2>1, TasksFinite
  <2> QED
    BY <2>1, <2>2, <2>3
<1> HIDE DEF level, delay, times, error, retrier, retrying
<1>6. /\ v.level = level /\ v.delay = delay /\ v.times = times /\ v.retrier = retrier
      /\ v.error_tasks = error /\ v.skipped = w.skipped
  BY <1>1 DEF InstanceType
<1> QED
  BY <1>3, <1>4, <1>5, <1>6

\* The end of the instance, and a task taken off running_tasks, leave the
\* retries alone.
LEMMA EndKeepsRetries ==
    ASSUME NEW u \in InstanceType, NEW f, NEW r, RetriesOK(u, f, r)
    PROVE  /\ RetriesOK(workflow_ended(u), f, r)
           /\ RetriesOK([u EXCEPT !.running_tasks = @ - 1], f, r)
<1>1. ASSUME NEW v, v.status = u.status, v.retval = u.retval, v.retrier = u.retrier,
             v.is_cancelling = u.is_cancelling, SameAttrs(v, u)
      PROVE  RetriesOK(v, f, r)
  BY <1>1, RetryFrame DEF RetriesOK
<1>2. RetriesOK([u EXCEPT !.running_tasks = @ - 1], f, r)
  <2> DEFINE v == [u EXCEPT !.running_tasks = @ - 1]
  <2>1. /\ v.status = u.status /\ v.retval = u.retval /\ v.retrier = u.retrier
        /\ v.is_cancelling = u.is_cancelling /\ SameAttrs(v, u)
    BY DEF InstanceType, SameAttrs
  <2> HIDE DEF v
  <2>2. RetriesOK(v, f, r)
    BY <1>1, <2>1
  <2> QED
    BY <2>2 DEF v
<1>3. RetriesOK(workflow_ended(u), f, r)
  <2> DEFINE v == [u EXCEPT !.wf = "TERMINATED"]
  <2>1. /\ v.status = u.status /\ v.retval = u.retval /\ v.retrier = u.retrier
        /\ v.is_cancelling = u.is_cancelling /\ SameAttrs(v, u)
    BY DEF InstanceType, SameAttrs
  <2>2. workflow_ended(u) = v \/ workflow_ended(u) = u
    BY DEF workflow_ended
  <2> HIDE DEF v
  <2>3. RetriesOK(v, f, r)
    BY <1>1, <2>1
  <2> QED
    BY <2>2, <2>3
<1> QED
  BY <1>2, <1>3

\* So does the end of an operation.
LEMMA FinishKeepsRetries ==
    ASSUME NEW STATE u, u \in InstanceType, RetriesOK(u, tries', restarts'), Finish(u)
    PROVE  RetryInv'
<1>1. wi' = workflow_ended(u)
  BY DEF Finish
<1>2. RetriesOK(workflow_ended(u), tries', restarts')
  BY EndKeepsRetries
<1> QED
  BY <1>1, <1>2 DEF RetryInv

\* The tasks of a pass were due, and they are enqueued or aborted.
LEMMA SubjobsKeepRetries ==
    ASSUME NEW w \in InstanceType, RetriesFailed(w), NEW job \in Jobs,
           NEW pass, PassOver(pass, w, job),
           \A t \in TasksBelow(job) : w.status[t] = "none",
           NEW f \in [Tasks -> Nat], NEW r \in Nat, RetriesOK(w, f, r),
           NEW v, v = run_subjobs(w, pass)
    PROVE  v \in InstanceType /\ RetriesOK(v, f, r)
<1>1. PICK good \in SUBSET pass.enqueued : Passed(v, w, pass, good)
  BY SubjobsEffect
<1>2. ASSUME NEW t \in Tasks PROVE RetryOK(v, f[t], r, t)
  <2>1. /\ v.status[t] = IF t \in good THEN "QUEUED"
                         ELSE IF t \in pass.enqueued THEN "ABORTED"
                         ELSE IF t = pass.failed /\ t \in LoopedTasks THEN "ABORTED"
                         ELSE w.status[t]
        /\ v.retval = w.retval /\ v.retrier = w.retrier /\ v.is_cancelling = w.is_cancelling
        /\ v.level[t] = w.level[t] /\ v.delay[t] = w.delay[t] /\ v.times[t] = w.times[t]
    BY <1>1 DEF Passed, SameAttrs
  <2>2. /\ f[t] \in Nat /\ RetryOK(w, f[t], r, t)
        /\ t \in w.retrier => w.status[t] = "TERMINATED"
    BY DEF RetriesOK, RetriesFailed
  <2>3. t \in pass.enqueued \/ t = pass.failed => w.status[t] = "none" /\ t \notin w.retrier
    BY <2>2 DEF PassOver
  <2>4. CASE v.status[t] = w.status[t]
    <3>1. (Due(v, t) <=> Due(w, t)) /\ (GivenUp(v, t) <=> GivenUp(w, t))
      BY <2>1, <2>4 DEF Due, GivenUp
    <3> QED
      BY <2>1, <2>2, <2>4, <3>1, RetryKept
  <2>5. CASE v.status[t] # w.status[t]
    <3>1. w.status[t] = "none" /\ t \notin v.retrier /\ v.status[t] \in {"QUEUED", "ABORTED"}
      BY <2>1, <2>3, <2>5
    <3>2. Due(w, t) /\ (Due(v, t) <=> v.status[t] = "QUEUED") /\ ~ GivenUp(v, t)
      BY <3>1 DEF Due, GivenUp
    <3> QED
      BY <2>1, <2>2, <3>1, <3>2, RetryKept
  <2> QED
    BY <2>4, <2>5
<1> QED
  BY <1>1, <1>2 DEF RetriesOK, Passed

\* What the operations start from.
LEMMA RetryStart ==
    ASSUME InstanceInv, RestType, RetryInv
    PROVE  /\ wi \in InstanceType /\ RetriesFailed(wi) /\ Counted(wi, 0) /\ Sound(wi)
           /\ tries \in [Tasks -> Nat] /\ restarts \in Nat /\ RetriesOK(wi, tries, restarts)
           /\ \A t \in Tasks : tries[t] \in Nat /\ RetryOK(wi, tries[t], restarts, t)
  BY InstanceAssumption DEF InstanceInv, Sound, RestType, RetryInv, RetriesOK

\* An operation on one task leaves the others alone.
LEMMA OthersKept ==
    ASSUME NEW w \in InstanceType, NEW v, NEW f \in [Tasks -> Nat], NEW g \in [Tasks -> Nat],
           NEW r \in Nat, RetriesOK(w, f, r), NEW t \in Tasks,
           v.is_cancelling = w.is_cancelling,
           \A s \in Tasks \ {t} : /\ v.level[s] = w.level[s] /\ v.delay[s] = w.delay[s]
                                  /\ v.times[s] = w.times[s]
                                  /\ v.status[s] = w.status[s] /\ v.retval[s] = w.retval[s]
                                  /\ s \in v.retrier <=> s \in w.retrier
                                  /\ g[s] = f[s],
           RetryOK(v, g[t], r, t)
    PROVE  RetriesOK(v, g, r)
<1>1. ASSUME NEW s \in Tasks \ {t} PROVE RetryOK(v, g[s], r, s)
  <2>1. RetryOK(w, f[s], r, s) /\ g[s] = f[s]
    BY DEF RetriesOK
  <2>2. (Due(v, s) <=> Due(w, s)) /\ (GivenUp(v, s) <=> GivenUp(w, s))
    BY DEF Due, GivenUp
  <2>3. v.level[s] = w.level[s] /\ v.delay[s] = w.delay[s] /\ v.times[s] = w.times[s]
    OBVIOUS
  <2>4. f[s] \in Nat /\ s \in Tasks /\ v.status[s] = w.status[s]
    OBVIOUS
  <2> QED
    BY <2>1, <2>2, <2>3, <2>4, RetryKept
<1> QED
  BY <1>1 DEF RetriesOK

\* The subjobs of the root are run.
LEMMA StartKeepsRetries ==
    ASSUME InstanceInv, RestType, RetryInv, Start
    PROVE  RetryInv'
<1> DEFINE w == [wi EXCEPT !.wf = "EXECUTING"]
<1>1. /\ wi \in InstanceType /\ wi.wf = "NEW" /\ RetriesFailed(wi) /\ InOrder(wi)
      /\ tries \in [Tasks -> Nat] /\ restarts \in Nat /\ RetriesOK(wi, tries, restarts)
  BY RetryStart DEF Start, Sound
<1>2. PICK pass \in Passes(wi, Root) : Finish(run_subjobs(w, pass))
  BY DEF Start
<1>3. w \in InstanceType
  BY <1>1 DEF InstanceType
<1>4. /\ w.status = wi.status /\ w.retval = wi.retval /\ w.retrier = wi.retrier
      /\ w.is_cancelling = wi.is_cancelling /\ SameAttrs(w, wi)
  BY <1>1 DEF InstanceType, SameAttrs
<1> HIDE DEF w
<1>5. RetriesFailed(w) /\ RetriesOK(w, tries, restarts)
  BY <1>1, <1>4, RetryFrame DEF RetriesFailed, RetriesOK
<1>6. Root \in Jobs /\ PassOver(pass, wi, Root)
  BY <1>2, InstanceAssumption, PassesType
<1>7. PassOver(pass, w, Root)
  BY <1>4, <1>6 DEF PassOver
<1>8. \A t \in TasksBelow(Root) : w.status[t] = "none"
  <2>1. \A t \in TasksBelow(Root) : t \in Tasks
    BY <1>6, BelowType
  <2> QED
    BY <1>1, <1>4, <1>6, <2>1 DEF InOrder
<1> DEFINE u == run_subjobs(w, pass)
<1>9. u \in InstanceType /\ RetriesOK(u, tries, restarts)
  BY ONLY <1>1, <1>3, <1>5, <1>6, <1>7, <1>8, SubjobsKeepRetries
<1>10. Finish(u) /\ tries' = tries /\ restarts' = restarts
  BY <1>2 DEF Start
<1> HIDE DEF u
<1> QED
  BY <1>9, <1>10, FinishKeepsRetries

\* A task that is not retried because of a cancellation is not given up.
LEMMA CancelKeepsRetries ==
    ASSUME InstanceInv, RestType, RetryInv, Cancel
    PROVE  RetryInv'
<1> DEFINE w == [wi EXCEPT !.is_cancelling = TRUE]
<1>1. /\ wi \in InstanceType /\ restarts \in Nat
      /\ \A t \in Tasks : tries[t] \in Nat /\ RetryOK(wi, tries[t], restarts, t)
  BY RetryStart
<1>2. wi' = w /\ tries' = tries /\ restarts' = restarts
  BY DEF Cancel
<1>3. /\ w.status = wi.status /\ w.retrier = wi.retrier /\ w.is_cancelling = TRUE
      /\ SameAttrs(w, wi)
  BY <1>1 DEF InstanceType, SameAttrs
<1> HIDE DEF w
<1>4. ASSUME NEW t \in Tasks PROVE RetryOK(w, tries[t], restarts, t)
  <2>1. (Due(w, t) <=> Due(wi, t)) /\ ~ GivenUp(w, t)
    BY <1>3 DEF Due, GivenUp
  <2>2. /\ w.level[t] = wi.level[t] /\ w.delay[t] = wi.delay[t] /\ w.times[t] = wi.times[t]
        /\ w.status[t] = wi.status[t]
    BY <1>3 DEF SameAttrs
  <2> QED
    BY <1>1, <2>1, <2>2, RetryKept
<1> QED
  BY <1>2, <1>4 DEF RetryInv, RetriesOK

\* A task that the Retrier held is due as a queued one now, or it is aborted.
LEMMA TaskRestartKeepsRetries ==
    ASSUME InstanceInv, RestType, RetryInv, NEW t \in Tasks, TaskRestart(t)
    PROVE  RetryInv'
<1> DEFINE e == enqueue_task(wi, {t})
           u == [e EXCEPT !.retrying_tasks = @ - 1, !.retrier = @ \ {t}]
<1>1. /\ wi \in InstanceType /\ tries \in [Tasks -> Nat] /\ restarts \in Nat
      /\ RetriesOK(wi, tries, restarts)
      /\ \A s \in Tasks : tries[s] \in Nat /\ RetryOK(wi, tries[s], restarts, s)
  BY RetryStart
<1>2. t \in wi.retrier /\ wi.status[t] = "TERMINATED"
  BY RetryStart DEF TaskRestart, RetriesFailed
<1>3. PICK good \in SUBSET {t} : Enqueues(e, wi, {t}, good)
  <2>1. {t} \in SUBSET Tasks
    OBVIOUS
  <2> QED
    BY <1>1, <2>1, EnqueueEffect
<1>4. e \in InstanceType
  BY <1>3 DEF Enqueues
<1>5. Finish(u) /\ tries' = tries /\ restarts' = restarts
  BY DEF TaskRestart
<1> HIDE DEF e
<1>6. u \in InstanceType
  <2> DEFINE n == e.retrying_tasks - 1
             r == e.retrier \ {t}
  <2>1. n \in Int /\ r \in SUBSET Tasks
    BY <1>4, SoundType
  <2>2. u = [e EXCEPT !.retrying_tasks = n, !.retrier = r]
    BY <1>4 DEF InstanceType
  <2> HIDE DEF n, r, u
  <2>3. [e EXCEPT !.retrying_tasks = n, !.retrier = r] \in InstanceType
    BY <1>4, <2>1 DEF InstanceType
  <2> QED
    BY <2>2, <2>3
<1>7. /\ u.status = e.status /\ u.retval = e.retval /\ u.retrier = e.retrier \ {t}
      /\ u.is_cancelling = e.is_cancelling /\ SameAttrs(u, e)
  BY <1>4 DEF InstanceType, SameAttrs
<1> HIDE DEF u
<1>8. /\ \A s \in Tasks : u.status[s] = IF s \in good THEN "QUEUED"
                                        ELSE IF s = t THEN "ABORTED" ELSE wi.status[s]
      /\ u.retval = wi.retval /\ u.retrier = wi.retrier \ {t}
      /\ u.is_cancelling = wi.is_cancelling /\ SameAttrs(u, wi)
  BY <1>3, <1>7 DEF Enqueues, SameAttrs
<1>9. RetryOK(u, tries[t], restarts, t)
  <2>1. u.status[t] \in {"QUEUED", "ABORTED"} /\ t \notin u.retrier
    BY <1>8
  <2>2. Due(wi, t) /\ (Due(u, t) <=> u.status[t] = "QUEUED") /\ ~ GivenUp(u, t)
    BY <1>2, <2>1 DEF Due, GivenUp
  <2>3. u.level[t] = wi.level[t] /\ u.delay[t] = wi.delay[t] /\ u.times[t] = wi.times[t]
    BY <1>8 DEF SameAttrs
  <2> QED
    BY <1>1, <1>2, <2>1, <2>2, <2>3, RetryKept
<1>10. \A s \in Tasks \ {t} : /\ u.status[s] = wi.status[s] /\ u.retval[s] = wi.retval[s]
                              /\ s \in u.retrier <=> s \in wi.retrier
                              /\ tries[s] = tries[s]
  BY <1>3, <1>8
<1>11. RetriesOK(u, tries, restarts)
  BY <1>1, <1>8, <1>9, <1>10, OthersKept DEF SameAttrs
<1> QED
  BY <1>5, <1>6, <1>11, FinishKeepsRetries

\* A task that is aborted is not executed again.
LEMMA TaskAbortKeepsRetries ==
    ASSUME InstanceInv, RestType, RetryInv, NEW t \in Tasks, TaskAbort(t)
    PROVE  RetryInv'
<1>1. /\ wi \in InstanceType /\ tries \in [Tasks -> Nat] /\ restarts \in Nat
      /\ RetriesOK(wi, tries, restarts)
      /\ \A s \in Tasks : tries[s] \in Nat /\ RetryOK(wi, tries[s], restarts, s)
  BY RetryStart
<1>2. wi.status[t] = "QUEUED" /\ t \notin wi.retrier
  BY RetryStart DEF TaskAbort, Counted, RetriesFailed
<1> DEFINE status == [wi.status EXCEPT ![t] = "ABORTED"]
           pool == wi.pool \ {t}
           error == wi.error_tasks + 1
           running == wi.running_tasks - 1
           u == [wi EXCEPT !.pool = pool, !.status = status, !.error_tasks = error,
                           !.running_tasks = running]
<1>3. Finish(u) /\ tries' = tries /\ restarts' = restarts
  BY <1>1 DEF TaskAbort, Dequeued, InstanceType
<1>4. /\ status \in [Tasks -> Statuses] /\ pool \in SUBSET Tasks /\ error \in Nat
      /\ running \in Int
      /\ status[t] = "ABORTED" /\ \A s \in Tasks \ {t} : status[s] = wi.status[s]
  BY <1>1 DEF InstanceType, Statuses
<1> HIDE DEF status, error, pool, running
<1>5. u \in InstanceType
  BY <1>1, <1>4 DEF InstanceType
<1>6. /\ u.status = status /\ u.retval = wi.retval /\ u.retrier = wi.retrier
      /\ u.is_cancelling = wi.is_cancelling /\ SameAttrs(u, wi)
  BY <1>1 DEF InstanceType, SameAttrs
<1> HIDE DEF u
<1>7. RetryOK(u, tries[t], restarts, t)
  <2>1. Due(wi, t) /\ ~ Due(u, t) /\ ~ GivenUp(u, t) /\ u.status[t] = "ABORTED"
    BY <1>2, <1>4, <1>6 DEF Due, GivenUp
  <2>2. u.level[t] = wi.level[t] /\ u.delay[t] = wi.delay[t] /\ u.times[t] = wi.times[t]
    BY <1>6 DEF SameAttrs
  <2> QED
    BY <1>1, <2>1, <2>2, RetryKept
<1>8. RetriesOK(u, tries, restarts)
  BY <1>1, <1>4, <1>6, <1>7, OthersKept DEF SameAttrs
<1> QED
  BY <1>3, <1>5, <1>8, FinishKeepsRetries

\* An execution takes the place of a task that was due.
LEMMA TaskExecuteKeepsRetries ==
    ASSUME InstanceInv, RestType, RetryInv, NEW t \in Tasks, TaskExecute(t)
    PROVE  RetryInv'
<1>1. /\ wi \in InstanceType /\ tries \in [Tasks -> Nat] /\ restarts \in Nat
      /\ RetriesOK(wi, tries, restarts)
      /\ \A s \in Tasks : tries[s] \in Nat /\ RetryOK(wi, tries[s], restarts, s)
  BY RetryStart
<1>2. wi.status[t] = "QUEUED" /\ t \notin wi.retrier
  BY RetryStart DEF TaskExecute, Counted, RetriesFailed
<1> DEFINE status == [wi.status EXCEPT ![t] = "EXECUTING"]
           pool == wi.pool \ {t}
           u == [wi EXCEPT !.pool = pool, !.status = status]
           g == [tries EXCEPT ![t] = @ + 1]
<1>3. Finish(u) /\ tries' = g /\ restarts' = restarts
  BY <1>1 DEF TaskExecute, Dequeued, InstanceType
<1>4. /\ status \in [Tasks -> Statuses] /\ pool \in SUBSET Tasks
      /\ status[t] = "EXECUTING" /\ \A s \in Tasks \ {t} : status[s] = wi.status[s]
      /\ g \in [Tasks -> Nat] /\ g[t] = tries[t] + 1
      /\ \A s \in Tasks \ {t} : g[s] = tries[s]
  BY <1>1 DEF InstanceType, Statuses
<1> HIDE DEF status, pool, g
<1>5. u \in InstanceType
  BY <1>1, <1>4 DEF InstanceType
<1>6. /\ u.status = status /\ u.retval = wi.retval /\ u.retrier = wi.retrier
      /\ u.is_cancelling = wi.is_cancelling /\ SameAttrs(u, wi)
  BY <1>1 DEF InstanceType, SameAttrs
<1> HIDE DEF u
<1>7. RetryOK(u, g[t], restarts, t)
  <2>1. Due(wi, t) /\ ~ Due(u, t) /\ ~ GivenUp(u, t) /\ u.status[t] = "EXECUTING"
    BY <1>2, <1>4, <1>6 DEF Due, GivenUp
  <2>2. u.level[t] = wi.level[t] /\ u.delay[t] = wi.delay[t] /\ u.times[t] = wi.times[t]
    BY <1>6 DEF SameAttrs
  <2> QED
    BY <1>1, <1>2, <1>4, <2>1, <2>2, RetryKept
<1>8. RetriesOK(u, g, restarts)
  BY <1>1, <1>4, <1>6, <1>7, OthersKept DEF SameAttrs
<1> QED
  BY <1>3, <1>5, <1>8, FinishKeepsRetries

\* The task has ended: it has succeeded, it is aborted, it is cancelled, or
\* retry_task decides about it.
LEMMA StoppedKeepsRetries ==
    ASSUME InstanceInv, RestType, RetryInv, NEW t \in Tasks, NEW ret \in Retvals,
           NEW ok \in BOOLEAN, wi.status[t] = "EXECUTING",
           NEW v, v = Stopped(t, ret, ok)
    PROVE  RetriesOK(v, tries, restarts)
<1>1. /\ wi \in InstanceType /\ tries \in [Tasks -> Nat] /\ restarts \in Nat
      /\ RetriesOK(wi, tries, restarts)
      /\ \A s \in Tasks : tries[s] \in Nat /\ RetryOK(wi, tries[s], restarts, s)
  BY RetryStart
<1>2. t \notin wi.retrier
  BY RetryStart DEF RetriesFailed
<1> DEFINE status == [wi.status EXCEPT ![t] = "TERMINATED"]
           retval == [wi.retval EXCEPT ![t] = ret]
           w == [wi EXCEPT !.status = status, !.retval = retval]
           aborted == [status EXCEPT ![t] = "ABORTED"]
           error == wi.error_tasks + 1
           x == [w EXCEPT !.status = aborted, !.error_tasks = error]
<1>3. /\ status \in [Tasks -> Statuses] /\ aborted \in [Tasks -> Statuses]
      /\ retval \in [Tasks -> Retvals \cup {0}]
      /\ status[t] = "TERMINATED" /\ retval[t] = ret /\ aborted[t] = "ABORTED"
      /\ \A s \in Tasks \ {t} : /\ status[s] = wi.status[s] /\ aborted[s] = wi.status[s]
                                /\ retval[s] = wi.retval[s]
  BY <1>1 DEF InstanceType, Statuses
<1>4. v = CASE ret = 0 /\ ok -> w
            [] ret = 0 /\ ~ ok -> x
            [] ret # 0 /\ wi.is_cancelling -> w
            [] OTHER -> retry_task(w, {t})
  BY <1>1 DEF Stopped, InstanceType
<1> HIDE DEF status, retval, aborted, error
<1>5. w \in InstanceType
  BY <1>1, <1>3 DEF InstanceType
<1>6. /\ w.status = status /\ w.retval = retval /\ w.retrier = wi.retrier
      /\ w.is_cancelling = wi.is_cancelling /\ SameAttrs(w, wi)
  BY <1>1 DEF InstanceType, SameAttrs
<1> HIDE DEF w
<1>7. /\ x.status = aborted /\ x.retval = retval /\ x.retrier = wi.retrier
      /\ x.is_cancelling = wi.is_cancelling /\ SameAttrs(x, wi)
  BY <1>5, <1>6 DEF InstanceType, SameAttrs
<1> HIDE DEF x
<1>8. ~ Due(wi, t)
  BY <1>2 DEF Due
<1>9. CASE v = w /\ (ret = 0 \/ wi.is_cancelling)
  <2>1. ~ Due(w, t) /\ ~ GivenUp(w, t) /\ w.status[t] = "TERMINATED"
    BY <1>2, <1>3, <1>6, <1>9 DEF Due, GivenUp
  <2>2. w.level[t] = wi.level[t] /\ w.delay[t] = wi.delay[t] /\ w.times[t] = wi.times[t]
    BY <1>6 DEF SameAttrs
  <2>3. RetryOK(w, tries[t], restarts, t)
    BY <1>1, <1>8, <2>1, <2>2, RetryKept
  <2> QED
    BY <1>1, <1>3, <1>6, <1>9, <2>3, OthersKept DEF SameAttrs
<1>10. CASE v = x
  <2>1. ~ Due(x, t) /\ ~ GivenUp(x, t) /\ x.status[t] = "ABORTED"
    BY <1>2, <1>3, <1>7 DEF Due, GivenUp
  <2>2. x.level[t] = wi.level[t] /\ x.delay[t] = wi.delay[t] /\ x.times[t] = wi.times[t]
    BY <1>7 DEF SameAttrs
  <2>3. RetryOK(x, tries[t], restarts, t)
    BY <1>1, <1>8, <2>1, <2>2, RetryKept
  <2> QED
    BY <1>1, <1>3, <1>7, <1>10, <2>3, OthersKept DEF SameAttrs
<1>11. CASE v = retry_task(w, {t})
  <2>1. {t} \in SUBSET Tasks
    OBVIOUS
  <2>2. /\ v.status = w.status /\ v.retval = w.retval /\ v.is_cancelling = w.is_cancelling
        /\ \A s \in {t} : /\ v.level[s] = Retried(w, s).level
                          /\ v.delay[s] = Retried(w, s).delay
                          /\ v.times[s] = Retried(w, s).times
                          /\ s \notin w.retrier =>
                                (s \in v.retrier <=> Retried(w, s).what = "retry")
        /\ \A s \in Tasks \ {t} : /\ v.level[s] = w.level[s] /\ v.delay[s] = w.delay[s]
                                  /\ v.times[s] = w.times[s]
                                  /\ s \in v.retrier <=> s \in w.retrier
    BY ONLY <1>5, <1>11, <2>1, RetryWrites
  <2>3. w.level[t] = wi.level[t] /\ w.delay[t] = wi.delay[t] /\ w.times[t] = wi.times[t]
    BY <1>6 DEF SameAttrs
  <2>4. /\ v.status[t] = "TERMINATED" /\ v.retval[t] = w.retval[t]
        /\ v.level[t] = Retried(w, t).level /\ v.delay[t] = Retried(w, t).delay
        /\ v.times[t] = Retried(w, t).times
        /\ t \in v.retrier <=> Retried(w, t).what = "retry"
    BY <1>2, <1>3, <1>6, <2>2
  <2>5. RetryOK(v, tries[t], restarts, t)
    BY <1>1, <1>5, <1>8, <2>3, <2>4, RetryAgain
  <2>6. /\ v.is_cancelling = wi.is_cancelling
        /\ \A s \in Tasks \ {t} : /\ v.level[s] = wi.level[s] /\ v.delay[s] = wi.delay[s]
                                  /\ v.times[s] = wi.times[s]
                                  /\ v.status[s] = wi.status[s] /\ v.retval[s] = wi.retval[s]
                                  /\ s \in v.retrier <=> s \in wi.retrier
                                  /\ tries[s] = tries[s]
    BY <1>3, <1>6, <2>2 DEF SameAttrs
  <2> QED
    BY <1>1, <2>5, <2>6, OthersKept
<1> QED
  BY <1>4, <1>9, <1>10, <1>11

\* The task has ended, and the subjobs are run when its job has succeeded.
LEMMA TaskStopKeepsRetries ==
    ASSUME InstanceInv, RestType, RetryInv, NEW t \in Tasks, NEW ret \in Retvals,
           NEW ok \in BOOLEAN, TaskStop(t, ret, ok)
    PROVE  RetryInv'
<1> DEFINE w == Stopped(t, ret, ok)
           j == JobOf[t]
<1>1. /\ wi.status[t] = "EXECUTING" /\ wi \in InstanceType
      /\ InDocument(wi) /\ InOrder(wi)
      /\ tries \in [Tasks -> Nat] /\ restarts \in Nat
  BY RetryStart DEF Sound, TaskStop
<1>2. /\ \/ \E pass \in Passes(w, j) :
               Finish([run_subjobs(w, pass) EXCEPT !.running_tasks = @ - 1])
         \/ Finish([w EXCEPT !.running_tasks = @ - 1])
      /\ tries' = tries /\ restarts' = restarts
  BY DEF TaskStop
<1>3. Sound(w) /\ \A s \in Tasks \ {t} : w.status[s] = wi.status[s]
  BY <1>1, StoppedSound
<1>4. w \in InstanceType /\ RetriesFailed(w)
  BY <1>3 DEF Sound
<1>5. RetriesOK(w, tries, restarts)
  BY <1>1, StoppedKeepsRetries
<1>6. j \in Jobs /\ j # Root
  <2>1. PICK p \in Jobs : t \in TasksBelow(p)
    BY <1>1 DEF InOrder
  <2> QED
    BY <2>1, TreeFacts
<1>7. \A s \in TasksBelow(j) : w.status[s] = "none"
  <2>1. \A s \in TasksBelow(j) : s \in Tasks
    BY <1>6, BelowType
  <2>2. \A s \in TasksBelow(j) : JobOf[s] # j
    BY <1>6, TreeFacts
  <2>3. ~ Succeeded(wi, j)
    BY <1>1 DEF Succeeded, JobSucceeded, InDocument
  <2>4. \A s \in TasksBelow(j) : wi.status[s] = "none"
    BY <1>1, <1>6, <2>1, <2>3 DEF InOrder
  <2> QED
    BY <1>3, <2>1, <2>2, <2>4
<1> HIDE DEF w
<1>8. ASSUME NEW STATE x, x \in InstanceType, RetriesOK(x, tries, restarts),
             Finish([x EXCEPT !.running_tasks = @ - 1])
      PROVE  RetryInv'
  <2> DEFINE u == [x EXCEPT !.running_tasks = @ - 1]
  <2>1. RetriesOK(u, tries', restarts')
    BY <1>2, <1>8, EndKeepsRetries
  <2>2. u \in InstanceType
    <3> DEFINE n == x.running_tasks - 1
    <3>1. n \in Int /\ u = [x EXCEPT !.running_tasks = n]
      BY <1>8 DEF InstanceType
    <3> HIDE DEF n, u
    <3> QED
      BY <1>8, <3>1 DEF InstanceType
  <2>3. Finish(u)
    BY <1>8
  <2> HIDE DEF u
  <2> QED
    BY <2>1, <2>2, <2>3, FinishKeepsRetries
<1>9. CASE \E pass \in Passes(w, j) :
              Finish([run_subjobs(w, pass) EXCEPT !.running_tasks = @ - 1])
  <2>1. PICK pass \in Passes(w, j) :
           Finish([run_subjobs(w, pass) EXCEPT !.running_tasks = @ - 1])
    BY <1>9
  <2>2. PassOver(pass, w, j)
    BY <1>4, <1>6, PassesType
  <2> DEFINE x == run_subjobs(w, pass)
  <2>3. x \in InstanceType /\ RetriesOK(x, tries, restarts)
    BY ONLY <1>1, <1>4, <1>5, <1>6, <1>7, <2>2, SubjobsKeepRetries
  <2>4. Finish([x EXCEPT !.running_tasks = @ - 1])
    BY <2>1
  <2> HIDE DEF x
  <2> QED
    BY <1>8, <2>3, <2>4
<1>10. CASE Finish([w EXCEPT !.running_tasks = @ - 1])
  BY <1>4, <1>5, <1>8, <1>10
<1> QED
  BY <1>2, <1>9, <1>10

\* Resume leaves no task more retries than it had: retry_task looks at the failed
\* tasks once more, be it that their timers were running or that they had been
\* given up; no other task becomes due.
LEMMA ResumeKeepsRetries ==
    ASSUME NEW w, Sound(w), NEW f \in [Tasks -> Nat], NEW r \in Nat, NEW q \in Nat, q # 0,
           RetriesOK(w, f, r), NEW v, v = Resume(DocOf(w))
    PROVE  RetriesOK(v, f, q)
<1>1. w \in InstanceType
  BY DEF Sound
<1> DEFINE x == FreshInstance(DocOf(w))
           queued == {t \in w.present : w.status[t] = "QUEUED"}
           executing == {t \in w.present : w.status[t] = "EXECUTING"}
           failed == {t \in w.present : w.status[t] = "TERMINATED" /\ w.retval[t] # 0}
           e == enqueue_task(x, queued)
           c == [e EXCEPT !.running_tasks = @ + Cardinality(executing)]
<1>2. v = retry_task(c, failed)
  BY DEF Resume, DocOf
<1>3. x \in InstanceType
  BY <1>1 DEF FreshInstance, DocOf, InstanceType
<1>4. x.status = w.status /\ x.retval = w.retval /\ x.retrier = {} /\ SameAttrs(x, w)
  BY DEF FreshInstance, DocOf, SameAttrs
<1> HIDE DEF x
<1>5. /\ queued \in SUBSET Tasks /\ executing \in SUBSET Tasks /\ failed \in SUBSET Tasks
      /\ \A t \in queued : w.status[t] = "QUEUED"
      /\ \A t \in failed : w.status[t] = "TERMINATED"
  BY <1>1, SoundType
<1> HIDE DEF queued, executing, failed
<1>6. PICK good \in SUBSET queued : Enqueues(e, x, queued, good)
  BY <1>3, <1>5, EnqueueEffect
<1> HIDE DEF e
<1>7. /\ e \in InstanceType /\ e.retval = w.retval /\ e.retrier = {} /\ SameAttrs(e, w)
      /\ \A t \in Tasks : e.status[t] = IF t \in good THEN "QUEUED"
                                        ELSE IF t \in queued THEN "ABORTED" ELSE w.status[t]
  BY <1>4, <1>6 DEF Enqueues, SameAttrs
<1>8. /\ c \in InstanceType /\ c.status = e.status /\ c.retval = w.retval
      /\ c.retrier = {} /\ SameAttrs(c, w)
  <2> DEFINE n == e.running_tasks + Cardinality(executing)
  <2>1. n \in Int
    BY <1>5, <1>7, SoundType, TasksFinite
  <2>2. c = [e EXCEPT !.running_tasks = n]
    BY <1>7 DEF InstanceType
  <2> HIDE DEF n, c
  <2>3. c \in InstanceType
    BY <1>7, <2>1, <2>2 DEF InstanceType
  <2> QED
    BY <1>7, <2>2, <2>3 DEF InstanceType, SameAttrs
<1> HIDE DEF c
<1>9. /\ v.status = c.status /\ v.retval = c.retval
      /\ \A t \in failed : /\ v.level[t] = Retried(c, t).level
                           /\ v.delay[t] = Retried(c, t).delay
                           /\ v.times[t] = Retried(c, t).times
                           /\ t \notin c.retrier =>
                                 (t \in v.retrier <=> Retried(c, t).what = "retry")
      /\ \A t \in Tasks \ failed : /\ v.level[t] = c.level[t] /\ v.delay[t] = c.delay[t]
                                   /\ v.times[t] = c.times[t]
                                   /\ t \in v.retrier <=> t \in c.retrier
  BY ONLY <1>2, <1>5, <1>8, RetryWrites
<1>10. ASSUME NEW t \in Tasks PROVE RetryOK(v, f[t], q, t)
  <2>1. f[t] \in Nat /\ RetryOK(w, f[t], r, t)
    BY DEF RetriesOK
  <2>2. c.level[t] = w.level[t] /\ c.delay[t] = w.delay[t] /\ c.times[t] = w.times[t]
    BY <1>8 DEF SameAttrs
  <2>3. CASE t \in failed
    <3>1. /\ v.status[t] = "TERMINATED" /\ v.retval[t] = c.retval[t]
          /\ v.level[t] = Retried(c, t).level /\ v.delay[t] = Retried(c, t).delay
          /\ v.times[t] = Retried(c, t).times
          /\ t \in v.retrier <=> Retried(c, t).what = "retry"
      BY <1>5, <1>6, <1>7, <1>8, <1>9, <2>3
    <3> QED
      BY <1>1, <1>8, <2>1, <2>2, <3>1, RetryAgain
  <2>4. CASE t \notin failed
    <3>1. /\ v.level[t] = w.level[t] /\ v.delay[t] = w.delay[t] /\ v.times[t] = w.times[t]
          /\ t \notin v.retrier
          /\ v.status[t] = IF t \in good THEN "QUEUED"
                           ELSE IF t \in queued THEN "ABORTED" ELSE w.status[t]
      BY <1>7, <1>8, <1>9, <2>2, <2>4
    <3>2. /\ Due(v, t) => Due(w, t)
          /\ v.status[t] = "EXECUTING" => w.status[t] = "EXECUTING"
      BY <1>5, <1>6, <3>1 DEF Due
    <3> QED
      BY <1>1, <2>1, <3>1, <3>2, RetryKept
  <2> QED
    BY <2>3, <2>4
<1> QED
  BY <1>10 DEF RetriesOK

\* The next engine resumes the instance.
LEMMA RestartKeepsRetries ==
    ASSUME InstanceInv, RestType, RetryInv, Restart
    PROVE  RetryInv'
<1> DEFINE row == record_savepoint(wi, saved, TRUE)
           v == Resume(DocOf(wi))
           q == restarts + 1
<1>1. /\ Sound(wi) /\ Counted(wi, 0) /\ tries \in [Tasks -> Nat] /\ restarts \in Nat
      /\ RetriesOK(wi, tries, restarts)
  BY RetryStart
<1>2. row.doc = DocOf(wi)
  BY DEF record_savepoint, Restart
<1>3. wi' = workflow_ended(v) /\ tries' = tries /\ restarts' = q
  BY <1>2 DEF Restart
<1>4. v \in InstanceType
  BY <1>1, ResumeSound DEF Sound
<1>5. q \in Nat /\ q # 0
  BY <1>1
<1> HIDE DEF q
<1>6. RetriesOK(v, tries, q)
  BY ONLY <1>1, <1>5, ResumeKeepsRetries
<1> HIDE DEF v
<1>7. RetriesOK(workflow_ended(v), tries, q)
  BY <1>4, <1>6, EndKeepsRetries
<1> QED
  BY <1>3, <1>7 DEF RetryInv

\* A new instance has its budget before it, and every task is due.
LEMMA RetryInit == Init => RetryInv
<1> SUFFICES ASSUME Init, NEW t \in Tasks PROVE RetryOK(wi, tries[t], restarts, t)
  BY DEF RetryInv, RetriesOK
<1> DEFINE p == Policy[t]
<1>1. /\ wi.status[t] = "none" /\ wi.level[t] = 0 /\ wi.delay[t] = p.delay
      /\ wi.times[t] = p.times /\ wi.retrier = {} /\ tries[t] = 0
  BY DEF Init, FreshInstance, NewDocument
<1>2. Due(wi, t) /\ ~ GivenUp(wi, t)
  BY <1>1 DEF Due, GivenUp
<1>3. Budget(p) \in Nat /\ Len(p.levels) \in Nat
  BY BudgetType, PolicyType
<1>4. Consistent(t, 0, p.delay, p.times)
  BY <1>3 DEF Consistent
<1>5. ToCome(t, 0, p.delay, p.times) = Budget(p)
  BY DEF ToCome, Budget
<1> QED
  BY <1>1, <1>2, <1>3, <1>4, <1>5 DEF RetryOK

\* Every operation preserves the invariant.
LEMMA RetryStep == InstanceInv /\ RestType /\ RetryInv /\ [Next]_vars => RetryInv'
<1> SUFFICES ASSUME InstanceInv, RestType, RetryInv, [Next]_vars PROVE RetryInv'
  OBVIOUS
<1>1. CASE Start
  BY <1>1, StartKeepsRetries
<1>2. CASE Cancel
  BY <1>2, CancelKeepsRetries
<1>3. CASE Forker
  <2>1. PICK t \in Tasks : TaskExecute(t) \/ TaskAbort(t)
    BY <1>3 DEF Forker
  <2> QED
    BY <2>1, TaskExecuteKeepsRetries, TaskAbortKeepsRetries
<1>4. CASE Gatherer
  <2>1. PICK t \in Tasks, ret \in Retvals, ok \in BOOLEAN : TaskStop(t, ret, ok)
    BY <1>4 DEF Gatherer
  <2> QED
    BY <2>1, TaskStopKeepsRetries
<1>5. CASE Retrier
  <2>1. PICK t \in Tasks : TaskRestart(t)
    BY <1>5 DEF Retrier
  <2> QED
    BY <2>1, TaskRestartKeepsRetries
<1>6. CASE Restart
  BY <1>6, RestartKeepsRetries
<1>7. CASE UNCHANGED vars
  BY <1>7 DEF vars, RetryInv
<1> QED
  BY <1>1, <1>2, <1>3, <1>4, <1>5, <1>6, <1>7 DEF Next

\* The executions of a task, the retries its attributes still allow and the
\* execution that is due never exceed the budget, and while the engine is not
\* restarted they make it up, but for tasks that are aborted.
THEOREM BudgetIsKept == Spec => []RetryInv
<1>1. Init => RestType
  BY InstanceAssumption DEF Init, RestType
<1>2. Spec => []RestType
  BY <1>1, RestStep, PTL DEF Spec
<1> QED
  BY <1>2, RetryInit, RetryStep, InstanceIsSound, PTL DEF Spec

\* No task is executed more often than once and as often as its retry attributes
\* or the levels of its schedule allow, however often the engine is restarted:
\* the level and the times that retry_task has written are resumed with the
\* document (WorkflowInstance.cpp:370-410, 995-1071, 1409-1465).
THEOREM ExecutionsAreBounded ==
    ASSUME \A t \in Tasks : Bare(Policy[t])
    PROVE  Spec => [](\A t \in Tasks : tries[t] <= 1 + Budget(Policy[t]))
<1>1. InstanceInv /\ RestType /\ RetryInv => \A t \in Tasks : tries[t] <= 1 + Budget(Policy[t])
  <2> SUFFICES ASSUME InstanceInv, RestType, RetryInv, NEW t \in Tasks
               PROVE  tries[t] <= 1 + Budget(Policy[t])
    OBVIOUS
  <2> DEFINE left == ToCome(t, wi.level[t], wi.delay[t], wi.times[t])
             due == IF Due(wi, t) THEN 1 ELSE 0
  <2>1. wi \in InstanceType /\ tries[t] \in Nat /\ RetryOK(wi, tries[t], restarts, t)
    BY RetryStart
  <2>2. /\ Consistent(t, wi.level[t], wi.delay[t], wi.times[t])
        /\ tries[t] + left + due <= 1 + Budget(Policy[t])
    BY <2>1 DEF RetryOK
  <2>3. left \in Nat /\ due \in Nat /\ Budget(Policy[t]) \in Nat
    BY <2>1, <2>2, RetryTypes
  <2> HIDE DEF left, due
  <2> QED
    BY <2>1, <2>2, <2>3
<1>2. Init => RestType
  BY InstanceAssumption DEF Init, RestType
<1>3. Spec => []RestType
  BY <1>2, RestStep, PTL DEF Spec
<1> QED
  BY <1>1, <1>3, BudgetIsKept, InstanceIsSound, PTL

\* A task that retry_task has given up, in an engine that has not been
\* restarted, has been executed once and then as often as its retry attributes
\* or all the levels of its schedule say, whatever the levels, the outcomes and
\* the other tasks are (WorkflowInstance.cpp:995-1071, 1409-1465).
THEOREM RetriesAlwaysUsedUp ==
    ASSUME MaxRestarts = 0, \A t \in Tasks : Usable(Policy[t])
    PROVE  Spec => []RetriesAreUsedUp
<1>1. InstanceInv /\ RestType /\ RetryInv => RetriesAreUsedUp
  <2> SUFFICES ASSUME InstanceInv, RestType, RetryInv, NEW t \in Tasks
               PROVE  /\ tries[t] <= 1 + Budget(Policy[t])
                      /\ GivenUp(wi, t) => tries[t] = 1 + Budget(Policy[t])
    BY DEF RetriesAreUsedUp, GivenUp
  <2> DEFINE left == ToCome(t, wi.level[t], wi.delay[t], wi.times[t])
             due == IF Due(wi, t) THEN 1 ELSE 0
  <2>1. wi \in InstanceType /\ tries[t] \in Nat /\ RetryOK(wi, tries[t], restarts, t)
    BY RetryStart
  <2>2. restarts = 0
    BY DEF RestType
  <2>3. /\ Consistent(t, wi.level[t], wi.delay[t], wi.times[t])
        /\ tries[t] + left + due <= 1 + Budget(Policy[t])
        /\ wi.status[t] # "ABORTED" => tries[t] + left + due = 1 + Budget(Policy[t])
        /\ GivenUp(wi, t) => left = 0
    BY <2>1, <2>2 DEF RetryOK
  <2>4. left \in Nat /\ due \in Nat /\ Budget(Policy[t]) \in Nat
    BY <2>1, <2>3, RetryTypes
  <2>5. GivenUp(wi, t) => due = 0 /\ wi.status[t] # "ABORTED"
    BY DEF GivenUp, Due
  <2> HIDE DEF left, due
  <2> QED
    BY <2>1, <2>3, <2>4, <2>5
<1>2. Init => RestType
  BY InstanceAssumption DEF Init, RestType
<1>3. Spec => []RestType
  BY <1>2, RestStep, PTL DEF Spec
<1> QED
  BY <1>1, <1>3, BudgetIsKept, InstanceIsSound, PTL

-----------------------------------------------------------------------------
(* What a pass evaluates.                                                  *)

\* A job has one looped task and one looped subjob at most: the index of the
\* nodes is not reset for a second one.
OneLoop ==
    \A j \in Jobs :
        /\ \A i, k \in 1 .. Len(TasksOf[j]) :
              TasksOf[j][i] \in LoopedTasks /\ TasksOf[j][k] \in LoopedTasks => i = k
        /\ \A i, k \in 1 .. Len(Subjobs[j]) :
              Subjobs[j][i] \in LoopedJobs /\ Subjobs[j][k] \in LoopedJobs => i = k

\* The elements of two sequences, one after the other.
LEMMA ConcatRange ==
    ASSUME NEW S, NEW a \in Seq(S), NEW b \in Seq(S), NEW x
    PROVE  x \in ToSet(a \o b) <=> x \in ToSet(a) \/ x \in ToSet(b)
<1> DEFINE c == a \o b
<1>1. /\ c \in Seq(S) /\ Len(c) = Len(a) + Len(b) /\ Len(a) \in Nat /\ Len(b) \in Nat
      /\ \A i \in 1 .. Len(a) : c[i] = a[i]
      /\ \A i \in 1 .. Len(b) : c[Len(a) + i] = b[i]
  OBVIOUS
<1>2. \A i \in 1 .. Len(c) : i \in 1 .. Len(a) \/ \E k \in 1 .. Len(b) : i = Len(a) + k
  <2> SUFFICES ASSUME NEW i \in 1 .. Len(c), i \notin 1 .. Len(a)
               PROVE  \E k \in 1 .. Len(b) : i = Len(a) + k
    OBVIOUS
  <2>1. i - Len(a) \in 1 .. Len(b) /\ i = Len(a) + (i - Len(a))
    BY <1>1
  <2> QED
    BY <2>1
<1>3. /\ \A i \in 1 .. Len(a) : i \in 1 .. Len(c)
      /\ \A i \in 1 .. Len(b) : Len(a) + i \in 1 .. Len(c)
  BY <1>1
<1> HIDE DEF c
<1>4. /\ x \in ToSet(c) <=> \E i \in 1 .. Len(c) : x = c[i]
      /\ x \in ToSet(a) <=> \E i \in 1 .. Len(a) : x = a[i]
      /\ x \in ToSet(b) <=> \E i \in 1 .. Len(b) : x = b[i]
  <2>1. ASSUME NEW s \in Seq(S) PROVE x \in ToSet(s) <=> \E i \in 1 .. Len(s) : x = s[i]
    BY ONLY s \in Seq(S), SequenceRange
  <2> QED
    BY ONLY <1>1, <2>1, a \in Seq(S), b \in Seq(S)
<1> QED
  BY <1>1, <1>2, <1>3, <1>4 DEF c

\* Flattening sequences keeps their elements.
LEMMA FlattenRange ==
    ASSUME NEW S, NEW seqs \in Seq(Seq(S)), NEW x
    PROVE  x \in ToSet(FlattenSeq(seqs)) <=> \E k \in 1 .. Len(seqs) : x \in ToSet(seqs[k])
<1> DEFINE n == Len(seqs)
<1>1. CASE n = 0
  <2>1. FlattenSeq(seqs) = <<>> /\ ~ \E k \in 1 .. Len(seqs) : x \in ToSet(seqs[k])
    BY <1>1 DEF FlattenSeq
  <2> QED
    BY <2>1 DEF ToSet
<1>2. CASE n # 0
  <2>1. n \in Nat /\ n \in 1 .. n /\ \A i \in 1 .. n : seqs[i] \in Seq(S)
    BY <1>2
  <2>2. PICK g \in [1 .. n -> Seq(S)] :
           /\ g[1] = seqs[1]
           /\ \A i \in 1 .. n : i # 1 => g[i] = g[i - 1] \o seqs[i]
           /\ FlattenSeq(seqs) = g[n]
    BY <1>2, FlattenUnfolds
  <2> DEFINE Bad == {i \in 1 .. n : ~(x \in ToSet(g[i]) <=>
                                        \E k \in 1 .. i : x \in ToSet(seqs[k]))}
  <2> HIDE DEF n
  <2>3. Bad = {}
    <3> SUFFICES ASSUME Bad # {} PROVE FALSE
      OBVIOUS
    <3>1. Bad \in SUBSET Nat
      BY <2>1
    <3>2. PICK m \in Bad : \A k \in Bad : m <= k
      BY <3>1, LeastNatural
    <3>3. m # 1
      BY <2>2, <3>2
    <3>4. m \in 1 .. n /\ m - 1 \in 1 .. n /\ m - 1 \notin Bad
      BY <2>1, <3>2, <3>3
    <3>5. x \in ToSet(g[m - 1]) <=> \E k \in 1 .. m - 1 : x \in ToSet(seqs[k])
      BY <3>4
    <3>6. g[m] = g[m - 1] \o seqs[m] /\ g[m - 1] \in Seq(S) /\ seqs[m] \in Seq(S)
      BY <2>1, <2>2, <3>3, <3>4
    <3>7. x \in ToSet(g[m]) <=> x \in ToSet(g[m - 1]) \/ x \in ToSet(seqs[m])
      <4>1. x \in ToSet(g[m - 1] \o seqs[m]) <=> x \in ToSet(g[m - 1]) \/ x \in ToSet(seqs[m])
        BY ONLY <3>6, ConcatRange
      <4> QED
        BY <3>6, <4>1
    <3>8. /\ m \in 1 .. m /\ \A k \in 1 .. m : k \in 1 .. m - 1 \/ k = m
          /\ \A k \in 1 .. m - 1 : k \in 1 .. m
      <4>1. m \in Nat /\ m # 0
        BY <2>1, <3>4
      <4> QED
        BY ONLY <4>1
    <3>9. x \in ToSet(g[m]) <=> \E k \in 1 .. m : x \in ToSet(seqs[k])
      BY ONLY <3>5, <3>7, <3>8
    <3> QED
      BY <3>2, <3>9
  <2> QED
    BY <2>1, <2>2, <2>3 DEF n
<1> QED
  BY <1>1, <1>2

\* Where one template is looped at most, it is run for all its clones.
LEMMA NodesRange ==
    ASSUME NEW T, NEW looped, NEW templates \in Seq(T),
           \A l \in looped : Clones[l] \in Seq(T),
           \A i, k \in 1 .. Len(templates) :
              templates[i] \in looped /\ templates[k] \in looped => i = k,
           NEW k \in 1 .. Len(templates)
    PROVE  ToSet(Nodes(templates, looped, k))
             = IF templates[k] \in looped THEN ToSet(Clones[templates[k]]) ELSE {templates[k]}
<1>1. CASE templates[k] \notin looped
  <2>1. Nodes(templates, looped, k) = <<templates[k]>>
    BY <1>1 DEF Nodes
  <2> QED
    BY <1>1, <2>1 DEF ToSet
<1>2. CASE templates[k] \in looped
  <2> DEFINE index(i) == NodesIndex(templates, looped, i)
             Bad == {i \in 0 .. k - 1 : index(i) # 0}
             c == Clones[templates[k]]
  <2>1. /\ index(0) = 0
        /\ \A i \in 1 .. Len(templates) : templates[i] \notin looped => index(i) = index(i - 1)
    <3>1. \A l \in looped : Len(Clones[l]) \in Nat
      OBVIOUS
    <3>2. IndexFacts(templates, looped)
      BY ONLY <3>1, templates \in Seq(T), NodesIndexFacts
    <3> QED
      BY ONLY <3>2 DEF IndexFacts
  <2>2. Len(templates) \in Nat /\ k \in 1 .. Len(templates)
    OBVIOUS
  <2>3. \A i \in 1 .. k - 1 : i \in 1 .. Len(templates) /\ templates[i] \notin looped
    BY <1>2
  <2>4. Nodes(templates, looped, k) = SubSeq(c, index(k - 1) + 1, Len(c))
    BY <1>2 DEF Nodes
  <2>5. c \in Seq(T)
    BY <1>2
  <2> HIDE DEF index, c
  <2>6. Bad = {}
    <3> SUFFICES ASSUME Bad # {} PROVE FALSE
      OBVIOUS
    <3>1. Bad \in SUBSET Nat
      BY <2>2
    <3>2. PICK m \in Bad : \A i \in Bad : m <= i
      BY <3>1, LeastNatural
    <3>3. m # 0 /\ m \in 1 .. k - 1 /\ m - 1 \in 0 .. k - 1 /\ m - 1 \notin Bad
      BY <2>1, <2>2, <3>2
    <3>4. index(m) = index(m - 1)
      BY <2>1, <2>3, <3>3
    <3> QED
      BY <3>2, <3>3, <3>4
  <2>7. index(k - 1) = 0
    BY <2>2, <2>6
  <2>8. SubSeq(c, 1, Len(c)) = c
    BY <2>5
  <2>9. Nodes(templates, looped, k) = c
    BY <2>4, <2>7, <2>8
  <2> QED
    BY <1>2, <2>9 DEF c
<1> QED
  BY <1>1, <1>2

\* The run of a job evaluates all its tasks and all clones of its loop.
LEMMA RunRange ==
    ASSUME OneLoop, NEW job \in Jobs
    PROVE  ToSet(run(job)) = TasksIn(job)
<1> DEFINE ts == TasksOf[job]
           S == TasksIn(job)
           part == [k \in 1 .. Len(ts) |->
                      (IF ts[k] \in LoopedTasks THEN <<ts[k]>> ELSE <<>>)
                        \o Nodes(ts, LoopedTasks, k)]
<1>1. ts \in Seq(Tasks) /\ \A l \in LoopedTasks : Clones[l] \in Seq(Tasks)
  <2>1. \A l \in LoopedTasks : Clones[l] \in Seq(Tasks \ LoopedTasks)
    BY InstanceAssumption
  <2> QED
    BY <2>1, InstanceAssumption
<1>2. \A i, k \in 1 .. Len(ts) : ts[i] \in LoopedTasks /\ ts[k] \in LoopedTasks => i = k
  BY DEF OneLoop
<1>3. \A x : x \in S <=> \E k \in 1 .. Len(ts) :
         x = ts[k] \/ (ts[k] \in LoopedTasks /\ x \in ToSet(Clones[ts[k]]))
  <2>1. \A x : x \in ToSet(ts) <=> \E k \in 1 .. Len(ts) : x = ts[k]
    BY <1>1, SequenceRange
  <2> QED
    BY <2>1 DEF TasksIn
<1>4. run(job) = FlattenSeq(part)
  BY DEF run
<1> HIDE DEF ts, S
<1>5. ASSUME NEW k \in 1 .. Len(ts)
      PROVE  /\ part[k] \in Seq(Tasks)
             /\ \A x : x \in ToSet(part[k]) <=>
                   x = ts[k] \/ (ts[k] \in LoopedTasks /\ x \in ToSet(Clones[ts[k]]))
  <2> DEFINE a == IF ts[k] \in LoopedTasks THEN <<ts[k]>> ELSE <<>>
             b == Nodes(ts, LoopedTasks, k)
  <2>1. ToSet(b) = IF ts[k] \in LoopedTasks THEN ToSet(Clones[ts[k]]) ELSE {ts[k]}
    BY <1>1, <1>2, NodesRange
  <2>2. b \in Seq(IF ts[k] \in LoopedTasks THEN ToSet(Clones[ts[k]]) ELSE {ts[k]})
    BY <1>1, NodesType
  <2>3. ts[k] \in Tasks /\ (ts[k] \in LoopedTasks => ToSet(Clones[ts[k]]) \in SUBSET Tasks)
    BY <1>1, SequenceRange
  <2>4. part[k] = a \o b
    OBVIOUS
  <2>5. a \in Seq(Tasks) /\ \A x : x \in ToSet(a) <=> ts[k] \in LoopedTasks /\ x = ts[k]
    BY <2>3 DEF ToSet
  <2> HIDE DEF a, b
  <2>6. b \in Seq(Tasks)
    BY <2>2, <2>3
  <2>7. \A x : x \in ToSet(a \o b) <=> x \in ToSet(a) \/ x \in ToSet(b)
    BY ONLY <2>5, <2>6, ConcatRange
  <2>8. a \o b \in Seq(Tasks)
    BY <2>5, <2>6
  <2> HIDE DEF part
  <2> QED
    BY <2>1, <2>4, <2>5, <2>7, <2>8
<1>6. part \in Seq(Seq(Tasks)) /\ Len(part) = Len(ts)
  <2>1. Len(ts) \in Nat
    BY <1>1
  <2>2. part = [k \in 1 .. Len(ts) |-> part[k]]
    OBVIOUS
  <2> HIDE DEF part
  <2>3. /\ [k \in 1 .. Len(ts) |-> part[k]] \in Seq(Seq(Tasks))
        /\ Len([k \in 1 .. Len(ts) |-> part[k]]) = Len(ts)
    BY <1>5, <2>1
  <2> QED
    BY <2>2, <2>3
<1> HIDE DEF part
<1>7. \A x : x \in ToSet(FlattenSeq(part)) <=> \E k \in 1 .. Len(part) : x \in ToSet(part[k])
  BY <1>6, FlattenRange
<1>8. \A x : x \in ToSet(run(job)) <=> x \in S
  BY <1>3, <1>4, <1>5, <1>6, <1>7
<1> QED
  BY <1>8 DEF S

\* The jobs that a pass over a job runs: the subjobs but for those skipped, and
\* the clones in the place of a looped one.
RunBelow(job, skip) ==
    UNION {IF s \in LoopedJobs THEN ToSet(Clones[s]) ELSE {s} : s \in ToSet(Subjobs[job]) \ skip}

\* A pass evaluates the subjobs and all tasks of the jobs it runs.
LEMMA EvaluatedRange ==
    ASSUME OneLoop, NEW job \in Jobs, NEW skip \in SUBSET Conditional, NEW x
    PROVE  x \in ToSet(Evaluated[job][skip]) <=>
              x \in ToSet(Subjobs[job]) \/ \E r \in RunBelow(job, skip) : x \in TasksIn(r)
<1> DEFINE js == Subjobs[job]
           S == Jobs \cup Tasks
           looped == LoopedJobs \ skip
           ran(k) == Nodes(js, looped, k)
           runs(k) == [i \in 1 .. Len(ran(k)) |-> run(ran(k)[i])]
           part == [k \in 1 .. Len(js) |->
                      IF js[k] \in skip THEN <<js[k]>>
                      ELSE <<js[k]>> \o FlattenSeq(runs(k))]
           Of(s) == IF s \in LoopedJobs THEN ToSet(Clones[s]) ELSE {s}
<1>1. js \in Seq(Jobs) /\ \A l \in looped : Clones[l] \in Seq(Jobs)
  <2>1. \A l \in LoopedJobs : Clones[l] \in Seq(Jobs \ LoopedJobs)
    BY InstanceAssumption
  <2> QED
    BY <2>1, InstanceAssumption
<1>2. \A i, k \in 1 .. Len(js) : js[i] \in looped /\ js[k] \in looped => i = k
  BY DEF OneLoop
<1>3. Evaluated[job][skip] = FlattenSeq(part)
  BY DEF Evaluated
<1>4. \A y : y \in ToSet(js) <=> \E k \in 1 .. Len(js) : y = js[k]
  BY <1>1, SequenceRange
<1> HIDE DEF js
<1>5. ASSUME NEW k \in 1 .. Len(js), js[k] \notin skip
      PROVE  ran(k) \in Seq(Jobs) /\ ToSet(ran(k)) = Of(js[k])
  <2> HIDE DEF looped
  <2>1. ToSet(ran(k)) = IF js[k] \in looped THEN ToSet(Clones[js[k]]) ELSE {js[k]}
    BY ONLY <1>1, <1>2, k \in 1 .. Len(js), NodesRange
  <2>2. ran(k) \in Seq(IF js[k] \in looped THEN ToSet(Clones[js[k]]) ELSE {js[k]})
    BY <1>1, NodesType
  <2>3. js[k] \in Jobs /\ (js[k] \in looped => ToSet(Clones[js[k]]) \in SUBSET Jobs)
    BY <1>1, SequenceRange
  <2>4. js[k] \in looped <=> js[k] \in LoopedJobs
    BY <1>5 DEF looped
  <2> HIDE DEF ran
  <2> QED
    BY <2>1, <2>2, <2>3, <2>4
<1> HIDE DEF looped
<1>6. ASSUME NEW j \in Jobs PROVE run(j) \in Seq(S) /\ ToSet(run(j)) = TasksIn(j)
  <2>1. run(j) \in Seq(TasksIn(j)) /\ TasksIn(j) \in SUBSET S
    BY RunType, BelowType
  <2> QED
    BY <2>1, RunRange
<1>7. ASSUME NEW k \in 1 .. Len(js), js[k] \notin skip
      PROVE  /\ FlattenSeq(runs(k)) \in Seq(S)
             /\ x \in ToSet(FlattenSeq(runs(k))) <=> \E r \in Of(js[k]) : x \in TasksIn(r)
  <2> DEFINE rk == ran(k)
             q == [i \in 1 .. Len(rk) |-> run(rk[i])]
  <2>1. rk \in Seq(Jobs) /\ ToSet(rk) = Of(js[k])
    BY <1>5, <1>7
  <2>2. runs(k) = q
    OBVIOUS
  <2> HIDE DEF ran, rk, Of, runs
  <2>3. Len(rk) \in Nat /\ \A i \in 1 .. Len(rk) : rk[i] \in Jobs
    BY <2>1
  <2>4. q \in Seq(Seq(S)) /\ Len(q) = Len(rk)
    BY <1>6, <2>3
  <2>5. \A i \in 1 .. Len(rk) : q[i] = run(rk[i]) /\ ToSet(run(rk[i])) = TasksIn(rk[i])
    BY <1>6, <2>3
  <2> HIDE DEF q
  <2>6. FlattenSeq(q) \in Seq(S)
    BY <2>4, FlattenType
  <2>7. x \in ToSet(FlattenSeq(q)) <=> \E i \in 1 .. Len(q) : x \in ToSet(q[i])
    BY ONLY <2>4, FlattenRange
  <2>8. \A r : r \in ToSet(rk) <=> \E i \in 1 .. Len(rk) : r = rk[i]
    BY ONLY <2>1, SequenceRange
  <2>9. (\E r \in ToSet(rk) : x \in TasksIn(r)) <=> \E i \in 1 .. Len(rk) : x \in TasksIn(rk[i])
    BY ONLY <2>8
  <2>10. x \in ToSet(FlattenSeq(q)) <=> \E i \in 1 .. Len(rk) : x \in TasksIn(rk[i])
    BY <2>4, <2>5, <2>7
  <2> QED
    BY <2>1, <2>2, <2>6, <2>9, <2>10
<1>8. ASSUME NEW k \in 1 .. Len(js)
      PROVE  /\ part[k] \in Seq(S)
             /\ x \in ToSet(part[k]) <=>
                   x = js[k] \/ (js[k] \notin skip /\ \E r \in Of(js[k]) : x \in TasksIn(r))
  <2>1. <<js[k]>> \in Seq(S) /\ (x \in ToSet(<<js[k]>>) <=> x = js[k])
    <3>1. js[k] \in S
      BY <1>1
    <3> QED
      BY <3>1 DEF ToSet
  <2>2. CASE js[k] \in skip
    <3>1. part[k] = <<js[k]>>
      BY <2>2
    <3> QED
      BY <2>1, <2>2, <3>1
  <2>3. CASE js[k] \notin skip
    <3> DEFINE b == FlattenSeq(runs(k))
    <3>1. b \in Seq(S) /\ (x \in ToSet(b) <=> \E r \in Of(js[k]) : x \in TasksIn(r))
      BY <1>7, <2>3
    <3>2. part[k] = <<js[k]>> \o b
      BY <2>3
    <3> HIDE DEF b, part, Of
    <3>3. x \in ToSet(<<js[k]>> \o b) <=> x \in ToSet(<<js[k]>>) \/ x \in ToSet(b)
      BY ONLY <2>1, <3>1, ConcatRange
    <3>4. <<js[k]>> \o b \in Seq(S)
      BY ONLY <2>1, <3>1
    <3> QED
      BY <2>1, <2>3, <3>1, <3>2, <3>3, <3>4
  <2> QED
    BY <2>2, <2>3
<1> HIDE DEF runs, ran
<1>9. part \in Seq(Seq(S)) /\ Len(part) = Len(js)
  <2>1. Len(js) \in Nat
    BY <1>1
  <2>2. part = [k \in 1 .. Len(js) |-> part[k]]
    OBVIOUS
  <2> HIDE DEF part, Of, S
  <2>3. /\ [k \in 1 .. Len(js) |-> part[k]] \in Seq(Seq(S))
        /\ Len([k \in 1 .. Len(js) |-> part[k]]) = Len(js)
    BY <1>8, <2>1
  <2> QED
    BY <2>2, <2>3
<1> HIDE DEF part, S
<1>10. x \in ToSet(FlattenSeq(part)) <=> \E k \in 1 .. Len(part) : x \in ToSet(part[k])
  BY ONLY <1>9, FlattenRange
<1>11. x \in ToSet(FlattenSeq(part)) <=>
         \E k \in 1 .. Len(js) :
            x = js[k] \/ (js[k] \notin skip /\ \E r \in Of(js[k]) : x \in TasksIn(r))
  <2> HIDE DEF Of
  <2> QED
    BY <1>8, <1>9, <1>10
<1>12. (\E r \in RunBelow(job, skip) : x \in TasksIn(r)) <=>
         \E k \in 1 .. Len(js) : js[k] \notin skip /\ \E r \in Of(js[k]) : x \in TasksIn(r)
  <2>1. \A r : r \in RunBelow(job, skip) <=> \E s \in ToSet(js) : s \notin skip /\ r \in Of(s)
    BY DEF RunBelow, js
  <2> HIDE DEF Of
  <2> QED
    BY ONLY <1>4, <2>1
<1> HIDE DEF Of
<1>13. x \in ToSet(js) <=> \E k \in 1 .. Len(js) : x = js[k]
  BY <1>4
<1> QED
  BY ONLY <1>3, <1>11, <1>12, <1>13 DEF js

\* Every task is in one job, which JobOf finds.
LEMMA JobOfFacts ==
    /\ \A t \in Tasks : JobOf[t] \in Jobs /\ t \in TasksIn(JobOf[t])
    /\ \A j \in Jobs : \A t \in TasksIn(j) : t \in Tasks /\ JobOf[t] = j
<1>1. ASSUME NEW j \in Jobs, NEW t \in TasksIn(j) PROVE t \in Tasks /\ JobOf[t] = j
  <2>1. t \in Tasks
    BY BelowType
  <2>2. \A i \in Jobs : t \in TasksIn(i) => i = j
    BY DocumentAssumption
  <2> QED
    BY <2>1, <2>2 DEF JobOf
<1>2. \A t \in Tasks : \E j \in Jobs : t \in TasksIn(j)
  BY DocumentAssumption
<1> QED
  BY <1>1, <1>2

\* The tasks that a job stands for are those of the jobs that are run for it.
LEMMA ExpectedFacts ==
    /\ \A s \in Jobs : \A t \in Expected(s) :
          t \notin LoopedTasks /\
          \E r \in (IF s \in LoopedJobs THEN ToSet(Clones[s]) ELSE {s}) : t \in TasksIn(r)
    /\ \A j \in Jobs \ LoopedJobs : \A t \in TasksIn(j) \ LoopedTasks : t \in Expected(j)
    /\ \A j \in Jobs \ LoopedJobs : \A t \in Expected(j) : t \in Tasks /\ JobOf[t] = j
<1>1. ASSUME NEW l \in LoopedTasks PROVE ToSet(Clones[l]) \cap LoopedTasks = {}
  <2>1. Clones[l] \in Seq(Tasks \ LoopedTasks)
    BY InstanceAssumption
  <2> QED
    BY <2>1, SequenceRange
<1>2. ASSUME NEW s \in Jobs, NEW t \in Expected(s)
      PROVE  t \notin LoopedTasks /\
             \E r \in (IF s \in LoopedJobs THEN ToSet(Clones[s]) ELSE {s}) : t \in TasksIn(r)
  <2> DEFINE jobs == IF s \in LoopedJobs THEN ToSet(Clones[s]) ELSE {s}
             ts == UNION {ToSet(TasksOf[j]) : j \in jobs}
  <2>1. \/ t \in ts \ LoopedTasks
        \/ \E l \in ts \cap LoopedTasks : t \in ToSet(Clones[l])
    BY DEF Expected
  <2> HIDE DEF jobs
  <2>2. t \notin LoopedTasks /\ \E r \in jobs : t \in TasksIn(r)
    BY <1>1, <2>1 DEF TasksIn
  <2> QED
    BY <2>2 DEF jobs
<1>3. ASSUME NEW j \in Jobs \ LoopedJobs, NEW t \in TasksIn(j) \ LoopedTasks PROVE t \in Expected(j)
  BY DEF Expected, TasksIn
<1>4. ASSUME NEW j \in Jobs \ LoopedJobs, NEW t \in Expected(j) PROVE t \in Tasks /\ JobOf[t] = j
  BY <1>2, JobOfFacts
<1> QED
  BY <1>2, <1>3, <1>4

-----------------------------------------------------------------------------
(* The meaning of success.                                                 *)

Ran(w, t) == w.status[t] = "TERMINATED" /\ w.retval[t] = 0

\* The subjobs of the job are to be run: it is the root of an instance that has
\* been started, or all its tasks have succeeded.
Finished(w, j) ==
    \/ j = Root /\ w.wf # "NEW"
    \/ Expected(j) # {} /\ \A t \in Expected(j) : Ran(w, t)

\* Each subjob has been skipped, or all its tasks have been touched.
Reached(w, j) ==
    \A s \in ToSet(Subjobs[j]) : s \in w.skipped \/ \A t \in Expected(s) : w.status[t] # "none"

\* No failure is hidden from error_tasks.
NothingHidden(w) ==
    \A t \in Tasks : /\ w.status[t] # "ABORTED"
                     /\ w.status[t] = "TERMINATED" /\ w.retval[t] # 0 => t \in w.retrier

\* The template of a loop is gone once a task of its job has been touched.
LoopsExpanded(w) ==
    \A t \in Tasks : w.status[t] # "none" =>
        \A l \in LoopedTasks : JobOf[l] = JobOf[t] => l \notin w.present

SubjobsReached(w, x) ==
    \A j \in Jobs \ LoopedJobs : j # x => (Finished(w, j) => Reached(w, j))

\* While no error is counted nothing is missing, but for the subjobs of x, which
\* the operation under way is about to run.
Truthful(w, x) ==
    /\ ~ w.is_cancelling
    /\ w.wf = "NEW" => \A t \in Tasks : w.status[t] = "none"
    /\ w.error_tasks = 0 => NothingHidden(w) /\ LoopsExpanded(w) /\ SubjobsReached(w, x)

\* A pass that has done everything.
Complete(pass, job) ==
    /\ \A s \in ToSet(Subjobs[job]) : s \in pass.skipped \/ \A t \in Expected(s) : t \in pass.enqueued
    /\ \A t \in pass.enqueued : \A l \in LoopedTasks : JobOf[l] = JobOf[t] => l \in pass.expanded

\* A pass in which nothing raises an exception is complete, and what a pass
\* appends to the document are clones.
LEMMA PassComplete ==
    ASSUME OneLoop, NEW w, NEW job \in Jobs, NEW pass \in Passes(w, job),
           \A t \in TasksBelow(job) : w.status[t] = "none"
    PROVE  /\ pass.failed = None => Complete(pass, job)
           /\ pass.appended \cap LoopedTasks = {}
<1>1. PICK skip \in SUBSET (Conditional \cap ToSet(Subjobs[job])) :
         pass \in {Pass(w, job, skip, fail) :
                     fail \in {None} \cup ((Fallible \cap ToSet(Evaluated[job][skip])) \ skip)}
  BY DEF Passes
<1>2. PICK fail \in {None} \cup ((Fallible \cap ToSet(Evaluated[job][skip])) \ skip) :
         pass = Pass(w, job, skip, fail)
  BY <1>1
<1> DEFINE items == Evaluated[job][skip]
           cut == SelectInSeq(items, LAMBDA x : x = fail)
           done == ToSet(IF cut = 0 THEN items ELSE SubSeq(items, 1, cut - 1))
           S == JobsBelow(job) \cup TasksBelow(job)
<1>3. items \in Seq(S)
  BY EvaluatedType
<1>4. /\ S \in SUBSET (Jobs \cup Tasks) /\ None \notin S
      /\ \A t \in Tasks : t \in S => t \in TasksBelow(job)
      /\ \A l \in LoopedTasks : l \in Tasks /\ ToSet(Clones[l]) \in SUBSET Tasks
      /\ ToSet(Subjobs[job]) \in SUBSET Jobs /\ Jobs \cap Tasks = {} /\ None \notin Tasks
  <2>1. \A l \in LoopedTasks : l \in Tasks /\ ToSet(Clones[l]) \in SUBSET CloneTasks
    BY InstanceAssumption DEF CloneTasks
  <2>2. ToSet(Subjobs[job]) \in SUBSET JobsBelow(job)
    BY DEF JobsBelow
  <2>3. /\ JobsBelow(job) \in SUBSET Jobs /\ TasksBelow(job) \in SUBSET Tasks
        /\ CloneTasks \in SUBSET Tasks
    BY BelowType
  <2>4. None \notin Tasks \cup Jobs /\ Tasks \cap Jobs = {}
    BY InstanceAssumption
  <2> QED
    BY ONLY <2>1, <2>2, <2>3, <2>4
<1>5. /\ pass.enqueued = {t \in (done \cap Tasks) \ LoopedTasks : w.status[t] # "TERMINATED"}
      /\ pass.skipped = done \cap skip
      /\ pass.appended = (done \cup {fail}) \cap CloneTasks
      /\ pass.expanded = {t \in done \cap LoopedTasks : fail \notin ToSet(Clones[t])}
      /\ pass.failed = fail
  BY <1>2 DEF Pass
<1>6. fail = None => done = ToSet(items)
  <2> DEFINE I == {i \in 1 .. Len(items) : items[i] = fail}
  <2> HIDE DEF items, S
  <2>1. cut = IF I # {} THEN Min(I) ELSE 0
    BY DEF SelectInSeq
  <2>2. fail = None => I = {}
    BY <1>3, <1>4
  <2> HIDE DEF I, cut
  <2> QED
    BY <2>1, <2>2
<1>7. \A x : x \in ToSet(items) <=>
             x \in ToSet(Subjobs[job]) \/ \E r \in RunBelow(job, skip) : x \in TasksIn(r)
  <2>1. skip \in SUBSET Conditional
    OBVIOUS
  <2> QED
    BY <2>1, EvaluatedRange
<1>8. ToSet(items) \in SUBSET S
  <2> HIDE DEF items, S
  <2> QED
    BY <1>3, SequenceRange
<1> HIDE DEF items, cut, done, S
<1>9. pass.appended \cap LoopedTasks = {}
  BY <1>5, BelowType
<1>10. ASSUME fail = None, NEW s \in ToSet(Subjobs[job])
       PROVE  s \in pass.skipped \/ \A t \in Expected(s) : t \in pass.enqueued
  <2>1. CASE s \in skip
    BY <1>5, <1>6, <1>7, <1>10, <2>1
  <2>2. CASE s \notin skip
    <3> SUFFICES ASSUME NEW t \in Expected(s) PROVE t \in pass.enqueued
      OBVIOUS
    <3> DEFINE Of == IF s \in LoopedJobs THEN ToSet(Clones[s]) ELSE {s}
    <3>1. s \in Jobs
      BY <1>4
    <3>2. t \notin LoopedTasks /\ \E r \in Of : t \in TasksIn(r)
      BY <3>1, ExpectedFacts
    <3>3. PICK r \in Of : t \in TasksIn(r)
      BY <3>2
    <3>4. r \in RunBelow(job, skip)
      BY <2>2 DEF RunBelow
    <3>5. r \in Jobs
      <4>1. s \in LoopedJobs => Clones[s] \in Seq(Jobs \ LoopedJobs)
        BY InstanceAssumption
      <4>2. s \in LoopedJobs => ToSet(Clones[s]) \in SUBSET Jobs
        BY <4>1, SequenceRange
      <4> QED
        BY <3>1, <4>2
    <3>6. t \in Tasks
      BY <3>3, <3>5, JobOfFacts
    <3>7. t \in ToSet(items)
      BY <1>7, <3>3, <3>4
    <3>8. w.status[t] = "none"
      BY <1>4, <1>8, <3>6, <3>7
    <3> QED
      BY <1>5, <1>6, <1>10, <3>2, <3>6, <3>7, <3>8
  <2> QED
    BY <2>1, <2>2
<1>11. ASSUME fail = None, NEW t \in pass.enqueued, NEW l \in LoopedTasks, JobOf[l] = JobOf[t]
       PROVE  l \in pass.expanded
  <2>1. t \in Tasks /\ t \in ToSet(items)
    BY <1>5, <1>6, <1>11
  <2>2. t \notin ToSet(Subjobs[job])
    BY <1>4, <2>1
  <2>3. PICK r \in RunBelow(job, skip) : t \in TasksIn(r)
    BY <1>7, <2>1, <2>2
  <2>4. r \in Jobs
    <3>1. PICK s \in ToSet(Subjobs[job]) : r \in IF s \in LoopedJobs THEN ToSet(Clones[s]) ELSE {s}
      BY DEF RunBelow
    <3>2. s \in LoopedJobs => Clones[s] \in Seq(Jobs \ LoopedJobs)
      BY InstanceAssumption
    <3>3. s \in LoopedJobs => ToSet(Clones[s]) \in SUBSET Jobs
      BY <3>2, SequenceRange
    <3> QED
      BY <1>4, <3>1, <3>3
  <2>5. JobOf[t] = r /\ l \in TasksIn(JobOf[l])
    BY <1>4, <2>3, <2>4, JobOfFacts
  <2>6. l \in ToSet(items)
    BY <1>7, <1>11, <2>3, <2>5
  <2> QED
    BY <1>4, <1>5, <1>6, <1>11, <2>6
<1> QED
  BY <1>5, <1>9, <1>10, <1>11 DEF Complete

\* The tasks that a subjob stands for are tasks.
LEMMA ExpectedTasks ==
    ASSUME NEW j \in Jobs, NEW s \in ToSet(Subjobs[j]), NEW t \in Expected(s)
    PROVE  t \in Tasks
<1>1. s \in Jobs
  <2>1. Subjobs[j] \in Seq(Jobs)
    BY InstanceAssumption
  <2> QED
    BY <2>1, SequenceRange
<1>2. PICK r \in (IF s \in LoopedJobs THEN ToSet(Clones[s]) ELSE {s}) : t \in TasksIn(r)
  BY <1>1, ExpectedFacts
<1>3. s \in LoopedJobs => Clones[s] \in Seq(Jobs \ LoopedJobs)
  BY InstanceAssumption
<1>4. s \in LoopedJobs => ToSet(Clones[s]) \in SUBSET Jobs
  BY <1>3, SequenceRange
<1> QED
  BY <1>1, <1>2, <1>4, JobOfFacts

\* Steps that run no subjobs: no task is touched for the first time, and tasks
\* succeed in the job x only.
LEMMA TruthfulKept ==
    ASSUME NEW w, NEW v, NEW x, NEW y, Truthful(w, y), y \in {None, x},
           ~ v.is_cancelling, v.present = w.present, v.skipped = w.skipped,
           v.error_tasks = 0 => w.error_tasks = 0 /\ NothingHidden(v),
           \A t \in Tasks : v.status[t] # "none" <=> w.status[t] # "none",
           \A t \in Tasks : Ran(v, t) => Ran(w, t) \/ JobOf[t] = x,
           v.wf # "NEW" <=> w.wf # "NEW"
    PROVE  Truthful(v, x)
<1>1. ASSUME v.error_tasks = 0 PROVE LoopsExpanded(v)
  BY <1>1 DEF Truthful, LoopsExpanded
<1>2. ASSUME v.error_tasks = 0, NEW j \in Jobs \ LoopedJobs, j # x, Finished(v, j)
      PROVE  Reached(v, j)
  <2>1. Finished(w, j)
    <3>1. \A t \in Expected(j) : t \in Tasks /\ JobOf[t] = j
      BY ExpectedFacts
    <3> QED
      BY <1>2, <3>1 DEF Finished
  <2>2. j # y
    BY <1>2, InstanceAssumption
  <2>3. Reached(w, j)
    BY <1>2, <2>1, <2>2 DEF Truthful, SubjobsReached
  <2>4. \A s \in ToSet(Subjobs[j]) : \A t \in Expected(s) : t \in Tasks
    BY ExpectedTasks
  <2> QED
    BY <2>3, <2>4 DEF Reached
<1>3. v.wf = "NEW" => \A t \in Tasks : v.status[t] = "none"
  BY DEF Truthful
<1> QED
  BY <1>1, <1>2, <1>3 DEF Truthful, SubjobsReached

\* The subjobs of the job have been run: nothing is missing, or an error has been
\* counted.
LEMMA SubjobsTruthful ==
    ASSUME NEW w \in InstanceType, NEW job \in Jobs, Truthful(w, job), w.wf # "NEW",
           NEW pass, PassOver(pass, w, job), pass.failed = None => Complete(pass, job),
           pass.appended \cap LoopedTasks = {},
           \A t \in TasksBelow(job) : w.status[t] = "none",
           NEW v, v = run_subjobs(w, pass)
    PROVE  v \in InstanceType /\ v.wf # "NEW" /\ Truthful(v, None)
<1>1. PICK good \in SUBSET pass.enqueued : Passed(v, w, pass, good)
  BY SubjobsEffect
<1>2. /\ v \in InstanceType /\ v.wf = w.wf /\ v.is_cancelling = w.is_cancelling
      /\ v.retval = w.retval /\ v.retrier = w.retrier
      /\ v.present = (w.present \cup pass.appended) \ pass.expanded
      /\ v.skipped = w.skipped \cup pass.skipped
      /\ v.error_tasks = w.error_tasks + (IF pass.failed = None THEN 0 ELSE 1)
                          + Cardinality(pass.enqueued \ good)
  BY <1>1 DEF Passed
<1>3. pass.enqueued \in SUBSET Tasks /\ None \notin Tasks /\ None \notin Jobs
  BY InstanceAssumption, BelowType DEF PassOver
<1>4. ASSUME v.error_tasks = 0
      PROVE  w.error_tasks = 0 /\ pass.failed = None /\ good = pass.enqueued
  <2> DEFINE bad == pass.enqueued \ good
             c == Cardinality(bad)
  <2>1. bad \in SUBSET Tasks
    BY <1>3
  <2>2. c \in Nat /\ (c = 0 => bad = {}) /\ w.error_tasks \in Nat
    BY <2>1, TasksFinite DEF InstanceType
  <2>3. v.error_tasks = w.error_tasks + (IF pass.failed = None THEN 0 ELSE 1) + c
    BY <1>2
  <2> HIDE DEF c
  <2>4. w.error_tasks = 0 /\ pass.failed = None /\ c = 0
    BY <1>4, <2>2, <2>3
  <2> QED
    BY <2>2, <2>4
<1>5. ASSUME v.error_tasks = 0
      PROVE  \A t \in Tasks : v.status[t] = IF t \in pass.enqueued THEN "QUEUED" ELSE w.status[t]
  BY <1>1, <1>3, <1>4, <1>5 DEF Passed
<1>6. ASSUME v.error_tasks = 0
      PROVE  NothingHidden(w) /\ LoopsExpanded(w) /\ SubjobsReached(w, job) /\ Complete(pass, job)
  BY <1>4, <1>6 DEF Truthful
<1>7. ASSUME v.error_tasks = 0 PROVE NothingHidden(v)
  BY <1>2, <1>5, <1>6, <1>7 DEF NothingHidden
<1>8. ASSUME v.error_tasks = 0 PROVE LoopsExpanded(v)
  <2> SUFFICES ASSUME NEW t \in Tasks, v.status[t] # "none", NEW l \in LoopedTasks,
                      JobOf[l] = JobOf[t]
               PROVE  l \notin v.present
    BY DEF LoopsExpanded
  <2>1. CASE t \in pass.enqueued
    BY <1>2, <1>6, <1>8, <2>1 DEF Complete
  <2>2. CASE t \notin pass.enqueued
    BY <1>2, <1>5, <1>6, <1>8, <2>2 DEF LoopsExpanded
  <2> QED
    BY <2>1, <2>2
<1>9. ASSUME v.error_tasks = 0, NEW j \in Jobs \ LoopedJobs, Finished(v, j) PROVE Reached(v, j)
  <2>1. \A s \in ToSet(Subjobs[j]) : \A t \in Expected(s) : t \in Tasks
    BY ExpectedTasks
  <2>2. CASE j = job
    <3>1. ASSUME NEW s \in ToSet(Subjobs[job]), s \notin v.skipped, NEW t \in Expected(s)
          PROVE  v.status[t] # "none"
      <4>1. t \in pass.enqueued
        BY <1>2, <1>6, <1>9, <3>1 DEF Complete
      <4> QED
        BY <1>3, <1>5, <1>9, <4>1
    <3> QED
      BY <2>2, <3>1 DEF Reached
  <2>3. CASE j # job
    <3>1. \A t \in Expected(j) : t \in Tasks /\ JobOf[t] = j
      BY ExpectedFacts
    <3>2. \A t \in Tasks : Ran(v, t) => Ran(w, t)
      BY <1>2, <1>5, <1>9 DEF Ran
    <3>3. Finished(w, j)
      BY <1>2, <1>9, <3>1, <3>2 DEF Finished
    <3>4. Reached(w, j)
      BY <1>6, <1>9, <2>3, <3>3 DEF SubjobsReached
    <3>5. \A t \in Tasks : w.status[t] # "none" => v.status[t] # "none"
      BY <1>5, <1>9
    <3> QED
      BY <1>2, <2>1, <3>4, <3>5 DEF Reached
  <2> QED
    BY <2>2, <2>3
<1> QED
  BY <1>2, <1>7, <1>8, <1>9 DEF Truthful, SubjobsReached

TruthInv == Truthful(wi, None)

\* The end of the instance, and a task taken off running_tasks, hide nothing.
LEMMA EndTruthful ==
    ASSUME NEW u \in InstanceType, u.wf # "NEW", Truthful(u, None)
    PROVE  /\ Truthful(workflow_ended(u), None)
           /\ LET v == [u EXCEPT !.running_tasks = @ - 1]
              IN  v \in InstanceType /\ v.wf # "NEW" /\ Truthful(v, None)
<1>1. ASSUME NEW v, v.status = u.status, v.retval = u.retval, v.retrier = u.retrier,
             v.is_cancelling = u.is_cancelling, v.present = u.present, v.skipped = u.skipped,
             v.error_tasks = u.error_tasks, v.wf # "NEW"
      PROVE  Truthful(v, None)
  <2>1. v.error_tasks = 0 => u.error_tasks = 0 /\ NothingHidden(v)
    BY <1>1 DEF Truthful, NothingHidden
  <2>2. /\ \A t \in Tasks : v.status[t] # "none" <=> u.status[t] # "none"
        /\ \A t \in Tasks : Ran(v, t) => Ran(u, t) \/ JobOf[t] = None
        /\ v.wf # "NEW" <=> u.wf # "NEW"
        /\ ~ v.is_cancelling /\ None \in {None, None}
    BY <1>1 DEF Ran, Truthful
  <2> QED
    BY ONLY <1>1, <2>1, <2>2, Truthful(u, None), TruthfulKept
<1>2. LET v == [u EXCEPT !.running_tasks = @ - 1]
      IN  v \in InstanceType /\ v.wf # "NEW" /\ Truthful(v, None)
  <2> DEFINE n == u.running_tasks - 1
             v == [u EXCEPT !.running_tasks = n]
  <2>1. n \in Int /\ v = [u EXCEPT !.running_tasks = @ - 1]
    BY DEF InstanceType
  <2> HIDE DEF n
  <2>2. v \in InstanceType
    BY <2>1 DEF InstanceType
  <2>3. /\ v.status = u.status /\ v.retval = u.retval /\ v.retrier = u.retrier
        /\ v.is_cancelling = u.is_cancelling /\ v.present = u.present /\ v.skipped = u.skipped
        /\ v.error_tasks = u.error_tasks /\ v.wf # "NEW"
    BY DEF InstanceType
  <2> HIDE DEF v
  <2>4. Truthful(v, None)
    BY <1>1, <2>3
  <2> QED
    BY <2>1, <2>2, <2>3, <2>4
<1>3. Truthful(workflow_ended(u), None)
  <2> DEFINE v == [u EXCEPT !.wf = "TERMINATED"]
  <2>1. /\ v.status = u.status /\ v.retval = u.retval /\ v.retrier = u.retrier
        /\ v.is_cancelling = u.is_cancelling /\ v.present = u.present /\ v.skipped = u.skipped
        /\ v.error_tasks = u.error_tasks /\ v.wf # "NEW"
    BY DEF InstanceType
  <2>2. workflow_ended(u) = v \/ workflow_ended(u) = u
    BY DEF workflow_ended
  <2> HIDE DEF v
  <2>3. Truthful(v, None)
    BY <1>1, <2>1
  <2> QED
    BY <2>2, <2>3
<1> QED
  BY <1>2, <1>3

\* So does the end of an operation.
LEMMA FinishTruthful ==
    ASSUME NEW STATE u, u \in InstanceType, u.wf # "NEW", Truthful(u, None), Finish(u)
    PROVE  TruthInv'
<1>1. wi' = workflow_ended(u)
  BY DEF Finish
<1>2. Truthful(workflow_ended(u), None)
  BY EndTruthful
<1> QED
  BY <1>1, <1>2 DEF TruthInv

\* A task that is held has been touched, in an instance that has been started.
LEMMA TruthStart ==
    ASSUME InstanceInv, TruthInv
    PROVE  /\ wi \in InstanceType /\ RetriesFailed(wi) /\ Counted(wi, 0) /\ Sound(wi)
           /\ Truthful(wi, None) /\ ~ wi.is_cancelling
           /\ \A t \in Tasks : wi.status[t] # "none" => wi.wf # "NEW"
  BY DEF InstanceInv, Sound, TruthInv, Truthful

\* The subjobs of the root are run.
LEMMA StartTruthful ==
    ASSUME OneLoop, InstanceInv, TruthInv, Start
    PROVE  TruthInv'
<1> DEFINE w == [wi EXCEPT !.wf = "EXECUTING"]
<1>1. /\ wi \in InstanceType /\ wi.wf = "NEW" /\ InOrder(wi) /\ Truthful(wi, None)
  BY TruthStart DEF Start, Sound
<1>2. PICK pass \in Passes(wi, Root) : Finish(run_subjobs(w, pass))
  BY DEF Start
<1>3. w \in InstanceType
  BY <1>1 DEF InstanceType
<1>4. /\ w.status = wi.status /\ w.retval = wi.retval /\ w.retrier = wi.retrier
      /\ w.is_cancelling = wi.is_cancelling /\ w.present = wi.present
      /\ w.skipped = wi.skipped /\ w.error_tasks = wi.error_tasks /\ w.wf = "EXECUTING"
  BY <1>1 DEF InstanceType
<1> HIDE DEF w
<1>5. Root \in Jobs /\ PassOver(pass, wi, Root)
  BY <1>2, InstanceAssumption, PassesType
<1>6. PassOver(pass, w, Root)
  BY <1>4, <1>5 DEF PassOver
<1>7. \A t \in Tasks : wi.status[t] = "none"
  BY <1>1 DEF Truthful
<1>8. \A t \in TasksBelow(Root) : wi.status[t] = "none" /\ w.status[t] = "none"
  BY <1>4, <1>5, <1>7, BelowType
<1>9. /\ pass.failed = None => Complete(pass, Root)
      /\ pass.appended \cap LoopedTasks = {}
  BY <1>2, <1>5, <1>8, PassComplete
<1>10. Truthful(w, Root)
  <2>1. ASSUME w.error_tasks = 0, NEW j \in Jobs \ LoopedJobs, j # Root, Finished(w, j)
        PROVE  Reached(w, j)
    <3>1. \A t \in Expected(j) : t \in Tasks
      BY ExpectedFacts
    <3> QED
      BY <1>4, <1>7, <2>1, <3>1 DEF Finished, Ran
  <2> QED
    BY <1>1, <1>4, <1>7, <2>1 DEF Truthful, SubjobsReached, NothingHidden, LoopsExpanded
<1> DEFINE u == run_subjobs(w, pass)
<1>11. u \in InstanceType /\ u.wf # "NEW" /\ Truthful(u, None)
  <2>1. w.wf # "NEW" /\ \A t \in TasksBelow(Root) : w.status[t] = "none"
    BY <1>4, <1>8
  <2> QED
    BY ONLY <1>3, <1>5, <1>6, <1>9, <1>10, <2>1, SubjobsTruthful
<1>12. Finish(u)
  BY <1>2
<1> HIDE DEF u
<1> QED
  BY <1>11, <1>12, FinishTruthful

\* A task that is enqueued again has not succeeded, and one that is aborted is
\* counted.
LEMMA TaskRestartTruthful ==
    ASSUME InstanceInv, TruthInv, NEW t \in Tasks, TaskRestart(t)
    PROVE  TruthInv'
<1> DEFINE e == enqueue_task(wi, {t})
           u == [e EXCEPT !.retrying_tasks = @ - 1, !.retrier = @ \ {t}]
<1>1. wi \in InstanceType /\ Truthful(wi, None) /\ ~ wi.is_cancelling
  BY TruthStart
<1>2. t \in wi.retrier /\ wi.status[t] = "TERMINATED" /\ wi.wf # "NEW"
  BY TruthStart DEF TaskRestart, RetriesFailed
<1>3. PICK good \in SUBSET {t} : Enqueues(e, wi, {t}, good)
  <2>1. {t} \in SUBSET Tasks
    OBVIOUS
  <2> QED
    BY <1>1, <2>1, EnqueueEffect
<1>4. e \in InstanceType
  BY <1>3 DEF Enqueues
<1>5. Finish(u)
  BY DEF TaskRestart
<1> HIDE DEF e
<1>6. u \in InstanceType
  <2> DEFINE n == e.retrying_tasks - 1
             r == e.retrier \ {t}
  <2>1. n \in Int /\ r \in SUBSET Tasks
    BY <1>4, SoundType
  <2>2. u = [e EXCEPT !.retrying_tasks = n, !.retrier = r]
    BY <1>4 DEF InstanceType
  <2> HIDE DEF n, r, u
  <2>3. [e EXCEPT !.retrying_tasks = n, !.retrier = r] \in InstanceType
    BY <1>4, <2>1 DEF InstanceType
  <2> QED
    BY <2>2, <2>3
<1>7. /\ u.status = e.status /\ u.retval = e.retval /\ u.retrier = e.retrier \ {t}
      /\ u.is_cancelling = e.is_cancelling /\ u.present = e.present /\ u.skipped = e.skipped
      /\ u.error_tasks = e.error_tasks /\ u.wf = e.wf
  BY <1>4 DEF InstanceType
<1> HIDE DEF u
<1>8. /\ \A s \in Tasks : u.status[s] = IF s \in good THEN "QUEUED"
                                        ELSE IF s = t THEN "ABORTED" ELSE wi.status[s]
      /\ u.retval = wi.retval /\ u.retrier = wi.retrier \ {t}
      /\ u.is_cancelling = wi.is_cancelling /\ u.present = wi.present
      /\ u.skipped = wi.skipped /\ u.wf = wi.wf
      /\ u.error_tasks = wi.error_tasks + Cardinality({t} \ good)
  BY <1>3, <1>7 DEF Enqueues
<1>9. u.error_tasks = 0 => wi.error_tasks = 0 /\ t \in good
  <2> DEFINE bad == {t} \ good
             c == Cardinality(bad)
  <2>1. bad \in SUBSET Tasks
    OBVIOUS
  <2>2. c \in Nat /\ (c = 0 => bad = {}) /\ wi.error_tasks \in Nat
    BY <1>1, <2>1, TasksFinite DEF InstanceType
  <2>3. u.error_tasks = wi.error_tasks + c
    BY <1>8
  <2> HIDE DEF c
  <2>4. u.error_tasks = 0 => wi.error_tasks = 0 /\ c = 0
    BY <2>2, <2>3
  <2> QED
    BY <2>2, <2>4
<1>10. u.error_tasks = 0 => wi.error_tasks = 0 /\ NothingHidden(u)
  <2> SUFFICES ASSUME u.error_tasks = 0 PROVE NothingHidden(u)
    BY <1>9
  <2>1. NothingHidden(wi) /\ \A s \in Tasks : u.status[s] = IF s = t THEN "QUEUED" ELSE wi.status[s]
    BY <1>1, <1>3, <1>8, <1>9 DEF Truthful
  <2> QED
    BY <1>8, <2>1 DEF NothingHidden
<1>11. /\ \A s \in Tasks : u.status[s] # "none" <=> wi.status[s] # "none"
       /\ \A s \in Tasks : Ran(u, s) => Ran(wi, s) \/ JobOf[s] = None
       /\ u.wf # "NEW" <=> wi.wf # "NEW"
       /\ ~ u.is_cancelling /\ None \in {None, None}
       /\ u.present = wi.present /\ u.skipped = wi.skipped
  BY <1>1, <1>2, <1>3, <1>8 DEF Ran
<1>12. Truthful(u, None)
  BY ONLY <1>1, <1>10, <1>11, TruthfulKept
<1> QED
  BY <1>2, <1>5, <1>6, <1>8, <1>12, FinishTruthful

\* What is aborted is counted.
LEMMA TaskAbortTruthful ==
    ASSUME InstanceInv, TruthInv, NEW t \in Tasks, TaskAbort(t)
    PROVE  TruthInv'
<1>1. wi \in InstanceType /\ Truthful(wi, None) /\ ~ wi.is_cancelling
  BY TruthStart
<1>2. wi.status[t] = "QUEUED" /\ wi.wf # "NEW"
  BY TruthStart DEF TaskAbort, Counted
<1> DEFINE status == [wi.status EXCEPT ![t] = "ABORTED"]
           pool == wi.pool \ {t}
           error == wi.error_tasks + 1
           running == wi.running_tasks - 1
           u == [wi EXCEPT !.pool = pool, !.status = status, !.error_tasks = error,
                           !.running_tasks = running]
<1>3. Finish(u)
  BY <1>1 DEF TaskAbort, Dequeued, InstanceType
<1>4. /\ status \in [Tasks -> Statuses] /\ pool \in SUBSET Tasks /\ error \in Nat
      /\ running \in Int /\ error # 0
  BY <1>1 DEF InstanceType, Statuses
<1> HIDE DEF status, error, pool, running
<1>5. u \in InstanceType
  BY <1>1, <1>4 DEF InstanceType
<1>6. u.is_cancelling = wi.is_cancelling /\ u.wf = wi.wf /\ u.error_tasks = error
  BY <1>1 DEF InstanceType
<1> HIDE DEF u
<1>7. Truthful(u, None)
  BY <1>1, <1>2, <1>4, <1>6 DEF Truthful
<1> QED
  BY <1>2, <1>3, <1>5, <1>6, <1>7, FinishTruthful

\* A queued task that is executed has been touched, and has not succeeded yet.
LEMMA TaskExecuteTruthful ==
    ASSUME InstanceInv, TruthInv, NEW t \in Tasks, TaskExecute(t)
    PROVE  TruthInv'
<1>1. wi \in InstanceType /\ Truthful(wi, None) /\ ~ wi.is_cancelling
  BY TruthStart
<1>2. wi.status[t] = "QUEUED" /\ wi.wf # "NEW"
  BY TruthStart DEF TaskExecute, Counted
<1> DEFINE status == [wi.status EXCEPT ![t] = "EXECUTING"]
           pool == wi.pool \ {t}
           u == [wi EXCEPT !.pool = pool, !.status = status]
<1>3. Finish(u)
  BY <1>1 DEF TaskExecute, Dequeued, InstanceType
<1>4. /\ status \in [Tasks -> Statuses] /\ pool \in SUBSET Tasks
      /\ status[t] = "EXECUTING" /\ \A s \in Tasks \ {t} : status[s] = wi.status[s]
  BY <1>1 DEF InstanceType, Statuses
<1> HIDE DEF status, pool
<1>5. u \in InstanceType
  BY <1>1, <1>4 DEF InstanceType
<1>6. /\ u.status = status /\ u.retval = wi.retval /\ u.retrier = wi.retrier
      /\ u.is_cancelling = wi.is_cancelling /\ u.present = wi.present
      /\ u.skipped = wi.skipped /\ u.error_tasks = wi.error_tasks /\ u.wf = wi.wf
  BY <1>1 DEF InstanceType
<1> HIDE DEF u
<1>7. u.error_tasks = 0 => wi.error_tasks = 0 /\ NothingHidden(u)
  BY <1>1, <1>4, <1>6 DEF Truthful, NothingHidden
<1>8. /\ \A s \in Tasks : u.status[s] # "none" <=> wi.status[s] # "none"
      /\ \A s \in Tasks : Ran(u, s) => Ran(wi, s) \/ JobOf[s] = None
      /\ u.wf # "NEW" <=> wi.wf # "NEW"
      /\ ~ u.is_cancelling /\ None \in {None, None}
      /\ u.present = wi.present /\ u.skipped = wi.skipped
  BY <1>1, <1>2, <1>4, <1>6 DEF Ran
<1>9. Truthful(u, None)
  BY ONLY <1>1, <1>7, <1>8, TruthfulKept
<1> QED
  BY <1>2, <1>3, <1>5, <1>6, <1>9, FinishTruthful

\* Every exit code that is a failure is retried: retry_task counts an error or
\* plans a retry for each.
EveryFailureRetried ==
    \A t \in Tasks : \A ret \in Retvals : ret # 0 => Policy[t].retval \in {0, ret}

\* Then retry_task leaves no failed task as it is.
LEMMA NotLeft ==
    ASSUME NEW w, NEW t, Policy[t].retval \in {0, w.retval[t]},
           Retried(w, t).what # "error"
    PROVE  Retried(w, t).what = "retry"
  BY DEF Retried

\* The task has ended: it has succeeded, an error is counted, or it is retried.
LEMMA StoppedTruthful ==
    ASSUME EveryFailureRetried, InstanceInv, TruthInv, NEW t \in Tasks, NEW ret \in Retvals,
           NEW ok \in BOOLEAN, wi.status[t] = "EXECUTING",
           NEW v, v = Stopped(t, ret, ok)
    PROVE  Truthful(v, JobOf[t])
<1>1. wi \in InstanceType /\ Truthful(wi, None) /\ ~ wi.is_cancelling /\ wi.wf # "NEW"
  BY TruthStart
<1>2. t \notin wi.retrier
  BY TruthStart DEF RetriesFailed
<1> DEFINE status == [wi.status EXCEPT ![t] = "TERMINATED"]
           retval == [wi.retval EXCEPT ![t] = ret]
           w == [wi EXCEPT !.status = status, !.retval = retval]
           aborted == [status EXCEPT ![t] = "ABORTED"]
           error == wi.error_tasks + 1
           x == [w EXCEPT !.status = aborted, !.error_tasks = error]
<1>3. /\ status \in [Tasks -> Statuses] /\ aborted \in [Tasks -> Statuses]
      /\ retval \in [Tasks -> Retvals \cup {0}]
      /\ status[t] = "TERMINATED" /\ retval[t] = ret /\ error # 0
      /\ \A s \in Tasks \ {t} : status[s] = wi.status[s] /\ retval[s] = wi.retval[s]
  BY <1>1 DEF InstanceType, Statuses
<1>4. v = CASE ret = 0 /\ ok -> w
            [] ret = 0 /\ ~ ok -> x
            [] ret # 0 /\ wi.is_cancelling -> w
            [] OTHER -> retry_task(w, {t})
  BY <1>1 DEF Stopped, InstanceType
<1> HIDE DEF status, retval, aborted, error
<1>5. w \in InstanceType
  BY <1>1, <1>3 DEF InstanceType
<1>6. /\ w.status = status /\ w.retval = retval /\ w.retrier = wi.retrier
      /\ w.is_cancelling = wi.is_cancelling /\ w.present = wi.present
      /\ w.skipped = wi.skipped /\ w.error_tasks = wi.error_tasks /\ w.wf = wi.wf
  BY <1>1 DEF InstanceType
<1> HIDE DEF w
<1>7. x.is_cancelling = wi.is_cancelling /\ x.wf = wi.wf /\ x.error_tasks = error
  BY <1>5, <1>6 DEF InstanceType
<1> HIDE DEF x
<1>8. ASSUME v.status = status, v.retval = retval, ~ v.is_cancelling, v.present = wi.present,
             v.skipped = wi.skipped, v.wf = wi.wf,
             v.error_tasks = 0 => wi.error_tasks = 0 /\ (ret # 0 => t \in v.retrier),
             \A s \in Tasks \ {t} : s \in v.retrier <=> s \in wi.retrier
      PROVE  Truthful(v, JobOf[t])
  <2>1. v.error_tasks = 0 => wi.error_tasks = 0 /\ NothingHidden(v)
    BY <1>1, <1>3, <1>8 DEF Truthful, NothingHidden
  <2>2. /\ \A s \in Tasks : v.status[s] # "none" <=> wi.status[s] # "none"
        /\ \A s \in Tasks : Ran(v, s) => Ran(wi, s) \/ JobOf[s] = JobOf[t]
        /\ v.wf # "NEW" <=> wi.wf # "NEW"
        /\ None \in {None, JobOf[t]}
    BY <1>3, <1>8 DEF Ran
  <2> QED
    BY ONLY <1>1, <1>8, <2>1, <2>2, TruthfulKept
<1>9. CASE v = w /\ ret = 0
  BY <1>1, <1>6, <1>8, <1>9
<1>10. CASE v = x
  BY <1>1, <1>3, <1>7, <1>10 DEF Truthful
<1>11. CASE v = retry_task(w, {t}) /\ ret # 0
  <2>1. {t} \in SUBSET Tasks
    OBVIOUS
  <2>2. /\ v.status = w.status /\ v.retval = w.retval /\ v.is_cancelling = w.is_cancelling
        /\ v.present = w.present /\ v.wf = w.wf /\ v.skipped = w.skipped
        /\ v.error_tasks = 0 => w.error_tasks = 0 /\ \A s \in {t} : Retried(w, s).what # "error"
        /\ \A s \in {t} : s \notin w.retrier =>
                             (s \in v.retrier <=> Retried(w, s).what = "retry")
        /\ \A s \in Tasks \ {t} : s \in v.retrier <=> s \in w.retrier
    BY ONLY <1>5, <1>11, <2>1, RetryWrites
  <2>3. Policy[t].retval \in {0, w.retval[t]}
    BY <1>3, <1>6, <1>11 DEF EveryFailureRetried
  <2>4. v.error_tasks = 0 => t \in v.retrier
    BY <1>2, <1>6, <2>2, <2>3, NotLeft
  <2> QED
    BY <1>1, <1>6, <1>8, <2>2, <2>4
<1> QED
  BY <1>1, <1>4, <1>9, <1>10, <1>11

\* A job all of whose tasks have run has succeeded in the eyes of TaskStop, too:
\* the templates of its loops are gone.
LEMMA FinishedSucceeded ==
    ASSUME NEW w \in InstanceType, NEW j \in Jobs \ LoopedJobs, j # Root,
           LoopsExpanded(w), Finished(w, j)
    PROVE  JobSucceeded(w, j)
<1>1. PICK t \in Expected(j) : Ran(w, t)
  BY DEF Finished
<1>2. t \in Tasks /\ JobOf[t] = j /\ w.status[t] # "none"
  BY <1>1, ExpectedFacts DEF Ran
<1> SUFFICES ASSUME NEW s \in w.present, JobOf[s] = j PROVE Ran(w, s)
  BY DEF JobSucceeded, Ran
<1>3. s \in Tasks
  BY SoundType
<1>4. s \in TasksIn(j)
  BY <1>3, JobOfFacts
<1>5. s \notin LoopedTasks
  BY <1>2 DEF LoopsExpanded
<1>6. s \in Expected(j)
  BY <1>4, <1>5, ExpectedFacts
<1> QED
  BY <1>6 DEF Finished

\* The task has ended, and the subjobs are run when its job has succeeded; when
\* it has not, none are to be run.
LEMMA TaskStopTruthful ==
    ASSUME OneLoop, EveryFailureRetried, InstanceInv, TruthInv,
           NEW t \in Tasks, NEW ret \in Retvals, NEW ok \in BOOLEAN, TaskStop(t, ret, ok)
    PROVE  TruthInv'
<1> DEFINE w == Stopped(t, ret, ok)
           j == JobOf[t]
<1>1. /\ wi.status[t] = "EXECUTING" /\ wi \in InstanceType /\ wi.wf # "NEW"
      /\ InDocument(wi) /\ InOrder(wi)
  BY TruthStart DEF Sound, TaskStop
<1>2. \/ \E pass \in Passes(w, j) :
            Finish([run_subjobs(w, pass) EXCEPT !.running_tasks = @ - 1])
      \/ ~ JobSucceeded(w, j) /\ Finish([w EXCEPT !.running_tasks = @ - 1])
  BY DEF TaskStop
<1>3. Sound(w) /\ w.wf = wi.wf /\ \A s \in Tasks \ {t} : w.status[s] = wi.status[s]
  BY <1>1, StoppedSound
<1>4. w \in InstanceType /\ w.wf # "NEW"
  BY <1>1, <1>3 DEF Sound
<1>5. Truthful(w, j)
  BY <1>1, StoppedTruthful
<1>6. j \in Jobs /\ j # Root
  <2>1. PICK p \in Jobs : t \in TasksBelow(p)
    BY <1>1 DEF InOrder
  <2> QED
    BY <2>1, TreeFacts
<1>7. \A s \in TasksBelow(j) : w.status[s] = "none"
  <2>1. \A s \in TasksBelow(j) : s \in Tasks
    BY <1>6, BelowType
  <2>2. \A s \in TasksBelow(j) : JobOf[s] # j
    BY <1>6, TreeFacts
  <2>3. ~ Succeeded(wi, j)
    BY <1>1 DEF Succeeded, JobSucceeded, InDocument
  <2>4. \A s \in TasksBelow(j) : wi.status[s] = "none"
    BY <1>1, <1>6, <2>1, <2>3 DEF InOrder
  <2> QED
    BY <1>3, <2>1, <2>2, <2>4
<1> HIDE DEF w, j
<1>8. ASSUME NEW STATE x, x \in InstanceType, x.wf # "NEW", Truthful(x, None),
             Finish([x EXCEPT !.running_tasks = @ - 1])
      PROVE  TruthInv'
  <2> DEFINE u == [x EXCEPT !.running_tasks = @ - 1]
  <2>1. u \in InstanceType /\ u.wf # "NEW" /\ Truthful(u, None)
    BY <1>8, EndTruthful
  <2>2. Finish(u)
    BY <1>8
  <2> HIDE DEF u
  <2> QED
    BY <2>1, <2>2, FinishTruthful
<1>9. CASE \E pass \in Passes(w, j) :
              Finish([run_subjobs(w, pass) EXCEPT !.running_tasks = @ - 1])
  <2>1. PICK pass \in Passes(w, j) :
           Finish([run_subjobs(w, pass) EXCEPT !.running_tasks = @ - 1])
    BY <1>9
  <2>2. PassOver(pass, w, j)
    BY <1>4, <1>6, PassesType
  <2>3. (pass.failed = None => Complete(pass, j)) /\ pass.appended \cap LoopedTasks = {}
    BY <1>6, <1>7, PassComplete
  <2> DEFINE x == run_subjobs(w, pass)
  <2>4. x \in InstanceType /\ x.wf # "NEW" /\ Truthful(x, None)
    BY ONLY <1>4, <1>5, <1>6, <1>7, <2>2, <2>3, SubjobsTruthful
  <2>5. Finish([x EXCEPT !.running_tasks = @ - 1])
    BY <2>1
  <2> HIDE DEF x
  <2> QED
    BY <1>8, <2>4, <2>5
<1>10. CASE ~ JobSucceeded(w, j) /\ Finish([w EXCEPT !.running_tasks = @ - 1])
  <2>1. ASSUME w.error_tasks = 0, NEW k \in Jobs \ LoopedJobs, Finished(w, k) PROVE Reached(w, k)
    <3>1. LoopsExpanded(w) /\ SubjobsReached(w, j)
      BY <1>5, <2>1 DEF Truthful
    <3>2. k # j
      BY <1>4, <1>6, <1>10, <2>1, <3>1, FinishedSucceeded
    <3> QED
      BY <2>1, <3>1, <3>2 DEF SubjobsReached
  <2>2. Truthful(w, None)
    BY <1>5, <2>1 DEF Truthful, SubjobsReached
  <2> QED
    BY <1>4, <1>8, <1>10, <2>2
<1> QED
  BY <1>2, <1>9, <1>10

\* Nothing has been touched, and nothing is to be run yet.
LEMMA TruthInit == Init => TruthInv
<1> SUFFICES ASSUME Init PROVE TruthInv
  OBVIOUS
<1>1. /\ wi.status = [t \in Tasks |-> "none"] /\ wi.wf = "NEW" /\ wi.is_cancelling = FALSE
  BY DEF Init, FreshInstance, NewDocument
<1>2. \A t \in Tasks : wi.status[t] = "none"
  BY <1>1
<1>3. ASSUME NEW j \in Jobs \ LoopedJobs, Finished(wi, j) PROVE Reached(wi, j)
  <2>1. \A t \in Expected(j) : t \in Tasks
    BY ExpectedFacts
  <2> QED
    BY <1>1, <1>2, <1>3, <2>1 DEF Finished, Ran
<1> QED
  BY <1>1, <1>2, <1>3 DEF TruthInv, Truthful, SubjobsReached, NothingHidden, LoopsExpanded

\* Every operation preserves the invariant, if nothing is cancelled and the
\* engine is not restarted.
LEMMA TruthStep ==
    ASSUME OneLoop, EveryFailureRetried, ~ MayCancel, MaxRestarts = 0
    PROVE  InstanceInv /\ RestType /\ TruthInv /\ [Next]_vars => TruthInv'
<1> SUFFICES ASSUME InstanceInv, RestType, TruthInv, [Next]_vars PROVE TruthInv'
  OBVIOUS
<1>1. CASE Start
  BY <1>1, StartTruthful
<1>2. CASE Cancel
  BY <1>2 DEF Cancel
<1>3. CASE Forker
  <2>1. PICK t \in Tasks : TaskExecute(t) \/ TaskAbort(t)
    BY <1>3 DEF Forker
  <2> QED
    BY <2>1, TaskExecuteTruthful, TaskAbortTruthful
<1>4. CASE Gatherer
  <2>1. PICK t \in Tasks, ret \in Retvals, ok \in BOOLEAN : TaskStop(t, ret, ok)
    BY <1>4 DEF Gatherer
  <2> QED
    BY <2>1, TaskStopTruthful
<1>5. CASE Retrier
  <2>1. PICK t \in Tasks : TaskRestart(t)
    BY <1>5 DEF Retrier
  <2> QED
    BY <2>1, TaskRestartTruthful
<1>6. CASE Restart
  <2>1. restarts < MaxRestarts /\ restarts \in 0 .. MaxRestarts
    BY <1>6 DEF Restart, RestType
  <2> QED
    BY <2>1
<1>7. CASE UNCHANGED vars
  BY <1>7 DEF vars, TruthInv
<1> QED
  BY <1>1, <1>2, <1>3, <1>4, <1>5, <1>6, <1>7 DEF Next

\* An instance that ends without errors has done its work, whatever its document
\* and the order in which its tasks end and are retried: below the root, and
\* below every job all of whose tasks succeeded, each subjob has been skipped by
\* its condition or all its tasks, one per node of its loops, have succeeded
\* (WorkflowInstance.cpp:556-578, 1073-1273, 1473).
THEOREM SuccessIsTrue ==
    ASSUME OneLoop, EveryFailureRetried, ~ MayCancel, MaxRestarts = 0
    PROVE  Spec => []SuccessMeansDone
<1>1. InstanceInv /\ TruthInv => SuccessMeansDone
  <2> SUFFICES ASSUME InstanceInv, TruthInv, wi.wf = "TERMINATED", wi.error_tasks = 0,
                      NEW j \in Jobs \ LoopedJobs,
                      j = Root \/ (Expected(j) # {} /\ \A t \in Expected(j) : HasRun(t)),
                      NEW s \in ToSet(Subjobs[j]), s \notin wi.skipped, NEW t \in Expected(s)
               PROVE  HasRun(t)
    BY DEF SuccessMeansDone
  <2>1. NothingHidden(wi) /\ SubjobsReached(wi, None)
    BY DEF TruthInv, Truthful
  <2>2. Finished(wi, j) /\ j # None
    BY InstanceAssumption DEF Finished, Ran, HasRun
  <2>3. t \in Tasks /\ wi.status[t] # "none"
    BY <2>1, <2>2, ExpectedTasks DEF SubjobsReached, Reached
  <2>4. /\ wi.pool = {} /\ wi.retrier = {} /\ wi.status[t] # "EXECUTING"
        /\ wi.pool = {u \in Tasks : wi.status[u] = "QUEUED"}
        /\ wi.status[t] \in Statuses
    BY <2>3, SoundType DEF InstanceInv, Sound, NothingAfterTheEnd, Counted
  <2>5. wi.status[t] = "TERMINATED"
    BY <2>1, <2>3, <2>4 DEF Statuses, NothingHidden
  <2> QED
    BY <2>1, <2>3, <2>4, <2>5 DEF NothingHidden, HasRun
<1>2. Init => RestType
  BY InstanceAssumption DEF Init, RestType
<1>3. Spec => []RestType
  BY <1>2, RestStep, PTL DEF Spec
<1>4. Spec => []TruthInv
  BY <1>3, TruthInit, TruthStep, InstanceIsSound, PTL DEF Spec
<1> QED
  BY <1>1, <1>4, InstanceIsSound, PTL
=============================================================================
