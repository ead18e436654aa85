-------------------------- MODULE ThreadPoolProofs --------------------------
(***************************************************************************)
(* The thread pool keeps its promises (PoolSound), for any number of       *)
(* workers, requests and cancellations.                                    *)
(*                                                                         *)
(* The inductive invariant PoolInv says where each request is and what has *)
(* happened to it by then (Right), which worker has which request          *)
(* (Running), and that idle_threads counts the workers inside              *)
(* uv_cond_wait, among them those that were signalled and are not back     *)
(* (Sleeping).                                                             *)
(***************************************************************************)
EXTENDS PoolService, FiniteSetTheorems, TLAPS

-----------------------------------------------------------------------------
(* The queues of the thread pool.                                          *)

Distinct(q) == \A i, j \in 1 .. Len(q) : q[i] \in Reqs /\ q[i] = q[j] => i = j

\* A request is queued at the end.
LEMMA AppendQueue ==
  ASSUME NEW S, NEW q \in Seq(S), NEW x \in S
  PROVE  /\ Append(q, x) \in Seq(S) /\ Len(Append(q, x)) = Len(q) + 1
         /\ \A r : Pool!In(r, Append(q, x)) <=> Pool!In(r, q) \/ r = x
         /\ Distinct(q) /\ (x \in Reqs => ~Pool!In(x, q)) => Distinct(Append(q, x))
<1> DEFINE a == Append(q, x)
<1>1. /\ a \in Seq(S) /\ Len(q) \in Nat /\ Len(a) = Len(q) + 1
      /\ \A i \in 1 .. Len(q) : a[i] = q[i]
      /\ a[Len(q) + 1] = x
  OBVIOUS
<1> HIDE DEF a
<1>2. \A r : Pool!In(r, a) <=> Pool!In(r, q) \/ r = x
  <2>1. ASSUME NEW r, Pool!In(r, a) PROVE Pool!In(r, q) \/ r = x
    <3>1. PICK i \in 1 .. Len(a) : a[i] = r
      BY <2>1 DEF Pool!In
    <3>2. i \in 1 .. Len(q) \/ i = Len(q) + 1
      BY <1>1
    <3> QED BY <3>1, <3>2, <1>1 DEF Pool!In
  <2>2. ASSUME NEW r, Pool!In(r, q) \/ r = x PROVE Pool!In(r, a)
    <3>1. 1 .. Len(q) \subseteq 1 .. Len(a) /\ Len(q) + 1 \in 1 .. Len(a)
      BY <1>1
    <3> QED BY <2>2, <3>1, <1>1 DEF Pool!In
  <2> QED BY <2>1, <2>2, Zenon
<1>3. ASSUME Distinct(q), x \in Reqs => ~Pool!In(x, q)
      PROVE  Distinct(a)
  <2> SUFFICES ASSUME NEW i \in 1 .. Len(a), NEW j \in 1 .. Len(a),
                      a[i] \in Reqs, a[i] = a[j]
               PROVE  i = j
    BY Zenon DEF Distinct
  <2>1. i \in 1 .. Len(q) \/ i = Len(q) + 1
    BY <1>1
  <2>2. j \in 1 .. Len(q) \/ j = Len(q) + 1
    BY <1>1
  <2>3. \A k \in 1 .. Len(q) : x \in Reqs => q[k] # x
    BY <1>3, Zenon DEF Pool!In
  <2> QED BY <1>1, <1>3, <2>1, <2>2, <2>3, Zenon DEF Distinct
<1> QED BY <1>1, <1>2, <1>3, Zenon DEF a

\* The first request leaves.
LEMMA TailQueue ==
  ASSUME NEW S, NEW q \in Seq(S), q # <<>>, Distinct(q)
  PROVE  /\ Head(q) \in S /\ Tail(q) \in Seq(S) /\ Len(Tail(q)) = Len(q) - 1
         /\ Len(q) \in Nat /\ Pool!In(Head(q), q) /\ Distinct(Tail(q))
         /\ \A r \in Reqs : Pool!In(r, Tail(q)) <=> Pool!In(r, q) /\ r # Head(q)
<1> DEFINE t == Tail(q)
<1>1. /\ t \in Seq(S) /\ Len(q) \in Nat /\ Len(q) >= 1 /\ Len(t) = Len(q) - 1
      /\ Head(q) = q[1] /\ q[1] \in S
      /\ \A i \in 1 .. Len(q) - 1 : t[i] = q[i + 1]
  OBVIOUS
<1> HIDE DEF t
<1>2. 1 \in 1 .. Len(q) /\ \A i \in 1 .. Len(t) : i + 1 \in 1 .. Len(q) /\ i + 1 # 1
  BY <1>1
<1>3. Pool!In(Head(q), q)
  BY <1>1, <1>2, Zenon DEF Pool!In
<1>4. Distinct(t)
  <2> SUFFICES ASSUME NEW i \in 1 .. Len(t), NEW j \in 1 .. Len(t),
                      t[i] \in Reqs, t[i] = t[j]
               PROVE  i = j
    BY Zenon DEF Distinct
  <2>1. t[i] = q[i + 1] /\ t[j] = q[j + 1]
    BY <1>1
  <2>2. i + 1 = j + 1
    BY <2>1, <1>2, Zenon DEF Distinct
  <2> QED BY <2>2
<1>5. ASSUME NEW r \in Reqs
      PROVE  Pool!In(r, t) <=> Pool!In(r, q) /\ r # Head(q)
  <2>1. ASSUME Pool!In(r, t) PROVE Pool!In(r, q) /\ r # Head(q)
    <3>1. PICK i \in 1 .. Len(t) : t[i] = r
      BY <2>1, Zenon DEF Pool!In
    <3>2. q[i + 1] = r
      BY <3>1, <1>1
    <3> QED BY <3>2, <1>1, <1>2, Zenon DEF Pool!In, Distinct
  <2>2. ASSUME Pool!In(r, q), r # Head(q) PROVE Pool!In(r, t)
    <3>1. PICK i \in 1 .. Len(q) : q[i] = r
      BY <2>2, Zenon DEF Pool!In
    <3>2. i - 1 \in 1 .. Len(t) /\ t[i - 1] = r
      BY <3>1, <2>2, <1>1
    <3> QED BY <3>2, Zenon DEF Pool!In
  <2> QED BY <2>1, <2>2, Zenon
<1> QED BY <1>1, <1>3, <1>4, <1>5, Zenon DEF t

\* QUEUE_REMOVE takes out one request and leaves the others in order.
LEMMA WithoutQueue ==
  ASSUME NEW S, NEW q \in Seq(S), Distinct(q), NEW r \in Reqs
  PROVE  /\ Pool!Without(q, r) \in Seq(S)
         /\ Len(Pool!Without(q, r)) \in Nat /\ Len(Pool!Without(q, r)) <= Len(q)
         /\ Distinct(Pool!Without(q, r))
         /\ \A x \in Reqs :
              Pool!In(x, Pool!Without(q, r)) <=> Pool!In(x, q) /\ x # r
<1>1. CASE ~Pool!In(r, q)
  <2>1. Pool!Without(q, r) = q
    BY <1>1, Zenon DEF Pool!Without
  <2>2. Len(q) \in Nat
    OBVIOUS
  <2>3. \A x \in Reqs : Pool!In(x, q) <=> Pool!In(x, q) /\ x # r
    BY <1>1, Zenon
  <2> QED BY <2>1, <2>2, <2>3
<1>2. CASE Pool!In(r, q)
  <2> DEFINE k == CHOOSE i \in 1 .. Len(q) : q[i] = r
             n == Len(q) - 1
             v == [i \in 1 .. n |-> IF i < k THEN q[i] ELSE q[i + 1]]
             at(i) == IF i < k THEN i ELSE i + 1
  <2>1. k \in 1 .. Len(q) /\ q[k] = r
    BY <1>2, Zenon DEF Pool!In
  <2>2. Pool!Without(q, r) = v
    BY <1>2, Zenon DEF Pool!Without
  <2> HIDE DEF k
  <2>3. Len(q) \in Nat /\ n \in Nat /\ Len(q) >= 1
    BY <2>1
  <2>4. \A i \in 1 .. n : at(i) \in 1 .. Len(q) /\ v[i] = q[at(i)] /\ at(i) # k
    BY <2>1, <2>3
  <2>5. v \in Seq(S) /\ Len(v) = n
    <3>1. \A i \in 1 .. n : v[i] \in S
      BY <2>4
    <3> QED BY <3>1, <2>3
  <2>6. \A i, j \in 1 .. n : at(i) = at(j) => i = j
    BY <2>1, <2>3
  <2>7. \A j \in 1 .. Len(q) : j # k => \E i \in 1 .. n : at(i) = j
    <3> TAKE j \in 1 .. Len(q)
    <3> HAVE j # k
    <3>1. CASE j < k
      <4>1. j \in 1 .. n /\ at(j) = j
        BY <3>1, <2>1, <2>3
      <4> QED BY <4>1, Zenon
    <3>2. CASE ~(j < k)
      <4>1. j - 1 \in 1 .. n /\ at(j - 1) = j
        BY <3>2, <2>1, <2>3
      <4> QED BY <4>1, Zenon
    <3> QED BY <3>1, <3>2
  <2> HIDE DEF v, at, n
  <2>8. Distinct(v)
    <3> SUFFICES ASSUME NEW i \in 1 .. n, NEW j \in 1 .. n, v[i] \in Reqs, v[i] = v[j]
                 PROVE  i = j
      BY <2>5, Zenon DEF Distinct
    <3>1. q[at(i)] \in Reqs /\ q[at(i)] = q[at(j)]
      BY <2>4, Zenon
    <3>2. at(i) = at(j)
      BY <3>1, <2>4, Zenon DEF Distinct
    <3> QED BY <3>2, <2>6, Zenon
  <2>9. ASSUME NEW x \in Reqs
        PROVE  Pool!In(x, v) <=> Pool!In(x, q) /\ x # r
    <3>1. ASSUME NEW i \in 1 .. n, v[i] = x PROVE Pool!In(x, q) /\ x # r
      BY <3>1, <2>4, <2>1, Zenon DEF Pool!In, Distinct
    <3>2. ASSUME NEW j \in 1 .. Len(q), q[j] = x, x # r
          PROVE  \E i \in 1 .. n : v[i] = x
      BY <3>2, <2>7, <2>4, <2>1, Zenon
    <3> QED BY <3>1, <3>2, <2>5, Zenon DEF Pool!In
  <2>10. Len(v) \in Nat /\ Len(v) <= Len(q)
    BY <2>3, <2>5 DEF n
  <2> QED BY <2>2, <2>5, <2>8, <2>9, <2>10, Zenon
<1> QED BY <1>1, <1>2

-----------------------------------------------------------------------------
(* How many workers are where.                                             *)

Of(f, S) == {w \in Workers : f[w] \in S}
Many(f, S) == Cardinality(Of(f, S))

\* The workers but w are where they were.
Only(w, f, g) == w \in Workers /\ \A v \in Workers : v # w => g[v] = f[v]

Stays(w, f, g, S) == Only(w, f, g) /\ (g[w] \in S <=> f[w] \in S)
Joins(w, f, g, S) == Only(w, f, g) /\ g[w] \in S /\ f[w] \notin S
Leaves(w, f, g, S) == Only(w, f, g) /\ g[w] \notin S /\ f[w] \in S

\* A worker that moves within or outside S does not change the count.
LEMMA StayCount ==
  ASSUME NEW f, NEW g, NEW w, NEW S, Stays(w, f, g, S)
  PROVE  Of(g, S) = Of(f, S) /\ Many(g, S) = Many(f, S)
<1>1. Of(g, S) = Of(f, S)
  BY Zenon DEF Of, Only, Stays
<1> QED BY <1>1, Zenon DEF Many

\* One more where it goes ...
LEMMA JoinCount ==
  ASSUME NEW f, NEW g, NEW w, NEW S, Joins(w, f, g, S)
  PROVE  Many(g, S) = Many(f, S) + 1
<1>1. Of(g, S) = Of(f, S) \cup {w} /\ w \notin Of(f, S)
  BY Zenon DEF Of, Only, Joins
<1>2. IsFiniteSet(Of(f, S))
  BY PoolAssumption, FS_Subset, Zenon DEF Of
<1> QED BY <1>1, <1>2, FS_AddElement DEF Many

\* ... and one less where it was.
LEMMA LeaveCount ==
  ASSUME NEW f, NEW g, NEW w, NEW S, Leaves(w, f, g, S)
  PROVE  Many(g, S) = Many(f, S) - 1
<1>1. Of(g, S) = Of(f, S) \ {w} /\ w \in Of(f, S)
  BY Zenon DEF Of, Only, Leaves
<1>2. IsFiniteSet(Of(f, S))
  BY PoolAssumption, FS_Subset, Zenon DEF Of
<1> QED BY <1>1, <1>2, FS_RemoveElement DEF Many

\* More workers in S, no fewer counted.
LEMMA MoreCount ==
  ASSUME NEW f, NEW g, NEW S, Of(f, S) \subseteq Of(g, S)
  PROVE  Many(f, S) \in Nat /\ Many(g, S) \in Nat /\ Many(f, S) <= Many(g, S)
<1>1. IsFiniteSet(Of(g, S)) /\ IsFiniteSet(Of(f, S))
  BY PoolAssumption, FS_Subset, Zenon DEF Of
<1> QED BY <1>1, FS_Subset, FS_CardinalityType, Zenon DEF Many

\* Somebody is in S exactly if there are more than none.
LEMMA SomeCount ==
  ASSUME NEW f, NEW S
  PROVE  Many(f, S) \in Nat /\ (Many(f, S) = 0 <=> Of(f, S) = {})
<1>1. IsFiniteSet(Of(f, S))
  BY PoolAssumption, FS_Subset, Zenon DEF Of
<1> QED BY <1>1, FS_EmptySet, FS_CardinalityType, Zenon DEF Many

-----------------------------------------------------------------------------
(* The invariant of the thread pool.                                       *)

Busy == {"work", "worked", "finish"}
Idle == {"wait", "woken"}
Coming == {"lock", "woken"}
Asleep == {"wait"}
PcStates == {"unborn", "lock", "wait", "woken", "gone"} \cup Busy

PoolTypes ==
  /\ wq \in Seq(Reqs \cup {Exit}) /\ loop_wq \in Seq(Reqs) /\ local \in Seq(Reqs)
  /\ pool_pc \in [Workers -> PcStates]
  /\ job \in [Workers -> Reqs \cup {NoReq}]
  /\ work \in [Reqs -> {"none", "fn", "NULL", "cancelled"}]
  /\ ran \in [Reqs -> {0, 1}]
  /\ called \in [Reqs -> {<<>>, <<"0">>, <<"UV_ECANCELED">>}]
  /\ cancelling \in [req : Reqs, step : {"locked", "removed"}] \cup {NoReq}

InWq(r) == Pool!In(r, wq)
InLoop(r) == Pool!In(r, loop_wq)
InLocal(r) == Pool!In(r, local)
Held(r) == \E w \in Workers : job[w] = r
Removed(r) == Pool!Removed(r)
Waits(r) == work[r] # "none" /\ called[r] = <<>>

\* No queue links a request twice and no two workers have the same; a request
\* that waits for its callback is somewhere, and in one place only.
OnceEach ==
  /\ Distinct(wq) /\ Distinct(loop_wq) /\ Distinct(local)
  /\ \A v, w \in Workers : job[v] # NoReq /\ job[v] = job[w] => v = w
Somewhere(r) ==
  Waits(r) <=> InWq(r) \/ Held(r) \/ InLoop(r) \/ InLocal(r) \/ Removed(r)
Apart(r) ==
  /\ ~(InWq(r) /\ Held(r))
  /\ ~(InLoop(r) /\ InLocal(r))
  /\ ~(Removed(r) /\ (InLoop(r) \/ InLocal(r)))

\* What has happened to a request, by the place it is in.
Over(r) ==
  (work[r] = "NULL" /\ ran[r] = 1) \/ (work[r] = "cancelled" /\ ran[r] = 0)
Progress(r) ==
  /\ work[r] = "none" => ran[r] = 0 /\ called[r] = <<>>
  /\ InWq(r) => work[r] = "fn" /\ ran[r] = 0
  /\ InLoop(r) \/ InLocal(r) => Over(r)
  /\ Removed(r) => work[r] = "cancelled" /\ ran[r] = 0
  /\ called[r] = <<"0">> => ran[r] = 1
  /\ called[r] = <<"UV_ECANCELED">> => ran[r] = 0
Right(r) == Somewhere(r) /\ Apart(r) /\ Progress(r)
Running ==
  \A w \in Workers :
    /\ pool_pc[w] \in Busy <=> job[w] # NoReq
    /\ job[w] # NoReq =>
         work[job[w]] = "fn" /\ (ran[job[w]] = 0 <=> pool_pc[w] = "work")

\* uv__work_done has called back all it took before it returns.
TurnDone == pool_at = "loop" => local = <<>>

Placed == OnceEach /\ (\A r \in Reqs : Right(r)) /\ Running /\ TurnDone

\* idle_threads counts the workers in uv_cond_wait, those signalled included;
\* and while one sleeps, enough others are on their way to the queue.
Sleeping ==
  /\ idle_threads = Many(pool_pc, Idle)
  /\ Of(pool_pc, Asleep) # {} => Len(wq) <= Many(pool_pc, Coming)

PoolInv == PoolTypes /\ Placed /\ Sleeping

\* The same workers have a request in hand, and the same ones run it.
SameWork(f, g) ==
  \A w \in Workers :
    (g[w] \in Busy <=> f[w] \in Busy) /\ (g[w] = "work" <=> f[w] = "work")

\* A step that moves no request.
LEMMA PlacedFrame ==
  ASSUME Placed, UNCHANGED <<loop_wq, local, job, work, ran, called>>, Distinct(wq'),
         \A r \in Reqs : InWq(r)' <=> InWq(r),
         \A r \in Reqs : Removed(r)' <=> Removed(r),
         SameWork(pool_pc, pool_pc'),
         TurnDone'
  PROVE  Placed'
<1>1. /\ \A r : Held(r)' <=> Held(r)
      /\ \A r : InLoop(r)' <=> InLoop(r)
      /\ \A r : InLocal(r)' <=> InLocal(r)
  BY Zenon DEF Held, InLoop, InLocal
<1>2. OnceEach'
  BY Zenon DEF Placed, OnceEach
<1>3. ASSUME NEW r \in Reqs PROVE Right(r)'
  <2>1. Right(r)
    BY Zenon DEF Placed
  <2>2. Somewhere(r)' /\ Apart(r)'
    BY <1>1, <2>1, Zenon DEF Right, Somewhere, Apart, Waits
  <2>3. Progress(r)'
    BY <1>1, <2>1, Zenon DEF Right, Progress, Over
  <2> QED BY <2>2, <2>3, Zenon DEF Right
<1>4. Running'
  BY Zenon DEF Placed, Running, SameWork
<1> QED BY <1>2, <1>3, <1>4, Zenon DEF Placed

\* The same with the queues and uv_cancel's request as they were.
LEMMA PlacedSame ==
  ASSUME Placed, UNCHANGED <<wq, loop_wq, local, job, work, ran, called, cancelling>>,
         SameWork(pool_pc, pool_pc'),
         TurnDone'
  PROVE  Placed'
<1>1. \A r : (InWq(r)' <=> InWq(r)) /\ (Removed(r)' <=> Removed(r))
  BY Zenon DEF InWq, Removed, Pool!Removed
<1>2. Distinct(wq')
  BY Zenon DEF Placed, OnceEach
<1> QED BY <1>1, <1>2, PlacedFrame, Zenon

-----------------------------------------------------------------------------
(* Steps of a worker that move no request.                                 *)

\* The places in worker()'s loop, by what they count for.
LEMMA PcFacts ==
  /\ "wait" \in PcStates /\ "wait" \in Idle /\ "wait" \notin Coming
  /\ "wait" \in Asleep /\ "wait" \notin Busy
  /\ "woken" \in PcStates /\ "woken" \in Idle /\ "woken" \in Coming
  /\ "woken" \notin Asleep /\ "woken" \notin Busy
  /\ "lock" \in PcStates /\ "lock" \notin Idle /\ "lock" \in Coming
  /\ "lock" \notin Asleep /\ "lock" \notin Busy
  /\ "gone" \in PcStates /\ "gone" \notin Idle /\ "gone" \notin Coming
  /\ "gone" \notin Asleep /\ "gone" \notin Busy
  /\ "unborn" \notin Idle /\ "unborn" \notin Coming
  /\ "unborn" \notin Asleep /\ "unborn" \notin Busy
  /\ Busy \subseteq PcStates
  /\ \A s \in Busy : s \notin Idle /\ s \notin Coming /\ s \notin Asleep
  /\ "work" \in Busy /\ "worked" \in Busy /\ "finish" \in Busy
  BY DEF PcStates, Busy, Idle, Coming, Asleep

\* uv_cond_signal moves one sleeper, if there is one, and nobody else.
LEMMA SignalEffect ==
  ASSUME NEW f \in [Workers -> PcStates], NEW g \in Pool!Signalled(f)
  PROVE  /\ g \in [Workers -> PcStates]
         /\ SameWork(f, g) /\ Of(g, Asleep) \subseteq Of(f, Asleep)
         /\ Many(g, Idle) = Many(f, Idle)
         /\ \/ g = f /\ Of(f, Asleep) = {}
            \/ Many(g, Coming) = Many(f, Coming) + 1
<1>1. \/ g = f /\ Of(f, Asleep) = {}
      \/ \E w \in Workers : f[w] = "wait" /\ g = [f EXCEPT ![w] = "woken"]
  BY Zenon DEF Pool!Signalled, Of, Asleep
<1>2. ASSUME g = f
      PROVE  /\ g \in [Workers -> PcStates] /\ SameWork(f, g)
             /\ Of(g, Asleep) \subseteq Of(f, Asleep) /\ Many(g, Idle) = Many(f, Idle)
  BY <1>2, Zenon DEF SameWork
<1>3. ASSUME NEW w \in Workers, f[w] = "wait", g = [f EXCEPT ![w] = "woken"]
      PROVE  /\ g \in [Workers -> PcStates]
             /\ SameWork(f, g) /\ Of(g, Asleep) \subseteq Of(f, Asleep)
             /\ Many(g, Idle) = Many(f, Idle)
             /\ Many(g, Coming) = Many(f, Coming) + 1
  <2>1. g \in [Workers -> PcStates]
    BY <1>3, PcFacts, Zenon
  <2>2. g[w] = "woken" /\ Only(w, f, g)
    BY <1>3, Zenon DEF Only
  <2>3. /\ g[w] \notin Busy /\ f[w] \notin Busy /\ g[w] # "work" /\ f[w] # "work"
        /\ g[w] \in Idle /\ f[w] \in Idle /\ g[w] \in Coming /\ f[w] \notin Coming
    BY <1>3, <2>2, PcFacts
  <2>4. SameWork(f, g)
    BY <2>2, <2>3, Zenon DEF Only, SameWork
  <2>5. Many(g, Idle) = Many(f, Idle)
    <3>1. Stays(w, f, g, Idle)
      BY <2>2, <2>3, Zenon DEF Stays
    <3> QED BY <3>1, StayCount
  <2>6. Many(g, Coming) = Many(f, Coming) + 1
    <3>1. Joins(w, f, g, Coming)
      BY <2>2, <2>3, Zenon DEF Joins
    <3> QED BY <3>1, JoinCount
  <2>7. Of(g, Asleep) \subseteq Of(f, Asleep)
    BY <1>3, <2>2, PcFacts, Zenon DEF Of, Only
  <2> QED BY <2>1, <2>4, <2>5, <2>6, <2>7, Zenon
<1> QED BY <1>1, <1>2, <1>3, Zenon

\* A worker that has the mutex: idle_threads is right once it has left its wait.
LEMMA AwakeCounts ==
  ASSUME PoolInv, NEW w \in Workers, Pool!Locks(w), NEW s \in PcStates,
         s \notin Idle, s \notin Coming, NEW f, f = [pool_pc EXCEPT ![w] = s]
  PROVE  /\ f \in [Workers -> PcStates] /\ f[w] = s /\ Only(w, pool_pc, f)
         /\ Pool!Awake(w) = Many(f, Idle)
         /\ Of(f, Asleep) = Of(pool_pc, Asleep)
         /\ Many(f, Coming) = Many(pool_pc, Coming) - 1
<1>1. pool_pc \in [Workers -> PcStates] /\ pool_pc[w] \in {"lock", "woken"}
  BY Zenon DEF PoolInv, PoolTypes, Pool!Locks
<1>2. f \in [Workers -> PcStates] /\ f[w] = s /\ Only(w, pool_pc, f)
  BY <1>1, Zenon DEF Only
<1>3. idle_threads = Many(pool_pc, Idle)
  BY Zenon DEF PoolInv, Sleeping
<1>4. Many(pool_pc, Idle) \in Nat
  BY SomeCount, Zenon
<1>5. Pool!Awake(w) = Many(f, Idle)
  <2>1. CASE pool_pc[w] = "lock"
    <3>1. pool_pc[w] \notin Idle
      BY <2>1, PcFacts, Zenon
    <3>2. Stays(w, pool_pc, f, Idle)
      BY <1>2, <3>1, Zenon DEF Stays
    <3>3. Many(f, Idle) = Many(pool_pc, Idle)
      BY <3>2, StayCount
    <3> QED BY <2>1, <3>3, <1>3, <1>4 DEF Pool!Awake
  <2>2. CASE pool_pc[w] = "woken"
    <3>1. pool_pc[w] \in Idle
      BY <2>2, PcFacts, Zenon
    <3>2. Leaves(w, pool_pc, f, Idle)
      BY <1>2, <3>1, Zenon DEF Leaves
    <3>3. Many(f, Idle) = Many(pool_pc, Idle) - 1
      BY <3>2, LeaveCount
    <3> QED BY <2>2, <3>3, <1>3, <1>4 DEF Pool!Awake
  <2> QED BY <1>1, <2>1, <2>2, Zenon
<1>6. Of(f, Asleep) = Of(pool_pc, Asleep)
  <2>1. pool_pc[w] \notin Asleep /\ s \notin Asleep
    BY <1>1 DEF Asleep, Idle
  <2>2. Stays(w, pool_pc, f, Asleep)
    BY <1>2, <2>1, Zenon DEF Stays
  <2> QED BY <2>2, StayCount
<1>7. Many(f, Coming) = Many(pool_pc, Coming) - 1
  <2>1. pool_pc[w] \in Coming
    BY <1>1, Zenon DEF Coming
  <2>2. Leaves(w, pool_pc, f, Coming)
    BY <1>2, <2>1, Zenon DEF Leaves
  <2> QED BY <2>2, LeaveCount
<1> QED BY <1>2, <1>5, <1>6, <1>7, Zenon

\* A worker that does not run its work before or after.
LEMMA SameWorkOnly ==
  ASSUME NEW f, NEW g, NEW w, Only(w, f, g), f[w] \in Busy <=> g[w] \in Busy,
         f[w] # "work", g[w] # "work"
  PROVE  SameWork(f, g)
  BY Zenon DEF Only, SameWork

\* A step that only moves workers, idle_threads and the loop thread.
LEMMA PcStep ==
  ASSUME PoolInv, UNCHANGED <<wq, loop_wq, local, job, work, ran, called, cancelling>>,
         pool_pc' \in [Workers -> PcStates], SameWork(pool_pc, pool_pc'),
         pool_at' = "loop" => local = <<>>, Sleeping'
  PROVE  PoolInv'
<1>1. PoolTypes'
  BY Zenon DEF PoolInv, PoolTypes
<1>2. TurnDone'
  BY Zenon DEF TurnDone
<1>3. Placed'
  BY <1>2, PlacedSame, Zenon DEF PoolInv
<1> QED BY <1>1, <1>3, Zenon DEF PoolInv

\* uv_cond_wait returns for no reason.
LEMMA SpuriousWakeupKeeps ==
  ASSUME PoolInv, NEW w \in Workers, Pool!SpuriousWakeup(w)
  PROVE  PoolInv'
<1>1. /\ pool_pc[w] = "wait" /\ pool_pc' = [pool_pc EXCEPT ![w] = "woken"]
      /\ UNCHANGED <<idle_threads, wq, loop_wq, local, job, work, ran, called,
                     cancelling, pool_at>>
  BY Zenon DEF Pool!SpuriousWakeup, Pool!queues
<1>2. pool_pc \in [Workers -> PcStates]
  BY Zenon DEF PoolInv, PoolTypes
<1>3. /\ pool_pc' \in [Workers -> PcStates] /\ pool_pc'[w] = "woken"
      /\ Only(w, pool_pc, pool_pc')
  BY <1>1, <1>2, PcFacts, Zenon DEF Only
<1>4. /\ pool_pc[w] \notin Busy /\ pool_pc'[w] \notin Busy
      /\ pool_pc[w] # "work" /\ pool_pc'[w] # "work"
      /\ Stays(w, pool_pc, pool_pc', Idle) /\ Joins(w, pool_pc, pool_pc', Coming)
      /\ w \in Of(pool_pc, Asleep)
  BY <1>1, <1>3, PcFacts DEF Stays, Joins, Of
<1>5. SameWork(pool_pc, pool_pc')
  BY <1>3, <1>4, SameWorkOnly, Zenon
<1>6. /\ Many(pool_pc', Idle) = Many(pool_pc, Idle)
      /\ Many(pool_pc', Coming) = Many(pool_pc, Coming) + 1
  BY <1>4, StayCount, JoinCount
<1>7. Sleeping'
  <2>1. Len(wq) <= Many(pool_pc, Coming) /\ idle_threads = Many(pool_pc, Idle)
    BY <1>4, Zenon DEF PoolInv, Sleeping
  <2>2. Many(pool_pc, Coming) \in Nat /\ Len(wq) \in Nat
    <3>1. wq \in Seq(Reqs \cup {Exit})
      BY Zenon DEF PoolInv, PoolTypes
    <3> QED BY <3>1, SomeCount
  <2>3. Len(wq) <= Many(pool_pc, Coming) + 1
    BY <2>1, <2>2
  <2> QED BY <1>1, <1>6, <2>1, <2>3, Zenon DEF Sleeping
<1> QED BY <1>1, <1>3, <1>5, <1>7, PcStep, Zenon DEF PoolInv, Placed, TurnDone

\* The queue is empty, and the worker goes to sleep.
LEMMA WaitKeeps ==
  ASSUME PoolInv, NEW w \in Workers, Pool!Wait(w)
  PROVE  PoolInv'
<1>1. /\ Pool!Locks(w) /\ wq = <<>> /\ idle_threads' = Pool!Awake(w) + 1
      /\ pool_pc' = [pool_pc EXCEPT ![w] = "wait"]
      /\ UNCHANGED <<wq, loop_wq, local, job, work, ran, called, cancelling, pool_at>>
  BY Zenon DEF Pool!Wait, Pool!queues
<1>2. /\ pool_pc \in [Workers -> PcStates] /\ pool_pc[w] \in {"lock", "woken"}
      /\ idle_threads = Many(pool_pc, Idle)
  BY <1>1, Zenon DEF PoolInv, PoolTypes, Sleeping, Pool!Locks
<1>3. /\ pool_pc' \in [Workers -> PcStates] /\ pool_pc'[w] = "wait"
      /\ Only(w, pool_pc, pool_pc')
  BY <1>1, <1>2, PcFacts, Zenon DEF Only
<1>4. /\ pool_pc[w] \notin Busy /\ pool_pc'[w] \notin Busy
      /\ pool_pc[w] # "work" /\ pool_pc'[w] # "work"
  BY <1>2, <1>3, PcFacts
<1>5. SameWork(pool_pc, pool_pc')
  BY <1>3, <1>4, SameWorkOnly, Zenon
<1>6. Many(pool_pc, Idle) \in Nat /\ Many(pool_pc', Coming) \in Nat
  BY SomeCount, Zenon
<1>7. idle_threads' = Many(pool_pc', Idle)
  <2>1. CASE pool_pc[w] = "lock"
    <3>1. Joins(w, pool_pc, pool_pc', Idle)
      BY <2>1, <1>3, PcFacts DEF Joins
    <3>2. Many(pool_pc', Idle) = Many(pool_pc, Idle) + 1
      BY <3>1, JoinCount
    <3> QED BY <2>1, <3>2, <1>1, <1>2, <1>6 DEF Pool!Awake
  <2>2. CASE pool_pc[w] = "woken"
    <3>1. Stays(w, pool_pc, pool_pc', Idle)
      BY <2>2, <1>3, PcFacts DEF Stays
    <3>2. Many(pool_pc', Idle) = Many(pool_pc, Idle)
      BY <3>1, StayCount
    <3> QED BY <2>2, <3>2, <1>1, <1>2, <1>6 DEF Pool!Awake
  <2> QED BY <1>2, <2>1, <2>2, Zenon
<1>8. Len(wq') <= Many(pool_pc', Coming)
  <2>1. Len(wq') = 0
    BY <1>1
  <2> QED BY <2>1, <1>6
<1>9. Sleeping'
  BY <1>7, <1>8, Zenon DEF Sleeping
<1> QED BY <1>1, <1>3, <1>5, <1>9, PcStep, Zenon DEF PoolInv, Placed, TurnDone

\* A worker takes the exit message, leaves it in the queue and signals the next.
LEMMA TakeExitKeeps ==
  ASSUME PoolInv, NEW w \in Workers, Pool!TakeExit(w)
  PROVE  PoolInv'
<1> DEFINE f == [pool_pc EXCEPT ![w] = "gone"]
<1>1. /\ Pool!Locks(w) /\ idle_threads' = Pool!Awake(w)
      /\ pool_pc' \in Pool!Signalled(f)
      /\ UNCHANGED <<wq, loop_wq, local, job, work, ran, called, cancelling, pool_at>>
  BY Zenon DEF Pool!TakeExit, Pool!queues
<1>2. pool_pc[w] \in {"lock", "woken"} /\ wq \in Seq(Reqs \cup {Exit})
  BY <1>1, Zenon DEF PoolInv, PoolTypes, Pool!Locks
<1>3. /\ f \in [Workers -> PcStates] /\ f[w] = "gone" /\ Only(w, pool_pc, f)
      /\ Pool!Awake(w) = Many(f, Idle)
      /\ Of(f, Asleep) = Of(pool_pc, Asleep)
      /\ Many(f, Coming) = Many(pool_pc, Coming) - 1
  BY <1>1, PcFacts, AwakeCounts, Zenon
<1> HIDE DEF f
<1>4. /\ pool_pc' \in [Workers -> PcStates]
      /\ SameWork(f, pool_pc') /\ Of(pool_pc', Asleep) \subseteq Of(f, Asleep)
      /\ Many(pool_pc', Idle) = Many(f, Idle)
      /\ \/ pool_pc' = f /\ Of(f, Asleep) = {}
         \/ Many(pool_pc', Coming) = Many(f, Coming) + 1
  BY <1>1, <1>3, SignalEffect, Zenon
<1>5. SameWork(pool_pc, pool_pc')
  <2>1. /\ pool_pc[w] \notin Busy /\ f[w] \notin Busy
        /\ pool_pc[w] # "work" /\ f[w] # "work"
    BY <1>2, <1>3, PcFacts
  <2>2. SameWork(pool_pc, f)
    BY <1>3, <2>1, SameWorkOnly, Zenon
  <2> QED BY <1>4, <2>2, Zenon DEF SameWork
<1>6. Sleeping'
  <2>1. ASSUME Of(pool_pc', Asleep) # {}
        PROVE  Len(wq) <= Many(pool_pc', Coming)
    <3>1. Of(pool_pc, Asleep) # {} /\ Many(pool_pc', Coming) = Many(f, Coming) + 1
      BY <2>1, <1>3, <1>4, Zenon
    <3>2. Len(wq) <= Many(pool_pc, Coming)
      BY <3>1, Zenon DEF PoolInv, Sleeping
    <3>3. Many(pool_pc, Coming) \in Nat /\ Len(wq) \in Nat
      BY <1>2, SomeCount
    <3> QED BY <3>1, <3>2, <3>3, <1>3
  <2> QED BY <1>1, <1>3, <1>4, <2>1, Zenon DEF Sleeping
<1> QED BY <1>1, <1>4, <1>5, <1>6, PcStep, Zenon DEF PoolInv, Placed, TurnDone

\* The worker takes the loop's mutex to hand in its request.
LEMMA LockLoopKeeps ==
  ASSUME PoolInv, NEW w \in Workers, Pool!LockLoop(w)
  PROVE  PoolInv'
<1>1. /\ pool_pc[w] = "worked" /\ pool_pc' = [pool_pc EXCEPT ![w] = "finish"]
      /\ UNCHANGED <<idle_threads, wq, loop_wq, local, job, work, ran, called,
                     cancelling, pool_at>>
  BY Zenon DEF Pool!LockLoop, Pool!queues
<1>2. pool_pc \in [Workers -> PcStates]
  BY Zenon DEF PoolInv, PoolTypes
<1>3. /\ pool_pc' \in [Workers -> PcStates] /\ pool_pc'[w] = "finish"
      /\ Only(w, pool_pc, pool_pc')
  BY <1>1, <1>2, PcFacts, Zenon DEF Only
<1>4. /\ pool_pc[w] \in Busy /\ pool_pc'[w] \in Busy
      /\ pool_pc[w] # "work" /\ pool_pc'[w] # "work"
      /\ Stays(w, pool_pc, pool_pc', Idle) /\ Stays(w, pool_pc, pool_pc', Coming)
      /\ Stays(w, pool_pc, pool_pc', Asleep)
  BY <1>1, <1>3, PcFacts DEF Stays
<1>5. SameWork(pool_pc, pool_pc')
  BY <1>3, <1>4, SameWorkOnly, Zenon
<1>6. /\ Many(pool_pc', Idle) = Many(pool_pc, Idle)
      /\ Many(pool_pc', Coming) = Many(pool_pc, Coming)
      /\ Of(pool_pc', Asleep) = Of(pool_pc, Asleep)
  BY <1>4, StayCount
<1>7. Sleeping'
  BY <1>1, <1>6, Zenon DEF PoolInv, Sleeping
<1> QED BY <1>1, <1>3, <1>5, <1>7, PcStep, Zenon DEF PoolInv, Placed, TurnDone

-----------------------------------------------------------------------------
(* Steps of the loop thread that move no request.                          *)

\* A step that leaves the queues and the workers as they are.
LEMMA LoopQuiet ==
  ASSUME PoolInv,
         UNCHANGED <<wq, loop_wq, local, job, work, ran, called, pool_pc, idle_threads>>,
         cancelling' \in [req : Reqs, step : {"locked", "removed"}] \cup {NoReq},
         \A r \in Reqs : Removed(r)' <=> Removed(r), TurnDone'
  PROVE  PoolInv'
<1>1. PoolTypes'
  BY Zenon DEF PoolInv, PoolTypes
<1>2. Distinct(wq') /\ (\A r \in Reqs : InWq(r)' <=> InWq(r)) /\ SameWork(pool_pc, pool_pc')
  BY Zenon DEF PoolInv, Placed, OnceEach, InWq, SameWork
<1>3. Placed'
  BY <1>2, PlacedFrame, Zenon DEF PoolInv
<1>4. Sleeping'
  BY Zenon DEF PoolInv, Sleeping
<1> QED BY <1>1, <1>3, <1>4, Zenon DEF PoolInv

\* uv_cancel takes the global mutex; the request has not left its queue yet.
LEMMA CancelKeeps ==
  ASSUME PoolInv, NEW r \in Reqs, Pool!uv_cancel(r)
  PROVE  PoolInv'
<1>1. /\ cancelling = NoReq /\ cancelling' = [req |-> r, step |-> "locked"]
      /\ UNCHANGED <<wq, loop_wq, local, job, work, ran, called, pool_pc, idle_threads,
                     pool_at>>
  BY Zenon DEF Pool!uv_cancel, Pool!queues, Pool!LoopFree
<1>2. /\ cancelling' \in [req : Reqs, step : {"locked", "removed"}] \cup {NoReq}
      /\ cancelling'.step # "removed"
  BY <1>1
<1>3. \A x \in Reqs : Removed(x)' <=> Removed(x)
  BY <1>1, <1>2, Zenon DEF Removed, Pool!Removed
<1>4. TurnDone'
  BY <1>1, Zenon DEF PoolInv, Placed, TurnDone
<1> QED BY <1>1, <1>2, <1>3, <1>4, LoopQuiet, Zenon

\* A callback or uv__work_done returns, and the last worker has been joined.
LEMMA ReturnKeeps ==
  ASSUME PoolInv, Pool!CallbackReturns \/ Pool!DoneReturns \/ Pool!Joined
  PROVE  PoolInv'
<1>1. UNCHANGED <<wq, loop_wq, local, job, work, ran, called, pool_pc, idle_threads,
                  cancelling>>
  BY Zenon DEF Pool!CallbackReturns, Pool!DoneReturns, Pool!Joined, Pool!queues
<1>2. pool_at' = "loop" => local = <<>>
  <2>1. "done" # "loop" /\ "end" # "loop"
    OBVIOUS
  <2> QED BY <2>1, Zenon DEF Pool!CallbackReturns, Pool!DoneReturns, Pool!Joined
<1>3. TurnDone'
  BY <1>1, <1>2, Zenon DEF TurnDone
<1>4. /\ cancelling' \in [req : Reqs, step : {"locked", "removed"}] \cup {NoReq}
      /\ \A x \in Reqs : Removed(x)' <=> Removed(x)
  BY <1>1, Zenon DEF PoolInv, PoolTypes, Removed, Pool!Removed
<1> QED BY <1>1, <1>3, <1>4, LoopQuiet, Zenon

\* uv_cancel returns UV_EBUSY: the request runs or is over.
LEMMA CancelBusyKeeps ==
  ASSUME PoolInv, Pool!uv__work_cancel,
         ~(Pool!Linked(cancelling.req) /\ work[cancelling.req] # "NULL")
  PROVE  PoolInv'
<1>1. /\ cancelling.step = "locked" /\ cancelling' = NoReq
      /\ UNCHANGED <<wq, loop_wq, local, job, work, ran, called, pool_pc, idle_threads,
                     pool_at>>
  BY Zenon DEF Pool!uv__work_cancel, Pool!queues
<1>2. "locked" # "removed"
  OBVIOUS
<1>3. /\ cancelling' \in [req : Reqs, step : {"locked", "removed"}] \cup {NoReq}
      /\ \A x \in Reqs : Removed(x)' <=> Removed(x)
  BY <1>1, <1>2, Zenon DEF Removed, Pool!Removed
<1>4. TurnDone'
  BY <1>1, Zenon DEF PoolInv, Placed, TurnDone
<1> QED BY <1>1, <1>3, <1>4, LoopQuiet, Zenon

-----------------------------------------------------------------------------
(* post() and init_once().                                                 *)

\* What init_once and nothing may do to the workers before post() signals.
Posted(f) ==
  /\ f \in [Workers -> PcStates] /\ SameWork(pool_pc, f)
  /\ Of(f, Asleep) = Of(pool_pc, Asleep) /\ Many(f, Idle) = Many(pool_pc, Idle)
  /\ Many(f, Coming) >= Many(pool_pc, Coming)

\* One more in the queue: whoever sleeps is signalled for it.
LEMMA PostEffect ==
  ASSUME PoolInv, NEW q \in Reqs \cup {Exit}, NEW f, Posted(f), Pool!post(q, f),
         idle_threads' = idle_threads
  PROVE  /\ wq' = Append(wq, q) /\ wq' \in Seq(Reqs \cup {Exit})
         /\ pool_pc' \in [Workers -> PcStates] /\ SameWork(pool_pc, pool_pc')
         /\ Sleeping'
<1>1. wq \in Seq(Reqs \cup {Exit}) /\ idle_threads = Many(pool_pc, Idle)
  BY Zenon DEF PoolInv, PoolTypes, Sleeping
<1>2. /\ wq' = Append(wq, q) /\ wq' \in Seq(Reqs \cup {Exit})
      /\ Len(wq) \in Nat /\ Len(wq') = Len(wq) + 1
  BY <1>1 DEF Pool!post
<1>3. /\ Many(pool_pc, Coming) \in Nat /\ Many(f, Coming) \in Nat
      /\ Many(pool_pc, Idle) \in Nat
      /\ Many(pool_pc, Idle) = 0 <=> Of(pool_pc, Idle) = {}
  BY SomeCount, Zenon
<1>4. CASE idle_threads > 0
  <2>1. pool_pc' \in Pool!Signalled(f)
    BY <1>4, Zenon DEF Pool!post
  <2>2. /\ pool_pc' \in [Workers -> PcStates]
        /\ SameWork(f, pool_pc') /\ Of(pool_pc', Asleep) \subseteq Of(f, Asleep)
        /\ Many(pool_pc', Idle) = Many(f, Idle)
        /\ \/ pool_pc' = f /\ Of(f, Asleep) = {}
           \/ Many(pool_pc', Coming) = Many(f, Coming) + 1
    BY <2>1, SignalEffect, Zenon DEF Posted
  <2>3. ASSUME Of(pool_pc', Asleep) # {}
        PROVE  Len(wq') <= Many(pool_pc', Coming)
    <3>1. Of(pool_pc, Asleep) # {} /\ Many(pool_pc', Coming) = Many(f, Coming) + 1
      BY <2>2, <2>3, Zenon DEF Posted
    <3>2. Len(wq) <= Many(pool_pc, Coming)
      BY <3>1, Zenon DEF PoolInv, Sleeping
    <3>3. Many(f, Coming) >= Many(pool_pc, Coming)
      BY Zenon DEF Posted
    <3> QED BY <3>1, <3>2, <3>3, <1>2, <1>3
  <2>4. Sleeping'
    BY <2>2, <2>3, <1>1, Zenon DEF Sleeping, Posted
  <2>5. SameWork(pool_pc, pool_pc')
    BY <2>2, Zenon DEF Posted, SameWork
  <2> QED BY <1>2, <2>2, <2>4, <2>5, Zenon
<1>5. CASE ~(idle_threads > 0)
  <2>1. pool_pc' = f
    BY <1>5, Zenon DEF Pool!post
  <2>2. Of(pool_pc, Idle) = {}
    BY <1>1, <1>3, <1>5
  <2>3. Of(pool_pc', Asleep) = {}
    <3>1. Asleep \subseteq Idle
      BY DEF Asleep, Idle
    <3>2. Of(pool_pc, Asleep) = {}
      BY <2>2, <3>1, Zenon DEF Of
    <3> QED BY <2>1, <3>2, Zenon DEF Posted
  <2>4. Sleeping'
    BY <2>1, <2>3, <1>1, Zenon DEF Sleeping, Posted
  <2> QED BY <1>2, <2>1, <2>4, Zenon DEF Posted
<1> QED BY <1>4, <1>5, Zenon

\* cleanup(): the exit message is queued, which is no request.
LEMMA CleanupKeeps ==
  ASSUME PoolInv, Pool!cleanup
  PROVE  PoolInv'
<1>1. /\ Pool!post(Exit, pool_pc) /\ pool_at' = "join"
      /\ UNCHANGED <<idle_threads, loop_wq, local, job, work, ran, called, cancelling>>
  BY Zenon DEF Pool!cleanup
<1>2. Posted(pool_pc)
  <2>1. Many(pool_pc, Coming) \in Nat
    BY SomeCount, Zenon
  <2>2. Many(pool_pc, Coming) >= Many(pool_pc, Coming)
    BY <2>1
  <2> QED BY <2>2, Zenon DEF Posted, PoolInv, PoolTypes, SameWork
<1>3. /\ wq' = Append(wq, Exit) /\ wq' \in Seq(Reqs \cup {Exit})
      /\ pool_pc' \in [Workers -> PcStates] /\ SameWork(pool_pc, pool_pc')
      /\ Sleeping'
  BY <1>1, <1>2, PostEffect, Zenon
<1>4. PoolTypes'
  BY <1>1, <1>3, Zenon DEF PoolInv, PoolTypes
<1>5. /\ wq \in Seq(Reqs \cup {Exit}) /\ Distinct(wq) /\ Exit \notin Reqs
  BY PoolAssumption, Zenon DEF PoolInv, PoolTypes, Placed, OnceEach
<1>6. Distinct(wq') /\ \A r : Pool!In(r, wq') <=> Pool!In(r, wq) \/ r = Exit
  <2>1. Exit \in Reqs \cup {Exit} /\ (Exit \in Reqs => ~Pool!In(Exit, wq))
    BY <1>5, Zenon
  <2> QED BY <1>3, <1>5, <2>1, AppendQueue
<1>7. \A r \in Reqs : (InWq(r)' <=> InWq(r)) /\ (Removed(r)' <=> Removed(r))
  BY <1>1, <1>5, <1>6, Zenon DEF InWq, Removed, Pool!Removed
<1>8. TurnDone'
  <2>1. pool_at' # "loop"
    BY <1>1
  <2> QED BY <2>1, Zenon DEF TurnDone
<1>9. Placed'
  BY <1>1, <1>3, <1>6, <1>7, <1>8, PlacedFrame, Zenon DEF PoolInv
<1> QED BY <1>3, <1>4, <1>9, Zenon DEF PoolInv

-----------------------------------------------------------------------------
(* Steps that move a request.                                              *)

\* The requests but r are where they were.
OthersStay(r) ==
  \A x \in Reqs : x # r =>
    /\ (InWq(x)' <=> InWq(x)) /\ (Held(x)' <=> Held(x))
    /\ (InLoop(x)' <=> InLoop(x)) /\ (InLocal(x)' <=> InLocal(x))
    /\ (Removed(x)' <=> Removed(x))
    /\ work'[x] = work[x] /\ ran'[x] = ran[x] /\ called'[x] = called[x]

\* So it is enough to look at r, the queues and the workers.
LEMMA PlacedMove ==
  ASSUME Placed, NEW r \in Reqs, OthersStay(r), Right(r)', OnceEach', Running', TurnDone'
  PROVE  Placed'
<1>1. ASSUME NEW x \in Reqs, x # r PROVE Right(x)'
  <2>1. /\ Right(x)
        /\ (InWq(x)' <=> InWq(x)) /\ (Held(x)' <=> Held(x))
        /\ (InLoop(x)' <=> InLoop(x)) /\ (InLocal(x)' <=> InLocal(x))
        /\ (Removed(x)' <=> Removed(x))
        /\ work'[x] = work[x] /\ ran'[x] = ran[x] /\ called'[x] = called[x]
    BY <1>1, Zenon DEF Placed, OthersStay
  <2>2. Somewhere(x)' /\ Apart(x)'
    BY <2>1, Zenon DEF Right, Somewhere, Apart, Waits
  <2>3. Progress(x)'
    BY <2>1, Zenon DEF Right, Progress, Over
  <2> QED BY <2>2, <2>3, Zenon DEF Right
<1> QED BY <1>1, Zenon DEF Placed

\* A worker takes the first request of the queue.
LEMMA TakeWorkKeeps ==
  ASSUME PoolInv, NEW w \in Workers, Pool!TakeWork(w)
  PROVE  PoolInv'
<1>1. /\ Pool!Locks(w) /\ wq # <<>> /\ Head(wq) # Exit /\ idle_threads' = Pool!Awake(w)
      /\ pool_pc' = [pool_pc EXCEPT ![w] = "work"]
      /\ job' = [job EXCEPT ![w] = Head(wq)] /\ wq' = Tail(wq)
      /\ UNCHANGED <<work, ran, called, loop_wq, local, cancelling, pool_at>>
  BY Zenon DEF Pool!TakeWork
<1>2. /\ pool_pc[w] \in {"lock", "woken"} /\ wq \in Seq(Reqs \cup {Exit}) /\ Distinct(wq)
      /\ job \in [Workers -> Reqs \cup {NoReq}] /\ pool_pc \in [Workers -> PcStates]
  BY <1>1, Zenon DEF PoolInv, PoolTypes, Placed, OnceEach, Pool!Locks
<1>3. /\ Head(wq) \in Reqs \cup {Exit} /\ wq' \in Seq(Reqs \cup {Exit})
      /\ Len(wq') = Len(wq) - 1 /\ Len(wq) \in Nat
      /\ Pool!In(Head(wq), wq) /\ Distinct(wq')
      /\ \A x \in Reqs : Pool!In(x, wq') <=> Pool!In(x, wq) /\ x # Head(wq)
  BY <1>1, <1>2, TailQueue
<1>4. PICK r \in Reqs : r = Head(wq) /\ r # NoReq
  BY <1>1, <1>3, PoolAssumption, Zenon
<1>5. /\ pool_pc' \in [Workers -> PcStates] /\ pool_pc'[w] = "work"
      /\ Only(w, pool_pc, pool_pc')
      /\ idle_threads' = Many(pool_pc', Idle)
      /\ Of(pool_pc', Asleep) = Of(pool_pc, Asleep)
      /\ Many(pool_pc', Coming) = Many(pool_pc, Coming) - 1
  <2>1. "work" \in PcStates /\ "work" \notin Idle /\ "work" \notin Coming
    BY PcFacts, Zenon
  <2> QED BY <1>1, <2>1, AwakeCounts, Zenon
<1>6. /\ job' \in [Workers -> Reqs \cup {NoReq}] /\ job'[w] = r
      /\ \A v \in Workers : v # w => job'[v] = job[v]
  BY <1>1, <1>2, <1>4, Zenon
<1>7. PoolTypes'
  BY <1>1, <1>3, <1>5, <1>6, Zenon DEF PoolInv, PoolTypes
<1>8. Sleeping'
  <2>1. Many(pool_pc, Coming) \in Nat
    BY SomeCount, Zenon
  <2>2. Len(wq) <= Many(pool_pc, Coming) => Len(wq') <= Many(pool_pc', Coming)
    BY <1>3, <1>5, <2>1
  <2> QED BY <1>5, <2>2, Zenon DEF PoolInv, Sleeping
<1>9. job[w] = NoReq
  <2>1. pool_pc[w] \notin Busy
    BY <1>2, PcFacts
  <2> QED BY <2>1, Zenon DEF PoolInv, Placed, Running
<1>10. /\ Right(r) /\ InWq(r) /\ ~Held(r) /\ work[r] = "fn" /\ ran[r] = 0
  BY <1>3, <1>4, Zenon DEF PoolInv, Placed, Right, Apart, Progress, InWq
<1>11. /\ \A x \in Reqs : InWq(x)' <=> InWq(x) /\ x # r
       /\ \A x \in Reqs : Held(x)' <=> Held(x) \/ x = r
       /\ \A x : (InLoop(x)' <=> InLoop(x)) /\ (InLocal(x)' <=> InLocal(x))
       /\ \A x : Removed(x)' <=> Removed(x)
  <2>1. \A x \in Reqs : InWq(x)' <=> InWq(x) /\ x # r
    BY <1>3, <1>4, Zenon DEF InWq
  <2>2. \A x \in Reqs : Held(x)' <=> Held(x) \/ x = r
    BY <1>6, <1>9, PoolAssumption, Zenon DEF Held
  <2>3. /\ \A x : (InLoop(x)' <=> InLoop(x)) /\ (InLocal(x)' <=> InLocal(x))
        /\ \A x : Removed(x)' <=> Removed(x)
    BY <1>1, Zenon DEF InLoop, InLocal, Removed, Pool!Removed
  <2> QED BY <2>1, <2>2, <2>3, Zenon
<1>12. OthersStay(r)
  BY <1>1, <1>11, Zenon DEF OthersStay
<1>13. Right(r)'
  <2>1. Somewhere(r)' /\ Apart(r)'
    BY <1>1, <1>4, <1>10, <1>11, Zenon DEF Right, Somewhere, Apart, Waits
  <2>2. Progress(r)'
    BY <1>1, <1>4, <1>10, <1>11, Zenon DEF Right, Progress, Over
  <2> QED BY <2>1, <2>2, Zenon DEF Right
<1>14. OnceEach'
  <2>1. \A v \in Workers : job[v] # r
    BY <1>10, Zenon DEF Held
  <2>2. \A u, v \in Workers : job'[u] # NoReq /\ job'[u] = job'[v] => u = v
    BY <1>6, <2>1, Zenon DEF PoolInv, Placed, OnceEach
  <2> QED BY <1>1, <1>3, <2>2, Zenon DEF PoolInv, Placed, OnceEach
<1>15. Running'
  <2> SUFFICES ASSUME NEW v \in Workers
               PROVE  /\ pool_pc'[v] \in Busy <=> job'[v] # NoReq
                      /\ job'[v] # NoReq =>
                           /\ work'[job'[v]] = "fn"
                           /\ ran'[job'[v]] = 0 <=> pool_pc'[v] = "work"
    BY Zenon DEF Running
  <2>1. CASE v = w
    BY <2>1, <1>1, <1>4, <1>5, <1>6, <1>10, PcFacts, Zenon
  <2>2. CASE v # w
    BY <2>2, <1>1, <1>5, <1>6, Zenon DEF PoolInv, Placed, Running, Only
  <2> QED BY <2>1, <2>2, Zenon
<1>16. TurnDone'
  BY <1>1, Zenon DEF PoolInv, Placed, TurnDone
<1>17. Placed'
  BY <1>4, <1>12, <1>13, <1>14, <1>15, <1>16, PlacedMove, Zenon DEF PoolInv
<1> QED BY <1>7, <1>8, <1>17, Zenon DEF PoolInv

\* A request in the hands of a worker is nowhere else.
InHand(w, r) ==
  /\ job[w] = r /\ r # NoReq /\ Held(r) /\ work[r] = "fn" /\ called[r] = <<>>
  /\ ~InWq(r) /\ ~InLoop(r) /\ ~InLocal(r) /\ ~Removed(r)
  /\ \A v \in Workers : v # w => job[v] # r

\* What a busy worker has is a submitted request that nobody else has.
LEMMA HandFacts ==
  ASSUME PoolInv, NEW w \in Workers, pool_pc[w] \in Busy
  PROVE  \E r \in Reqs : InHand(w, r) /\ (ran[r] = 0 <=> pool_pc[w] = "work")
<1>1. /\ job[w] # NoReq /\ work[job[w]] = "fn"
      /\ ran[job[w]] = 0 <=> pool_pc[w] = "work"
  BY Zenon DEF PoolInv, Placed, Running
<1>2. PICK r \in Reqs : job[w] = r
  BY <1>1, Zenon DEF PoolInv, PoolTypes
<1>3. Held(r) /\ work[r] = "fn" /\ Right(r)
  BY <1>1, <1>2, Zenon DEF Held, PoolInv, Placed
<1>4. ~Over(r) /\ work[r] # "cancelled"
  BY <1>3 DEF Over
<1>5. called[r] = <<>> /\ ~InWq(r) /\ ~InLoop(r) /\ ~InLocal(r) /\ ~Removed(r)
  BY <1>3, <1>4, Zenon DEF Right, Somewhere, Apart, Progress, Waits
<1>6. \A v \in Workers : v # w => job[v] # r
  BY <1>1, <1>2, Zenon DEF PoolInv, Placed, OnceEach
<1> QED BY <1>1, <1>2, <1>3, <1>5, <1>6, Zenon DEF InHand

\* The work of the request runs.
LEMMA QueueWorkKeeps ==
  ASSUME PoolInv, NEW w \in Workers, Pool!uv__queue_work(w)
  PROVE  PoolInv'
<1>1. /\ pool_pc[w] = "work" /\ ran' = [ran EXCEPT ![job[w]] = @ + 1]
      /\ pool_pc' = [pool_pc EXCEPT ![w] = "worked"]
      /\ UNCHANGED <<idle_threads, wq, loop_wq, local, job, work, called, cancelling,
                     pool_at>>
  BY Zenon DEF Pool!uv__queue_work, Pool!queues
<1>2. pool_pc \in [Workers -> PcStates] /\ ran \in [Reqs -> {0, 1}]
  BY Zenon DEF PoolInv, PoolTypes
<1>3. PICK r \in Reqs : InHand(w, r) /\ ran[r] = 0
  BY <1>1, PcFacts, HandFacts, Zenon
<1>4. /\ ran' \in [Reqs -> {0, 1}] /\ ran'[r] = 1
      /\ \A x \in Reqs : x # r => ran'[x] = ran[x]
  <2>1. ran' = [ran EXCEPT ![r] = 1]
    BY <1>1, <1>2, <1>3 DEF InHand
  <2> QED BY <2>1, <1>2, Zenon
<1>5. /\ pool_pc' \in [Workers -> PcStates] /\ pool_pc'[w] = "worked"
      /\ Only(w, pool_pc, pool_pc')
  <2>1. "worked" \in PcStates
    BY PcFacts, Zenon
  <2> QED BY <1>1, <1>2, <2>1, Zenon DEF Only
<1>6. PoolTypes'
  BY <1>1, <1>4, <1>5, Zenon DEF PoolInv, PoolTypes
<1>7. Sleeping'
  <2>1. /\ Stays(w, pool_pc, pool_pc', Idle) /\ Stays(w, pool_pc, pool_pc', Coming)
        /\ Stays(w, pool_pc, pool_pc', Asleep)
    BY <1>1, <1>5, PcFacts DEF Stays
  <2>2. /\ Many(pool_pc', Idle) = Many(pool_pc, Idle)
        /\ Many(pool_pc', Coming) = Many(pool_pc, Coming)
        /\ Of(pool_pc', Asleep) = Of(pool_pc, Asleep)
    BY <2>1, StayCount
  <2> QED BY <1>1, <2>2, Zenon DEF PoolInv, Sleeping
<1>8. \A x : /\ (InWq(x)' <=> InWq(x)) /\ (Held(x)' <=> Held(x))
             /\ (InLoop(x)' <=> InLoop(x)) /\ (InLocal(x)' <=> InLocal(x))
             /\ (Removed(x)' <=> Removed(x))
  BY <1>1, Zenon DEF InWq, Held, InLoop, InLocal, Removed, Pool!Removed
<1>9. OthersStay(r)
  BY <1>1, <1>4, <1>8, Zenon DEF OthersStay
<1>10. Right(r)'
  <2>1. Right(r)
    BY Zenon DEF PoolInv, Placed
  <2>2. Somewhere(r)' /\ Apart(r)'
    BY <2>1, <1>1, <1>8, Zenon DEF Right, Somewhere, Apart, Waits
  <2>3. Progress(r)'
    <3>1. "fn" # "none" /\ <<>> # <<"UV_ECANCELED">>
      OBVIOUS
    <3>2. /\ ~InWq(r)' /\ ~InLoop(r)' /\ ~InLocal(r)' /\ ~Removed(r)'
          /\ work'[r] = "fn" /\ called'[r] = <<>>
      BY <1>1, <1>3, <1>8, Zenon DEF InHand
    <3> QED BY <3>1, <3>2, <1>4, Zenon DEF Progress
  <2> QED BY <2>2, <2>3, Zenon DEF Right
<1>11. OnceEach' /\ TurnDone'
  BY <1>1, Zenon DEF PoolInv, Placed, OnceEach, TurnDone
<1>12. Running'
  <2> SUFFICES ASSUME NEW v \in Workers
               PROVE  /\ pool_pc'[v] \in Busy <=> job'[v] # NoReq
                      /\ job'[v] # NoReq =>
                           /\ work'[job'[v]] = "fn"
                           /\ ran'[job'[v]] = 0 <=> pool_pc'[v] = "work"
    BY Zenon DEF Running
  <2>1. CASE v = w
    <3>1. pool_pc'[v] \in Busy /\ pool_pc'[v] # "work" /\ ran'[r] # 0
      BY <2>1, <1>4, <1>5, PcFacts
    <3> QED BY <2>1, <3>1, <1>1, <1>3, Zenon DEF InHand
  <2>2. CASE v # w
    <3>1. /\ job'[v] = job[v] /\ pool_pc'[v] = pool_pc[v] /\ work' = work
      BY <2>2, <1>1, <1>5, Zenon DEF Only
    <3>2. job[v] # NoReq => ran'[job[v]] = ran[job[v]]
      BY <2>2, <1>3, <1>4, Zenon DEF InHand, PoolInv, PoolTypes
    <3>3. /\ pool_pc[v] \in Busy <=> job[v] # NoReq
          /\ job[v] # NoReq =>
               work[job[v]] = "fn" /\ (ran[job[v]] = 0 <=> pool_pc[v] = "work")
      BY Zenon DEF PoolInv, Placed, Running
    <3>4. CASE job[v] = NoReq
      BY <3>1, <3>3, <3>4, Zenon
    <3>5. CASE job[v] # NoReq
      BY <3>1, <3>2, <3>3, <3>5
    <3> QED BY <3>4, <3>5, Zenon
  <2> QED BY <2>1, <2>2, Zenon
<1>13. Placed'
  BY <1>9, <1>10, <1>11, <1>12, PlacedMove, Zenon DEF PoolInv
<1> QED BY <1>6, <1>7, <1>13, Zenon DEF PoolInv

\* The worker hands in its request, to be called back.
LEMMA FinishKeeps ==
  ASSUME PoolInv, NEW w \in Workers, Pool!Finish(w)
  PROVE  PoolInv'
<1>1. /\ pool_pc[w] = "finish" /\ work' = [work EXCEPT ![job[w]] = "NULL"]
      /\ loop_wq' = Append(loop_wq, job[w])
      /\ job' = [job EXCEPT ![w] = NoReq] /\ pool_pc' = [pool_pc EXCEPT ![w] = "lock"]
      /\ UNCHANGED <<idle_threads, wq, local, ran, called, cancelling, pool_at>>
  BY Zenon DEF Pool!Finish
<1>2. /\ pool_pc \in [Workers -> PcStates] /\ ran \in [Reqs -> {0, 1}]
      /\ work \in [Reqs -> {"none", "fn", "NULL", "cancelled"}]
      /\ job \in [Workers -> Reqs \cup {NoReq}] /\ loop_wq \in Seq(Reqs)
      /\ Distinct(loop_wq) /\ wq \in Seq(Reqs \cup {Exit})
  BY Zenon DEF PoolInv, PoolTypes, Placed, OnceEach
<1>3. PICK r \in Reqs : InHand(w, r) /\ (ran[r] = 0 <=> pool_pc[w] = "work")
  BY <1>1, PcFacts, HandFacts, Zenon
<1>4. ran[r] = 1
  BY <1>1, <1>2, <1>3
<1>5. /\ work' \in [Reqs -> {"none", "fn", "NULL", "cancelled"}] /\ work'[r] = "NULL"
      /\ \A x \in Reqs : x # r => work'[x] = work[x]
  <2>1. work' = [work EXCEPT ![r] = "NULL"]
    BY <1>1, <1>3, Zenon DEF InHand
  <2> QED BY <2>1, <1>2, Zenon
<1>6. /\ loop_wq' \in Seq(Reqs) /\ Distinct(loop_wq')
      /\ \A x : Pool!In(x, loop_wq') <=> Pool!In(x, loop_wq) \/ x = r
  <2>1. loop_wq' = Append(loop_wq, r) /\ ~Pool!In(r, loop_wq)
    BY <1>1, <1>3, Zenon DEF InHand, InLoop
  <2> QED BY <1>2, <2>1, AppendQueue
<1>7. /\ pool_pc' \in [Workers -> PcStates] /\ pool_pc'[w] = "lock"
      /\ Only(w, pool_pc, pool_pc')
  BY <1>1, <1>2, PcFacts, Zenon DEF Only
<1>8. /\ job' \in [Workers -> Reqs \cup {NoReq}] /\ job'[w] = NoReq
      /\ \A v \in Workers : v # w => job'[v] = job[v]
  BY <1>1, <1>2, Zenon
<1>9. PoolTypes'
  BY <1>1, <1>5, <1>6, <1>7, <1>8, Zenon DEF PoolInv, PoolTypes
<1>10. Sleeping'
  <2>1. /\ Stays(w, pool_pc, pool_pc', Idle) /\ Joins(w, pool_pc, pool_pc', Coming)
        /\ Stays(w, pool_pc, pool_pc', Asleep)
    BY <1>1, <1>7, PcFacts DEF Stays, Joins
  <2>2. /\ Many(pool_pc', Idle) = Many(pool_pc, Idle)
        /\ Of(pool_pc', Asleep) = Of(pool_pc, Asleep)
    BY <2>1, StayCount
  <2>3. Many(pool_pc', Coming) = Many(pool_pc, Coming) + 1
    BY <2>1, JoinCount
  <2>4. Len(wq) <= Many(pool_pc, Coming) => Len(wq) <= Many(pool_pc', Coming)
    <3>1. Many(pool_pc, Coming) \in Nat /\ Len(wq) \in Nat
      BY <1>2, SomeCount
    <3> QED BY <3>1, <2>3
  <2> QED BY <1>1, <2>2, <2>4, Zenon DEF PoolInv, Sleeping
<1>11. /\ \A x \in Reqs : Held(x)' <=> Held(x) /\ x # r
       /\ \A x : InLoop(x)' <=> InLoop(x) \/ x = r
       /\ \A x : (InWq(x)' <=> InWq(x)) /\ (InLocal(x)' <=> InLocal(x))
       /\ \A x : Removed(x)' <=> Removed(x)
  <2>1. \A x \in Reqs : Held(x)' <=> Held(x) /\ x # r
    BY <1>3, <1>8, PoolAssumption, Zenon DEF Held, InHand
  <2>2. \A x : InLoop(x)' <=> InLoop(x) \/ x = r
    BY <1>6, Zenon DEF InLoop
  <2>3. /\ \A x : (InWq(x)' <=> InWq(x)) /\ (InLocal(x)' <=> InLocal(x))
        /\ \A x : Removed(x)' <=> Removed(x)
    BY <1>1, Zenon DEF InWq, InLocal, Removed, Pool!Removed
  <2> QED BY <2>1, <2>2, <2>3, Zenon
<1>12. OthersStay(r)
  BY <1>1, <1>5, <1>11, Zenon DEF OthersStay
<1>13. Right(r)'
  <2>1. /\ ~InWq(r)' /\ ~Held(r)' /\ InLoop(r)' /\ ~InLocal(r)' /\ ~Removed(r)'
        /\ called'[r] = <<>> /\ work'[r] = "NULL" /\ ran'[r] = 1
    BY <1>1, <1>3, <1>4, <1>5, <1>11, Zenon DEF InHand
  <2>2. "NULL" # "none" /\ <<>> # <<"UV_ECANCELED">> /\ <<>> # <<"0">>
    OBVIOUS
  <2>3. Somewhere(r)' /\ Apart(r)'
    BY <2>1, <2>2, Zenon DEF Somewhere, Apart, Waits
  <2>4. Progress(r)'
    BY <2>1, <2>2, Zenon DEF Progress, Over
  <2> QED BY <2>3, <2>4, Zenon DEF Right
<1>14. OnceEach' /\ TurnDone'
  BY <1>1, <1>6, <1>8, Zenon DEF PoolInv, Placed, OnceEach, TurnDone
<1>15. Running'
  <2> SUFFICES ASSUME NEW v \in Workers
               PROVE  /\ pool_pc'[v] \in Busy <=> job'[v] # NoReq
                      /\ job'[v] # NoReq =>
                           /\ work'[job'[v]] = "fn"
                           /\ ran'[job'[v]] = 0 <=> pool_pc'[v] = "work"
    BY Zenon DEF Running
  <2>1. CASE v = w
    BY <2>1, <1>7, <1>8, PcFacts, Zenon
  <2>2. CASE v # w
    <3>1. /\ job'[v] = job[v] /\ pool_pc'[v] = pool_pc[v] /\ ran' = ran
      BY <2>2, <1>1, <1>7, <1>8, Zenon DEF Only
    <3>2. job[v] # NoReq => work'[job[v]] = work[job[v]]
      BY <2>2, <1>2, <1>3, <1>5, Zenon DEF InHand
    <3>3. /\ pool_pc[v] \in Busy <=> job[v] # NoReq
          /\ job[v] # NoReq =>
               work[job[v]] = "fn" /\ (ran[job[v]] = 0 <=> pool_pc[v] = "work")
      BY Zenon DEF PoolInv, Placed, Running
    <3>4. CASE job[v] = NoReq
      BY <3>1, <3>3, <3>4, Zenon
    <3>5. CASE job[v] # NoReq
      BY <3>1, <3>2, <3>3, <3>5
    <3> QED BY <3>4, <3>5, Zenon
  <2> QED BY <2>1, <2>2, Zenon
<1>16. Placed'
  BY <1>12, <1>13, <1>14, <1>15, PlacedMove, Zenon DEF PoolInv
<1> QED BY <1>9, <1>10, <1>16, Zenon DEF PoolInv

\* When the requests that workers have in hand do not change.
LEMMA RunningSame ==
  ASSUME PoolInv, SameWork(pool_pc, pool_pc'), UNCHANGED <<job, ran>>,
         \A v \in Workers : job[v] # NoReq => work'[job[v]] = work[job[v]]
  PROVE  Running'
<1> SUFFICES ASSUME NEW v \in Workers
             PROVE  /\ pool_pc'[v] \in Busy <=> job'[v] # NoReq
                    /\ job'[v] # NoReq =>
                         /\ work'[job'[v]] = "fn"
                         /\ ran'[job'[v]] = 0 <=> pool_pc'[v] = "work"
  BY Zenon DEF Running
<1>1. /\ pool_pc[v] \in Busy <=> job[v] # NoReq
      /\ job[v] # NoReq =>
           work[job[v]] = "fn" /\ (ran[job[v]] = 0 <=> pool_pc[v] = "work")
  BY Zenon DEF PoolInv, Placed, Running
<1>2. /\ pool_pc'[v] \in Busy <=> pool_pc[v] \in Busy
      /\ pool_pc'[v] = "work" <=> pool_pc[v] = "work"
  BY Zenon DEF SameWork
<1>3. CASE job[v] = NoReq
  BY <1>1, <1>2, <1>3, Zenon
<1>4. CASE job[v] # NoReq
  BY <1>1, <1>2, <1>4
<1> QED BY <1>3, <1>4, Zenon

\* The first submission creates the workers, who come for the mutex.
LEMMA InitOnce ==
  ASSUME PoolInv
  PROVE  Posted(Pool!init_once)
<1> DEFINE f == Pool!init_once
<1>1. pool_pc \in [Workers -> PcStates]
  BY Zenon DEF PoolInv, PoolTypes
<1>2. \A w \in Workers : f[w] = IF pool_pc[w] = "unborn" THEN "lock" ELSE pool_pc[w]
  BY Zenon DEF Pool!init_once
<1>3. f \in [Workers -> PcStates]
  BY <1>1, PcFacts, Zenon DEF Pool!init_once
<1> HIDE DEF f
<1>4. /\ "unborn" # "work" /\ "lock" # "work"
      /\ "unborn" \notin Busy /\ "lock" \notin Busy
      /\ "unborn" \notin Asleep /\ "lock" \notin Asleep
      /\ "unborn" \notin Idle /\ "lock" \notin Idle
      /\ "unborn" \notin Coming
  BY PcFacts
<1>5. \A w \in Workers :
        \/ f[w] = pool_pc[w]
        \/ pool_pc[w] = "unborn" /\ f[w] = "lock"
  BY <1>2, Zenon
<1>6. SameWork(pool_pc, f)
  BY <1>4, <1>5, Zenon DEF SameWork
<1>7. Of(f, Asleep) = Of(pool_pc, Asleep) /\ Of(f, Idle) = Of(pool_pc, Idle)
  BY <1>4, <1>5, Zenon DEF Of
<1>8. Of(pool_pc, Coming) \subseteq Of(f, Coming)
  BY <1>4, <1>5, Zenon DEF Of
<1>9. Many(f, Coming) >= Many(pool_pc, Coming)
  BY <1>8, MoreCount
<1> QED BY <1>3, <1>6, <1>7, <1>9, Zenon DEF Posted, Many, f

\* uv_queue_work: a request is submitted.
LEMMA SubmitKeeps ==
  ASSUME PoolInv, NEW r \in Reqs, Pool!uv__work_submit(r)
  PROVE  PoolInv'
<1>1. /\ work[r] = "none" /\ work' = [work EXCEPT ![r] = "fn"]
      /\ Pool!post(r, Pool!init_once)
      /\ UNCHANGED <<idle_threads, job, ran, called, cancelling, loop_wq, local, pool_at>>
  BY Zenon DEF Pool!uv__work_submit
<1>2. /\ wq' = Append(wq, r) /\ wq' \in Seq(Reqs \cup {Exit})
      /\ pool_pc' \in [Workers -> PcStates] /\ SameWork(pool_pc, pool_pc')
      /\ Sleeping'
  <2>1. r \in Reqs \cup {Exit} /\ Posted(Pool!init_once)
    BY InitOnce, Zenon
  <2> QED BY <1>1, <2>1, PostEffect, Zenon
<1>3. /\ wq \in Seq(Reqs \cup {Exit}) /\ Distinct(wq)
      /\ work \in [Reqs -> {"none", "fn", "NULL", "cancelled"}]
      /\ job \in [Workers -> Reqs \cup {NoReq}] /\ Right(r)
  BY Zenon DEF PoolInv, PoolTypes, Placed, OnceEach
<1>4. /\ work' \in [Reqs -> {"none", "fn", "NULL", "cancelled"}] /\ work'[r] = "fn"
      /\ \A x \in Reqs : x # r => work'[x] = work[x]
  BY <1>1, <1>3, Zenon
<1>5. PoolTypes'
  BY <1>1, <1>2, <1>4, Zenon DEF PoolInv, PoolTypes
<1>6. /\ ~InWq(r) /\ ~Held(r) /\ ~InLoop(r) /\ ~InLocal(r) /\ ~Removed(r)
      /\ ran[r] = 0 /\ called[r] = <<>>
  BY <1>1, <1>3, Zenon DEF Right, Somewhere, Progress, Waits
<1>7. Distinct(wq') /\ \A x : Pool!In(x, wq') <=> Pool!In(x, wq) \/ x = r
  <2>1. r \in Reqs \cup {Exit} /\ ~Pool!In(r, wq)
    BY <1>6, Zenon DEF InWq
  <2> QED BY <1>2, <1>3, <2>1, AppendQueue
<1>8. /\ \A x : InWq(x)' <=> InWq(x) \/ x = r
      /\ \A x : (Held(x)' <=> Held(x)) /\ (InLoop(x)' <=> InLoop(x))
      /\ \A x : (InLocal(x)' <=> InLocal(x)) /\ (Removed(x)' <=> Removed(x))
  BY <1>1, <1>7, Zenon DEF InWq, Held, InLoop, InLocal, Removed, Pool!Removed
<1>9. OthersStay(r)
  BY <1>1, <1>4, <1>8, Zenon DEF OthersStay
<1>10. Right(r)'
  <2>1. /\ InWq(r)' /\ ~Held(r)' /\ ~InLoop(r)' /\ ~InLocal(r)' /\ ~Removed(r)'
        /\ called'[r] = <<>> /\ work'[r] = "fn" /\ ran'[r] = 0
    BY <1>1, <1>4, <1>6, <1>8, Zenon
  <2>2. "fn" # "none" /\ <<>> # <<"UV_ECANCELED">> /\ <<>> # <<"0">>
    OBVIOUS
  <2>3. Somewhere(r)' /\ Apart(r)'
    BY <2>1, <2>2, Zenon DEF Somewhere, Apart, Waits
  <2>4. Progress(r)'
    BY <2>1, <2>2, Zenon DEF Progress, Over
  <2> QED BY <2>3, <2>4, Zenon DEF Right
<1>11. OnceEach' /\ TurnDone'
  BY <1>1, <1>7, Zenon DEF PoolInv, Placed, OnceEach, TurnDone
<1>12. Running'
  <2>1. \A v \in Workers : job[v] # NoReq => work'[job[v]] = work[job[v]]
    BY <1>3, <1>4, <1>6, Zenon DEF Held
  <2> QED BY <1>1, <1>2, <2>1, RunningSame, Zenon
<1>13. Placed'
  BY <1>9, <1>10, <1>11, <1>12, PlacedMove, Zenon DEF PoolInv
<1> QED BY <1>2, <1>5, <1>13, Zenon DEF PoolInv

\* uv_cancel takes a request out of the queue it is in.
LEMMA CancelRemoves ==
  ASSUME PoolInv, Pool!uv__work_cancel,
         Pool!Linked(cancelling.req) /\ work[cancelling.req] # "NULL"
  PROVE  PoolInv'
<1>1. PICK r \in Reqs : cancelling = [req |-> r, step |-> "locked"]
  <2>1. cancelling # NoReq /\ cancelling.step = "locked"
    BY Zenon DEF Pool!uv__work_cancel
  <2>2. cancelling \in [req : Reqs, step : {"locked", "removed"}]
    BY <2>1, Zenon DEF PoolInv, PoolTypes
  <2>3. cancelling.req \in Reqs /\ cancelling = [req |-> cancelling.req, step |-> "locked"]
    BY <2>1, <2>2
  <2> QED BY <2>3, Zenon
<1>2. cancelling.req = r /\ cancelling.step = "locked"
  BY <1>1
<1>3. /\ Pool!Linked(r) /\ work[r] # "NULL"
      /\ wq' = Pool!Without(wq, r) /\ loop_wq' = Pool!Without(loop_wq, r)
      /\ local' = Pool!Without(local, r) /\ work' = [work EXCEPT ![r] = "cancelled"]
      /\ cancelling' = [cancelling EXCEPT !.step = "removed"]
      /\ UNCHANGED <<idle_threads, pool_pc, job, ran, called, pool_at>>
  BY <1>2, Zenon DEF Pool!uv__work_cancel
<1>4. /\ wq \in Seq(Reqs \cup {Exit}) /\ loop_wq \in Seq(Reqs) /\ local \in Seq(Reqs)
      /\ Distinct(wq) /\ Distinct(loop_wq) /\ Distinct(local)
      /\ work \in [Reqs -> {"none", "fn", "NULL", "cancelled"}]
      /\ job \in [Workers -> Reqs \cup {NoReq}] /\ Right(r)
  BY Zenon DEF PoolInv, PoolTypes, Placed, OnceEach
<1>5. /\ wq' \in Seq(Reqs \cup {Exit}) /\ Distinct(wq')
      /\ Len(wq') \in Nat /\ Len(wq') <= Len(wq) /\ Len(wq) \in Nat
      /\ \A x \in Reqs : Pool!In(x, wq') <=> Pool!In(x, wq) /\ x # r
  <2>1. PICK S : S = Reqs \cup {Exit}
    BY Zenon
  <2>2. wq \in Seq(S)
    BY <2>1, <1>4, Zenon
  <2>3. /\ wq' \in Seq(S) /\ Distinct(wq') /\ Len(wq') \in Nat /\ Len(wq') <= Len(wq)
        /\ \A x \in Reqs : Pool!In(x, wq') <=> Pool!In(x, wq) /\ x # r
    BY <1>3, <1>4, <2>2, WithoutQueue, Zenon
  <2>4. Len(wq) \in Nat
    BY <2>2
  <2> QED BY <2>1, <2>3, <2>4, Zenon
<1>6. /\ loop_wq' \in Seq(Reqs) /\ Distinct(loop_wq')
      /\ \A x \in Reqs : Pool!In(x, loop_wq') <=> Pool!In(x, loop_wq) /\ x # r
  BY <1>3, <1>4, WithoutQueue, Zenon
<1>7. /\ local' \in Seq(Reqs) /\ Distinct(local')
      /\ \A x \in Reqs : Pool!In(x, local') <=> Pool!In(x, local) /\ x # r
  BY <1>3, <1>4, WithoutQueue, Zenon
<1>8. /\ work' \in [Reqs -> {"none", "fn", "NULL", "cancelled"}] /\ work'[r] = "cancelled"
      /\ \A x \in Reqs : x # r => work'[x] = work[x]
  BY <1>3, <1>4, Zenon
<1>9. /\ cancelling' \in [req : Reqs, step : {"locked", "removed"}] \cup {NoReq}
      /\ cancelling' # NoReq /\ cancelling'.step = "removed" /\ cancelling'.req = r
      /\ "locked" # "removed"
  <2>1. cancelling' = [req |-> r, step |-> "removed"]
    BY <1>1, <1>3
  <2>2. cancelling' \in [req : Reqs, step : {"locked", "removed"}]
    BY <2>1
  <2> QED BY <2>1, <2>2, PoolAssumption
<1>10. PoolTypes'
  BY <1>3, <1>5, <1>6, <1>7, <1>8, <1>9, Zenon DEF PoolInv, PoolTypes
<1>11. Sleeping'
  <2>1. Many(pool_pc, Coming) \in Nat
    BY SomeCount, Zenon
  <2>2. Len(wq) <= Many(pool_pc, Coming) => Len(wq') <= Many(pool_pc, Coming)
    BY <1>5, <2>1
  <2> QED BY <1>3, <2>2, Zenon DEF PoolInv, Sleeping
<1>12. /\ \A x \in Reqs : /\ InWq(x)' <=> InWq(x) /\ x # r
                          /\ InLoop(x)' <=> InLoop(x) /\ x # r
                          /\ InLocal(x)' <=> InLocal(x) /\ x # r
       /\ \A x : Held(x)' <=> Held(x)
       /\ \A x : ~Removed(x) /\ (Removed(x)' <=> x = r)
  <2>1. \A x \in Reqs : /\ InWq(x)' <=> InWq(x) /\ x # r
                        /\ InLoop(x)' <=> InLoop(x) /\ x # r
                        /\ InLocal(x)' <=> InLocal(x) /\ x # r
    BY <1>5, <1>6, <1>7, Zenon DEF InWq, InLoop, InLocal
  <2>2. \A x : Held(x)' <=> Held(x)
    BY <1>3, Zenon DEF Held
  <2>3. \A x : ~Removed(x) /\ (Removed(x)' <=> x = r)
    BY <1>2, <1>9, Zenon DEF Removed, Pool!Removed
  <2> QED BY <2>1, <2>2, <2>3, Zenon
<1>13. OthersStay(r)
  BY <1>3, <1>8, <1>12, Zenon DEF OthersStay
<1>14. ~Held(r) /\ ran[r] = 0 /\ called[r] = <<>>
  <2>1. InWq(r) \/ InLoop(r) \/ InLocal(r)
    BY <1>3, Zenon DEF Pool!Linked, InWq, InLoop, InLocal
  <2>2. called[r] = <<>>
    BY <2>1, <1>4, Zenon DEF Right, Somewhere, Waits
  <2>3. CASE InWq(r)
    BY <2>2, <2>3, <1>4, Zenon DEF Right, Apart, Progress
  <2>4. CASE ~InWq(r)
    <3>1. work[r] = "cancelled" /\ ran[r] = 0
      BY <2>1, <2>4, <1>3, <1>4, Zenon DEF Right, Progress, Over
    <3>2. work[r] # "fn" /\ r # NoReq
      BY <3>1, PoolAssumption
    <3>3. ~Held(r)
      BY <3>2, Zenon DEF PoolInv, Placed, Running, Held
    <3> QED BY <2>2, <3>1, <3>3, Zenon
  <2> QED BY <2>3, <2>4, Zenon
<1>15. Right(r)'
  <2>1. /\ ~InWq(r)' /\ ~Held(r)' /\ ~InLoop(r)' /\ ~InLocal(r)' /\ Removed(r)'
        /\ called'[r] = <<>> /\ work'[r] = "cancelled" /\ ran'[r] = 0
    BY <1>3, <1>8, <1>12, <1>14, Zenon
  <2>2. "cancelled" # "none" /\ <<>> # <<"UV_ECANCELED">> /\ <<>> # <<"0">>
    OBVIOUS
  <2>3. Somewhere(r)' /\ Apart(r)'
    BY <2>1, <2>2, Zenon DEF Somewhere, Apart, Waits
  <2>4. Progress(r)'
    BY <2>1, <2>2, Zenon DEF Progress, Over
  <2> QED BY <2>3, <2>4, Zenon DEF Right
<1>16. OnceEach'
  BY <1>3, <1>5, <1>6, <1>7, Zenon DEF PoolInv, Placed, OnceEach
<1>17. TurnDone'
  <2>1. Pool!Without(<<>>, r) = <<>>
    BY DEF Pool!Without, Pool!In
  <2> QED BY <1>3, <2>1, Zenon DEF PoolInv, Placed, TurnDone
<1>18. Running'
  <2>1. \A v \in Workers : job[v] # NoReq => work'[job[v]] = work[job[v]]
    BY <1>4, <1>8, <1>14, Zenon DEF Held
  <2>2. SameWork(pool_pc, pool_pc')
    BY <1>3, Zenon DEF SameWork
  <2> QED BY <1>3, <2>1, <2>2, RunningSame, Zenon
<1>19. Placed'
  BY <1>13, <1>15, <1>16, <1>17, <1>18, PlacedMove, Zenon DEF PoolInv
<1> QED BY <1>10, <1>11, <1>19, Zenon DEF PoolInv

\* ... and queues it for its callback.
LEMMA CancelDoneKeeps ==
  ASSUME PoolInv, Pool!CancelDone
  PROVE  PoolInv'
<1>1. PICK r \in Reqs : cancelling # NoReq /\ cancelling.step = "removed" /\ cancelling.req = r
  <2>1. cancelling # NoReq /\ cancelling.step = "removed"
    BY Zenon DEF Pool!CancelDone
  <2>2. cancelling \in [req : Reqs, step : {"locked", "removed"}]
    BY <2>1, Zenon DEF PoolInv, PoolTypes
  <2>3. cancelling.req \in Reqs
    BY <2>2
  <2> QED BY <2>1, <2>3, Zenon
<1>2. /\ loop_wq' = Append(loop_wq, r) /\ cancelling' = NoReq
      /\ UNCHANGED <<idle_threads, pool_pc, job, work, ran, called, pool_at, wq, local>>
  BY <1>1, Zenon DEF Pool!CancelDone
<1>3. /\ loop_wq \in Seq(Reqs) /\ Distinct(loop_wq) /\ Right(r)
  BY Zenon DEF PoolInv, PoolTypes, Placed, OnceEach
<1>4. Removed(r) /\ \A x : Removed(x) <=> x = r
  BY <1>1, Zenon DEF Removed, Pool!Removed
<1>5. /\ work[r] = "cancelled" /\ ran[r] = 0 /\ ~InLoop(r) /\ ~InLocal(r)
      /\ called[r] = <<>>
  BY <1>3, <1>4, Zenon DEF Right, Somewhere, Apart, Progress, Waits
<1>6. ~InWq(r) /\ ~Held(r)
  <2>1. work[r] # "fn" /\ r # NoReq
    BY <1>5, PoolAssumption
  <2>2. ~Held(r)
    BY <2>1, Zenon DEF PoolInv, Placed, Running, Held
  <2> QED BY <2>1, <2>2, <1>3, Zenon DEF Right, Progress
<1>7. /\ loop_wq' \in Seq(Reqs) /\ Distinct(loop_wq')
      /\ \A x : Pool!In(x, loop_wq') <=> Pool!In(x, loop_wq) \/ x = r
  <2>1. ~Pool!In(r, loop_wq)
    BY <1>5, Zenon DEF InLoop
  <2> QED BY <1>2, <1>3, <2>1, AppendQueue
<1>8. PoolTypes' /\ Sleeping'
  BY <1>2, <1>7, Zenon DEF PoolInv, PoolTypes, Sleeping
<1>9. /\ \A x : InLoop(x)' <=> InLoop(x) \/ x = r
      /\ \A x : ~Removed(x)'
      /\ \A x : (InWq(x)' <=> InWq(x)) /\ (Held(x)' <=> Held(x))
                /\ (InLocal(x)' <=> InLocal(x))
  BY <1>2, <1>7, Zenon DEF InLoop, InWq, Held, InLocal, Removed, Pool!Removed
<1>10. OthersStay(r)
  BY <1>2, <1>4, <1>9, Zenon DEF OthersStay
<1>11. Right(r)'
  <2>1. /\ ~InWq(r)' /\ ~Held(r)' /\ InLoop(r)' /\ ~InLocal(r)' /\ ~Removed(r)'
        /\ called'[r] = <<>> /\ work'[r] = "cancelled" /\ ran'[r] = 0
    BY <1>2, <1>5, <1>6, <1>9, Zenon
  <2>2. "cancelled" # "none" /\ <<>> # <<"UV_ECANCELED">> /\ <<>> # <<"0">>
    OBVIOUS
  <2>3. Somewhere(r)' /\ Apart(r)'
    BY <2>1, <2>2, Zenon DEF Somewhere, Apart, Waits
  <2>4. Progress(r)'
    BY <2>1, <2>2, Zenon DEF Progress, Over
  <2> QED BY <2>3, <2>4, Zenon DEF Right
<1>12. OnceEach' /\ TurnDone' /\ Running'
  BY <1>2, <1>7, Zenon DEF PoolInv, Placed, OnceEach, TurnDone, Running
<1>13. Placed'
  BY <1>10, <1>11, <1>12, PlacedMove, Zenon DEF PoolInv
<1> QED BY <1>8, <1>13, Zenon DEF PoolInv

\* uv__work_done takes over the loop's queue; its own is empty by then.
LEMMA WorkDoneKeeps ==
  ASSUME PoolInv, Pool!uv__work_done
  PROVE  PoolInv'
<1>1. /\ pool_at = "loop" /\ pool_at' = "done" /\ local' = loop_wq /\ loop_wq' = <<>>
      /\ UNCHANGED <<idle_threads, pool_pc, job, work, cancelling, ran, called, wq>>
  BY Zenon DEF Pool!uv__work_done
<1>2. /\ loop_wq \in Seq(Reqs) /\ Distinct(loop_wq) /\ local = <<>>
  BY <1>1, Zenon DEF PoolInv, PoolTypes, Placed, OnceEach, TurnDone
<1>3. \A x : ~Pool!In(x, <<>>) /\ Distinct(<<>>) /\ <<>> \in Seq(Reqs)
  BY DEF Pool!In, Distinct
<1>4. PoolTypes' /\ Sleeping'
  BY <1>1, <1>2, <1>3, Zenon DEF PoolInv, PoolTypes, Sleeping
<1>5. /\ \A x : ~InLocal(x) /\ ~InLoop(x)' /\ (InLocal(x)' <=> InLoop(x))
      /\ \A x : (InWq(x)' <=> InWq(x)) /\ (Held(x)' <=> Held(x))
                /\ (Removed(x)' <=> Removed(x))
  BY <1>1, <1>2, <1>3, Zenon DEF InLoop, InLocal, InWq, Held, Removed, Pool!Removed
<1>6. ASSUME NEW x \in Reqs PROVE Right(x)'
  <2>1. Right(x)
    BY Zenon DEF PoolInv, Placed
  <2>2. Somewhere(x)' /\ Apart(x)'
    BY <1>1, <1>5, <2>1, Zenon DEF Right, Somewhere, Apart, Waits
  <2>3. Progress(x)'
    BY <1>1, <1>5, <2>1, Zenon DEF Right, Progress, Over
  <2> QED BY <2>2, <2>3, Zenon DEF Right
<1>7. OnceEach' /\ Running'
  BY <1>1, <1>2, <1>3, Zenon DEF PoolInv, Placed, OnceEach, Running
<1>8. TurnDone'
  <2>1. pool_at' # "loop"
    BY <1>1
  <2> QED BY <2>1, Zenon DEF TurnDone
<1> QED BY <1>4, <1>6, <1>7, <1>8, Zenon DEF PoolInv, Placed

\* A request is called back, with the status that tells whether it ran.
LEMMA DoneCallbackKeeps ==
  ASSUME PoolInv, Pool!DoneCallback
  PROVE  PoolInv'
<1>1. /\ local # <<>> /\ local' = Tail(local) /\ pool_at' = "cb"
      /\ called' = [called EXCEPT ![Head(local)] = Append(@,
                      IF work[Head(local)] = "cancelled" THEN "UV_ECANCELED" ELSE "0")]
      /\ UNCHANGED <<idle_threads, pool_pc, job, work, cancelling, ran, wq, loop_wq>>
  BY Zenon DEF Pool!DoneCallback
<1>2. /\ local \in Seq(Reqs) /\ Distinct(local)
      /\ called \in [Reqs -> {<<>>, <<"0">>, <<"UV_ECANCELED">>}]
  BY Zenon DEF PoolInv, PoolTypes, Placed, OnceEach
<1>3. /\ Head(local) \in Reqs /\ local' \in Seq(Reqs)
      /\ Pool!In(Head(local), local) /\ Distinct(local')
      /\ \A x \in Reqs : Pool!In(x, local') <=> Pool!In(x, local) /\ x # Head(local)
  BY <1>1, <1>2, TailQueue
<1>4. PICK r \in Reqs : r = Head(local)
  BY <1>3, Zenon
<1>5. /\ InLocal(r) /\ Right(r)
  BY <1>3, <1>4, Zenon DEF InLocal, PoolInv, Placed
<1>6. /\ called[r] = <<>> /\ ~InLoop(r) /\ ~Removed(r) /\ Over(r) /\ work[r] # "none"
  BY <1>5, Zenon DEF Right, Somewhere, Apart, Progress, Waits
<1>7. ~InWq(r) /\ ~Held(r)
  <2>1. work[r] # "fn" /\ r # NoReq
    BY <1>6, PoolAssumption DEF Over
  <2>2. ~Held(r)
    BY <2>1, Zenon DEF PoolInv, Placed, Running, Held
  <2> QED BY <2>1, <2>2, <1>5, Zenon DEF Right, Progress
<1>8. /\ called' \in [Reqs -> {<<>>, <<"0">>, <<"UV_ECANCELED">>}]
      /\ called'[r] = IF work[r] = "cancelled" THEN <<"UV_ECANCELED">> ELSE <<"0">>
      /\ \A x \in Reqs : x # r => called'[x] = called[x]
  <2>1. Append(<<>>, "UV_ECANCELED") = <<"UV_ECANCELED">> /\ Append(<<>>, "0") = <<"0">>
    OBVIOUS
  <2>2. called' = [called EXCEPT ![r] = Append(called[r],
                     IF work[r] = "cancelled" THEN "UV_ECANCELED" ELSE "0")]
    BY <1>1, <1>4, Zenon
  <2>3. called' = [called EXCEPT ![r] =
                     IF work[r] = "cancelled" THEN <<"UV_ECANCELED">> ELSE <<"0">>]
    <3>1. CASE work[r] = "cancelled"
      BY <3>1, <2>1, <2>2, <1>6, Zenon
    <3>2. CASE work[r] # "cancelled"
      BY <3>2, <2>1, <2>2, <1>6, Zenon
    <3> QED BY <3>1, <3>2, Zenon
  <2> QED BY <2>3, <1>2, Zenon
<1>9. PoolTypes' /\ Sleeping'
  BY <1>1, <1>3, <1>8, Zenon DEF PoolInv, PoolTypes, Sleeping
<1>10. /\ \A x \in Reqs : InLocal(x)' <=> InLocal(x) /\ x # r
       /\ \A x : (InWq(x)' <=> InWq(x)) /\ (Held(x)' <=> Held(x))
       /\ \A x : (InLoop(x)' <=> InLoop(x)) /\ (Removed(x)' <=> Removed(x))
  BY <1>1, <1>3, <1>4, Zenon DEF InLocal, InWq, Held, InLoop, Removed, Pool!Removed
<1>11. OthersStay(r)
  BY <1>1, <1>8, <1>10, Zenon DEF OthersStay
<1>12. Right(r)'
  <2>1. /\ ~InWq(r)' /\ ~Held(r)' /\ ~InLoop(r)' /\ ~InLocal(r)' /\ ~Removed(r)'
        /\ work'[r] = work[r] /\ ran'[r] = ran[r]
    BY <1>1, <1>6, <1>7, <1>10, Zenon
  <2>2. /\ called'[r] # <<>>
        /\ called'[r] = <<"0">> => ran[r] = 1
        /\ called'[r] = <<"UV_ECANCELED">> => ran[r] = 0
    BY <1>6, <1>8 DEF Over
  <2>3. Somewhere(r)' /\ Apart(r)'
    BY <2>1, <2>2, Zenon DEF Somewhere, Apart, Waits
  <2>4. Progress(r)'
    BY <2>1, <2>2, <1>6, Zenon DEF Progress
  <2> QED BY <2>3, <2>4, Zenon DEF Right
<1>13. OnceEach' /\ Running'
  BY <1>1, <1>3, Zenon DEF PoolInv, Placed, OnceEach, Running
<1>14. TurnDone'
  <2>1. pool_at' # "loop"
    BY <1>1
  <2> QED BY <2>1, Zenon DEF TurnDone
<1>15. Placed'
  BY <1>11, <1>12, <1>13, <1>14, PlacedMove, Zenon DEF PoolInv
<1> QED BY <1>9, <1>15, Zenon DEF PoolInv

-----------------------------------------------------------------------------
(* The invariant holds, and what follows from it.                          *)

\* Before the first submission.
LEMMA PoolStarts ==
  ASSUME Pool!Init
  PROVE  PoolInv
<1>1. /\ wq = <<>> /\ loop_wq = <<>> /\ local = <<>> /\ idle_threads = 0
      /\ pool_pc = [w \in Workers |-> "unborn"] /\ job = [w \in Workers |-> NoReq]
      /\ work = [r \in Reqs |-> "none"] /\ ran = [r \in Reqs |-> 0]
      /\ called = [r \in Reqs |-> <<>>] /\ cancelling = NoReq
  BY Zenon DEF Pool!Init
<1>2. \A S : <<>> \in Seq(S) /\ Distinct(<<>>) /\ \A x : ~Pool!In(x, <<>>)
  BY DEF Pool!In, Distinct
<1>3. PoolTypes
  <2>1. "unborn" \in PcStates
    BY Zenon DEF PcStates
  <2> QED BY <1>1, <1>2, <2>1, Zenon DEF PoolTypes
<1>4. \A x \in Reqs : /\ ~InWq(x) /\ ~InLoop(x) /\ ~InLocal(x) /\ ~Removed(x)
                      /\ ~Held(x)
  BY <1>1, <1>2, PoolAssumption, Zenon DEF InWq, InLoop, InLocal, Removed, Pool!Removed, Held
<1>5. ASSUME NEW r \in Reqs PROVE Right(r)
  <2>1. work[r] = "none" /\ ran[r] = 0 /\ called[r] = <<>> /\ <<>> # <<"0">>
    BY <1>1
  <2>2. Somewhere(r) /\ Apart(r)
    BY <1>4, <2>1, Zenon DEF Somewhere, Apart, Waits
  <2>3. Progress(r)
    BY <1>4, <2>1, Zenon DEF Progress
  <2> QED BY <2>2, <2>3, Zenon DEF Right
<1>6. OnceEach
  BY <1>1, <1>2, Zenon DEF OnceEach
<1>7. Running
  BY <1>1, PcFacts, Zenon DEF Running
<1>8. Placed
  BY <1>1, <1>5, <1>6, <1>7, Zenon DEF Placed, TurnDone
<1>9. Sleeping
  <2>1. Of(pool_pc, Idle) = {} /\ Of(pool_pc, Asleep) = {}
    BY <1>1, PcFacts, Zenon DEF Of
  <2>2. Many(pool_pc, Idle) = 0
    BY <2>1, SomeCount, Zenon
  <2> QED BY <1>1, <2>1, <2>2, Zenon DEF Sleeping
<1> QED BY <1>3, <1>8, <1>9, Zenon DEF PoolInv

\* Every step of the workers and of the loop thread keeps it.
LEMMA PoolSteps ==
  ASSUME PoolInv, [Pool!Next]_(Pool!vars)
  PROVE  PoolInv'
<1>1. CASE UNCHANGED Pool!vars
  <2>1. /\ UNCHANGED <<wq, loop_wq, local, job, work, ran, called, pool_pc, idle_threads,
                       pool_at>>
        /\ cancelling' = cancelling
    BY <1>1, Zenon DEF Pool!vars, Pool!queues
  <2>2. /\ cancelling' \in [req : Reqs, step : {"locked", "removed"}] \cup {NoReq}
        /\ TurnDone' /\ \A x \in Reqs : Removed(x)' <=> Removed(x)
    BY <2>1, Zenon DEF PoolInv, PoolTypes, Placed, TurnDone, Removed, Pool!Removed
  <2> QED BY <2>1, <2>2, LoopQuiet, Zenon
<1>2. ASSUME NEW w \in Workers, Pool!worker(w) \/ Pool!SpuriousWakeup(w)
      PROVE  PoolInv'
  BY <1>2, WaitKeeps, TakeExitKeeps, TakeWorkKeeps, QueueWorkKeeps, LockLoopKeeps,
     FinishKeeps, SpuriousWakeupKeeps, Zenon DEF Pool!worker
<1>3. CASE Pool!Loop
  BY <1>3, CancelRemoves, CancelBusyKeeps, CancelDoneKeeps, WorkDoneKeeps,
     DoneCallbackKeeps, ReturnKeeps, Zenon DEF Pool!Loop
<1>4. ASSUME NEW r \in Reqs, Pool!uv__work_submit(r) \/ Pool!uv_cancel(r)
      PROVE  PoolInv'
  BY <1>4, SubmitKeeps, CancelKeeps, Zenon
<1>5. CASE Pool!cleanup
  BY <1>5, CleanupKeeps, Zenon
<1> QED BY <1>1, <1>2, <1>3, <1>4, <1>5, Zenon DEF Pool!Next

\* A request that is somewhere is nowhere else.
LEMMA NowhereElse ==
  ASSUME PoolInv, NEW r \in Reqs
  PROVE  /\ InWq(r) => ~Held(r) /\ ~InLoop(r) /\ ~InLocal(r) /\ ~Removed(r)
         /\ Held(r) => ~InWq(r) /\ ~InLoop(r) /\ ~InLocal(r) /\ ~Removed(r)
         /\ InLoop(r) => ~InWq(r) /\ ~Held(r) /\ ~InLocal(r) /\ ~Removed(r)
         /\ InLocal(r) => ~InWq(r) /\ ~Held(r) /\ ~InLoop(r) /\ ~Removed(r)
<1>1. Right(r) /\ r # NoReq
  BY PoolAssumption, Zenon DEF PoolInv, Placed
<1>2. Held(r) => work[r] = "fn"
  BY <1>1, Zenon DEF PoolInv, Placed, Running, Held
<1>3. work[r] = "fn" => ~Over(r) /\ work[r] # "cancelled"
  BY DEF Over
<1> QED BY <1>1, <1>2, <1>3, Zenon DEF Right, Apart, Progress

\* The instance of FiniteSets that ThreadPool extends is the one of this module.
LEMMA SameCardinality ==
  ASSUME NEW S
  PROVE  Pool!Cardinality(S) = Cardinality(S)
  BY Zenon DEF Pool!Cardinality, Cardinality, Pool!IsFiniteSet, IsFiniteSet

\* One place, and a pair for it.
LEMMA OnePair ==
  ASSUME NEW t, NEW x
  PROVE  {t} \X {x} = {<<t, x>>} /\ {t} \X {} = {}
  OBVIOUS

\* What the queues have of a request that is linked once or not at all.
LEMMA EntriesOf ==
  ASSUME NEW q, Distinct(q), NEW r \in Reqs
  PROVE  /\ ~Pool!In(r, q) => Pool!Entries(q, r) = {}
         /\ Pool!In(r, q) => \E i : Pool!Entries(q, r) = {i}
<1>1. ASSUME ~Pool!In(r, q) PROVE Pool!Entries(q, r) = {}
  BY <1>1, Zenon DEF Pool!Entries, Pool!In
<1>2. ASSUME Pool!In(r, q) PROVE \E i : Pool!Entries(q, r) = {i}
  <2>1. PICK i \in 1 .. Len(q) : q[i] = r
    BY <1>2, Zenon DEF Pool!In
  <2>2. Pool!Entries(q, r) = {i}
    BY <2>1, Zenon DEF Pool!Entries, Distinct
  <2> QED BY <2>2, Zenon
<1> QED BY <1>1, <1>2, Zenon

\* A request waits for its callback in one place, or in none.
LEMMA PlacesCounted ==
  ASSUME PoolInv, NEW r \in Reqs
  PROVE  Cardinality(Pool!Places(r)) = IF Waits(r) THEN 1 ELSE 0
<1> DEFINE A == Pool!Entries(wq, r)
           B == Pool!Entries(loop_wq, r)
           C == Pool!Entries(local, r)
           D == {w \in Workers : job[w] = r}
           E == {x \in {r} : Pool!Removed(x)}
<1>1. Pool!Places(r) = UNION {{"wq"} \X A, {"loop_wq"} \X B, {"local"} \X C,
                              {"worker"} \X D, {"uv_cancel"} \X E}
  BY Zenon DEF Pool!Places
<1>2. /\ ~InWq(r) => A = {}
      /\ InWq(r) => \E i : A = {i}
  BY EntriesOf, Zenon DEF PoolInv, Placed, OnceEach, InWq
<1>3. /\ ~InLoop(r) => B = {}
      /\ InLoop(r) => \E i : B = {i}
  BY EntriesOf, Zenon DEF PoolInv, Placed, OnceEach, InLoop
<1>4. /\ ~InLocal(r) => C = {}
      /\ InLocal(r) => \E i : C = {i}
  BY EntriesOf, Zenon DEF PoolInv, Placed, OnceEach, InLocal
<1>5. /\ ~Held(r) => D = {}
      /\ Held(r) => \E i : D = {i}
  BY PoolAssumption, Zenon DEF PoolInv, Placed, OnceEach, Held
<1>6. /\ ~Removed(r) => E = {}
      /\ Removed(r) => E = {r}
  BY Zenon DEF Removed
<1> HIDE DEF A, B, C, D, E
<1>7. /\ Waits(r) <=> InWq(r) \/ Held(r) \/ InLoop(r) \/ InLocal(r) \/ Removed(r)
      /\ Waits(r) \in BOOLEAN
  BY Zenon DEF PoolInv, Placed, Right, Somewhere, Waits
<1>8. CASE ~Waits(r)
  <2>1. Pool!Places(r) = {}
    BY <1>1, <1>2, <1>3, <1>4, <1>5, <1>6, <1>7, <1>8, OnePair
  <2> QED BY <2>1, <1>8, FS_EmptySet
<1>9. CASE Waits(r)
  <2>1. \E p : Pool!Places(r) = {p}
    <3>1. CASE InWq(r)
      <4>1. B = {} /\ C = {} /\ D = {} /\ E = {}
        BY <3>1, <1>3, <1>4, <1>5, <1>6, NowhereElse, Zenon
      <4>2. PICK i : A = {i}
        BY <3>1, <1>2, Zenon
      <4>3. /\ {"wq"} \X A = {<<"wq", i>>} /\ {"loop_wq"} \X B = {} /\ {"local"} \X C = {}
            /\ {"worker"} \X D = {} /\ {"uv_cancel"} \X E = {}
        BY <4>1, <4>2, OnePair, Zenon
      <4>4. Pool!Places(r) = {<<"wq", i>>}
        BY <1>1, <4>3
      <4> QED BY <4>4, Zenon
    <3>2. CASE InLoop(r)
      <4>1. A = {} /\ C = {} /\ D = {} /\ E = {}
        BY <3>2, <1>2, <1>4, <1>5, <1>6, NowhereElse, Zenon
      <4>2. PICK i : B = {i}
        BY <3>2, <1>3, Zenon
      <4>3. /\ {"wq"} \X A = {} /\ {"loop_wq"} \X B = {<<"loop_wq", i>>} /\ {"local"} \X C = {}
            /\ {"worker"} \X D = {} /\ {"uv_cancel"} \X E = {}
        BY <4>1, <4>2, OnePair, Zenon
      <4>4. Pool!Places(r) = {<<"loop_wq", i>>}
        BY <1>1, <4>3
      <4> QED BY <4>4, Zenon
    <3>3. CASE InLocal(r)
      <4>1. A = {} /\ B = {} /\ D = {} /\ E = {}
        BY <3>3, <1>2, <1>3, <1>5, <1>6, NowhereElse, Zenon
      <4>2. PICK i : C = {i}
        BY <3>3, <1>4, Zenon
      <4>3. /\ {"wq"} \X A = {} /\ {"loop_wq"} \X B = {} /\ {"local"} \X C = {<<"local", i>>}
            /\ {"worker"} \X D = {} /\ {"uv_cancel"} \X E = {}
        BY <4>1, <4>2, OnePair, Zenon
      <4>4. Pool!Places(r) = {<<"local", i>>}
        BY <1>1, <4>3
      <4> QED BY <4>4, Zenon
    <3>4. CASE Held(r)
      <4>1. A = {} /\ B = {} /\ C = {} /\ E = {}
        BY <3>4, <1>2, <1>3, <1>4, <1>6, NowhereElse, Zenon
      <4>2. PICK i : D = {i}
        BY <3>4, <1>5, Zenon
      <4>3. /\ {"wq"} \X A = {} /\ {"loop_wq"} \X B = {} /\ {"local"} \X C = {}
            /\ {"worker"} \X D = {<<"worker", i>>} /\ {"uv_cancel"} \X E = {}
        BY <4>1, <4>2, OnePair, Zenon
      <4>4. Pool!Places(r) = {<<"worker", i>>}
        BY <1>1, <4>3
      <4> QED BY <4>4, Zenon
    <3>5. CASE Removed(r)
      <4>1. A = {} /\ B = {} /\ C = {} /\ D = {} /\ E = {r}
        BY <3>5, <1>2, <1>3, <1>4, <1>5, <1>6, NowhereElse, Zenon
      <4>3. /\ {"wq"} \X A = {} /\ {"loop_wq"} \X B = {} /\ {"local"} \X C = {}
            /\ {"worker"} \X D = {} /\ {"uv_cancel"} \X E = {<<"uv_cancel", r>>}
        BY <4>1, OnePair, Zenon
      <4>4. Pool!Places(r) = {<<"uv_cancel", r>>}
        BY <1>1, <4>3
      <4> QED BY <4>4, Zenon
    <3> QED BY <1>7, <1>9, <3>1, <3>2, <3>3, <3>4, <3>5, Zenon
  <2> QED BY <2>1, <1>9, FS_Singleton, Zenon
<1> QED BY <1>8, <1>9

\* The thread pool keeps its requests: the work and the callback of each run at
\* most once and never both run and cancelled, whichever of uv_cancel and the
\* workers is first; a request waits in one place; and no worker sleeps while
\* there are more requests in the queue than workers on their way to it.
THEOREM PoolKeepsRequests == Pool!Spec => []PoolSound
<1>1. ASSUME PoolInv PROVE PoolSound
  <2>1. Pool!DoneOnce
    <3> SUFFICES ASSUME NEW r \in Reqs
                 PROVE  /\ ran[r] <= 1
                        /\ \/ called[r] = <<>>
                           \/ called[r] = <<"0">> /\ ran[r] = 1
                           \/ called[r] = <<"UV_ECANCELED">> /\ ran[r] = 0
      BY Zenon DEF Pool!DoneOnce
    <3>1. /\ ran[r] \in {0, 1} /\ called[r] \in {<<>>, <<"0">>, <<"UV_ECANCELED">>}
          /\ called[r] = <<"0">> => ran[r] = 1
          /\ called[r] = <<"UV_ECANCELED">> => ran[r] = 0
      BY <1>1, Zenon DEF PoolInv, PoolTypes, Placed, Right, Progress
    <3>2. ran[r] <= 1
      BY <3>1
    <3> QED BY <3>1, <3>2, Zenon
  <2>2. Pool!OnePlace
    <3>1. \A r \in Reqs : Cardinality(Pool!Places(r)) = IF Waits(r) THEN 1 ELSE 0
      BY <1>1, PlacesCounted, Zenon
    <3> QED BY <3>1, SameCardinality, Zenon DEF Pool!OnePlace, Waits
  <2>3. Pool!NoSleepOverWork
    <3>1. /\ Pool!At("wait") = Of(pool_pc, Asleep)
          /\ Pool!At("lock") \cup Pool!At("woken") = Of(pool_pc, Coming)
      BY DEF Pool!At, Of, Asleep, Coming
    <3>2. Of(pool_pc, Asleep) # {} => Len(wq) <= Cardinality(Of(pool_pc, Coming))
      BY <1>1, Zenon DEF PoolInv, Sleeping, Many
    <3> QED BY <3>1, <3>2, SameCardinality, Zenon DEF Pool!NoSleepOverWork
  <2> QED BY <2>1, <2>2, <2>3, Zenon DEF PoolSound
<1>2. Pool!Init => PoolInv
  BY PoolStarts, Zenon
<1>3. PoolInv /\ [Pool!Next]_(Pool!vars) => PoolInv'
  BY PoolSteps, Zenon
<1> QED BY <1>1, <1>2, <1>3, PTL DEF Pool!Spec
================================================================================
