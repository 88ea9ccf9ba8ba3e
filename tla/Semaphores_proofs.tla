-------------------------- MODULE Semaphores_proofs --------------------------
(***************************************************************************)
(* Proofs that the scheduler and the semaphores keep every environment in  *)
(* one place and never lose a wake-up, for any set of environments and     *)
(* names, any length of the semaphore array and any largest value; then    *)
(* about the test programs that run on them; and last about the command    *)
(* prompt, to which the scheduler returns: the commands leave the kernel's *)
(* settings consistent, in any order and number.                           *)
(***************************************************************************)
EXTENDS SemaphorePrograms, CommandPrompt, SequenceTheorems,
        WellFoundedInduction, FiniteSetTheorems, TLAPS

-----------------------------------------------------------------------------
(***************************************************************************)
(* What the queue operations of sched.c do to the contents of a queue.     *)
(***************************************************************************)
LEMMA EmptyQueue == ToSet(<<>>) = {} /\ NoDuplicates(<<>>) /\ Len(<<>>) = 0
  BY DEF ToSet, NoDuplicates

LEMMA ContentsOfQueue ==
  ASSUME NEW S, NEW q \in Seq(S)
  PROVE  /\ ToSet(q) \subseteq S
         /\ q = <<>> <=> ToSet(q) = {}
  BY DEF ToSet

(* enqueue() adds the environment, and links it once if it was not there. *)
LEMMA EnqueueAdds ==
  ASSUME NEW S, NEW q \in Seq(S), NEW e \in S
  PROVE  /\ enqueue(q, e) \in Seq(S)
         /\ enqueue(q, e) # <<>>
         /\ Len(enqueue(q, e)) = Len(q) + 1
         /\ ToSet(enqueue(q, e)) = ToSet(q) \cup {e}
         /\ NoDuplicates(q) /\ e \notin ToSet(q) => NoDuplicates(enqueue(q, e))
<1> DEFINE r == enqueue(q, e)
<1>1. /\ r \in Seq(S)
      /\ Len(r) = Len(q) + 1
      /\ DOMAIN r = 1 .. Len(q) + 1
      /\ \A i \in 1 .. Len(q) + 1 : r[i] = IF i = 1 THEN e ELSE q[i - 1]
  BY DEF enqueue, Cons
<1>2. ToSet(r) = ToSet(q) \cup {e}
  <2>1. \A i \in DOMAIN q : i + 1 \in DOMAIN r /\ r[i + 1] = q[i]
    BY <1>1
  <2>2. ToSet(q) \cup {e} \subseteq ToSet(r)
    BY <1>1, <2>1 DEF ToSet
  <2>3. ToSet(r) \subseteq ToSet(q) \cup {e}
    BY <1>1 DEF ToSet
  <2> QED BY <2>2, <2>3
<1>3. NoDuplicates(q) /\ e \notin ToSet(q) => NoDuplicates(r)
  BY <1>1 DEF NoDuplicates, ToSet
<1> QED BY <1>1, <1>2, <1>3

(* dequeue() takes the last element out. *)
LEMMA DequeueRemoves ==
  ASSUME NEW S, NEW q \in Seq(S), q # <<>>
  PROVE  /\ dequeue(q) \in Seq(S)
         /\ Len(dequeue(q)) = Len(q) - 1
         /\ dequeued(q) \in ToSet(q)
         /\ dequeued(q) \in S
         /\ NoDuplicates(q) => /\ ToSet(dequeue(q)) = ToSet(q) \ {dequeued(q)}
                               /\ NoDuplicates(dequeue(q))
<1> DEFINE r == dequeue(q)
           n == Len(q)
<1>1. /\ n \in Nat \ {0}
      /\ DOMAIN q = 1 .. n
      /\ r \in Seq(S)
      /\ Len(r) = n - 1
      /\ DOMAIN r = 1 .. n - 1
      /\ \A i \in 1 .. n - 1 : r[i] = q[i]
  <2>1. n \in Nat \ {0} /\ DOMAIN q = 1 .. n /\ \A i \in 1 .. n : q[i] \in S
    BY EmptySeq, LenProperties
  <2>2. /\ SubSeq(q, 1, n - 1) \in Seq(S)
        /\ Len(SubSeq(q, 1, n - 1)) = n - 1
        /\ \A i \in 1 .. n - 1 : SubSeq(q, 1, n - 1)[i] = q[i]
    BY <2>1, SubSeqProperties
  <2> QED BY <2>1, <2>2, LenProperties DEF dequeue, Front
<1>2. dequeued(q) = q[n] /\ q[n] \in ToSet(q) /\ q[n] \in S
  BY <1>1 DEF dequeued, Last, ToSet
<1>3. ASSUME NoDuplicates(q)
      PROVE  ToSet(r) = ToSet(q) \ {q[n]} /\ NoDuplicates(r)
  <2>1. \A i \in 1 .. n - 1 : q[i] # q[n]
    BY <1>1, <1>3 DEF NoDuplicates
  <2>2. ToSet(r) \subseteq ToSet(q) \ {q[n]}
    BY <1>1, <2>1 DEF ToSet
  <2>3. ToSet(q) \ {q[n]} \subseteq ToSet(r)
    BY <1>1 DEF ToSet
  <2>4. NoDuplicates(r)
    BY <1>1, <1>3 DEF NoDuplicates
  <2> QED BY <2>2, <2>3, <2>4
<1> QED BY <1>1, <1>2, <1>3

(* LIST_REMOVE takes exactly the given element out. *)
LEMMA RemoveRemoves ==
  ASSUME NEW S, NEW q \in Seq(S), NEW e, e \in ToSet(q), NoDuplicates(q)
  PROVE  /\ remove_from_queue(q, e) \in Seq(S)
         /\ ToSet(remove_from_queue(q, e)) = ToSet(q) \ {e}
         /\ NoDuplicates(remove_from_queue(q, e))
<1> DEFINE k == CHOOSE i \in DOMAIN q : q[i] = e
           r == remove_from_queue(q, e)
           n == Len(q)
<1>1. k \in 1 .. n /\ q[k] = e /\ n \in Nat /\ DOMAIN q = 1 .. n
  BY LenProperties DEF ToSet
<1> HIDE DEF k
<1> \A i \in 1 .. n : q[i] \in S
  BY ElementOfSeq
<1>2. /\ SubSeq(q, 1, k - 1) \in Seq(S)
      /\ Len(SubSeq(q, 1, k - 1)) = k - 1
      /\ \A i \in 1 .. k - 1 : SubSeq(q, 1, k - 1)[i] = q[i]
  BY <1>1, SubSeqProperties
<1>3. /\ SubSeq(q, k + 1, n) \in Seq(S)
      /\ Len(SubSeq(q, k + 1, n)) = n - k
      /\ \A i \in 1 .. n - k : SubSeq(q, k + 1, n)[i] = q[k + i]
  <2> DEFINE a == k + 1
  <2>1. a \in Int /\ n \in Int /\ \A i \in a .. n : q[i] \in S
    BY <1>1
  <2> HIDE DEF a, n
  <2>2. /\ SubSeq(q, a, n) \in Seq(S)
        /\ Len(SubSeq(q, a, n)) = IF a <= n THEN n - a + 1 ELSE 0
        /\ \A i \in 1 .. n - a + 1 : SubSeq(q, a, n)[i] = q[a + i - 1]
    BY <2>1, SubSeqProperties
  <2>3. n - a + 1 = n - k /\ \A i \in 1 .. n - k : a + i - 1 = k + i
    BY <1>1 DEF a
  <2> QED BY <1>1, <2>2, <2>3 DEF a
<1>4. r = SubSeq(q, 1, k - 1) \o SubSeq(q, k + 1, n)
  BY DEF remove_from_queue, RemoveAt, k
<1>5. /\ r \in Seq(S)
      /\ DOMAIN r = 1 .. n - 1
      /\ \A i \in 1 .. n - 1 : r[i] = IF i < k THEN q[i] ELSE q[i + 1]
  <2> DEFINE s1 == SubSeq(q, 1, k - 1)
             s2 == SubSeq(q, k + 1, n)
  <2>1. s1 \in Seq(S) /\ s2 \in Seq(S) /\ Len(s1) = k - 1 /\ Len(s2) = n - k
    BY <1>2, <1>3
  <2>2. /\ \A i \in 1 .. k - 1 : s1[i] = q[i]
        /\ \A i \in 1 .. n - k : s2[i] = q[k + i]
    BY <1>2, <1>3
  <2> HIDE DEF s1, s2
  <2>3. /\ r \in Seq(S)
        /\ Len(r) = Len(s1) + Len(s2)
        /\ \A i \in 1 .. Len(s1) + Len(s2) :
              r[i] = IF i <= Len(s1) THEN s1[i] ELSE s2[i - Len(s1)]
    BY <1>4, <2>1, ConcatProperties DEF s1, s2
  <2> HIDE DEF r, n
  <2>4. Len(r) = n - 1 /\ Len(s1) + Len(s2) = n - 1
    BY <1>1, <2>1, <2>3
  <2>5. ASSUME NEW i \in 1 .. n - 1, i >= k
        PROVE  r[i] = q[i + 1]
    <3>1. i - (k - 1) \in 1 .. n - k /\ k + (i - (k - 1)) = i + 1 /\ ~(i <= k - 1)
      BY <1>1, <2>5
    <3> QED BY <1>1, <2>1, <2>2, <2>3, <2>4, <3>1
  <2>6. ASSUME NEW i \in 1 .. n - 1, i < k
        PROVE  r[i] = q[i]
    BY <1>1, <2>1, <2>2, <2>3, <2>4, <2>6
  <2> QED BY <1>1, <2>3, <2>4, <2>5, <2>6, LenProperties
<1> HIDE DEF r
<1>6. ToSet(r) = ToSet(q) \ {e}
  <2>1. \A i \in 1 .. n : i # k => q[i] # e
    BY <1>1 DEF NoDuplicates
  <2>2. ToSet(r) \subseteq ToSet(q) \ {e}
    BY <1>1, <1>5, <2>1 DEF ToSet
  <2>3. \A i \in 1 .. n : i # k => q[i] \in ToSet(r)
    <3> SUFFICES ASSUME NEW i \in 1 .. n, i # k PROVE q[i] \in ToSet(r)
      OBVIOUS
    <3>1. CASE i < k
      BY <1>1, <1>5, <3>1 DEF ToSet
    <3>2. CASE i > k
      <4>1. i - 1 \in DOMAIN r /\ r[i - 1] = q[i]
        BY <1>1, <1>5, <3>2
      <4> QED BY <4>1 DEF ToSet
    <3> QED BY <1>1, <3>1, <3>2
  <2>4. ToSet(q) \ {e} \subseteq ToSet(r)
    BY <1>1, <2>3 DEF ToSet
  <2> QED BY <2>2, <2>4
<1>7. NoDuplicates(r)
  <2> SUFFICES ASSUME NEW i \in 1 .. n - 1, NEW j \in 1 .. n - 1, r[i] = r[j]
               PROVE  i = j
    BY <1>5 DEF NoDuplicates
  <2> DEFINE a == IF i < k THEN i ELSE i + 1
             b == IF j < k THEN j ELSE j + 1
  <2>1. a \in 1 .. n /\ b \in 1 .. n /\ r[i] = q[a] /\ r[j] = q[b]
    BY <1>1, <1>5
  <2>2. a = b
    BY <1>1, <2>1 DEF NoDuplicates
  <2> QED BY <1>1, <2>2
<1> QED BY <1>5, <1>6, <1>7 DEF r

(* sched_run_all() moves the whole NEW queue in front of the READY queue. *)
LEMMA ReverseAppends ==
  ASSUME NEW S, NEW q \in Seq(S), NEW r \in Seq(S)
  PROVE  /\ Reverse(q) \o r \in Seq(S)
         /\ ToSet(Reverse(q) \o r) = ToSet(q) \cup ToSet(r)
         /\ NoDuplicates(q) /\ NoDuplicates(r) /\ ToSet(q) \cap ToSet(r) = {}
              => NoDuplicates(Reverse(q) \o r)
<1> DEFINE n == Len(q)
           m == Len(r)
           v == Reverse(q)
           w == v \o r
<1>1. n \in Nat /\ m \in Nat /\ DOMAIN q = 1 .. n /\ DOMAIN r = 1 .. m
  OBVIOUS
<1>2. v \in Seq(S) /\ Len(v) = n /\ \A i \in 1 .. n : v[i] = q[n - i + 1]
  BY <1>1 DEF Reverse
<1>3. /\ w \in Seq(S)
      /\ DOMAIN w = 1 .. n + m
      /\ \A i \in 1 .. n + m : w[i] = IF i <= n THEN q[n - i + 1] ELSE r[i - n]
  BY <1>1, <1>2
<1> HIDE DEF w, v
<1>4. ToSet(w) = ToSet(q) \cup ToSet(r)
  <2>1. ToSet(w) \subseteq ToSet(q) \cup ToSet(r)
    <3> SUFFICES ASSUME NEW i \in 1 .. n + m PROVE w[i] \in ToSet(q) \cup ToSet(r)
      BY <1>3 DEF ToSet
    <3>1. CASE i <= n
      <4>1. n - i + 1 \in DOMAIN q /\ w[i] = q[n - i + 1]
        BY <1>1, <1>3, <3>1
      <4> QED BY <4>1 DEF ToSet
    <3>2. CASE i > n
      <4>1. i - n \in DOMAIN r /\ w[i] = r[i - n]
        BY <1>1, <1>3, <3>2
      <4> QED BY <4>1 DEF ToSet
    <3> QED BY <1>1, <3>1, <3>2
  <2>2. ASSUME NEW i \in 1 .. n
        PROVE  n - i + 1 \in DOMAIN w /\ w[n - i + 1] = q[i]
    <3> DEFINE k == n - i + 1
    <3>1. k \in 1 .. n + m /\ k <= n /\ n - k + 1 = i
      BY <1>1
    <3> HIDE DEF k
    <3>2. k \in DOMAIN w /\ w[k] = q[n - k + 1]
      BY <1>3, <3>1
    <3> QED BY <3>1, <3>2 DEF k
  <2>3. \A i \in 1 .. m : n + i \in DOMAIN w /\ w[n + i] = r[i]
    BY <1>1, <1>3, SMTT(30)
  <2>4. ToSet(q) \subseteq ToSet(w) /\ ToSet(r) \subseteq ToSet(w)
    BY <1>1, <2>2, <2>3 DEF ToSet
  <2> QED BY <2>1, <2>4
<1>5. ASSUME NoDuplicates(q), NoDuplicates(r), ToSet(q) \cap ToSet(r) = {},
             NEW i \in 1 .. n + m, NEW j \in 1 .. n + m, w[i] = w[j]
      PROVE  i = j
  <2>1. \A a \in 1 .. n, b \in 1 .. m : q[a] # r[b]
    BY <1>1, <1>5 DEF ToSet
  <2>2. CASE i <= n /\ j <= n
    <3>1. /\ n - i + 1 \in DOMAIN q /\ n - j + 1 \in DOMAIN q
          /\ w[i] = q[n - i + 1] /\ w[j] = q[n - j + 1]
      BY <1>1, <1>3, <2>2
    <3>2. n - i + 1 = n - j + 1
      BY <1>5, <3>1 DEF NoDuplicates
    <3> QED BY <1>1, <3>2
  <2>3. CASE i > n /\ j > n
    <3>1. /\ i - n \in DOMAIN r /\ j - n \in DOMAIN r
          /\ w[i] = r[i - n] /\ w[j] = r[j - n]
      BY <1>1, <1>3, <2>3
    <3>2. i - n = j - n
      BY <1>5, <3>1 DEF NoDuplicates
    <3> QED BY <1>1, <3>2
  <2>4. CASE i <= n /\ j > n
    <3>1. n - i + 1 \in 1 .. n /\ j - n \in 1 .. m
      BY <1>1, <2>4
    <3> QED BY <1>1, <1>3, <1>5, <2>1, <2>4, <3>1, SMTT(30)
  <2>5. CASE i > n /\ j <= n
    <3>1. n - j + 1 \in 1 .. n /\ i - n \in 1 .. m
      BY <1>1, <2>5
    <3> QED BY <1>1, <1>3, <1>5, <2>1, <2>5, <3>1, SMTT(30)
  <2> QED BY <1>1, <2>2, <2>3, <2>4, <2>5
<1>6. NoDuplicates(q) /\ NoDuplicates(r) /\ ToSet(q) \cap ToSet(r) = {}
        => NoDuplicates(w)
  BY <1>3, <1>5 DEF NoDuplicates
<1> QED BY <1>3, <1>4, <1>6 DEF w, v
-----------------------------------------------------------------------------
(***************************************************************************)
(* The inductive invariant.  Consistent says that a current environment, a *)
(* ready queue, the statuses, the NEW and the EXIT queue and the lost      *)
(* environments fit together.  It is stated of any such values, because    *)
(* fos_scheduler() is entered in the middle of a step: after a victim was  *)
(* taken out of its queue, or after curenv was set to NULL.                *)
(***************************************************************************)
Consistent(cur, ready, status, new, exit, lst) ==
  /\ cur \in Env \cup {NULL}
  /\ ready \in Seq(Env) /\ NoDuplicates(ready)
  /\ new \in Seq(Env) /\ NoDuplicates(new)
  /\ exit \in Seq(Env) /\ NoDuplicates(exit)
  /\ status \in [Env -> Status]
  /\ lst \subseteq Env
  /\ cur \notin ToSet(ready)
  /\ cur # NULL => status[cur] = "RUNNABLE"
  /\ \A e \in Env :
       /\ e \in ToSet(new) => status[e] = "NEW"
       /\ e \in ToSet(ready) => status[e] \in {"READY", "RUNNABLE"}
       /\ status[e] = "EXIT" <=> e \in ToSet(exit)
       /\ e \in lst => /\ status[e] \notin {"FREE", "EXIT", "BLOCKED"}
                       /\ e # cur /\ e \notin ToSet(ready) /\ e \notin ToSet(new)
       /\ status[e] # "FREE" =>
            \/ e = cur \/ e \in ToSet(ready) \/ e \in ToSet(new) \/ e \in lst
            \/ status[e] \in {"EXIT", "BLOCKED"}

SchedInv ==
  /\ Consistent(curenv, env_ready_queue, env_status, env_new_queue,
                env_exit_queue, lost)
  /\ if_cleared \subseteq Env
  /\ scheduler_status \in {"SCH_STOPPED", "SCH_STARTED"}
  /\ PromptIsIdle

SemInv ==
  /\ semaphores \in [Index -> Semaphore]
  /\ \A s \in Index : NoDuplicates(semaphores[s].env_queue)
  /\ \A s, t \in Index : s # t =>
       ToSet(semaphores[s].env_queue) \cap ToSet(semaphores[t].env_queue) = {}
  /\ ValueCountsWaiters
  /\ \A s \in Slot : semaphores[s].empty => semaphores[s].env_queue = <<>>
  /\ \A e \in Env : env_status[e] = "BLOCKED" <=> e \in Waiters

Inv == SchedInv /\ SemInv

(* The environments that are blocked on a semaphore stay the same. *)
BlockedKept(status) ==
  \A e \in Env : env_status'[e] = "BLOCKED" <=> status[e] = "BLOCKED"
-----------------------------------------------------------------------------
(* fos_scheduler() entered with consistent values leaves consistent ones,  *)
(* and falls to the prompt only when no environment is ready.              *)
LEMMA SchedulerKeeps ==
  ASSUME NEW cur, NEW ready, NEW status, NEW new, NEW exit, NEW lst,
         Consistent(cur, ready, status, new, exit, lst),
         fos_scheduler(cur, ready, status)
  PROVE  /\ Consistent(curenv', env_ready_queue', env_status', new, exit, lst)
         /\ PromptIsIdle'
         /\ scheduler_status' \in {"SCH_STOPPED", "SCH_STARTED"}
         /\ BlockedKept(status)
<1> DEFINE queue == IF cur = NULL THEN ready ELSE enqueue(ready, cur)
           R == ToSet(ready) \cup ({cur} \ {NULL})
<1>1. queue \in Seq(Env) /\ NoDuplicates(queue) /\ ToSet(queue) = R
  <2>1. CASE cur = NULL
    BY <2>1 DEF Consistent
  <2>2. CASE cur # NULL
    <3>1. cur \in Env /\ ready \in Seq(Env) /\ NoDuplicates(ready) /\ cur \notin ToSet(ready)
      BY <2>2 DEF Consistent
    <3>2. R = ToSet(ready) \cup {cur} /\ queue = enqueue(ready, cur)
      BY <2>2
    <3> HIDE DEF R, queue
    <3> QED BY <3>1, <3>2, EnqueueAdds, ZenonT(30)
  <2> QED BY <2>1, <2>2
<1>2. \A e \in R : e \in Env /\ status[e] \in {"READY", "RUNNABLE"} /\ e \notin lst
                   /\ e \notin ToSet(new) /\ e \notin ToSet(exit)
  BY ContentsOfQueue, NullAssumption DEF Consistent
<1>3. CASE queue # <<>>
  <2> DEFINE next == dequeued(queue)
             rest == dequeue(queue)
  <2> HIDE DEF queue
  <2>1. /\ next \in R
        /\ rest \in Seq(Env) /\ NoDuplicates(rest) /\ ToSet(rest) = R \ {next}
    BY <1>1, <1>3, DequeueRemoves
  <2>2. /\ curenv' = next /\ env_ready_queue' = rest
        /\ env_status' = [status EXCEPT ![next] = "RUNNABLE"]
        /\ scheduler_status' = "SCH_STARTED"
    BY <1>3 DEF fos_scheduler, env_run, queue
  <2> HIDE DEF next, rest
  <2>3. next \in Env /\ next # NULL
    BY <1>2, <2>1, NullAssumption
  <2>4. env_status' \in [Env -> Status] /\ env_status'[next] = "RUNNABLE"
        /\ \A e \in Env : e # next => env_status'[e] = status[e]
    BY <2>2, <2>3 DEF Consistent, Status
  <2>5. \A e \in Env : e \in R <=> e = next \/ e \in ToSet(rest)
    BY <2>1
  <2>6. Consistent(next, rest, env_status', new, exit, lst)
    <3> HIDE DEF R
    <3>1. \A e \in Env :
            /\ e \in ToSet(new) => env_status'[e] = "NEW"
            /\ e \in ToSet(rest) => env_status'[e] \in {"READY", "RUNNABLE"}
            /\ env_status'[e] = "EXIT" <=> e \in ToSet(exit)
      BY <1>2, <2>1, <2>4, <2>5 DEF Consistent
    <3>2. \A e \in lst : /\ env_status'[e] \notin {"FREE", "EXIT", "BLOCKED"}
                         /\ e # next /\ e \notin ToSet(rest) /\ e \notin ToSet(new)
      BY <1>2, <2>1, <2>4, <2>5 DEF Consistent
    <3>3. \A e \in Env : e = cur \/ e \in ToSet(ready) => e \in R
      BY NullAssumption DEF R
    <3>4. ASSUME NEW e \in Env, env_status'[e] # "FREE"
          PROVE  \/ e = next \/ e \in ToSet(rest) \/ e \in ToSet(new) \/ e \in lst
                 \/ env_status'[e] \in {"EXIT", "BLOCKED"}
      <4>1. CASE e = next
        BY <4>1
      <4>2. CASE e # next
        BY <2>4, <2>5, <3>3, <3>4, <4>2 DEF Consistent
      <4> QED BY <4>1, <4>2
    <3>5. /\ exit \in Seq(Env) /\ NoDuplicates(exit)
          /\ new \in Seq(Env) /\ NoDuplicates(new) /\ lst \subseteq Env
      BY DEF Consistent
    <3>6. next \notin ToSet(rest)
      BY <2>1
    <3> QED BY <2>1, <2>3, <2>4, <3>1, <3>2, <3>4, <3>5, <3>6 DEF Consistent
  <2>7. BlockedKept(status)
    BY <1>2, <2>1, <2>4 DEF BlockedKept
  <2> QED BY <2>2, <2>3, <2>6, <2>7 DEF PromptIsIdle
<1>4. CASE queue = <<>>
  <2>1. R = {}
    BY <1>1, <1>4, EmptyQueue
  <2>2. cur = NULL
    BY <2>1
  <2>3. /\ curenv' = NULL /\ env_status' = status /\ env_ready_queue' = <<>>
        /\ scheduler_status' = "SCH_STOPPED" /\ ready = <<>>
    BY <1>4, <2>2 DEF fos_scheduler
  <2> QED BY <2>2, <2>3 DEF PromptIsIdle, BlockedKept
<1> QED BY <1>3, <1>4

(* env_exit() of the current environment. *)
LEMMA ExitKeeps ==
  ASSUME NEW ready, NEW status, NEW new, NEW exit, NEW lst,
         Consistent(curenv, ready, status, new, exit, lst), curenv # NULL,
         env_exit(ready, exit, status)
  PROVE  /\ Consistent(curenv', env_ready_queue', env_status', new, env_exit_queue', lst)
         /\ PromptIsIdle'
         /\ scheduler_status' \in {"SCH_STOPPED", "SCH_STARTED"}
         /\ BlockedKept(status)
<1> DEFINE st == [status EXCEPT ![curenv] = "EXIT"]
           ex == enqueue(exit, curenv)
<1>1. curenv \in Env /\ curenv \notin ToSet(exit)
  BY DEF Consistent
<1>2. /\ st \in [Env -> Status] /\ st[curenv] = "EXIT"
      /\ \A e \in Env : e # curenv => st[e] = status[e]
  BY <1>1 DEF Consistent, Status
<1>3. ex \in Seq(Env) /\ NoDuplicates(ex) /\ ToSet(ex) = ToSet(exit) \cup {curenv}
  BY <1>1, EnqueueAdds DEF Consistent
<1>4. env_exit_queue' = ex /\ fos_scheduler(NULL, ready, st)
  BY DEF env_exit
<1> HIDE DEF st, ex
<1>5. Consistent(NULL, ready, st, new, ex, lst)
  <2>1. NULL \notin ToSet(ready)
    BY ContentsOfQueue, NullAssumption DEF Consistent
  <2>2. curenv \notin ToSet(new)
    BY <1>1 DEF Consistent
  <2> QED BY <1>1, <1>2, <1>3, <2>1, <2>2, NullAssumption DEF Consistent
<1>6. \A e \in Env : st[e] = "BLOCKED" <=> status[e] = "BLOCKED"
  BY <1>1, <1>2 DEF Consistent
<1> QED BY <1>4, <1>5, <1>6, SchedulerKeeps DEF BlockedKept

(* panic(), with or without a current environment. *)
LEMMA PanicKeeps ==
  ASSUME NEW ready, NEW status, NEW new, NEW exit, NEW lst,
         Consistent(curenv, ready, status, new, exit, lst),
         panic(ready, exit, status)
  PROVE  /\ Consistent(curenv', env_ready_queue', env_status', new, env_exit_queue', lst)
         /\ PromptIsIdle'
         /\ scheduler_status' \in {"SCH_STOPPED", "SCH_STARTED"}
         /\ BlockedKept(status)
<1>1. CASE curenv # NULL
  BY <1>1, ExitKeeps DEF panic
<1>2. CASE curenv = NULL
  BY <1>2, SchedulerKeeps DEF panic
<1> QED BY <1>1, <1>2
-----------------------------------------------------------------------------
(* What a step must show of the scheduler's state. *)
SchedStep == SchedInv' /\ BlockedKept(env_status)

LEMMA SchedInvFromParts ==
  ASSUME Consistent(curenv', env_ready_queue', env_status', env_new_queue',
                    env_exit_queue', lost'),
         PromptIsIdle', BlockedKept(env_status),
         scheduler_status' \in {"SCH_STOPPED", "SCH_STARTED"},
         if_cleared' \subseteq Env
  PROVE  SchedStep
  BY DEF SchedStep, SchedInv

LEMMA CreateKeeps ==
  ASSUME SchedInv, NEW e \in Env, sys_create_env(e) \/ command_load_env(e)
  PROVE  SchedStep
<1>1. /\ env_status[e] = "FREE"
      /\ if_cleared' = if_cleared \ {e} /\ lost' = lost
      /\ env_status' = [env_status EXCEPT ![e] = "NEW"]
      /\ env_new_queue' = enqueue(env_new_queue, e)
      /\ UNCHANGED <<env_ready_queue, env_exit_queue, curenv, scheduler_status>>
  BY DEF sys_create_env, command_load_env, env_create
<1>2. /\ env_status' \in [Env -> Status] /\ env_status'[e] = "NEW"
      /\ \A f \in Env : f # e => env_status'[f] = env_status[f]
  BY <1>1 DEF SchedInv, Consistent, Status
<1>3. e \notin ToSet(env_new_queue) /\ e \notin ToSet(env_ready_queue) /\ e # curenv
      /\ e \notin ToSet(env_exit_queue) /\ e \notin lost
  BY <1>1, NullAssumption DEF SchedInv, Consistent
<1>4. /\ env_new_queue' \in Seq(Env) /\ NoDuplicates(env_new_queue')
      /\ ToSet(env_new_queue') = ToSet(env_new_queue) \cup {e}
  <2>1. env_new_queue \in Seq(Env) /\ NoDuplicates(env_new_queue)
    BY DEF SchedInv, Consistent
  <2> QED BY <1>1, <1>3, <2>1, EnqueueAdds, ZenonT(30)
<1>5. Consistent(curenv', env_ready_queue', env_status', env_new_queue',
                 env_exit_queue', lost')
  BY <1>1, <1>2, <1>3, <1>4 DEF SchedInv, Consistent
<1>6. BlockedKept(env_status)
  BY <1>1, <1>2 DEF BlockedKept
<1>7. /\ PromptIsIdle' /\ scheduler_status' \in {"SCH_STOPPED", "SCH_STARTED"}
      /\ if_cleared' \subseteq Env
  BY <1>1 DEF SchedInv, PromptIsIdle
<1> QED BY <1>5, <1>6, <1>7, SchedInvFromParts

LEMMA RunProgramKeeps ==
  ASSUME SchedInv, NEW e \in Env, command_run_program(e)
  PROVE  SchedStep
<1> DEFINE ready == enqueue(env_ready_queue, e)
           st == [env_status EXCEPT ![e] = "READY"]
<1>1. /\ env_status[e] = "FREE"
      /\ if_cleared' = if_cleared \ {e} /\ lost' = lost
      /\ fos_scheduler(curenv, ready, st)
      /\ UNCHANGED <<env_new_queue, env_exit_queue>>
  BY DEF command_run_program, env_create
<1>2. /\ st \in [Env -> Status] /\ st[e] = "READY"
      /\ \A f \in Env : f # e => st[f] = env_status[f]
  BY DEF SchedInv, Consistent, Status
<1>3. e \notin ToSet(env_new_queue) /\ e \notin ToSet(env_ready_queue) /\ e # curenv
      /\ e \notin ToSet(env_exit_queue) /\ e \notin lost
  BY <1>1, NullAssumption DEF SchedInv, Consistent
<1>4. /\ ready \in Seq(Env) /\ NoDuplicates(ready)
      /\ ToSet(ready) = ToSet(env_ready_queue) \cup {e}
  BY <1>3, EnqueueAdds DEF SchedInv, Consistent
<1> HIDE DEF ready, st
<1>5. Consistent(curenv, ready, st, env_new_queue, env_exit_queue, lost)
  BY <1>1, <1>2, <1>3, <1>4 DEF SchedInv, Consistent
<1>6. /\ Consistent(curenv', env_ready_queue', env_status', env_new_queue, env_exit_queue, lost)
      /\ PromptIsIdle' /\ scheduler_status' \in {"SCH_STOPPED", "SCH_STARTED"}
      /\ BlockedKept(st)
  BY <1>1, <1>5, SchedulerKeeps
<1>7. BlockedKept(env_status)
  BY <1>1, <1>2, <1>6 DEF BlockedKept
<1>8. if_cleared' \subseteq Env
  BY <1>1 DEF SchedInv
<1> QED BY <1>1, <1>6, <1>7, <1>8, SchedInvFromParts

LEMMA CreatePanicKeeps ==
  ASSUME SchedInv, NEW e \in Env, env_create_panics(e)
  PROVE  SchedStep
<1> DEFINE st == [env_status EXCEPT ![e] = "NEW"]
           lst == lost \cup {e}
<1>1. /\ env_status[e] = "FREE"
      /\ if_cleared' = if_cleared \ {e} /\ lost' = lst
      /\ panic(env_ready_queue, env_exit_queue, st)
      /\ UNCHANGED env_new_queue
  BY DEF env_create_panics
<1>2. /\ st \in [Env -> Status] /\ st[e] = "NEW"
      /\ \A f \in Env : f # e => st[f] = env_status[f]
  BY DEF SchedInv, Consistent, Status
<1>3. e \notin ToSet(env_new_queue) /\ e \notin ToSet(env_ready_queue) /\ e # curenv
      /\ e \notin ToSet(env_exit_queue)
  BY <1>1, NullAssumption DEF SchedInv, Consistent
<1> HIDE DEF st
<1>5. Consistent(curenv, env_ready_queue, st, env_new_queue, env_exit_queue, lst)
  BY <1>1, <1>2, <1>3 DEF SchedInv, Consistent
<1> HIDE DEF lst
<1>6. /\ Consistent(curenv', env_ready_queue', env_status', env_new_queue, env_exit_queue', lst)
      /\ PromptIsIdle' /\ scheduler_status' \in {"SCH_STOPPED", "SCH_STARTED"}
      /\ BlockedKept(st)
  BY <1>1, <1>5, PanicKeeps
<1>7. BlockedKept(env_status)
  BY <1>1, <1>2, <1>6 DEF BlockedKept
<1>8. if_cleared' \subseteq Env
  BY <1>1 DEF SchedInv
<1> QED BY <1>1, <1>6, <1>7, <1>8, SchedInvFromParts

LEMMA RunEnvKeeps ==
  ASSUME SchedInv, NEW e \in Env, sys_run_env(e)
  PROVE  SchedStep
<1>1. /\ curenv # NULL /\ e \in ToSet(env_new_queue)
      /\ env_new_queue' = remove_from_queue(env_new_queue, e)
      /\ env_status' = [env_status EXCEPT ![e] = "READY"]
      /\ env_ready_queue' = enqueue(env_ready_queue, e)
      /\ UNCHANGED <<env_exit_queue, curenv, scheduler_status, if_cleared, lost>>
  BY DEF sys_run_env, in_queue
<1>2. /\ env_status' \in [Env -> Status] /\ env_status'[e] = "READY"
      /\ \A f \in Env : f # e => env_status'[f] = env_status[f]
  BY <1>1 DEF SchedInv, Consistent, Status
<1>3. env_status[e] = "NEW" /\ e \notin ToSet(env_ready_queue) /\ e # curenv
      /\ e \notin ToSet(env_exit_queue) /\ e \notin lost
  BY <1>1, NullAssumption DEF SchedInv, Consistent
<1>4. /\ env_new_queue' \in Seq(Env) /\ NoDuplicates(env_new_queue')
      /\ ToSet(env_new_queue') = ToSet(env_new_queue) \ {e}
  BY <1>1, RemoveRemoves DEF SchedInv, Consistent
<1>5. /\ env_ready_queue' \in Seq(Env) /\ NoDuplicates(env_ready_queue')
      /\ ToSet(env_ready_queue') = ToSet(env_ready_queue) \cup {e}
  <2>1. env_ready_queue \in Seq(Env) /\ NoDuplicates(env_ready_queue)
    BY DEF SchedInv, Consistent
  <2> QED BY <1>1, <1>3, <2>1, EnqueueAdds, ZenonT(30)
<1>6. Consistent(curenv', env_ready_queue', env_status', env_new_queue',
                 env_exit_queue', lost')
  BY <1>1, <1>2, <1>3, <1>4, <1>5 DEF SchedInv, Consistent
<1>7. BlockedKept(env_status)
  BY <1>1, <1>2, <1>3 DEF BlockedKept
<1>8. /\ PromptIsIdle' /\ scheduler_status' \in {"SCH_STOPPED", "SCH_STARTED"}
      /\ if_cleared' \subseteq Env
  BY <1>1 DEF SchedInv, PromptIsIdle
<1> QED BY <1>6, <1>7, <1>8, SchedInvFromParts

LEMMA RunAllKeeps ==
  ASSUME SchedInv, command_run_all
  PROVE  SchedStep
<1> DEFINE ready == Reverse(env_new_queue) \o env_ready_queue
           st == [e \in Env |-> IF in_queue(env_new_queue, e)
                                THEN "READY" ELSE env_status[e]]
<1>1. /\ env_new_queue' = <<>>
      /\ fos_scheduler(curenv, ready, st)
      /\ UNCHANGED <<env_exit_queue, if_cleared, lost>>
  BY DEF command_run_all
<1>2. /\ st \in [Env -> Status]
      /\ \A e \in ToSet(env_new_queue) : e \in Env /\ st[e] = "READY"
      /\ \A e \in Env : e \notin ToSet(env_new_queue) => st[e] = env_status[e]
  BY ContentsOfQueue DEF SchedInv, Consistent, Status, in_queue
<1>3. \A e \in ToSet(env_new_queue) :
        /\ env_status[e] = "NEW" /\ e \notin ToSet(env_ready_queue)
        /\ e # curenv /\ e \notin ToSet(env_exit_queue) /\ e \notin lost
  BY <1>2, NullAssumption DEF SchedInv, Consistent
<1>4. /\ ready \in Seq(Env) /\ NoDuplicates(ready)
      /\ ToSet(ready) = ToSet(env_new_queue) \cup ToSet(env_ready_queue)
  <2>1. ToSet(env_new_queue) \cap ToSet(env_ready_queue) = {}
    BY <1>3
  <2> QED BY <2>1, ReverseAppends DEF SchedInv, Consistent
<1> HIDE DEF ready, st
<1>5. Consistent(curenv, ready, st, <<>>, env_exit_queue, lost)
  BY <1>2, <1>3, <1>4, EmptyQueue DEF SchedInv, Consistent
<1>6. /\ Consistent(curenv', env_ready_queue', env_status', <<>>, env_exit_queue, lost)
      /\ PromptIsIdle' /\ scheduler_status' \in {"SCH_STOPPED", "SCH_STARTED"}
      /\ BlockedKept(st)
  BY <1>1, <1>5, SchedulerKeeps
<1>7. BlockedKept(env_status)
  BY <1>2, <1>3, <1>6 DEF BlockedKept
<1>8. if_cleared' \subseteq Env
  BY <1>1 DEF SchedInv
<1> QED BY <1>1, <1>6, <1>7, <1>8, SchedInvFromParts

LEMMA ExitEnvKeeps ==
  ASSUME SchedInv, sys_exit_env
  PROVE  SchedStep
<1>1. /\ curenv # NULL
      /\ env_exit(env_ready_queue, env_exit_queue, env_status)
      /\ UNCHANGED <<env_new_queue, if_cleared, lost>>
  BY DEF sys_exit_env
<1>2. Consistent(curenv, env_ready_queue, env_status, env_new_queue, env_exit_queue, lost)
  BY DEF SchedInv
<1>3. /\ Consistent(curenv', env_ready_queue', env_status', env_new_queue,
                    env_exit_queue', lost)
      /\ PromptIsIdle' /\ scheduler_status' \in {"SCH_STOPPED", "SCH_STARTED"}
      /\ BlockedKept(env_status)
  BY <1>1, <1>2, ExitKeeps
<1>4. if_cleared' \subseteq Env
  BY <1>1 DEF SchedInv
<1> QED BY <1>1, <1>3, <1>4, SchedInvFromParts

LEMMA KillNewKeeps ==
  ASSUME SchedInv, NEW e \in Env, kill_new(e)
  PROVE  SchedStep
<1> DEFINE st == [env_status EXCEPT ![e] = "UNKNOWN"]
           new == remove_from_queue(env_new_queue, e)
           lst == lost \cup {e}
<1>1. /\ e \in ToSet(env_new_queue) /\ env_new_queue' = new
      /\ panic(env_ready_queue, env_exit_queue, st)
      /\ lost' = lst /\ UNCHANGED if_cleared
  BY DEF kill_new, in_queue
<1>2. /\ st \in [Env -> Status] /\ st[e] = "UNKNOWN"
      /\ \A f \in Env : f # e => st[f] = env_status[f]
  BY DEF SchedInv, Consistent, Status
<1>3. env_status[e] = "NEW" /\ e \notin ToSet(env_ready_queue) /\ e # curenv
      /\ e \notin ToSet(env_exit_queue) /\ e \notin lost
  BY <1>1, NullAssumption DEF SchedInv, Consistent
<1>4. new \in Seq(Env) /\ NoDuplicates(new) /\ ToSet(new) = ToSet(env_new_queue) \ {e}
  BY <1>1, RemoveRemoves DEF SchedInv, Consistent
<1> HIDE DEF st, new
<1>5. Consistent(curenv, env_ready_queue, st, new, env_exit_queue, lst)
  BY <1>2, <1>3, <1>4 DEF SchedInv, Consistent
<1> HIDE DEF lst
<1>6. /\ Consistent(curenv', env_ready_queue', env_status', new, env_exit_queue', lst)
      /\ PromptIsIdle' /\ scheduler_status' \in {"SCH_STOPPED", "SCH_STARTED"}
      /\ BlockedKept(st)
  BY <1>1, <1>5, PanicKeeps
<1>7. BlockedKept(env_status)
  BY <1>2, <1>3, <1>6 DEF BlockedKept
<1>8. if_cleared' \subseteq Env
  BY <1>1 DEF SchedInv
<1> QED BY <1>1, <1>6, <1>7, <1>8, SchedInvFromParts

LEMMA KillReadyKeeps ==
  ASSUME SchedInv, NEW e \in Env, kill_ready(e)
  PROVE  SchedStep
<1> DEFINE ready == remove_from_queue(env_ready_queue, e)
           lst == lost \cup {e}
<1>1. /\ e \in ToSet(env_ready_queue)
      /\ panic(ready, env_exit_queue, env_status)
      /\ lost' = lst /\ UNCHANGED <<env_new_queue, if_cleared>>
  BY DEF kill_ready, in_queue
<1>2. env_status[e] \in {"READY", "RUNNABLE"} /\ e \notin ToSet(env_new_queue)
      /\ e # curenv /\ e \notin ToSet(env_exit_queue)
  BY <1>1 DEF SchedInv, Consistent
<1>3. ready \in Seq(Env) /\ NoDuplicates(ready) /\ ToSet(ready) = ToSet(env_ready_queue) \ {e}
  BY <1>1, RemoveRemoves DEF SchedInv, Consistent
<1> HIDE DEF ready
<1>4. Consistent(curenv, ready, env_status, env_new_queue, env_exit_queue, lst)
  BY <1>2, <1>3 DEF SchedInv, Consistent
<1> HIDE DEF lst
<1>5. /\ Consistent(curenv', env_ready_queue', env_status', env_new_queue,
                    env_exit_queue', lst)
      /\ PromptIsIdle' /\ scheduler_status' \in {"SCH_STOPPED", "SCH_STARTED"}
      /\ BlockedKept(env_status)
  BY <1>1, <1>4, PanicKeeps
<1>6. if_cleared' \subseteq Env
  BY <1>1 DEF SchedInv
<1> QED BY <1>1, <1>5, <1>6, SchedInvFromParts

LEMMA KillExitKeeps ==
  ASSUME SchedInv, NEW e \in Env, kill_exit(e)
  PROVE  SchedStep
<1> DEFINE st == [env_status EXCEPT ![e] = "UNKNOWN"]
           exit == remove_from_queue(env_exit_queue, e)
           lst == lost \cup {e}
<1>1. /\ e \in ToSet(env_exit_queue)
      /\ panic(env_ready_queue, exit, st)
      /\ lost' = lst /\ UNCHANGED <<env_new_queue, if_cleared>>
  BY DEF kill_exit, in_queue
<1>2. /\ st \in [Env -> Status] /\ st[e] = "UNKNOWN"
      /\ \A f \in Env : f # e => st[f] = env_status[f]
  BY DEF SchedInv, Consistent, Status
<1>3. env_status[e] = "EXIT" /\ e \notin ToSet(env_ready_queue) /\ e # curenv
      /\ e \notin ToSet(env_new_queue) /\ e \notin lost
  BY <1>1, NullAssumption DEF SchedInv, Consistent
<1>4. exit \in Seq(Env) /\ NoDuplicates(exit) /\ ToSet(exit) = ToSet(env_exit_queue) \ {e}
  BY <1>1, RemoveRemoves DEF SchedInv, Consistent
<1> HIDE DEF st, exit
<1>5. Consistent(curenv, env_ready_queue, st, env_new_queue, exit, lst)
  BY <1>2, <1>3, <1>4 DEF SchedInv, Consistent
<1> HIDE DEF lst
<1>6. /\ Consistent(curenv', env_ready_queue', env_status', env_new_queue, env_exit_queue', lst)
      /\ PromptIsIdle' /\ scheduler_status' \in {"SCH_STOPPED", "SCH_STARTED"}
      /\ BlockedKept(st)
  BY <1>1, <1>5, PanicKeeps
<1>7. BlockedKept(env_status)
  BY <1>2, <1>3, <1>6 DEF BlockedKept
<1>8. if_cleared' \subseteq Env
  BY <1>1 DEF SchedInv
<1> QED BY <1>1, <1>6, <1>7, <1>8, SchedInvFromParts

LEMMA DestroyKeeps ==
  ASSUME SchedInv, NEW e \in Env, sys_destroy_env(e) \/ command_kill_program(e)
  PROVE  SchedStep
<1>1. CASE sched_kill_env(e)
  BY <1>1, KillNewKeeps, KillReadyKeeps, KillExitKeeps DEF sched_kill_env
<1>2. CASE curenv # NULL /\ kill_curenv(e)
  <2>1. sys_exit_env
    BY <1>2 DEF kill_curenv, panic, sys_exit_env
  <2> QED BY <2>1, ExitEnvKeeps
<1> QED BY <1>1, <1>2 DEF sys_destroy_env, command_kill_program

LEMMA KillAllKeeps ==
  ASSUME SchedInv, command_kill_all
  PROVE  SchedStep
<1>1. env_new_queue \in Seq(Env) /\ env_exit_queue \in Seq(Env)
  BY DEF SchedInv, Consistent
<1>2. CASE env_new_queue # <<>> /\ kill_new(Head(env_new_queue))
  BY <1>1, <1>2, KillNewKeeps
<1>3. CASE env_exit_queue # <<>> /\ kill_exit(Head(env_exit_queue))
  BY <1>1, <1>3, KillExitKeeps
<1> QED BY <1>2, <1>3 DEF command_kill_all

LEMMA ClockKeeps ==
  ASSUME SchedInv, clock_interrupt_handler
  PROVE  SchedStep
<1>1. /\ fos_scheduler(curenv, env_ready_queue, env_status)
      /\ UNCHANGED <<env_new_queue, env_exit_queue, if_cleared, lost>>
  BY DEF clock_interrupt_handler
<1>2. Consistent(curenv, env_ready_queue, env_status, env_new_queue, env_exit_queue, lost)
  BY DEF SchedInv
<1>3. /\ Consistent(curenv', env_ready_queue', env_status', env_new_queue,
                    env_exit_queue, lost)
      /\ PromptIsIdle' /\ scheduler_status' \in {"SCH_STOPPED", "SCH_STARTED"}
      /\ BlockedKept(env_status)
  BY <1>1, <1>2, SchedulerKeeps
<1>4. if_cleared' \subseteq Env
  BY <1>1 DEF SchedInv
<1> QED BY <1>1, <1>3, <1>4, SchedInvFromParts

(* Steps that touch no queue.  At the prompt the ready queue that          *)
(* sched_init_RR() replaces is empty already.                              *)
LEMMA OtherKeeps ==
  ASSUME SchedInv, command_sch_RR \/ sys_disable_interrupt \/ sys_enable_interrupt
  PROVE  SchedStep
<1>1. UNCHANGED <<env_status, env_new_queue, env_ready_queue, env_exit_queue,
                  curenv, scheduler_status, lost>>
  BY DEF SchedInv, PromptIsIdle, command_sch_RR, sys_disable_interrupt,
         sys_enable_interrupt, AtPrompt
<1>2. if_cleared' \subseteq Env
  BY DEF SchedInv, Consistent, command_sch_RR, sys_disable_interrupt,
         sys_enable_interrupt
<1> QED BY <1>1, <1>2 DEF SchedStep, SchedInv, PromptIsIdle, BlockedKept

LEMMA SchedNextKeeps ==
  ASSUME SchedInv, SchedNext
  PROVE  SchedStep
  BY CreateKeeps, RunProgramKeeps, CreatePanicKeeps, RunEnvKeeps, DestroyKeeps,
     RunAllKeeps, KillAllKeeps, ExitEnvKeeps, ClockKeeps, OtherKeeps DEF SchedNext
-----------------------------------------------------------------------------
(***************************************************************************)
(* The semaphores.                                                         *)
(***************************************************************************)

(* get_semaphore_object_ID() yields a slot in use, or the phantom index. *)
LEMMA SemaphoreID ==
  ASSUME NEW owner, NEW name
  PROVE  LET sem == get_semaphore_object_ID(owner, name)
         IN sem \in Index /\ (sem \in Slot => ~semaphores[sem].empty)
<1> DEFINE M == Matches(owner, name)
<1>1. M \subseteq Slot /\ Slot \subseteq Nat /\ E_SEMAPHORE_NOT_EXISTS \notin Slot
  BY SemaphoreAssumption DEF Matches, Slot, E_SEMAPHORE_NOT_EXISTS
<1>2. CASE M = {}
  BY <1>1, <1>2 DEF get_semaphore_object_ID, Index
<1>3. CASE M # {}
  <2> HIDE DEF M
  <2> DEFINE R == OpToRel(<, Nat)
  <2>1. \A t, s \in Nat : t < s => <<t, s>> \in R
    BY Zenon DEF OpToRel
  <2>2. IsWellFoundedOn(R, Nat)
    BY NatLessThanWellFounded, Zenon
  <2> HIDE DEF R
  <2>3. PICK s \in M : \A t \in M : <<t, s>> \notin R
    BY <1>1, <1>3, <2>2, WFMin
  <2>4. ASSUME NEW t \in M PROVE s <= t
    <3>1. t \in Nat /\ s \in Nat /\ <<t, s>> \notin R
      BY <1>1, <2>3
    <3>2. ~(t < s)
      BY <2>1, <3>1, Zenon
    <3> QED BY <3>1, <3>2
  <2>5. get_semaphore_object_ID(owner, name) \in M
    <3>1. get_semaphore_object_ID(owner, name)
            = CHOOSE m \in M : \A t \in M : m <= t
      BY <1>3, Zenon DEF get_semaphore_object_ID, M
    <3> QED BY <2>4, <3>1
  <2> QED BY <1>1, <2>5 DEF M, Matches, Index
<1> QED BY <1>2, <1>3

(* What the update of one record leaves. *)
Updated(f, sem, v, q) == [f EXCEPT ![sem].value = v, ![sem].env_queue = q]

LEMMA SemUpdate ==
  ASSUME NEW f \in [Index -> Semaphore], NEW sem \in Index, NEW v \in Int,
         NEW q \in Seq(Env)
  PROVE  LET g == Updated(f, sem, v, q)
         IN /\ g \in [Index -> Semaphore]
            /\ g[sem].value = v
            /\ g[sem].env_queue = q
            /\ \A s \in Index : g[s].empty = f[s].empty
            /\ \A s \in Index : s # sem => g[s] = f[s]
<1> DEFINE rec == [f[sem] EXCEPT !.value = v, !.env_queue = q]
<1>1. Updated(f, sem, v, q) = [f EXCEPT ![sem] = rec]
  BY DEF Updated
<1>2. rec \in Semaphore
  BY DEF Semaphore
<1>3. rec.value = v /\ rec.env_queue = q /\ rec.empty = f[sem].empty
  BY DEF Semaphore
<1> HIDE DEF rec
<1> QED BY <1>1, <1>2, <1>3

LEMMA SemUpdateValue ==
  ASSUME NEW f \in [Index -> Semaphore], NEW sem \in Index, NEW v \in Int
  PROVE  [f EXCEPT ![sem].value = v] = Updated(f, sem, v, f[sem].env_queue)
<1> DEFINE rec == [f[sem] EXCEPT !.value = v]
<1>1. [rec EXCEPT !.env_queue = f[sem].env_queue] = rec
  BY DEF Semaphore
<1>2. /\ [f EXCEPT ![sem].value = v] = [f EXCEPT ![sem] = rec]
      /\ Updated(f, sem, v, f[sem].env_queue) =
           [f EXCEPT ![sem] = [rec EXCEPT !.env_queue = f[sem].env_queue]]
  BY DEF Updated
<1> QED BY <1>1, <1>2

(* Another scheduler step leaves the semaphores as they are. *)
LEMMA SemUnchanged ==
  ASSUME SemInv, UNCHANGED semaphores, BlockedKept(env_status)
  PROVE  SemInv'
  BY DEF SemInv, BlockedKept, ValueCountsWaiters, Waiters

LEMMA CreateSemaphoreKeeps ==
  ASSUME Inv, NEW name \in Name, NEW v \in 0 .. MaxValue, createSemaphore(name, v)
  PROVE  Inv'
<1>1. PICK s \in Slot : /\ semaphores[s].empty
                        /\ semaphores' = [semaphores EXCEPT ![s] =
                             [empty |-> FALSE, ownerID |-> curenv, name |-> name,
                              value |-> v, env_queue |-> @.env_queue]]
  BY DEF createSemaphore, IsFirstEmpty
<1>2. UNCHANGED schedVars
  BY DEF createSemaphore
<1>3. SchedInv'
  BY <1>2 DEF Inv, SchedInv, PromptIsIdle, schedVars
<1>4. curenv \in Env \cup {NULL} /\ v \in Nat /\ s \in Index
  BY SemaphoreAssumption DEF Inv, SchedInv, Consistent, Index
<1>5. /\ semaphores' \in [Index -> Semaphore]
      /\ \A t \in Index : semaphores'[t].env_queue = semaphores[t].env_queue
      /\ \A t \in Index : t # s => semaphores'[t] = semaphores[t]
      /\ semaphores'[s].value = v /\ ~semaphores'[s].empty
  BY <1>1, <1>4 DEF Inv, SemInv, Semaphore
<1>6. semaphores[s].env_queue = <<>>
  BY <1>1 DEF Inv, SemInv
<1>7. ValueCountsWaiters'
  BY <1>4, <1>5, <1>6, EmptyQueue DEF Inv, SemInv, ValueCountsWaiters
<1>8. Waiters' = Waiters /\ env_status' = env_status
  BY <1>2, <1>5 DEF Waiters, schedVars
<1>9. \A t \in Slot : semaphores'[t].empty => semaphores'[t].env_queue = <<>>
  BY <1>5 DEF Inv, SemInv, Index
<1> QED BY <1>3, <1>5, <1>7, <1>8, <1>9 DEF Inv, SemInv

LEMMA WaitKeeps ==
  ASSUME Inv, NEW owner, NEW name, waitSemaphore(owner, name)
  PROVE  Inv'
<1> DEFINE sem == get_semaphore_object_ID(owner, name)
           res == semaphores[sem].value - 1
           q == semaphores[sem].env_queue
<1>1. sem \in Index /\ (sem \in Slot => ~semaphores[sem].empty)
  BY SemaphoreID
<1>2. /\ curenv # NULL /\ curenv \in Env /\ env_status[curenv] = "RUNNABLE"
      /\ UNCHANGED <<env_new_queue, env_exit_queue, if_cleared, lost>>
  BY DEF waitSemaphore, Inv, SchedInv, Consistent
<1>3. /\ semaphores \in [Index -> Semaphore] /\ semaphores[sem].value \in Int
      /\ res \in Int /\ q \in Seq(Env) /\ NoDuplicates(q)
      /\ Len(q) = IF semaphores[sem].value < 0 THEN -semaphores[sem].value ELSE 0
  BY <1>1 DEF Inv, SemInv, Semaphore, ValueCountsWaiters
<1>4. \A s \in Index : curenv \notin ToSet(semaphores[s].env_queue)
  BY <1>2 DEF Inv, SemInv, Waiters, in_queue
<1>5. if_cleared' \subseteq Env
  BY <1>2 DEF Inv, SchedInv
<1>6. CASE res < 0
  <2> DEFINE st == [env_status EXCEPT ![curenv] = "BLOCKED"]
             r == enqueue(q, curenv)
  <2>1. semaphores' = Updated(semaphores, sem, res, r)
    BY <1>1, <1>3, <1>6 DEF waitSemaphore, MustBlock, Updated
  <2>0. fos_scheduler(NULL, env_ready_queue, st)
    BY <1>3, <1>6 DEF waitSemaphore, MustBlock
  <2>2. /\ r \in Seq(Env) /\ NoDuplicates(r) /\ ToSet(r) = ToSet(q) \cup {curenv}
        /\ Len(r) = Len(q) + 1
    <3>1. q \in Seq(Env) /\ NoDuplicates(q) /\ curenv \notin ToSet(q) /\ curenv \in Env
      BY <1>1, <1>2, <1>3, <1>4
    <3> HIDE DEF q
    <3> QED BY <3>1, EnqueueAdds
  <2>3. /\ st \in [Env -> Status] /\ st[curenv] = "BLOCKED"
        /\ \A e \in Env : e # curenv => st[e] = env_status[e]
    BY <1>2 DEF Inv, SchedInv, Consistent, Status
  <2> HIDE DEF st, r
  <2>4. Consistent(NULL, env_ready_queue, st, env_new_queue, env_exit_queue, lost)
    <3>1. /\ NULL \notin ToSet(env_ready_queue) /\ curenv \notin ToSet(env_ready_queue)
          /\ curenv \notin ToSet(env_new_queue) /\ curenv \notin ToSet(env_exit_queue)
          /\ curenv \notin lost
      BY <1>2, ContentsOfQueue, NullAssumption DEF Inv, SchedInv, Consistent
    <3>2. Consistent(curenv, env_ready_queue, env_status, env_new_queue,
                     env_exit_queue, lost)
      BY DEF Inv, SchedInv
    <3>3. ASSUME NEW e \in Env
          PROVE  /\ e \in ToSet(env_new_queue) => st[e] = "NEW"
                 /\ e \in ToSet(env_ready_queue) => st[e] \in {"READY", "RUNNABLE"}
                 /\ st[e] = "EXIT" <=> e \in ToSet(env_exit_queue)
                 /\ e \in lost => /\ st[e] \notin {"FREE", "EXIT", "BLOCKED"}
                                  /\ e # NULL /\ e \notin ToSet(env_ready_queue)
                                  /\ e \notin ToSet(env_new_queue)
                 /\ st[e] # "FREE" =>
                      \/ e = NULL \/ e \in ToSet(env_ready_queue)
                      \/ e \in ToSet(env_new_queue) \/ e \in lost
                      \/ st[e] \in {"EXIT", "BLOCKED"}
      <4>1. CASE e = curenv
        BY <2>3, <3>1, <4>1
      <4>2. CASE e # curenv
        BY <2>3, <3>2, <4>2, NullAssumption DEF Consistent
      <4> QED BY <4>1, <4>2
    <3> QED BY <2>3, <3>1, <3>2, <3>3 DEF Consistent
  <2>5. /\ Consistent(curenv', env_ready_queue', env_status', env_new_queue,
                      env_exit_queue, lost)
        /\ PromptIsIdle' /\ scheduler_status' \in {"SCH_STOPPED", "SCH_STARTED"}
        /\ BlockedKept(st)
    BY <2>0, <2>4, SchedulerKeeps
  <2>6. SchedInv'
    BY <1>2, <1>5, <2>5 DEF SchedInv
  <2> HIDE DEF sem, res, q
  <2>7. /\ semaphores' \in [Index -> Semaphore]
        /\ semaphores'[sem].value = res /\ semaphores'[sem].env_queue = r
        /\ \A s \in Index : semaphores'[s].empty = semaphores[s].empty
        /\ \A s \in Index : s # sem => semaphores'[s] = semaphores[s]
    <3>1. sem \in Index /\ res \in Int /\ r \in Seq(Env) /\ semaphores \in [Index -> Semaphore]
      BY <1>1, <1>3, <2>2
    <3> QED BY <2>1, <3>1, SemUpdate
  <2>8. ValueCountsWaiters'
    <3>1. Len(r) = -res
      BY <1>3, <1>6, <2>2 DEF res
    <3> QED BY <1>6, <2>7, <3>1 DEF Inv, SemInv, ValueCountsWaiters
  <2>9. \A s \in Index : NoDuplicates(semaphores'[s].env_queue)
    BY <2>2, <2>7 DEF Inv, SemInv
  <2>10. \A s, t \in Index : s # t =>
           ToSet(semaphores'[s].env_queue) \cap ToSet(semaphores'[t].env_queue) = {}
    BY <1>1, <1>4, <2>2, <2>7 DEF Inv, SemInv, q
  <2>11. \A s \in Slot : semaphores'[s].empty => semaphores'[s].env_queue = <<>>
    BY <1>1, <2>7 DEF Inv, SemInv, Index
  <2>12. \A e \in Env : e \in Waiters' <=> e = curenv \/ e \in Waiters
    <3>1. \A e \in Env, s \in Index :
            e \in ToSet(semaphores'[s].env_queue) <=>
              (s = sem /\ e = curenv) \/ e \in ToSet(semaphores[s].env_queue)
      BY <1>1, <2>2, <2>7 DEF q
    <3> QED BY <1>1, <3>1 DEF Waiters, in_queue
  <2>13. \A e \in Env : env_status'[e] = "BLOCKED" <=> e \in Waiters'
    BY <1>2, <2>3, <2>5, <2>12 DEF BlockedKept, Inv, SemInv
  <2> QED BY <2>6, <2>7, <2>8, <2>9, <2>10, <2>11, <2>13 DEF Inv, SemInv
<1>7. CASE res >= 0
  <2>1. fos_scheduler(curenv, env_ready_queue, env_status)
    BY <1>3, <1>7 DEF waitSemaphore, MustBlock
  <2>0. semaphores' = Updated(semaphores, sem, res, q)
    BY <1>1, <1>3, <1>7, SemUpdateValue DEF waitSemaphore, MustBlock
  <2>2. /\ Consistent(curenv', env_ready_queue', env_status', env_new_queue,
                      env_exit_queue, lost)
        /\ PromptIsIdle' /\ scheduler_status' \in {"SCH_STOPPED", "SCH_STARTED"}
        /\ BlockedKept(env_status)
    BY <2>1, SchedulerKeeps DEF Inv, SchedInv
  <2>3. SchedInv'
    BY <1>2, <1>5, <2>2 DEF SchedInv
  <2> HIDE DEF sem, res, q
  <2>4. /\ semaphores' \in [Index -> Semaphore]
        /\ semaphores'[sem].value = res /\ semaphores'[sem].env_queue = q
        /\ \A s \in Index : semaphores'[s].empty = semaphores[s].empty
        /\ \A s \in Index : s # sem => semaphores'[s] = semaphores[s]
    BY <1>1, <1>3, <2>0, SemUpdate
  <2>5. ValueCountsWaiters'
    <3>1. Len(q) = 0 /\ ~(res < 0)
      BY <1>3, <1>7 DEF res
    <3> QED BY <2>4, <3>1 DEF Inv, SemInv, ValueCountsWaiters
  <2>6. \A s \in Index : semaphores'[s].env_queue = semaphores[s].env_queue
    BY <2>4 DEF q
  <2>7. Waiters' = Waiters
    BY <2>6 DEF Waiters
  <2>8. \A s \in Slot : semaphores'[s].empty => semaphores'[s].env_queue = <<>>
    BY <2>4, <2>6 DEF Inv, SemInv, Index
  <2>9. \A e \in Env : env_status'[e] = "BLOCKED" <=> e \in Waiters'
    BY <2>2, <2>7 DEF BlockedKept, Inv, SemInv
  <2> QED BY <2>3, <2>4, <2>5, <2>6, <2>8, <2>9 DEF Inv, SemInv
<1> QED BY <1>3, <1>6, <1>7
(* A signal with waiters moves the one that waited longest to the ready    *)
(* queue: ValueCountsWaiters makes sure that there is one.                 *)
LEMMA WakeKeeps ==
  ASSUME Inv, NEW sem \in Index, curenv # NULL,
         semaphores[sem].value + 1 <= 0,
         semaphores' = Updated(semaphores, sem, semaphores[sem].value + 1,
                               dequeue(semaphores[sem].env_queue)),
         env_status' = [env_status EXCEPT ![dequeued(semaphores[sem].env_queue)] = "READY"],
         env_ready_queue' = enqueue(env_ready_queue, dequeued(semaphores[sem].env_queue)),
         UNCHANGED <<env_new_queue, env_exit_queue, curenv, scheduler_status,
                     if_cleared, lost>>
  PROVE  Inv'
<1> DEFINE res == semaphores[sem].value + 1
           q == semaphores[sem].env_queue
           w == dequeued(q)
           r == dequeue(q)
<1>1. /\ semaphores \in [Index -> Semaphore] /\ semaphores[sem].value \in Int
      /\ res \in Int /\ q \in Seq(Env) /\ NoDuplicates(q)
      /\ Len(q) = -semaphores[sem].value
  BY DEF Inv, SemInv, Semaphore, ValueCountsWaiters
<1>2. q # <<>>
  BY <1>1, EmptyQueue
<1>3. /\ w \in ToSet(q) /\ w \in Env /\ r \in Seq(Env) /\ NoDuplicates(r)
      /\ ToSet(r) = ToSet(q) \ {w} /\ Len(r) = Len(q) - 1
  BY <1>1, <1>2, DequeueRemoves
<1>4. env_status[w] = "BLOCKED"
  BY <1>3 DEF Inv, SemInv, Waiters, in_queue
<1>5. Consistent(curenv, env_ready_queue, env_status, env_new_queue,
                 env_exit_queue, lost)
  BY DEF Inv, SchedInv
<1>6. semaphores' = Updated(semaphores, sem, res, r)
  OBVIOUS
<1>7. /\ env_status' = [env_status EXCEPT ![w] = "READY"]
      /\ env_ready_queue' = enqueue(env_ready_queue, w)
  OBVIOUS
<1> HIDE DEF w, r, q, res
<1>8. /\ w # curenv /\ w \notin ToSet(env_ready_queue) /\ w \notin ToSet(env_new_queue)
      /\ w \notin ToSet(env_exit_queue) /\ w \notin lost
  BY <1>3, <1>4, <1>5 DEF Consistent
<1>9. /\ env_status' \in [Env -> Status] /\ env_status'[w] = "READY"
      /\ \A e \in Env : e # w => env_status'[e] = env_status[e]
  BY <1>3, <1>5, <1>7 DEF Consistent, Status
<1>10. /\ env_ready_queue' \in Seq(Env) /\ NoDuplicates(env_ready_queue')
       /\ ToSet(env_ready_queue') = ToSet(env_ready_queue) \cup {w}
  <2>1. env_ready_queue \in Seq(Env) /\ NoDuplicates(env_ready_queue)
    BY <1>5 DEF Consistent
  <2> DEFINE ready == enqueue(env_ready_queue, w)
  <2>2. /\ ready \in Seq(Env) /\ NoDuplicates(ready)
        /\ ToSet(ready) = ToSet(env_ready_queue) \cup {w}
    BY <1>3, <1>8, <2>1, EnqueueAdds
  <2> QED BY <1>7, <2>2
<1>11. Consistent(curenv, env_ready_queue', env_status', env_new_queue,
                  env_exit_queue, lost)
  <2>1. ASSUME NEW e \in Env
        PROVE  /\ e \in ToSet(env_new_queue) => env_status'[e] = "NEW"
               /\ e \in ToSet(env_ready_queue') => env_status'[e] \in {"READY", "RUNNABLE"}
               /\ env_status'[e] = "EXIT" <=> e \in ToSet(env_exit_queue)
               /\ e \in lost => /\ env_status'[e] \notin {"FREE", "EXIT", "BLOCKED"}
                                /\ e # curenv /\ e \notin ToSet(env_ready_queue')
                                /\ e \notin ToSet(env_new_queue)
               /\ env_status'[e] # "FREE" =>
                    \/ e = curenv \/ e \in ToSet(env_ready_queue')
                    \/ e \in ToSet(env_new_queue) \/ e \in lost
                    \/ env_status'[e] \in {"EXIT", "BLOCKED"}
    <3>1. CASE e = w
      BY <1>8, <1>9, <1>10, <3>1
    <3>2. CASE e # w
      BY <1>5, <1>9, <1>10, <3>2 DEF Consistent
    <3> QED BY <3>1, <3>2
  <2>2. curenv \notin ToSet(env_ready_queue') /\ env_status'[curenv] = "RUNNABLE"
    BY <1>5, <1>8, <1>9, <1>10 DEF Consistent
  <2>3. /\ curenv \in Env \cup {NULL} /\ lost \subseteq Env
        /\ env_new_queue \in Seq(Env) /\ NoDuplicates(env_new_queue)
        /\ env_exit_queue \in Seq(Env) /\ NoDuplicates(env_exit_queue)
    BY <1>5 DEF Consistent
  <2> QED BY <1>9, <1>10, <2>1, <2>2, <2>3 DEF Consistent
<1>12. SchedInv'
  BY <1>11 DEF Inv, SchedInv, PromptIsIdle
<1>13. /\ semaphores' \in [Index -> Semaphore]
       /\ semaphores'[sem].value = res /\ semaphores'[sem].env_queue = r
       /\ \A s \in Index : semaphores'[s].empty = semaphores[s].empty
       /\ \A s \in Index : s # sem => semaphores'[s] = semaphores[s]
  BY <1>1, <1>3, <1>6, SemUpdate
<1>14. ValueCountsWaiters'
  <2>1. Len(r) = IF res < 0 THEN -res ELSE 0
    BY <1>1, <1>3 DEF res
  <2> QED BY <1>13, <2>1 DEF Inv, SemInv, ValueCountsWaiters
<1>15. \A s \in Index : NoDuplicates(semaphores'[s].env_queue)
  BY <1>3, <1>13 DEF Inv, SemInv
<1>16. \A s \in Index : ToSet(semaphores'[s].env_queue) \subseteq ToSet(semaphores[s].env_queue)
  BY <1>3, <1>13 DEF q
<1>17. \A s, t \in Index : s # t =>
         ToSet(semaphores'[s].env_queue) \cap ToSet(semaphores'[t].env_queue) = {}
  BY <1>16 DEF Inv, SemInv
<1>18. \A s \in Slot : semaphores'[s].empty => semaphores'[s].env_queue = <<>>
  <2>1. sem \in Slot => ~semaphores[sem].empty
    BY <1>2 DEF Inv, SemInv, q
  <2> QED BY <1>13, <2>1 DEF Inv, SemInv, Index
<1>19. \A e \in Env : e \in Waiters' <=> e # w /\ e \in Waiters
  <2>1. \A e \in Env, s \in Index : s # sem /\ e = w => e \notin ToSet(semaphores[s].env_queue)
    BY <1>3 DEF Inv, SemInv, q
  <2>2. \A e \in Env, s \in Index :
          e \in ToSet(semaphores'[s].env_queue) <=>
            e # w /\ e \in ToSet(semaphores[s].env_queue)
    BY <1>3, <1>13, <2>1 DEF q
  <2> QED BY <2>2 DEF Waiters, in_queue
<1>20. \A e \in Env : env_status'[e] = "BLOCKED" <=> e \in Waiters'
  BY <1>3, <1>9, <1>19 DEF Inv, SemInv
<1> QED BY <1>12, <1>13, <1>14, <1>15, <1>17, <1>18, <1>20 DEF Inv, SemInv

LEMMA SignalKeeps ==
  ASSUME Inv, NEW owner, NEW name, signalSemaphore(owner, name)
  PROVE  Inv'
<1> DEFINE sem == get_semaphore_object_ID(owner, name)
           res == semaphores[sem].value + 1
           q == semaphores[sem].env_queue
<1>1. sem \in Index
  BY SemaphoreID
<1>2. /\ semaphores \in [Index -> Semaphore] /\ semaphores[sem].value \in Int
      /\ res \in Int /\ q \in Seq(Env)
      /\ Len(q) = IF semaphores[sem].value < 0 THEN -semaphores[sem].value ELSE 0
  BY <1>1 DEF Inv, SemInv, Semaphore, ValueCountsWaiters
<1>3. /\ curenv # NULL
      /\ UNCHANGED <<env_new_queue, env_exit_queue, curenv, scheduler_status,
                     if_cleared, lost>>
  BY DEF signalSemaphore, MustWake
<1>4. CASE res <= 0
  <2>1. semaphores' = Updated(semaphores, sem, res, dequeue(q))
    BY <1>1, <1>2, <1>4 DEF signalSemaphore, MustWake, Updated
  <2>2. /\ env_status' = [env_status EXCEPT ![dequeued(q)] = "READY"]
        /\ env_ready_queue' = enqueue(env_ready_queue, dequeued(q))
    BY <1>2, <1>4 DEF signalSemaphore, MustWake
  <2> HIDE DEF sem
  <2> QED BY <1>1, <1>3, <1>4, <2>1, <2>2, WakeKeeps
<1>5. CASE res > 0
  <2>1. semaphores' = Updated(semaphores, sem, res, q)
    BY <1>1, <1>2, <1>5, SemUpdateValue DEF signalSemaphore, MustWake
  <2>2. UNCHANGED <<env_status, env_ready_queue>>
    BY <1>2, <1>5 DEF signalSemaphore, MustWake
  <2>3. SchedInv'
    BY <1>3, <2>2 DEF Inv, SchedInv, PromptIsIdle
  <2>4. Len(q) = 0 /\ ~(res < 0)
    BY <1>2, <1>5
  <2> HIDE DEF sem, res, q
  <2>5. /\ semaphores' \in [Index -> Semaphore]
        /\ semaphores'[sem].value = res /\ semaphores'[sem].env_queue = q
        /\ \A s \in Index : semaphores'[s].empty = semaphores[s].empty
        /\ \A s \in Index : s # sem => semaphores'[s] = semaphores[s]
    BY <1>1, <1>2, <2>1, SemUpdate
  <2>6. ValueCountsWaiters'
    BY <2>4, <2>5 DEF Inv, SemInv, ValueCountsWaiters
  <2>7. \A s \in Index : semaphores'[s].env_queue = semaphores[s].env_queue
    BY <2>5 DEF q
  <2>8. Waiters' = Waiters
    BY <2>7 DEF Waiters
  <2>9. \A s \in Slot : semaphores'[s].empty => semaphores'[s].env_queue = <<>>
    BY <2>5, <2>7 DEF Inv, SemInv, Index
  <2>10. \A e \in Env : env_status'[e] = "BLOCKED" <=> e \in Waiters'
    BY <2>2, <2>8 DEF Inv, SemInv
  <2> QED BY <2>3, <2>5, <2>6, <2>7, <2>9, <2>10 DEF Inv, SemInv
<1> QED BY <1>2, <1>4, <1>5
-----------------------------------------------------------------------------
LEMMA InitInv == Init => Inv
<1> SUFFICES ASSUME Init PROVE Inv
  OBVIOUS
<1>1. SchedInv
  BY EmptyQueue, NullAssumption
  DEF Init, SchedInit, SchedInv, Consistent, PromptIsIdle, Status
<1>2. \A s \in Index : semaphores[s] = EmptySemaphore
  BY DEF Init
<1>3. semaphores \in [Index -> Semaphore]
  BY DEF Init, EmptySemaphore, Semaphore
<1>4. ValueCountsWaiters /\ Waiters = {}
  BY <1>2, EmptyQueue DEF ValueCountsWaiters, Waiters, EmptySemaphore, in_queue
<1>5. \A s \in Index : semaphores[s].env_queue = <<>>
  BY <1>2 DEF EmptySemaphore
<1>6. \A e \in Env : env_status[e] # "BLOCKED"
  BY DEF Init, SchedInit
<1> QED BY <1>1, <1>3, <1>4, <1>5, <1>6, EmptyQueue DEF Inv, SemInv, Index

LEMMA NextKeeps == Inv /\ [Next]_vars => Inv'
<1> SUFFICES ASSUME Inv, [Next]_vars PROVE Inv'
  OBVIOUS
<1>1. CASE SchedNext /\ UNCHANGED semaphores
  BY <1>1, SchedNextKeeps, SemUnchanged DEF Inv, SchedStep
<1>2. CASE \E name \in Name, v \in 0 .. MaxValue : createSemaphore(name, v)
  BY <1>2, CreateSemaphoreKeeps
<1>3. CASE sys_exit_env /\ UNCHANGED semaphores
  BY <1>3, ExitEnvKeeps, SemUnchanged DEF Inv, SchedStep
<1>4. ASSUME NEW owner \in Env, NEW name \in Name,
             waitSemaphore(owner, name) \/ signalSemaphore(owner, name)
      PROVE  Inv'
  BY <1>4, WaitKeeps, SignalKeeps
<1>5. CASE UNCHANGED vars
  BY <1>5 DEF Inv, SchedInv, SemInv, PromptIsIdle, ValueCountsWaiters, Waiters, vars
<1> QED BY <1>1, <1>2, <1>3, <1>4, <1>5
        DEF Next, createSemaphore_full, sys_getSemaphoreValue

LEMMA InvImplies ==
  Inv => TypeOK /\ InOnePlace /\ StatusTellsPlace /\ ValueCountsWaiters /\ PromptIsIdle
<1> SUFFICES ASSUME Inv
             PROVE  TypeOK /\ InOnePlace /\ StatusTellsPlace
                    /\ ValueCountsWaiters /\ PromptIsIdle
  OBVIOUS
<1>1. Consistent(curenv, env_ready_queue, env_status, env_new_queue,
                 env_exit_queue, lost)
  BY DEF Inv, SchedInv
<1>2. \A e \in Env : env_status[e] = "BLOCKED" <=> e \in Waiters
  BY DEF Inv, SemInv
<1>3. TypeOK
  BY DEF Inv, SchedInv, SemInv, Consistent, TypeOK, SchedTypeOK
<1>4. StatusTellsPlace
  BY <1>1, <1>2 DEF Consistent, StatusTellsPlace, in_queue
<1>5. \A i, j \in 1 .. 6 : i # j => Places[i] \cap Places[j] = {}
  <2> DEFINE P == Places
  <2>1. /\ P[1] = {curenv} \ {NULL} /\ P[2] = ToSet(env_new_queue)
        /\ P[3] = ToSet(env_ready_queue) /\ P[4] = ToSet(env_exit_queue)
        /\ P[5] = Waiters /\ P[6] = lost
    BY DEF Places
  <2>2. \A i \in 1 .. 6 : P[i] \subseteq Env
    BY <1>1, <2>1, ContentsOfQueue DEF Consistent, Waiters
  <2> HIDE DEF P
  <2>3. ASSUME NEW e \in Env
        PROVE  /\ e \in P[1] => env_status[e] = "RUNNABLE" /\ e \notin P[3] /\ e \notin P[6]
               /\ e \in P[2] => env_status[e] = "NEW" /\ e \notin P[6]
               /\ e \in P[3] => env_status[e] \in {"READY", "RUNNABLE"} /\ e \notin P[6]
               /\ e \in P[4] => env_status[e] = "EXIT"
               /\ e \in P[5] => env_status[e] = "BLOCKED"
               /\ e \in P[6] => env_status[e] \notin {"EXIT", "BLOCKED"}
    BY <1>1, <1>2, <2>1 DEF Consistent
  <2>4. ASSUME NEW i \in 1 .. 6, NEW j \in 1 .. 6, i < j, NEW e \in Env,
               e \in P[i], e \in P[j]
        PROVE  FALSE
    <3>1. i \in {1, 2, 3, 4, 5} /\ j \in {2, 3, 4, 5, 6}
      BY <2>4
    <3>2. CASE i = 1  BY <2>3, <2>4, <3>1, <3>2
    <3>3. CASE i = 2  BY <2>3, <2>4, <3>1, <3>3
    <3>4. CASE i = 3  BY <2>3, <2>4, <3>1, <3>4
    <3>5. CASE i = 4  BY <2>3, <2>4, <3>1, <3>5
    <3>6. CASE i = 5  BY <2>3, <2>4, <3>1, <3>6
    <3> QED BY <3>1, <3>2, <3>3, <3>4, <3>5, <3>6
  <2>5. ASSUME NEW i \in 1 .. 6, NEW j \in 1 .. 6, i # j
        PROVE  P[i] \cap P[j] = {}
    <3>1. i < j \/ j < i
      BY <2>5
    <3> QED BY <2>2, <2>4, <3>1
  <2> QED BY <2>5 DEF P
<1>6. ASSUME NEW e \in Env
      PROVE  env_status[e] # "FREE" <=> \E i \in 1 .. 6 : e \in Places[i]
  <2>1. (\E i \in 1 .. 6 : e \in Places[i]) <=>
          \/ e = curenv \/ e \in ToSet(env_new_queue) \/ e \in ToSet(env_ready_queue)
          \/ e \in ToSet(env_exit_queue) \/ e \in Waiters \/ e \in lost
    <3> DEFINE P == Places
    <3>1. /\ P[1] = {curenv} \ {NULL} /\ P[2] = ToSet(env_new_queue)
          /\ P[3] = ToSet(env_ready_queue) /\ P[4] = ToSet(env_exit_queue)
          /\ P[5] = Waiters /\ P[6] = lost
      BY DEF Places
    <3> HIDE DEF P
    <3>2. (\E i \in 1 .. 6 : e \in P[i]) <=>
            e \in P[1] \/ e \in P[2] \/ e \in P[3] \/ e \in P[4] \/ e \in P[5] \/ e \in P[6]
      <4>1. \A i : i \in 1 .. 6 <=> i \in {1, 2, 3, 4, 5, 6}
        OBVIOUS
      <4> QED BY <4>1
    <3>3. e # NULL
      BY NullAssumption
    <3> QED BY <3>1, <3>2, <3>3 DEF P
  <2> QED BY <1>1, <1>2, <2>1, NullAssumption DEF Consistent
<1>7. InOnePlace
  BY <1>1, <1>5, <1>6 DEF Inv, SemInv, Consistent, InOnePlace
<1> QED BY <1>3, <1>4, <1>7 DEF Inv, SchedInv, SemInv

(***************************************************************************)
(* The inductive invariant holds in every reachable state.                 *)
(***************************************************************************)
THEOREM InvHolds == Spec => []Inv
  BY InitInv, NextKeeps, PTL DEF Spec

(***************************************************************************)
(* Every variable of sched.c and semaphore_manager.c keeps its type.       *)
(***************************************************************************)
THEOREM TypeCorrect == Spec => []TypeOK
  BY InvHolds, InvImplies, PTL

(***************************************************************************)
(* No interleaving of system calls, prompt commands, clock interrupts and  *)
(* kernel panics puts an environment in two of the kernel's lists, or      *)
(* drops one from all of them other than by a panic in the middle of its   *)
(* creation or its removal.                                                *)
(***************************************************************************)
THEOREM EnvironmentsInOnePlace == Spec => []InOnePlace
  BY InvHolds, InvImplies, PTL

(***************************************************************************)
(* env_status always tells where the environment is.                       *)
(***************************************************************************)
THEOREM StatusCorrect == Spec => []StatusTellsPlace
  BY InvHolds, InvImplies, PTL

(***************************************************************************)
(* waitSemaphore() and signalSemaphore() lose no wake-up.                  *)
(***************************************************************************)
THEOREM NoLostWakeup == Spec => []ValueCountsWaiters
  BY InvHolds, InvImplies, PTL

(***************************************************************************)
(* fos_scheduler() gives up the CPU only when no environment is ready.     *)
(***************************************************************************)
THEOREM PromptOnlyWhenIdle == Spec => []PromptIsIdle
  BY InvHolds, InvImplies, PTL
-----------------------------------------------------------------------------
(***************************************************************************)
(* The refinement of CountingSemaphore.                                    *)
(***************************************************************************)

(* The line of a semaphore, from the first to wait on. *)
LEMMA ReverseQueue ==
  ASSUME NEW S, NEW q \in Seq(S)
  PROVE  /\ Reverse(q) \in Seq(S)
         /\ Len(Reverse(q)) = Len(q)
         /\ \A i \in 1 .. Len(q) : Reverse(q)[i] = q[Len(q) - i + 1]
  BY DEF Reverse

(* enqueue() is at the end of the line. *)
LEMMA ReverseEnqueue ==
  ASSUME NEW S, NEW q \in Seq(S), NEW e \in S
  PROVE  Reverse(enqueue(q, e)) = Append(Reverse(q), e)
<1> DEFINE n == Len(q)
           r == enqueue(q, e)
<1>1. n \in Nat
  OBVIOUS
<1>2. /\ r \in Seq(S) /\ Len(r) = n + 1
      /\ \A i \in 1 .. n + 1 : r[i] = IF i = 1 THEN e ELSE q[i - 1]
  BY DEF enqueue, Cons
<1>3. /\ Reverse(r) \in Seq(S) /\ Len(Reverse(r)) = n + 1
      /\ \A i \in 1 .. n + 1 : Reverse(r)[i] = r[(n + 1) - i + 1]
  BY <1>2, ReverseQueue
<1>4. /\ Reverse(q) \in Seq(S) /\ Len(Reverse(q)) = n
      /\ \A i \in 1 .. n : Reverse(q)[i] = q[n - i + 1]
  BY ReverseQueue
<1> DEFINE a == Append(Reverse(q), e)
<1>5. /\ a \in Seq(S) /\ Len(a) = n + 1
      /\ \A i \in 1 .. n + 1 : a[i] = IF i <= n THEN Reverse(q)[i] ELSE e
  BY <1>4, AppendProperties
<1> HIDE DEF a, r, n
<1>6. ASSUME NEW i \in 1 .. n + 1 PROVE Reverse(r)[i] = a[i]
  <2>1. CASE i = n + 1
    <3>1. (n + 1) - i + 1 = 1 /\ ~(i <= n)
      BY <1>1, <2>1
    <3> QED BY <1>1, <1>2, <1>3, <1>5, <3>1
  <2>2. CASE i <= n
    <3>1. /\ (n + 1) - i + 1 \in 1 .. n + 1 /\ (n + 1) - i + 1 # 1
          /\ ((n + 1) - i + 1) - 1 = n - i + 1 /\ i \in 1 .. n
      BY <1>1, <2>2
    <3> QED BY <1>2, <1>3, <1>4, <1>5, <2>2, <3>1, ZenonT(30)
  <2> QED BY <1>1, <2>1, <2>2
<1>7. Reverse(r) = a
  BY <1>3, <1>5, <1>6, SeqEqual
<1> QED BY <1>7 DEF a, r

(* dequeue() takes the first in line. *)
LEMMA ReverseDequeue ==
  ASSUME NEW S, NEW q \in Seq(S), q # <<>>
  PROVE  /\ Reverse(q) # <<>>
         /\ Reverse(dequeue(q)) = Tail(Reverse(q))
<1> DEFINE n == Len(q)
           r == dequeue(q)
           v == Reverse(q)
<1>1. n \in Nat \ {0}
  BY EmptySeq, LenProperties
<1>2. v \in Seq(S) /\ Len(v) = n /\ \A i \in 1 .. n : v[i] = q[n - i + 1]
  BY ReverseQueue
<1>3. v # <<>>
  BY <1>1, <1>2
<1>4. r \in Seq(S) /\ Len(r) = n - 1 /\ \A i \in 1 .. n - 1 : r[i] = q[i]
  <2>1. \A i \in 1 .. n : q[i] \in S
    BY ElementOfSeq
  <2> QED BY <1>1, <2>1, SubSeqProperties DEF dequeue, Front
<1>5. /\ Reverse(r) \in Seq(S) /\ Len(Reverse(r)) = n - 1
      /\ \A i \in 1 .. n - 1 : Reverse(r)[i] = r[(n - 1) - i + 1]
  BY <1>4, ReverseQueue
<1> HIDE DEF v
<1>6. /\ Tail(v) \in Seq(S) /\ Len(Tail(v)) = n - 1
      /\ \A i \in 1 .. n - 1 : Tail(v)[i] = v[i + 1]
  BY <1>2, <1>3, HeadTailProperties
<1> HIDE DEF r, n
<1>7. ASSUME NEW i \in 1 .. n - 1 PROVE Reverse(r)[i] = Tail(v)[i]
  <2>1. /\ (n - 1) - i + 1 \in 1 .. n - 1 /\ i + 1 \in 1 .. n
        /\ n - (i + 1) + 1 = (n - 1) - i + 1
    BY <1>1
  <2> QED BY <1>2, <1>4, <1>5, <1>6, <2>1, SMTT(30)
<1>8. Reverse(r) = Tail(v)
  BY <1>5, <1>6, <1>7, SeqEqual
<1> QED BY <1>3, <1>8 DEF r, v

(* The abstract state, as the refinement mapping of Semaphores reads it. *)
Created(f) == {s \in Slot : ~f[s].empty} \cup {E_SEMAPHORE_NOT_EXISTS}
Free(f) == [s \in Index |-> IF f[s].value > 0 THEN f[s].value ELSE 0]
Line(f) == [s \in Index |-> Reverse(f[s].env_queue)]

(* What a step that updates one semaphore in use does to the abstract      *)
(* state: nobody is created, and only this semaphore changes.              *)
LEMMA UpdateAbstract ==
  ASSUME NEW f \in [Index -> Semaphore], NEW sem \in Index, NEW v \in Int,
         NEW q \in Seq(Env), NEW g, g = Updated(f, sem, v, q)
  PROVE  /\ Created(g) = Created(f)
         /\ Free(g) = [Free(f) EXCEPT ![sem] = IF v > 0 THEN v ELSE 0]
         /\ Line(g) = [Line(f) EXCEPT ![sem] = Reverse(q)]
<1>1. /\ g[sem].value = v
      /\ g[sem].env_queue = q
      /\ \A s \in Index : g[s].empty = f[s].empty
      /\ \A s \in Index : s # sem => g[s] = f[s]
  BY SemUpdate
<1>2. Created(g) = Created(f)
  BY <1>1 DEF Created, Index
<1>3. Free(g) = [Free(f) EXCEPT ![sem] = IF v > 0 THEN v ELSE 0]
  <2>1. \A s \in Index : Free(g)[s] = [Free(f) EXCEPT ![sem] = IF v > 0 THEN v ELSE 0][s]
    BY <1>1 DEF Free
  <2> QED BY <2>1 DEF Free
<1>4. Line(g) = [Line(f) EXCEPT ![sem] = Reverse(q)]
  BY <1>1 DEF Line
<1> QED BY <1>2, <1>3, <1>4

(* At boot no slot is in use, and nobody waits. *)
LEMMA InitRefines == Init => Abstract!Init
<1> SUFFICES ASSUME Init PROVE Abstract!Init
  OBVIOUS
<1>1. \A s \in Index : /\ semaphores[s].empty /\ semaphores[s].value = 0
                       /\ semaphores[s].env_queue = <<>>
  BY DEF Init, EmptySemaphore
<1>2. Reverse(<<>>) = <<>>
  BY DEF Reverse
<1>3. [s \in Index |-> IF semaphores[s].value > 0 THEN semaphores[s].value ELSE 0] = [s \in Index |-> 0]
  BY <1>1
<1>4. [s \in Index |-> Reverse(semaphores[s].env_queue)] = [s \in Index |-> <<>>]
  BY <1>1, <1>2
<1>5. ({s \in Slot : ~semaphores[s].empty} \cup {E_SEMAPHORE_NOT_EXISTS}) \subseteq Index
  BY DEF Index
<1> QED BY <1>3, <1>4, <1>5 DEF Abstract!Init

(* createSemaphore() takes an unused slot: Create. *)
LEMMA CreateRefines ==
  ASSUME Inv, NEW name \in Name, NEW v \in 0 .. MaxValue, createSemaphore(name, v)
  PROVE  Abstract!Next
<1>1. PICK s \in Slot :
        /\ IsFirstEmpty(s)
        /\ semaphores' = [semaphores EXCEPT ![s] =
             [empty |-> FALSE, ownerID |-> curenv, name |-> name,
              value |-> v, env_queue |-> semaphores[s].env_queue]]
  BY DEF createSemaphore
<1>2. /\ s \in Index /\ semaphores \in [Index -> Semaphore]
      /\ semaphores[s].empty /\ s # E_SEMAPHORE_NOT_EXISTS
      /\ v \in Int /\ v >= 0
  BY <1>1, SemaphoreAssumption
  DEF Inv, SemInv, Index, IsFirstEmpty, Slot, E_SEMAPHORE_NOT_EXISTS
<1>3. /\ semaphores'[s].value = v /\ semaphores'[s].env_queue = semaphores[s].env_queue
      /\ ~semaphores'[s].empty
      /\ \A t \in Index : t # s => semaphores'[t] = semaphores[t]
  BY <1>1, <1>2
<1>4. Created(semaphores') = Created(semaphores) \cup {s} /\ s \notin Created(semaphores)
  BY <1>2, <1>3 DEF Created, Index
<1>5. Free(semaphores') = [Free(semaphores) EXCEPT ![s] = v]
  <2>1. v = IF v > 0 THEN v ELSE 0
    BY <1>2
  <2> QED BY <1>2, <1>3, <2>1 DEF Free
<1>6. Line(semaphores') = Line(semaphores)
  BY <1>2, <1>3 DEF Line
<1>7. Abstract!Create(s, v)
  BY <1>4, <1>5, <1>6 DEF Abstract!Create, Created, Free, Line
<1> QED BY <1>2, <1>7 DEF Abstract!Next

(* waitSemaphore() takes a permit or stands at the end of the line: a      *)
(* running environment is in no line.                                      *)
LEMMA WaitRefines ==
  ASSUME Inv, NEW owner, NEW name, waitSemaphore(owner, name)
  PROVE  Abstract!Next
<1>0. PICK sem \in Index : sem = get_semaphore_object_ID(owner, name)
  BY SemaphoreID
<1> DEFINE val == semaphores[sem].value
           q == semaphores[sem].env_queue
<1>1. sem \in Index /\ sem \in Created(semaphores)
  BY <1>0, SemaphoreID DEF Created, Index
<1>2. PICK c \in Env : c = curenv /\ env_status[c] = "RUNNABLE"
  BY DEF waitSemaphore, Inv, SchedInv, Consistent
<1>3. /\ semaphores \in [Index -> Semaphore] /\ val \in Int /\ q \in Seq(Env)
      /\ val - 1 \in Int
  BY <1>1 DEF Inv, SemInv, Semaphore
<1>4. CASE val - 1 < 0
  <2>1. semaphores' = Updated(semaphores, sem, val - 1, enqueue(q, c))
    BY <1>0, <1>2, <1>3, <1>4 DEF waitSemaphore, MustBlock, Updated
  <2>2. ~(val > 0) /\ val - 1 \in Int /\ 0 = IF val - 1 > 0 THEN val - 1 ELSE 0
    BY <1>3, <1>4
  <2>3. \A s \in Index : c \notin ToSet(semaphores[s].env_queue)
    BY <1>2 DEF Inv, SemInv, Waiters, in_queue
  <2>4. /\ enqueue(q, c) \in Seq(Env)
        /\ Reverse(enqueue(q, c)) = Append(Reverse(q), c)
    BY <1>2, <1>3, EnqueueAdds, ReverseEnqueue
  <2> HIDE DEF val, q
  <2> DEFINE r == enqueue(q, c)
             v == val - 1
  <2> HIDE DEF r, v
  <2>5. /\ Created(semaphores') = Created(semaphores)
        /\ Free(semaphores') = [Free(semaphores) EXCEPT ![sem] = 0]
        /\ Line(semaphores') = [Line(semaphores) EXCEPT ![sem] = Append(Reverse(q), c)]
    <3>1. v \in Int /\ r \in Seq(Env) /\ semaphores' = Updated(semaphores, sem, v, r)
      BY <1>3, <2>1, <2>4 DEF r, v
    <3>2. /\ Created(semaphores') = Created(semaphores)
          /\ Free(semaphores') = [Free(semaphores) EXCEPT ![sem] = IF v > 0 THEN v ELSE 0]
          /\ Line(semaphores') = [Line(semaphores) EXCEPT ![sem] = Reverse(r)]
      BY <1>1, <1>3, <3>1, UpdateAbstract
    <3> QED BY <2>2, <2>4, <3>2 DEF r, v
  <2>6. Free(semaphores)[sem] = 0 /\ Free(semaphores') = Free(semaphores)
    BY <1>1, <2>2, <2>5 DEF Free, val
  <2>7. Line(semaphores') = [Line(semaphores) EXCEPT ![sem] = Append(@, c)]
    BY <1>1, <2>5 DEF Line, q
  <2>8. ASSUME NEW t \in Index, NEW i \in DOMAIN Line(semaphores)[t]
        PROVE  Line(semaphores)[t][i] # c
    <3> DEFINE w == semaphores[t].env_queue
               n == Len(w)
    <3>1. w \in Seq(Env) /\ c \notin ToSet(w) /\ n \in Nat
      BY <1>3, <2>3 DEF Semaphore
    <3>2. Line(semaphores)[t] = Reverse(w)
      BY DEF Line
    <3> HIDE DEF w
    <3>3. i \in 1 .. n /\ Reverse(w)[i] = w[n - i + 1]
      BY <2>8, <3>1, <3>2, ReverseQueue, LenProperties
    <3>4. n - i + 1 \in DOMAIN w
      BY <3>1, <3>3, LenProperties
    <3> QED BY <3>1, <3>2, <3>3, <3>4 DEF ToSet
  <2>9. Abstract!Queue(sem, c)
    BY <1>1, <2>5, <2>6, <2>7, <2>8 DEF Abstract!Queue, Created, Free, Line
  <2> QED BY <1>1, <1>2, <2>9 DEF Abstract!Next
<1>5. CASE val - 1 >= 0
  <2>1. semaphores' = Updated(semaphores, sem, val - 1, q)
    BY <1>0, <1>3, <1>5, SemUpdateValue DEF waitSemaphore, MustBlock
  <2>2. val > 0 /\ val - 1 \in Int /\ val - 1 = IF val - 1 > 0 THEN val - 1 ELSE 0
    BY <1>3, <1>5
  <2> HIDE DEF val, q
  <2>3. /\ Created(semaphores') = Created(semaphores)
        /\ Free(semaphores') = [Free(semaphores) EXCEPT ![sem] = val - 1]
        /\ Line(semaphores') = [Line(semaphores) EXCEPT ![sem] = Reverse(q)]
    <3> DEFINE v == val - 1
    <3> HIDE DEF v
    <3>1. v \in Int /\ semaphores' = Updated(semaphores, sem, v, q)
      BY <1>3, <2>1 DEF v
    <3>2. /\ Created(semaphores') = Created(semaphores)
          /\ Free(semaphores') = [Free(semaphores) EXCEPT ![sem] = IF v > 0 THEN v ELSE 0]
          /\ Line(semaphores') = [Line(semaphores) EXCEPT ![sem] = Reverse(q)]
      BY <1>1, <1>3, <3>1, UpdateAbstract
    <3> QED BY <2>2, <3>2 DEF v
  <2>4. Free(semaphores)[sem] = val /\ Line(semaphores)[sem] = Reverse(q)
    BY <1>1, <2>2 DEF Free, Line, val, q
  <2>5. Line(semaphores') = Line(semaphores)
    BY <1>1, <2>3, <2>4 DEF Line
  <2>6. Free(semaphores') = [Free(semaphores) EXCEPT ![sem] = @ - 1]
    BY <1>1, <2>3, <2>4
  <2>7. Abstract!Acquire(sem)
    BY <1>1, <2>2, <2>3, <2>4, <2>5, <2>6 DEF Abstract!Acquire, Created, Free, Line
  <2> QED BY <1>1, <2>7 DEF Abstract!Next
<1> QED BY <1>3, <1>4, <1>5

(* signalSemaphore() gives a permit back, or hands it to the first in      *)
(* line: ValueCountsWaiters says that there is one when the value says so. *)
LEMMA SignalRefines ==
  ASSUME Inv, NEW owner, NEW name, signalSemaphore(owner, name)
  PROVE  Abstract!Next
<1>0. PICK sem \in Index : sem = get_semaphore_object_ID(owner, name)
  BY SemaphoreID
<1> DEFINE val == semaphores[sem].value
           q == semaphores[sem].env_queue
<1>1. sem \in Index /\ sem \in Created(semaphores)
  BY <1>0, SemaphoreID DEF Created, Index
<1>2. /\ semaphores \in [Index -> Semaphore] /\ val \in Int /\ q \in Seq(Env)
      /\ val + 1 \in Int /\ Len(q) = IF val < 0 THEN -val ELSE 0
  BY <1>1 DEF Inv, SemInv, Semaphore, ValueCountsWaiters
<1>3. CASE val + 1 <= 0
  <2>1. semaphores' = Updated(semaphores, sem, val + 1, dequeue(q))
    BY <1>0, <1>2, <1>3 DEF signalSemaphore, MustWake, Updated
  <2>2. ~(val > 0) /\ 0 = (IF val + 1 > 0 THEN val + 1 ELSE 0) /\ q # <<>>
    BY <1>2, <1>3, EmptyQueue
  <2> HIDE DEF val, q
  <2>3. /\ dequeue(q) \in Seq(Env) /\ Reverse(q) # <<>>
        /\ Reverse(dequeue(q)) = Tail(Reverse(q))
    BY <1>2, <2>2, DequeueRemoves, ReverseDequeue
  <2> DEFINE r == dequeue(q)
             v == val + 1
  <2> HIDE DEF r, v
  <2>4. /\ Created(semaphores') = Created(semaphores)
        /\ Free(semaphores') = [Free(semaphores) EXCEPT ![sem] = 0]
        /\ Line(semaphores') = [Line(semaphores) EXCEPT ![sem] = Tail(Reverse(q))]
    <3>1. v \in Int /\ r \in Seq(Env) /\ semaphores' = Updated(semaphores, sem, v, r)
      BY <1>2, <2>1, <2>3 DEF r, v
    <3>2. /\ Created(semaphores') = Created(semaphores)
          /\ Free(semaphores') = [Free(semaphores) EXCEPT ![sem] = IF v > 0 THEN v ELSE 0]
          /\ Line(semaphores') = [Line(semaphores) EXCEPT ![sem] = Reverse(r)]
      BY <1>1, <1>2, <3>1, UpdateAbstract
    <3> QED BY <2>2, <2>3, <3>2 DEF r, v
  <2>5. Free(semaphores') = Free(semaphores)
    BY <1>1, <2>2, <2>4 DEF Free, val
  <2>6. Line(semaphores') = [Line(semaphores) EXCEPT ![sem] = Tail(@)]
    BY <1>1, <2>4 DEF Line, q
  <2>7. Line(semaphores)[sem] # <<>>
    BY <1>1, <2>3 DEF Line, q
  <2>8. Abstract!HandOver(sem)
    BY <1>1, <2>4, <2>5, <2>6, <2>7 DEF Abstract!HandOver, Created, Free, Line
  <2> QED BY <1>1, <2>8 DEF Abstract!Next
<1>4. CASE val + 1 > 0
  <2>1. semaphores' = Updated(semaphores, sem, val + 1, q)
    BY <1>0, <1>2, <1>4, SemUpdateValue DEF signalSemaphore, MustWake
  <2>2. /\ q = <<>> /\ val + 1 = IF val + 1 > 0 THEN val + 1 ELSE 0
        /\ val = IF val > 0 THEN val ELSE 0
    BY <1>2, <1>4, EmptySeq
  <2> HIDE DEF val, q
  <2>3. /\ Created(semaphores') = Created(semaphores)
        /\ Free(semaphores') = [Free(semaphores) EXCEPT ![sem] = val + 1]
        /\ Line(semaphores') = [Line(semaphores) EXCEPT ![sem] = Reverse(q)]
    <3> DEFINE v == val + 1
    <3> HIDE DEF v
    <3>1. v \in Int /\ semaphores' = Updated(semaphores, sem, v, q)
      BY <1>2, <2>1 DEF v
    <3>2. /\ Created(semaphores') = Created(semaphores)
          /\ Free(semaphores') = [Free(semaphores) EXCEPT ![sem] = IF v > 0 THEN v ELSE 0]
          /\ Line(semaphores') = [Line(semaphores) EXCEPT ![sem] = Reverse(q)]
      BY <1>1, <1>2, <3>1, UpdateAbstract
    <3> QED BY <2>2, <3>2 DEF v
  <2>4. Free(semaphores)[sem] = val /\ Line(semaphores)[sem] = Reverse(q)
    BY <1>1, <2>2 DEF Free, Line, val, q
  <2>5. Line(semaphores') = Line(semaphores)
    BY <1>1, <2>3, <2>4 DEF Line
  <2>6. Free(semaphores') = [Free(semaphores) EXCEPT ![sem] = @ + 1]
    BY <1>1, <2>3, <2>4
  <2>7. Line(semaphores)[sem] = <<>>
    BY <2>2, <2>4 DEF Reverse
  <2>8. Abstract!Release(sem)
    BY <1>1, <2>3, <2>5, <2>6, <2>7 DEF Abstract!Release, Created, Free, Line
  <2> QED BY <1>1, <2>8 DEF Abstract!Next
<1> QED BY <1>2, <1>3, <1>4

(* A step that leaves the semaphores alone is a stutter of the abstract one. *)
LEMMA OtherRefines ==
  ASSUME UNCHANGED semaphores
  PROVE  UNCHANGED <<Created(semaphores), Free(semaphores), Line(semaphores)>>
  BY DEF Created, Free, Line

(* Every step is a step of the counting semaphore, or a stutter. *)
LEMMA StepRefines ==
  Inv /\ [Next]_vars =>
    [Abstract!Next]_<<Created(semaphores), Free(semaphores), Line(semaphores)>>
<1> SUFFICES ASSUME Inv, [Next]_vars
             PROVE  \/ Abstract!Next
                    \/ UNCHANGED <<Created(semaphores), Free(semaphores), Line(semaphores)>>
  OBVIOUS
<1>1. CASE \E name \in Name, v \in 0 .. MaxValue : createSemaphore(name, v)
  BY <1>1, CreateRefines
<1>2. CASE \E owner \in Env, name \in Name : waitSemaphore(owner, name)
  BY <1>2, WaitRefines
<1>3. CASE \E owner \in Env, name \in Name : signalSemaphore(owner, name)
  BY <1>3, SignalRefines
<1>4. CASE UNCHANGED semaphores
  BY <1>4, OtherRefines
<1>5. \/ UNCHANGED semaphores
      \/ \E name \in Name, v \in 0 .. MaxValue : createSemaphore(name, v)
      \/ \E owner \in Env, name \in Name : waitSemaphore(owner, name)
      \/ \E owner \in Env, name \in Name : signalSemaphore(owner, name)
  BY DEF Next, vars, createSemaphore_full, sys_getSemaphoreValue
<1> QED BY <1>1, <1>2, <1>3, <1>4, <1>5

(***************************************************************************)
(* The semaphores implement a counting semaphore: whatever the scheduler   *)
(* and the prompt do meanwhile, waitSemaphore() and signalSemaphore() take *)
(* permits and hand them over in the order in which they were asked for.   *)
(***************************************************************************)
THEOREM SemaphoresRefine == Spec => ImplementsCountingSemaphore
<1>1. Init => Abstract!Init
  BY InitRefines
<1>2. Inv /\ [Next]_vars =>
        [Abstract!Next]_<<Created(semaphores), Free(semaphores), Line(semaphores)>>
  BY StepRefines
<1> QED BY <1>1, <1>2, InvHolds, PTL
        DEF Spec, ImplementsCountingSemaphore, Abstract!Spec, Created, Free, Line
-----------------------------------------------------------------------------
(***************************************************************************)
(* The semaphore test programs, for any number of customers and any        *)
(* capacity of the shop.  The proofs rest on the invariant of the kernel   *)
(* below them: every step of the programs is a step of Semaphores.         *)
(***************************************************************************)
(***************************************************************************)
(* The inductive invariant.                                                *)
(***************************************************************************)
Finished == {"return", "statistics", "exit", "done"}

Creating == {"create_shop", "create_depend"}

CustomerLabel == {"enter", "inside", "outside"} \cup Finished

MasterLabel == Creating \cup {"create_customer", "run_customer", "wait_customer", "check"}
                        \cup Finished

Label == CustomerLabel \cup MasterLabel

LabelsOK ==
  /\ pc \in [Env -> Label]
  /\ served \in Nat
  /\ pc[master] \in MasterLabel
  /\ \A e \in Customers : pc[e] \in CustomerLabel

(* No customer exists before both semaphores do. *)
CustomersCreatedLater ==
  pc[master] \in Creating =>
    \A e \in Customers : env_status[e] = "FREE" /\ pc[e] = "enter"

(* The master's semaphores are in the first two slots, the others empty. *)
Holds(s, name) ==
  /\ s \in Slot /\ ~semaphores[s].empty
  /\ semaphores[s].ownerID = master /\ semaphores[s].name = name

SlotsInUse ==
  /\ pc[master] # "create_shop" => Holds(0, shop)
  /\ pc[master] \notin Creating => Holds(1, depend)
  /\ \A s \in Slot :
       /\ s \notin {0, 1} => semaphores[s].empty
       /\ s = 1 /\ pc[master] \in Creating => semaphores[s].empty
       /\ s = 0 /\ pc[master] = "create_shop" => semaphores[s].empty

(* The permits of the shop: each is in the semaphore or with a customer    *)
(* that is inside; a negative value is a customer that waits inside        *)
(* waitSemaphore().                                                        *)
Inside == {e \in Customers : pc[e] = "inside"}

ShopBalance ==
  pc[master] # "create_shop" =>
    /\ semaphores[0].value + Cardinality(Inside) = shopCapacity
    /\ ToSet(semaphores[0].env_queue) \subseteq Inside

(* The signals of the customers against the waits of the master. *)
Signalled == {e \in Customers : pc[e] \in Finished}

Waits == IF pc[master] = "wait_customer" THEN served
         ELSE IF pc[master] \in {"check"} \cup Finished THEN totalNumOfCusts
         ELSE 0

DependBalance ==
  pc[master] \notin Creating =>
    /\ semaphores[1].value + Waits = Cardinality(Signalled)
    /\ ToSet(semaphores[1].env_queue) \subseteq {master}

ProgramInv ==
  /\ Inv
  /\ LabelsOK
  /\ CustomersCreatedLater
  /\ SlotsInUse
  /\ ShopBalance
  /\ DependBalance
-----------------------------------------------------------------------------
(* Every step of the programs is a step of the kernel. *)
LEMMA StepOfKernel == [ProgramNext]_pvars => [Next]_vars
<1> SUFFICES ASSUME [ProgramNext]_pvars PROVE [Next]_vars
  OBVIOUS
<1>0. Customers \subseteq Env /\ 0 \in 0 .. MaxValue
  BY SemaphoreAssumption DEF Customers
<1>1. CASE run_master
  BY <1>1, ProgramAssumption DEF run_master, Next, SchedNext
<1>2. CASE create_semaphores
  BY <1>0, <1>2, ProgramAssumption DEF create_semaphores, Next
<1>3. CASE create_customer
  BY <1>0, <1>3 DEF create_customer, Next, SchedNext
<1>4. CASE run_customer
  BY <1>0, <1>4 DEF run_customer, Next, SchedNext
<1>5. CASE wait_customer
  BY <1>5, ProgramAssumption DEF wait_customer, Next
<1>6. CASE enter_shop
  BY <1>6, ProgramAssumption DEF enter_shop, Next
<1>7. CASE leave_shop
  BY <1>7, ProgramAssumption DEF leave_shop, Next
<1>8. CASE signal_master
  BY <1>8, ProgramAssumption DEF signal_master, Next
<1>9. CASE libmain
  BY <1>9 DEF libmain, Next, SchedNext
<1>10. CASE clock
  BY <1>10 DEF clock, Next, SchedNext
<1>11. CASE UNCHANGED vars
  BY <1>11
<1> QED BY <1>1, <1>2, <1>3, <1>4, <1>5, <1>6, <1>7, <1>8, <1>9, <1>10, <1>11
        DEF ProgramNext, Program, check_values, Stop, pvars

(* The environment on the CPU waits nowhere, and is the master while the   *)
(* semaphores are created.                                                 *)
LEMMA Running ==
  ASSUME ProgramInv, curenv # NULL
  PROVE  /\ curenv \in Env /\ env_status[curenv] = "RUNNABLE"
         /\ \A s \in Index : curenv \notin ToSet(semaphores[s].env_queue)
         /\ curenv # master => curenv \in Customers /\ pc[master] \notin Creating
<1>1. curenv \in Env /\ env_status[curenv] = "RUNNABLE"
  BY DEF ProgramInv, Inv, SchedInv, Consistent
<1>2. \A s \in Index : curenv \notin ToSet(semaphores[s].env_queue)
  BY <1>1 DEF ProgramInv, Inv, SemInv, Waiters, in_queue
<1>3. curenv # master => curenv \in Customers
  BY <1>1 DEF Customers
<1> QED BY <1>1, <1>2, <1>3 DEF ProgramInv, CustomersCreatedLater

(* An environment that is neither ready nor running keeps its status when  *)
(* the scheduler is invoked.                                               *)
LEMMA SchedulerLeaves ==
  ASSUME NEW cur \in Env \cup {NULL}, NEW ready \in Seq(Env), NEW status \in [Env -> Status],
         fos_scheduler(cur, ready, status),
         NEW e \in Env, e # cur, e \notin ToSet(ready)
  PROVE  env_status'[e] = status[e]
<1> DEFINE queue == IF cur = NULL THEN ready ELSE enqueue(ready, cur)
<1>1. queue \in Seq(Env) /\ e \notin ToSet(queue)
  <2>1. CASE cur = NULL
    BY <2>1
  <2>2. CASE cur # NULL
    <3>1. enqueue(ready, cur) \in Seq(Env) /\ ToSet(enqueue(ready, cur)) = ToSet(ready) \cup {cur}
      BY <2>2, EnqueueAdds
    <3> QED BY <2>2, <3>1
  <2> QED BY <2>1, <2>2
<1>2. CASE queue # <<>>
  <2> HIDE DEF queue
  <2>1. dequeued(queue) # e /\ dequeued(queue) \in Env
    BY <1>1, <1>2, DequeueRemoves
  <2>2. env_status' = [status EXCEPT ![dequeued(queue)] = "RUNNABLE"]
    BY <1>2 DEF fos_scheduler, env_run, queue
  <2> QED BY <2>1, <2>2
<1>3. CASE queue = <<>>
  BY <1>3 DEF fos_scheduler
<1> QED BY <1>2, <1>3

(* The two names lead to the two slots. *)
LEMMA Lookup ==
  ASSUME ProgramInv, pc[master] \notin Creating
  PROVE  /\ get_semaphore_object_ID(master, shop) = 0
         /\ get_semaphore_object_ID(master, depend) = 1
         /\ 0 \in Index /\ 1 \in Index
<1>1. /\ Holds(0, shop) /\ Holds(1, depend)
      /\ \A s \in Slot : s \notin {0, 1} => semaphores[s].empty
  BY DEF ProgramInv, SlotsInUse, Creating
<1>2. Matches(master, shop) = {0} /\ Matches(master, depend) = {1}
  BY <1>1, ProgramAssumption DEF Holds, Matches
<1>3. ASSUME NEW name, NEW s \in Int, Matches(master, name) = {s}
      PROVE  get_semaphore_object_ID(master, name) = s
  BY <1>3 DEF get_semaphore_object_ID
<1> QED BY <1>1, <1>2, <1>3 DEF Holds, Index

(* What an operation on one semaphore leaves: its value is v, nobody but   *)
(* the members of new joins its queue, and the rest stays.                 *)
Moved(sem, v, new) ==
  /\ semaphores'[sem].value = v
  /\ ToSet(semaphores'[sem].env_queue) \subseteq ToSet(semaphores[sem].env_queue) \cup new
  /\ \A s \in Index : s # sem => semaphores'[s] = semaphores[s]
  /\ \A s \in Index : /\ semaphores'[s].empty = semaphores[s].empty
                      /\ semaphores'[s].ownerID = semaphores[s].ownerID
                      /\ semaphores'[s].name = semaphores[s].name

LEMMA UpdateMoves ==
  ASSUME NEW sem \in Index, NEW v \in Int, NEW q \in Seq(Env), NEW new,
         semaphores \in [Index -> Semaphore],
         semaphores' = Updated(semaphores, sem, v, q),
         ToSet(q) \subseteq ToSet(semaphores[sem].env_queue) \cup new
  PROVE  Moved(sem, v, new)
<1> DEFINE rec == [semaphores[sem] EXCEPT !.value = v, !.env_queue = q]
<1>1. semaphores' = [semaphores EXCEPT ![sem] = rec]
  BY DEF Updated
<1>2. /\ rec.value = v /\ rec.env_queue = q /\ rec.empty = semaphores[sem].empty
      /\ rec.ownerID = semaphores[sem].ownerID /\ rec.name = semaphores[sem].name
  BY DEF Semaphore
<1> HIDE DEF rec
<1> QED BY <1>1, <1>2 DEF Moved

LEMMA WaitMoves ==
  ASSUME Inv, NEW owner, NEW name, waitSemaphore(owner, name)
  PROVE  LET sem == get_semaphore_object_ID(owner, name)
         IN Moved(sem, semaphores[sem].value - 1, {curenv})
<1> DEFINE sem == get_semaphore_object_ID(owner, name)
           res == semaphores[sem].value - 1
           q == semaphores[sem].env_queue
<1>1. sem \in Index
  BY SemaphoreID
<1>2. semaphores \in [Index -> Semaphore] /\ res \in Int /\ q \in Seq(Env)
  BY <1>1 DEF Inv, SemInv, Semaphore
<1>3. curenv \in Env
  BY DEF waitSemaphore, Inv, SchedInv, Consistent
<1>4. CASE res < 0
  <2>1. semaphores' = Updated(semaphores, sem, res, enqueue(q, curenv))
    BY <1>1, <1>2, <1>4 DEF waitSemaphore, MustBlock, Updated
  <2> HIDE DEF sem, res, q
  <2>2. enqueue(q, curenv) \in Seq(Env) /\ ToSet(enqueue(q, curenv)) = ToSet(q) \cup {curenv}
    BY <1>2, <1>3, EnqueueAdds
  <2>3. ToSet(enqueue(q, curenv)) \subseteq ToSet(semaphores[sem].env_queue) \cup {curenv}
    BY <2>2 DEF q
  <2>4. Moved(sem, res, {curenv})
    BY <1>1, <1>2, <2>1, <2>2, <2>3, UpdateMoves
  <2> QED BY <2>4 DEF sem, res
<1>5. CASE ~(res < 0)
  <2>1. semaphores' = Updated(semaphores, sem, res, q)
    BY <1>1, <1>2, <1>5, SemUpdateValue DEF waitSemaphore, MustBlock
  <2>2. Moved(sem, res, {curenv})
    <3> HIDE DEF sem, res
    <3> QED BY <1>1, <1>2, <2>1, UpdateMoves
  <2> QED BY <2>2
<1> QED BY <1>4, <1>5

LEMMA SignalMoves ==
  ASSUME Inv, NEW owner, NEW name, signalSemaphore(owner, name)
  PROVE  LET sem == get_semaphore_object_ID(owner, name)
         IN Moved(sem, semaphores[sem].value + 1, {})
<1> DEFINE sem == get_semaphore_object_ID(owner, name)
           res == semaphores[sem].value + 1
           q == semaphores[sem].env_queue
<1>1. sem \in Index
  BY SemaphoreID
<1>2. /\ semaphores \in [Index -> Semaphore] /\ res \in Int /\ q \in Seq(Env)
      /\ semaphores[sem].value \in Int /\ NoDuplicates(q)
      /\ Len(q) = IF semaphores[sem].value < 0 THEN -semaphores[sem].value ELSE 0
  BY <1>1 DEF Inv, SemInv, Semaphore, ValueCountsWaiters
<1>3. CASE res <= 0
  <2>1. semaphores' = Updated(semaphores, sem, res, dequeue(q))
    BY <1>1, <1>2, <1>3 DEF signalSemaphore, MustWake, Updated
  <2>2. q # <<>>
    BY <1>2, <1>3, EmptyQueue
  <2> HIDE DEF sem, res, q
  <2>3. dequeue(q) \in Seq(Env) /\ ToSet(dequeue(q)) \subseteq ToSet(q)
    BY <1>2, <2>2, DequeueRemoves
  <2>4. ToSet(dequeue(q)) \subseteq ToSet(semaphores[sem].env_queue) \cup {}
    BY <2>3 DEF q
  <2>5. Moved(sem, res, {})
    BY <1>1, <1>2, <2>1, <2>3, <2>4, UpdateMoves
  <2> QED BY <2>5 DEF sem, res
<1>4. CASE ~(res <= 0)
  <2>1. semaphores' = Updated(semaphores, sem, res, q)
    BY <1>1, <1>2, <1>4, SemUpdateValue DEF signalSemaphore, MustWake
  <2>2. Moved(sem, res, {})
    <3> HIDE DEF sem, res
    <3> QED BY <1>1, <1>2, <2>1, UpdateMoves
  <2> QED BY <2>2
<1> QED BY <1>3, <1>4

(* The numbers of customers. *)
LEMMA CustomersFinite ==
  /\ IsFiniteSet(Customers) /\ totalNumOfCusts \in Nat
  /\ IsFiniteSet(Inside) /\ Cardinality(Inside) \in Nat
  /\ IsFiniteSet(Signalled) /\ Cardinality(Signalled) \in Nat
  /\ Cardinality(Signalled) <= totalNumOfCusts
  /\ Cardinality(Signalled) = totalNumOfCusts => Signalled = Customers
<1>1. Customers \subseteq Env /\ Inside \subseteq Customers /\ Signalled \subseteq Customers
  BY DEF Customers, Inside, Signalled
<1>2. IsFiniteSet(Customers)
  BY <1>1, ProgramAssumption, FS_Subset
<1>3. IsFiniteSet(Inside) /\ IsFiniteSet(Signalled)
  BY <1>1, <1>2, FS_Subset
<1>4. /\ Cardinality(Signalled) <= Cardinality(Customers)
      /\ Cardinality(Signalled) = Cardinality(Customers) => Signalled = Customers
  BY <1>1, <1>2, FS_Subset
<1> QED BY <1>2, <1>3, <1>4, FS_CardinalityType DEF totalNumOfCusts
-----------------------------------------------------------------------------
(***************************************************************************)
(* Each step keeps the invariant.                                          *)
(***************************************************************************)
ProgramPart ==
  LabelsOK /\ CustomersCreatedLater /\ SlotsInUse /\ ShopBalance /\ DependBalance

(* A step that moves no customer in or out and touches no semaphore. *)
LEMMA QuietStep ==
  ASSUME ProgramInv, UNCHANGED semaphores, LabelsOK',
         pc[master] \notin Creating, pc'[master] \notin Creating,
         Inside' = Inside, Signalled' = Signalled, Waits' = Waits
  PROVE  ProgramPart'
<1>1. CustomersCreatedLater'
  BY DEF CustomersCreatedLater
<1>2. pc[master] # "create_shop" /\ pc'[master] # "create_shop"
  BY DEF Creating
<1>3. SlotsInUse'
  BY <1>2 DEF ProgramInv, SlotsInUse, Holds
<1>4. ShopBalance'
  BY <1>2 DEF ProgramInv, ShopBalance
<1>5. DependBalance'
  BY DEF ProgramInv, DependBalance
<1> QED BY <1>1, <1>3, <1>4, <1>5 DEF ProgramPart

(* The clock, and the start of the master: the programs stay where they    *)
(* are.                                                                    *)
LEMMA ScheduleKeepsPrograms ==
  ASSUME ProgramInv, UNCHANGED <<semaphores, pc, served>>,
         \A e \in Customers : env_status[e] = "FREE" => env_status'[e] = "FREE"
  PROVE  ProgramPart'
  BY DEF ProgramInv, ProgramPart, LabelsOK, CustomersCreatedLater, SlotsInUse, Holds,
         ShopBalance, DependBalance, Inside, Signalled, Waits

LEMMA RunMasterKeeps ==
  ASSUME ProgramInv, run_master
  PROVE  ProgramPart'
<1>1. Consistent(curenv, env_ready_queue, env_status, env_new_queue, env_exit_queue, lost)
  BY DEF ProgramInv, Inv, SchedInv
<1>2. curenv = NULL /\ env_ready_queue = <<>>
  BY DEF run_master, command_run_program, AtPrompt, ProgramInv, Inv, SchedInv, PromptIsIdle
<1> DEFINE ready == enqueue(env_ready_queue, master)
           st == [env_status EXCEPT ![master] = "READY"]
<1>3. fos_scheduler(NULL, ready, st)
  BY <1>2 DEF run_master, command_run_program
<1>4. ready \in Seq(Env) /\ ToSet(ready) = {master}
  <2>1. env_ready_queue \in Seq(Env) /\ ToSet(env_ready_queue) = {}
    BY <1>1, <1>2, EmptyQueue DEF Consistent
  <2>2. \A q \in Seq(Env) : /\ enqueue(q, master) \in Seq(Env)
                             /\ ToSet(enqueue(q, master)) = ToSet(q) \cup {master}
    BY ProgramAssumption, EnqueueAdds
  <2>3. /\ enqueue(env_ready_queue, master) \in Seq(Env)
        /\ ToSet(enqueue(env_ready_queue, master)) = ToSet(env_ready_queue) \cup {master}
    BY <2>1, <2>2
  <2> QED BY <2>1, <2>3
<1>5. st \in [Env -> Status] /\ \A e \in Customers : st[e] = env_status[e]
  BY <1>1 DEF Consistent, Status, Customers
<1> HIDE DEF ready, st
<1>6. ASSUME NEW e \in Customers PROVE env_status'[e] = st[e]
  <2>1. e \in Env /\ e # NULL /\ e \notin ToSet(ready)
    BY <1>4, NullAssumption DEF Customers
  <2> QED BY <1>3, <1>4, <1>5, <2>1, SchedulerLeaves
<1> QED BY <1>5, <1>6, ScheduleKeepsPrograms DEF run_master

LEMMA ClockKeepsPrograms ==
  ASSUME ProgramInv, clock
  PROVE  ProgramPart'
<1>1. Consistent(curenv, env_ready_queue, env_status, env_new_queue, env_exit_queue, lost)
  BY DEF ProgramInv, Inv, SchedInv
<1>2. fos_scheduler(curenv, env_ready_queue, env_status)
  BY DEF clock, clock_interrupt_handler
<1>3. /\ curenv \in Env \cup {NULL} /\ env_ready_queue \in Seq(Env)
      /\ env_status \in [Env -> Status]
  BY <1>1 DEF Consistent
<1>4. ASSUME NEW e \in Customers, env_status[e] = "FREE" PROVE env_status'[e] = "FREE"
  <2>1. e \in Env /\ e # curenv /\ e \notin ToSet(env_ready_queue)
    BY <1>1, <1>4, NullAssumption DEF Consistent, Customers
  <2> QED BY <1>2, <1>3, <1>4, <2>1, SchedulerLeaves
<1> QED BY <1>4, ScheduleKeepsPrograms DEF clock

(* The calls that only the master makes. *)
LEMMA MasterRuns ==
  ASSUME ProgramInv, NEW label, At(label), label \notin CustomerLabel
  PROVE  curenv = master /\ pc[master] = label
<1>1. curenv # NULL /\ pc[curenv] = label
  BY DEF At, AtOneOf
<1> QED BY <1>1, Running DEF ProgramInv, LabelsOK

(* The calls that only a customer makes. *)
LEMMA CustomerRuns ==
  ASSUME ProgramInv, NEW label, At(label), label \notin MasterLabel
  PROVE  /\ curenv \in Customers /\ pc[curenv] = label
         /\ pc[master] \notin Creating
<1>1. curenv # NULL /\ pc[curenv] = label
  BY DEF At, AtOneOf
<1> QED BY <1>1, Running DEF ProgramInv, LabelsOK

(* Where a step of the master leaves the customers. *)
LEMMA MasterGoes ==
  ASSUME ProgramInv, curenv = master, NEW label \in MasterLabel,
         pc' = [pc EXCEPT ![curenv] = label], served' \in Nat
  PROVE  /\ LabelsOK' /\ pc'[master] = label
         /\ \A e \in Customers : pc'[e] = pc[e]
         /\ Inside' = Inside /\ Signalled' = Signalled
<1>1. pc \in [Env -> Label] /\ master \in Env /\ label \in Label
  BY ProgramAssumption DEF ProgramInv, LabelsOK, Label
<1>2. /\ pc' \in [Env -> Label] /\ pc'[master] = label
      /\ \A e \in Customers : pc'[e] = pc[e]
  BY <1>1 DEF Customers
<1> QED BY <1>2 DEF ProgramInv, LabelsOK, Inside, Signalled

LEMMA CustomerGoes ==
  ASSUME ProgramInv, curenv \in Customers, NEW label \in CustomerLabel,
         pc' = [pc EXCEPT ![curenv] = label], UNCHANGED served
  PROVE  /\ LabelsOK' /\ pc'[master] = pc[master] /\ pc'[curenv] = label
         /\ \A e \in Customers : e # curenv => pc'[e] = pc[e]
         /\ Waits' = Waits
<1>1. pc \in [Env -> Label] /\ master \in Env /\ label \in Label
  BY ProgramAssumption DEF ProgramInv, LabelsOK, Label
<1>2. curenv # master /\ curenv \in Env
  BY DEF Customers
<1>3. /\ pc' \in [Env -> Label] /\ pc'[master] = pc[master] /\ pc'[curenv] = label
      /\ \A e \in Customers : e # curenv => pc'[e] = pc[e]
  BY <1>1, <1>2 DEF Customers
<1>4. LabelsOK'
  BY <1>3 DEF ProgramInv, LabelsOK
<1> QED BY <1>3, <1>4 DEF Waits

(* The slot that createSemaphore() takes, and what is in it then. *)
LEMMA CreateTakes ==
  ASSUME ProgramInv, NEW name \in Name, NEW v \in Int, createSemaphore(name, v),
         NEW n \in Nat, curenv = master,
         \A t \in Slot : semaphores[t].empty <=> t >= n
  PROVE  /\ n \in Slot /\ semaphores[n].env_queue = <<>>
         /\ semaphores'[n].value = v /\ ~semaphores'[n].empty
         /\ semaphores'[n].ownerID = master /\ semaphores'[n].name = name
         /\ semaphores'[n].env_queue = <<>>
         /\ \A t \in Index : t # n => semaphores'[t] = semaphores[t]
         /\ UNCHANGED schedVars
<1>1. PICK s \in Slot : /\ IsFirstEmpty(s)
                        /\ semaphores' = [semaphores EXCEPT ![s] =
                             [empty |-> FALSE, ownerID |-> curenv, name |-> name,
                              value |-> v, env_queue |-> @.env_queue]]
  BY DEF createSemaphore
<1>2. s = n
  <2>1. s \in Nat /\ s >= n
    BY <1>1 DEF IsFirstEmpty, Slot
  <2>2. n \in Slot
    BY <2>1, SemaphoreAssumption DEF Slot
  <2>3. ~(n < s)
    BY <1>1, <2>2 DEF IsFirstEmpty
  <2> QED BY <2>1, <2>3
<1>3. semaphores \in [Index -> Semaphore] /\ n \in Index /\ n \in Slot
  BY <1>2 DEF ProgramInv, Inv, SemInv, Index
<1>4. semaphores[n].env_queue = <<>>
  BY <1>1, <1>2 DEF IsFirstEmpty, ProgramInv, Inv, SemInv
<1>5. UNCHANGED schedVars
  BY DEF createSemaphore
<1>6. semaphores'[n] = [empty |-> FALSE, ownerID |-> master, name |-> name,
                        value |-> v, env_queue |-> semaphores[n].env_queue]
  BY <1>1, <1>2, <1>3
<1>7. \A t \in Index : t # n => semaphores'[t] = semaphores[t]
  BY <1>1, <1>2, <1>3
<1> QED BY <1>2, <1>3, <1>4, <1>5, <1>6, <1>7

LEMMA CreateShopKeeps ==
  ASSUME ProgramInv, curenv = master, pc[master] = "create_shop",
         NEW v \in Int, v = shopCapacity, createSemaphore(shop, v),
         LabelsOK', pc'[master] = "create_depend",
         \A e \in Customers : pc'[e] = pc[e],
         Inside' = Inside, Signalled' = Signalled
  PROVE  ProgramPart'
<1>1. curenv = master /\ pc[master] = "create_shop"
  OBVIOUS
<1>2. shopCapacity \in Int /\ shop \in Name
  BY SemaphoreAssumption, ProgramAssumption
<1>3. /\ LabelsOK' /\ pc'[master] = "create_depend"
      /\ \A e \in Customers : pc'[e] = pc[e]
      /\ Inside' = Inside /\ Signalled' = Signalled
  OBVIOUS
<1>4. \A t \in Slot : semaphores[t].empty <=> t >= 0
  <2>1. \A t \in Slot : t >= 0
    BY SemaphoreAssumption DEF Slot
  <2> QED BY <1>1, <2>1 DEF ProgramInv, SlotsInUse, Creating
<1>5. /\ 0 \in Slot
      /\ semaphores'[0].value = v /\ ~semaphores'[0].empty
      /\ semaphores'[0].ownerID = master /\ semaphores'[0].name = shop
      /\ semaphores'[0].env_queue = <<>>
      /\ \A t \in Index : t # 0 => semaphores'[t] = semaphores[t]
      /\ UNCHANGED schedVars
  <2>1. 0 \in Nat
    OBVIOUS
  <2> QED BY <1>1, <1>2, <1>4, <2>1, CreateTakes
<1>6. CustomersCreatedLater'
  BY <1>1, <1>3, <1>5 DEF ProgramInv, CustomersCreatedLater, Creating, schedVars
<1>7. SlotsInUse'
  <2>1. pc'[master] \in Creating /\ pc[master] \in Creating
    BY <1>1, <1>3 DEF Creating
  <2>2. \A s \in Slot : s # 0 => semaphores'[s].empty
    BY <1>1, <1>5 DEF ProgramInv, SlotsInUse, Creating, Index
  <2>3. Holds(0, shop)'
    BY <1>5 DEF Holds
  <2>4. pc'[master] # "create_shop"
    BY <1>3
  <2> QED BY <2>1, <2>2, <2>3, <2>4 DEF SlotsInUse
<1>8. ShopBalance'
  <2>1. Inside = {}
    BY <1>1 DEF ProgramInv, CustomersCreatedLater, Creating, Inside
  <2>2. Cardinality(Inside') = 0
    BY <1>3, <2>1, FS_EmptySet
  <2>3. ToSet(semaphores'[0].env_queue) = {}
    BY <1>5, EmptyQueue
  <2>4. semaphores'[0].value + Cardinality(Inside') = shopCapacity
    BY <1>2, <1>5, <2>2
  <2> QED BY <2>3, <2>4 DEF ShopBalance
<1>9. DependBalance'
  BY <1>3 DEF DependBalance, Creating
<1> QED BY <1>3, <1>6, <1>7, <1>8, <1>9 DEF ProgramPart

LEMMA CreateDependKeeps ==
  ASSUME ProgramInv, curenv = master, pc[master] = "create_depend",
         NEW v \in Int, v = 0, createSemaphore(depend, v),
         LabelsOK', pc'[master] = "create_customer",
         \A e \in Customers : pc'[e] = pc[e],
         Inside' = Inside, Signalled' = Signalled
  PROVE  ProgramPart'
<1>1. curenv = master /\ pc[master] = "create_depend"
  OBVIOUS
<1>2. depend \in Name
  BY ProgramAssumption
<1>3. /\ LabelsOK' /\ pc'[master] = "create_customer"
      /\ \A e \in Customers : pc'[e] = pc[e]
      /\ Inside' = Inside /\ Signalled' = Signalled
  OBVIOUS
<1>4. /\ pc[master] \in Creating /\ pc[master] # "create_shop"
      /\ pc'[master] \notin Creating /\ pc'[master] # "create_shop"
  BY <1>1, <1>3 DEF Creating
<1>5. \A t \in Slot : semaphores[t].empty <=> t >= 1
  <2>1. /\ ~semaphores[0].empty
        /\ \A s \in Slot : s # 0 => semaphores[s].empty
    BY <1>4 DEF ProgramInv, SlotsInUse, Holds
  <2>2. \A t \in Slot : t # 0 <=> t >= 1
    BY SemaphoreAssumption DEF Slot
  <2> QED BY <2>1, <2>2
<1>6. /\ 1 \in Slot
      /\ semaphores'[1].value = v /\ ~semaphores'[1].empty
      /\ semaphores'[1].ownerID = master /\ semaphores'[1].name = depend
      /\ semaphores'[1].env_queue = <<>>
      /\ \A t \in Index : t # 1 => semaphores'[t] = semaphores[t]
  <2>1. 1 \in Nat /\ 0 \in Int
    OBVIOUS
  <2> QED BY <1>1, <1>2, <1>5, <2>1, CreateTakes
<1>7. 0 \in Index /\ semaphores'[0] = semaphores[0]
  BY <1>4, <1>6 DEF ProgramInv, SlotsInUse, Holds, Index
<1>8. CustomersCreatedLater'
  BY <1>4 DEF CustomersCreatedLater
<1>9. SlotsInUse'
  <2>1. \A s \in Slot : s \notin {0, 1} => semaphores'[s].empty
    BY <1>6 DEF ProgramInv, SlotsInUse, Index
  <2>2. Holds(0, shop)'
    BY <1>4, <1>7 DEF ProgramInv, SlotsInUse, Holds
  <2>3. Holds(1, depend)'
    BY <1>6 DEF Holds
  <2> QED BY <1>4, <2>1, <2>2, <2>3 DEF SlotsInUse
<1>10. ShopBalance'
  BY <1>3, <1>4, <1>7 DEF ProgramInv, ShopBalance
<1>11. DependBalance'
  <2>1. Signalled = {}
    BY <1>4 DEF ProgramInv, CustomersCreatedLater, Signalled, Finished
  <2>2. Cardinality(Signalled') = 0
    BY <1>3, <2>1, FS_EmptySet
  <2>3. Waits' = 0
    BY <1>3 DEF Waits, Finished
  <2>4. ToSet(semaphores'[1].env_queue) = {}
    BY <1>6, EmptyQueue
  <2>5. semaphores'[1].value + Waits' = Cardinality(Signalled')
    BY <1>6, <2>2, <2>3
  <2> QED BY <2>4, <2>5 DEF DependBalance
<1> QED BY <1>3, <1>8, <1>9, <1>10, <1>11 DEF ProgramPart

LEMMA StartCustomerKeeps ==
  ASSUME ProgramInv, create_customer \/ run_customer
  PROVE  ProgramPart'
<1>1. /\ At("create_customer") \/ At("run_customer")
      /\ UNCHANGED semaphores
  BY DEF create_customer, run_customer
<1>2. curenv = master /\ pc[master] \in {"create_customer", "run_customer"}
  <2>1. "create_customer" \notin CustomerLabel /\ "run_customer" \notin CustomerLabel
    BY DEF CustomerLabel, Finished
  <2> QED BY <1>1, <2>1, MasterRuns
<1>3. PICK label \in {"create_customer", "run_customer", "wait_customer"} :
        /\ pc' = [pc EXCEPT ![curenv] = label]
        /\ label = "wait_customer" => served' = 0
  <2>1. CASE create_customer
    BY <2>1 DEF create_customer, Goto
  <2>2. CASE run_customer
    BY <2>2 DEF run_customer, Goto
  <2> QED BY <2>1, <2>2
<1>4. label \in MasterLabel /\ served' \in Nat
  <2>1. served \in Nat
    BY DEF ProgramInv, LabelsOK
  <2>2. served' = served \/ served' = 0 \/ served' = served + 1
    BY DEF create_customer, run_customer
  <2>3. served' \in Nat
    BY <2>1, <2>2
  <2> QED BY <2>3 DEF MasterLabel
<1>5. /\ LabelsOK' /\ pc'[master] = label
      /\ Inside' = Inside /\ Signalled' = Signalled
  BY <1>2, <1>3, <1>4, MasterGoes
<1>6. pc[master] \notin Creating /\ pc'[master] \notin Creating
  BY <1>2, <1>5 DEF Creating
<1>7. Waits = 0 /\ Waits' = 0
  BY <1>2, <1>3, <1>5 DEF Waits, Finished
<1> QED BY <1>1, <1>5, <1>6, <1>7, QuietStep

(* An operation on one of the two semaphores leaves the slots as they are. *)
LEMMA MovedSlots ==
  ASSUME ProgramInv, pc[master] \notin Creating, pc'[master] \notin Creating,
         NEW sem, NEW v, NEW new, Moved(sem, v, new)
  PROVE  SlotsInUse' /\ CustomersCreatedLater'
<1>1. pc[master] # "create_shop" /\ pc'[master] # "create_shop"
  BY DEF Creating
<1>2. \A s \in Slot : /\ semaphores'[s].empty = semaphores[s].empty
                      /\ semaphores'[s].ownerID = semaphores[s].ownerID
                      /\ semaphores'[s].name = semaphores[s].name
  BY DEF Moved, Index
<1>3. SlotsInUse'
  BY <1>1, <1>2 DEF ProgramInv, SlotsInUse, Holds
<1> QED BY <1>3 DEF CustomersCreatedLater

(* The values and the queues of the two semaphores, once they exist. *)
LEMMA Balances ==
  ASSUME ProgramInv, pc[master] \notin Creating
  PROVE  /\ semaphores[0].value \in Int /\ semaphores[1].value \in Int
         /\ semaphores[0].value + Cardinality(Inside) = shopCapacity
         /\ ToSet(semaphores[0].env_queue) \subseteq Inside
         /\ semaphores[1].value + Waits = Cardinality(Signalled)
         /\ ToSet(semaphores[1].env_queue) \subseteq {master}
         /\ Waits \in Nat /\ shopCapacity \in Nat
         /\ 0 \in Index /\ 1 \in Index /\ pc[master] # "create_shop"
<1>1. pc[master] # "create_shop"
  BY DEF Creating
<1>2. 0 \in Index /\ 1 \in Index
  BY <1>1 DEF ProgramInv, SlotsInUse, Holds, Index
<1>3. semaphores[0].value \in Int /\ semaphores[1].value \in Int
  BY <1>2 DEF ProgramInv, Inv, SemInv, Semaphore
<1>4. Waits \in Nat
  BY CustomersFinite DEF ProgramInv, LabelsOK, Waits
<1>5. shopCapacity \in Nat
  BY SemaphoreAssumption, ProgramAssumption
<1> QED BY <1>1, <1>2, <1>3, <1>4, <1>5 DEF ProgramInv, ShopBalance, DependBalance

LEMMA EnterShopKeeps ==
  ASSUME ProgramInv, enter_shop
  PROVE  ProgramPart'
<1>1. /\ curenv \in Customers /\ pc[curenv] = "enter" /\ pc[master] \notin Creating
      /\ curenv # NULL
  <2>1. At("enter") /\ "enter" \notin MasterLabel
    BY DEF enter_shop, MasterLabel, Creating, Finished
  <2> QED BY <2>1, CustomerRuns DEF At, AtOneOf
<1>2. /\ LabelsOK' /\ pc'[master] = pc[master] /\ pc'[curenv] = "inside"
      /\ \A e \in Customers : e # curenv => pc'[e] = pc[e]
      /\ Waits' = Waits
  <2>1. "inside" \in CustomerLabel
    BY DEF CustomerLabel
  <2> QED BY <1>1, <2>1, CustomerGoes DEF enter_shop, Goto
<1>3. Moved(0, semaphores[0].value - 1, {curenv})
  BY <1>1, Lookup, WaitMoves DEF enter_shop, ProgramInv
<1>4. SlotsInUse' /\ CustomersCreatedLater'
  BY <1>1, <1>2, <1>3, MovedSlots
<1>5. Inside' = Inside \cup {curenv} /\ curenv \notin Inside /\ Signalled' = Signalled
  BY <1>1, <1>2 DEF Inside, Signalled, Finished
<1>6. Cardinality(Inside') = Cardinality(Inside) + 1
  BY <1>5, CustomersFinite, FS_AddElement
<1>7. /\ semaphores'[0].value = semaphores[0].value - 1
      /\ ToSet(semaphores'[0].env_queue) \subseteq ToSet(semaphores[0].env_queue) \cup {curenv}
      /\ semaphores'[1] = semaphores[1]
  BY <1>1, <1>3, Balances DEF Moved
<1>8. ShopBalance'
  <2>1. semaphores'[0].value + Cardinality(Inside') = shopCapacity
    <3>1. /\ semaphores[0].value \in Int /\ Cardinality(Inside) \in Nat
          /\ semaphores[0].value + Cardinality(Inside) = shopCapacity
      BY <1>1, Balances, CustomersFinite
    <3> QED BY <1>6, <1>7, <3>1
  <2>2. ToSet(semaphores'[0].env_queue) \subseteq Inside'
    BY <1>1, <1>5, <1>7, Balances
  <2> QED BY <2>1, <2>2 DEF ShopBalance
<1>9. DependBalance'
  BY <1>1, <1>2, <1>5, <1>7, Balances DEF DependBalance
<1> QED BY <1>2, <1>4, <1>8, <1>9 DEF ProgramPart

LEMMA LeaveShopKeeps ==
  ASSUME ProgramInv, leave_shop
  PROVE  ProgramPart'
<1>1. /\ curenv \in Customers /\ pc[curenv] = "inside" /\ pc[master] \notin Creating
      /\ curenv # NULL
  <2>1. At("inside") /\ "inside" \notin MasterLabel
    BY DEF leave_shop, MasterLabel, Creating, Finished
  <2> QED BY <2>1, CustomerRuns DEF At, AtOneOf
<1>2. /\ LabelsOK' /\ pc'[master] = pc[master] /\ pc'[curenv] = "outside"
      /\ \A e \in Customers : e # curenv => pc'[e] = pc[e]
      /\ Waits' = Waits
  <2>1. "outside" \in CustomerLabel
    BY DEF CustomerLabel
  <2> QED BY <1>1, <2>1, CustomerGoes DEF leave_shop, Goto
<1>3. Moved(0, semaphores[0].value + 1, {})
  BY <1>1, Lookup, SignalMoves DEF leave_shop, ProgramInv
<1>4. SlotsInUse' /\ CustomersCreatedLater'
  BY <1>1, <1>2, <1>3, MovedSlots
<1>5. Inside' = Inside \ {curenv} /\ curenv \in Inside /\ Signalled' = Signalled
  BY <1>1, <1>2 DEF Inside, Signalled, Finished
<1>6. Cardinality(Inside') = Cardinality(Inside) - 1
  BY <1>5, CustomersFinite, FS_RemoveElement
<1>7. /\ semaphores'[0].value = semaphores[0].value + 1
      /\ ToSet(semaphores'[0].env_queue) \subseteq ToSet(semaphores[0].env_queue)
      /\ semaphores'[1] = semaphores[1]
      /\ curenv \notin ToSet(semaphores[0].env_queue)
  BY <1>1, <1>3, Balances, Running DEF Moved
<1>8. ShopBalance'
  <2>1. semaphores'[0].value + Cardinality(Inside') = shopCapacity
    <3>1. /\ semaphores[0].value \in Int /\ Cardinality(Inside) \in Nat
          /\ semaphores[0].value + Cardinality(Inside) = shopCapacity
      BY <1>1, Balances, CustomersFinite
    <3> QED BY <1>6, <1>7, <3>1
  <2>2. ToSet(semaphores'[0].env_queue) \subseteq Inside'
    BY <1>1, <1>5, <1>7, Balances
  <2> QED BY <2>1, <2>2 DEF ShopBalance
<1>9. DependBalance'
  BY <1>1, <1>2, <1>5, <1>7, Balances DEF DependBalance
<1> QED BY <1>2, <1>4, <1>8, <1>9 DEF ProgramPart

LEMMA SignalMasterKeeps ==
  ASSUME ProgramInv, signal_master
  PROVE  ProgramPart'
<1>1. /\ curenv \in Customers /\ pc[curenv] = "outside" /\ pc[master] \notin Creating
      /\ curenv # NULL
  <2>1. At("outside") /\ "outside" \notin MasterLabel
    BY DEF signal_master, MasterLabel, Creating, Finished
  <2> QED BY <2>1, CustomerRuns DEF At, AtOneOf
<1>2. /\ LabelsOK' /\ pc'[master] = pc[master] /\ pc'[curenv] = "return"
      /\ \A e \in Customers : e # curenv => pc'[e] = pc[e]
      /\ Waits' = Waits
  <2>1. "return" \in CustomerLabel
    BY DEF CustomerLabel, Finished
  <2> QED BY <1>1, <2>1, CustomerGoes DEF signal_master, Goto
<1>3. Moved(1, semaphores[1].value + 1, {})
  BY <1>1, Lookup, SignalMoves DEF signal_master, ProgramInv
<1>4. SlotsInUse' /\ CustomersCreatedLater'
  BY <1>1, <1>2, <1>3, MovedSlots
<1>5. Signalled' = Signalled \cup {curenv} /\ curenv \notin Signalled /\ Inside' = Inside
  BY <1>1, <1>2 DEF Inside, Signalled, Finished
<1>6. Cardinality(Signalled') = Cardinality(Signalled) + 1
  BY <1>5, CustomersFinite, FS_AddElement
<1>7. /\ semaphores'[1].value = semaphores[1].value + 1
      /\ ToSet(semaphores'[1].env_queue) \subseteq ToSet(semaphores[1].env_queue)
      /\ semaphores'[0] = semaphores[0]
  BY <1>1, <1>3, Balances DEF Moved
<1>8. ShopBalance'
  BY <1>1, <1>2, <1>5, <1>7, Balances DEF ShopBalance
<1>9. DependBalance'
  <2>1. semaphores'[1].value + Waits' = Cardinality(Signalled')
    BY <1>1, <1>2, <1>6, <1>7, Balances, CustomersFinite
  <2>2. ToSet(semaphores'[1].env_queue) \subseteq {master}
    BY <1>1, <1>7, Balances
  <2> QED BY <2>1, <2>2 DEF DependBalance
<1> QED BY <1>2, <1>4, <1>8, <1>9 DEF ProgramPart

LEMMA WaitCustomerKeeps ==
  ASSUME ProgramInv, wait_customer
  PROVE  ProgramPart'
<1>1. curenv = master /\ curenv # NULL /\ pc[master] = "wait_customer"
  <2>1. At("wait_customer") /\ "wait_customer" \notin CustomerLabel
    BY DEF wait_customer, CustomerLabel, Finished
  <2> QED BY <2>1, MasterRuns DEF At, AtOneOf
<1>2. served \in Nat /\ totalNumOfCusts \in Nat /\ pc[master] \notin Creating
  BY <1>1, CustomersFinite DEF ProgramInv, LabelsOK, Creating
<1>3. /\ LabelsOK' /\ pc'[master] \in {"wait_customer", "check"}
      /\ Inside' = Inside /\ Signalled' = Signalled
      /\ Waits' = served + 1
  <2>1. CASE served + 1 < totalNumOfCusts /\ served' = served + 1 /\ UNCHANGED pc
    <3>1. served' \in Nat
      BY <1>2, <2>1
    <3>2. LabelsOK'
      BY <2>1, <3>1 DEF ProgramInv, LabelsOK
    <3> QED BY <1>1, <2>1, <3>2 DEF Inside, Signalled, Waits
  <2>2. CASE served + 1 = totalNumOfCusts /\ served' = 0 /\ Goto("check")
    <3>1. served' \in Nat /\ "check" \in MasterLabel
      BY <2>2 DEF MasterLabel
    <3>2. /\ LabelsOK' /\ pc'[master] = "check"
          /\ Inside' = Inside /\ Signalled' = Signalled
      BY <1>1, <2>2, <3>1, MasterGoes DEF Goto
    <3>3. Waits' = totalNumOfCusts
      BY <3>2 DEF Waits
    <3> QED BY <2>2, <3>2, <3>3
  <2> QED BY <2>1, <2>2 DEF wait_customer
<1>4. pc'[master] \notin Creating
  BY <1>3 DEF Creating
<1>5. Moved(1, semaphores[1].value - 1, {master})
  BY <1>1, <1>2, Lookup, WaitMoves DEF wait_customer, ProgramInv
<1>6. SlotsInUse' /\ CustomersCreatedLater'
  BY <1>2, <1>4, <1>5, MovedSlots
<1>7. /\ semaphores'[1].value = semaphores[1].value - 1
      /\ ToSet(semaphores'[1].env_queue) \subseteq ToSet(semaphores[1].env_queue) \cup {master}
      /\ semaphores'[0] = semaphores[0]
  BY <1>2, <1>5, Balances DEF Moved
<1>8. ShopBalance'
  BY <1>2, <1>3, <1>7, Balances DEF ShopBalance
<1>9. DependBalance'
  <2>1. Waits = served
    BY <1>1 DEF Waits
  <2>2. semaphores'[1].value + Waits' = Cardinality(Signalled')
    <3>1. /\ semaphores[1].value \in Int
          /\ semaphores[1].value + served = Cardinality(Signalled)
      BY <1>2, <2>1, Balances
    <3> QED BY <1>2, <1>3, <1>7, <3>1
  <2>3. ToSet(semaphores'[1].env_queue) \subseteq {master}
    BY <1>2, <1>7, Balances
  <2> QED BY <2>2, <2>3 DEF DependBalance
<1> QED BY <1>3, <1>6, <1>8, <1>9 DEF ProgramPart
-----------------------------------------------------------------------------
(***************************************************************************)
(* What the invariant says about the two properties.                       *)
(***************************************************************************)

(* The master that is past its waits and not blocked was woken by the last *)
(* customer: value 1 is 0, so that every customer has signalled.           *)
LEMMA MasterPast ==
  ASSUME ProgramInv, pc[master] \in {"check"} \cup Finished, env_status[master] # "BLOCKED"
  PROVE  /\ Signalled = Customers /\ Inside = {}
         /\ semaphores[1].value = 0 /\ semaphores[0].value = shopCapacity
         /\ pc[master] \notin Creating
<1>1. pc[master] \notin Creating
  BY DEF Creating, Finished
<1>2. Waits = totalNumOfCusts
  BY DEF Waits, Finished
<1>3. /\ semaphores[1].value \in Int /\ totalNumOfCusts \in Nat
      /\ semaphores[1].value + totalNumOfCusts = Cardinality(Signalled)
      /\ Cardinality(Signalled) \in Nat
      /\ Cardinality(Signalled) <= totalNumOfCusts
  BY <1>1, <1>2, Balances, CustomersFinite
<1>4. ~(semaphores[1].value < 0)
  <2> SUFFICES ASSUME semaphores[1].value < 0 PROVE FALSE
    OBVIOUS
  <2>1. 1 \in Index /\ semaphores[1].env_queue \in Seq(Env)
    BY <1>1, Balances DEF ProgramInv, Inv, SemInv, Semaphore
  <2>2. Len(semaphores[1].env_queue) = -semaphores[1].value
    BY <2>1 DEF ProgramInv, Inv, SemInv, ValueCountsWaiters
  <2>3. semaphores[1].env_queue # <<>>
    BY <1>3, <2>2, EmptyQueue
  <2>4. ToSet(semaphores[1].env_queue) # {}
    BY <2>1, <2>3, ContentsOfQueue
  <2>5. master \in ToSet(semaphores[1].env_queue)
    BY <1>1, <2>4, Balances
  <2>6. master \in Waiters /\ master \in Env
    BY <2>1, <2>5, ProgramAssumption DEF Waiters, in_queue
  <2> QED BY <2>6 DEF ProgramInv, Inv, SemInv
<1>5. semaphores[1].value = 0 /\ Cardinality(Signalled) = totalNumOfCusts
  BY <1>3, <1>4
<1>6. Signalled = Customers
  BY <1>5, CustomersFinite
<1>7. Inside = {}
  BY <1>6 DEF Inside, Signalled, Finished
<1>8. Cardinality(Inside) = 0
  BY <1>7, FS_EmptySet
<1>9. /\ semaphores[0].value \in Int
      /\ semaphores[0].value + Cardinality(Inside) = shopCapacity
  BY <1>1, Balances
<1> QED BY <1>1, <1>5, <1>6, <1>7, <1>8, <1>9

LEMMA InvImpliesMasterWaits == ProgramInv => MasterWaitsForAll
<1> SUFFICES ASSUME ProgramInv PROVE MasterWaitsForAll
  OBVIOUS
<1>1. pc[master] # "error"
  BY DEF ProgramInv, LabelsOK, MasterLabel, Creating, Finished
<1>2. ASSUME pc[master] \in {"check", "return", "statistics", "exit", "done"},
             env_status[master] # "BLOCKED"
      PROVE  \A e \in Customers : pc[e] \in {"return", "statistics", "exit", "done"}
  <2>1. Signalled = Customers
    BY <1>2, MasterPast DEF Finished
  <2> QED BY <2>1 DEF Signalled, Finished
<1> QED BY <1>1, <1>2 DEF MasterWaitsForAll

LEMMA InvImpliesCapacity == ProgramInv => CapacityRespected
<1> SUFFICES ASSUME ProgramInv PROVE CapacityRespected
  OBVIOUS
<1> DEFINE R == {e \in Customers : pc[e] = "inside" /\ env_status[e] # "BLOCKED"}
           q == semaphores[0].env_queue
<1>0. shopCapacity \in Nat
  BY SemaphoreAssumption, ProgramAssumption
<1>1. CASE pc[master] \in Creating
  <2>1. R = {}
    BY <1>1 DEF ProgramInv, CustomersCreatedLater
  <2>2. Cardinality(R) = 0
    BY <2>1, FS_EmptySet
  <2> QED BY <1>0, <2>2 DEF CapacityRespected
<1>2. CASE pc[master] \notin Creating
  <2>1. 0 \in Index /\ q \in Seq(Env) /\ NoDuplicates(q)
    BY <1>2, Balances DEF ProgramInv, Inv, SemInv, Semaphore
  <2>2. /\ semaphores[0].value \in Int
        /\ Len(q) = IF semaphores[0].value < 0 THEN -semaphores[0].value ELSE 0
    BY <1>2, <2>1, Balances DEF ProgramInv, Inv, SemInv, ValueCountsWaiters
  <2>3. ToSet(q) \subseteq Inside
    BY <1>2, Balances
  <2>4. IsFiniteSet(Inside) /\ Cardinality(Inside) \in Nat
    BY CustomersFinite
  <2>5. Cardinality(ToSet(q)) = Len(q)
    <3>1. q \in Bijection(1 .. Len(q), ToSet(q))
      <4>1. q \in [1 .. Len(q) -> ToSet(q)] /\ Len(q) \in Nat
        BY <2>1 DEF ToSet
      <4>2. \A a, b \in 1 .. Len(q) : q[a] = q[b] => a = b
        BY <2>1 DEF NoDuplicates
      <4>3. q \in Injection(1 .. Len(q), ToSet(q))
        BY <4>1, <4>2, Zenon DEF Injection, IsInjective
      <4>4. \A t \in ToSet(q) : \E a \in 1 .. Len(q) : q[a] = t
        BY <2>1 DEF ToSet
      <4>5. q \in Surjection(1 .. Len(q), ToSet(q))
        BY <4>1, <4>4, Zenon DEF Surjection
      <4> QED BY <4>3, <4>5, Zenon DEF Bijection
    <3>2. IsFiniteSet(1 .. Len(q)) /\ Cardinality(1 .. Len(q)) = Len(q)
      BY <2>1, FS_Interval, SMTT(30)
    <3>3. ExistsBijection(1 .. Len(q), ToSet(q))
      BY <3>1, Zenon DEF ExistsBijection
    <3> QED BY <3>2, <3>3, FS_Bijection
  <2>6. R \subseteq Inside \ ToSet(q)
    <3>1. ASSUME NEW e \in R PROVE e \in Inside /\ e \notin ToSet(q)
      <4>1. e \in Customers /\ e \in Env
        BY DEF Customers
      <4>2. e \notin Waiters
        BY <4>1 DEF ProgramInv, Inv, SemInv
      <4> QED BY <2>1, <4>1, <4>2 DEF Inside, Waiters, in_queue
    <3> QED BY <3>1
  <2> HIDE DEF R, q
  <2>7. /\ IsFiniteSet(Inside \ ToSet(q))
        /\ Cardinality(Inside \ ToSet(q)) = Cardinality(Inside) - Cardinality(ToSet(q))
    <3>1. Inside \cap ToSet(q) = ToSet(q)
      BY <2>3
    <3>2. IsFiniteSet(ToSet(q))
      BY <2>3, <2>4, FS_Subset
    <3> QED BY <2>4, <3>1, <3>2, FS_Difference
  <2>8. Cardinality(R) <= Cardinality(Inside \ ToSet(q)) /\ Cardinality(R) \in Nat
    BY <2>6, <2>7, FS_Subset, FS_CardinalityType
  <2>9. semaphores[0].value + Cardinality(Inside) = shopCapacity
    BY <1>2, Balances
  <2>10. Len(q) \in Nat
    BY <2>1
  <2>11. Cardinality(R) <= shopCapacity
    BY <1>0, <2>2, <2>4, <2>5, <2>7, <2>8, <2>9, <2>10
  <2> QED BY <2>11 DEF CapacityRespected, R
<1> QED BY <1>1, <1>2

LEMMA CheckKeeps ==
  ASSUME ProgramInv, check_values
  PROVE  ProgramPart'
<1>1. curenv = master /\ curenv # NULL /\ pc[master] = "check"
  <2>1. At("check") /\ "check" \notin CustomerLabel
    BY DEF check_values, CustomerLabel, Finished
  <2> QED BY <2>1, MasterRuns DEF At, AtOneOf
<1>2. env_status[master] # "BLOCKED"
  BY <1>1, Running
<1>3. /\ semaphores[1].value = 0 /\ semaphores[0].value = shopCapacity
      /\ pc[master] \notin Creating
  BY <1>1, <1>2, MasterPast
<1>4. value_of(depend) = 0 /\ value_of(shop) = shopCapacity
  BY <1>3, Lookup DEF value_of
<1>5. Goto("return") /\ served' = served /\ semaphores' = semaphores
  BY <1>4 DEF check_values, vars
<1>6. served' \in Nat /\ "return" \in MasterLabel
  BY <1>5 DEF ProgramInv, LabelsOK, MasterLabel, Finished
<1>7. /\ LabelsOK' /\ pc'[master] = "return"
      /\ Inside' = Inside /\ Signalled' = Signalled
  BY <1>1, <1>5, <1>6, MasterGoes DEF Goto
<1>8. pc'[master] \notin Creating
  BY <1>7 DEF Creating
<1>9. Waits' = Waits
  BY <1>1, <1>7 DEF Waits, Finished
<1> QED BY <1>3, <1>5, <1>7, <1>8, <1>9, QuietStep

LEMMA LibmainKeeps ==
  ASSUME ProgramInv, libmain
  PROVE  ProgramPart'
<1>1. /\ curenv # NULL /\ pc[curenv] \in Finished \cup {"error"}
      /\ \E label \in Finished : pc' = [pc EXCEPT ![curenv] = label]
      /\ UNCHANGED <<semaphores, served>>
  BY DEF libmain, At, AtOneOf, Goto, Finished
<1>2. PICK label \in Finished : pc' = [pc EXCEPT ![curenv] = label]
  BY <1>1
<1>3. CASE curenv = master
  <2>1. label \in MasterLabel /\ served' \in Nat
    BY <1>1 DEF ProgramInv, LabelsOK, MasterLabel
  <2>2. /\ LabelsOK' /\ pc'[master] = label
        /\ Inside' = Inside /\ Signalled' = Signalled
    BY <1>2, <1>3, <2>1, MasterGoes
  <2>3. pc[master] \in Finished
    BY <1>1, <1>3 DEF ProgramInv, LabelsOK, MasterLabel, Creating, Finished
  <2>4. pc[master] \notin Creating /\ pc'[master] \notin Creating
    BY <2>2, <2>3 DEF Creating, Finished
  <2>5. Waits' = Waits
    BY <2>2, <2>3 DEF Waits, Finished
  <2> QED BY <1>1, <2>2, <2>4, <2>5, QuietStep
<1>4. CASE curenv # master
  <2>1. curenv \in Customers /\ pc[master] \notin Creating
    BY <1>1, <1>4, Running
  <2>2. label \in CustomerLabel
    BY DEF CustomerLabel
  <2>3. /\ LabelsOK' /\ pc'[master] = pc[master] /\ pc'[curenv] = label
        /\ \A e \in Customers : e # curenv => pc'[e] = pc[e]
        /\ Waits' = Waits
    BY <1>1, <1>2, <2>1, <2>2, CustomerGoes
  <2>4. pc[curenv] \in Finished
    BY <1>1, <2>1 DEF ProgramInv, LabelsOK, CustomerLabel, Finished
  <2>5. Inside' = Inside /\ Signalled' = Signalled
    BY <2>3, <2>4 DEF Inside, Signalled, Finished
  <2>6. pc'[master] \notin Creating
    BY <2>1, <2>3
  <2> QED BY <1>1, <2>1, <2>3, <2>5, <2>6, QuietStep
<1> QED BY <1>3, <1>4

LEMMA CreateKeepsPrograms ==
  ASSUME ProgramInv, create_semaphores
  PROVE  ProgramPart'
<1>1. UNCHANGED served /\ served' \in Nat
  BY DEF create_semaphores, ProgramInv, LabelsOK
<1>2. CASE At("create_shop") /\ createSemaphore(shop, shopCapacity) /\ Goto("create_depend")
  <2>1. curenv = master /\ pc[master] = "create_shop"
    <3>1. "create_shop" \notin CustomerLabel
      BY DEF CustomerLabel, Finished
    <3> QED BY <1>2, <3>1, MasterRuns
  <2>2. "create_depend" \in MasterLabel
    BY DEF MasterLabel, Creating
  <2>3. /\ LabelsOK' /\ pc'[master] = "create_depend"
        /\ \A e \in Customers : pc'[e] = pc[e]
        /\ Inside' = Inside /\ Signalled' = Signalled
    BY <1>1, <1>2, <2>1, <2>2, MasterGoes DEF Goto
  <2>4. shopCapacity \in Int
    BY SemaphoreAssumption, ProgramAssumption
  <2> QED BY <1>2, <2>1, <2>3, <2>4, CreateShopKeeps
<1>3. CASE At("create_depend") /\ createSemaphore(depend, 0) /\ Goto("create_customer")
  <2>1. curenv = master /\ pc[master] = "create_depend"
    <3>1. "create_depend" \notin CustomerLabel
      BY DEF CustomerLabel, Finished
    <3> QED BY <1>3, <3>1, MasterRuns
  <2>2. "create_customer" \in MasterLabel
    BY DEF MasterLabel
  <2>3. /\ LabelsOK' /\ pc'[master] = "create_customer"
        /\ \A e \in Customers : pc'[e] = pc[e]
        /\ Inside' = Inside /\ Signalled' = Signalled
    BY <1>1, <1>3, <2>1, <2>2, MasterGoes DEF Goto
  <2>4. 0 \in Int
    OBVIOUS
  <2> QED BY <1>3, <2>1, <2>3, <2>4, CreateDependKeeps
<1> QED BY <1>2, <1>3 DEF create_semaphores

LEMMA ProgramInitInv == ProgramInit => ProgramInv
<1> SUFFICES ASSUME ProgramInit PROVE ProgramInv
  OBVIOUS
<1>1. Inv
  BY InitInv DEF ProgramInit
<1>2. /\ master \in Env /\ pc[master] = "create_shop"
      /\ \A e \in Customers : pc[e] = "enter"
      /\ served = 0
  BY ProgramAssumption DEF ProgramInit, Customers
<1>3. LabelsOK
  <2>1. pc \in [Env -> Label]
    BY DEF ProgramInit, Label, CustomerLabel, MasterLabel, Creating
  <2>2. served \in Nat
    BY <1>2
  <2> QED BY <1>2, <2>1, <2>2 DEF LabelsOK, CustomerLabel, MasterLabel, Creating
<1>4. CustomersCreatedLater
  BY <1>2 DEF CustomersCreatedLater, ProgramInit, Init, SchedInit, Customers
<1>5. \A s \in Slot : semaphores[s].empty
  BY DEF ProgramInit, Init, EmptySemaphore, Index
<1> QED BY <1>1, <1>2, <1>3, <1>4, <1>5
        DEF ProgramInv, SlotsInUse, ShopBalance, DependBalance, Creating

LEMMA ProgramNextKeeps == ProgramInv /\ [ProgramNext]_pvars => ProgramInv'
<1> SUFFICES ASSUME ProgramInv, [ProgramNext]_pvars PROVE ProgramInv'
  OBVIOUS
<1>1. Inv'
  BY StepOfKernel, NextKeeps DEF ProgramInv
<1>2. ProgramPart'
  <2>1. CASE UNCHANGED pvars
    BY <2>1 DEF pvars, vars, ProgramInv, ProgramPart, LabelsOK, CustomersCreatedLater,
                SlotsInUse, Holds, ShopBalance, DependBalance, Inside, Signalled, Waits
  <2> QED BY <2>1, RunMasterKeeps, CreateKeepsPrograms, StartCustomerKeeps,
             WaitCustomerKeeps, EnterShopKeeps, LeaveShopKeeps, SignalMasterKeeps,
             CheckKeeps, LibmainKeeps, ClockKeepsPrograms
          DEF ProgramNext, Program, Stop
<1> QED BY <1>1, <1>2 DEF ProgramInv, ProgramPart

(***************************************************************************)
(* The semaphore with the capacity of the shop admits no customer too      *)
(* many, whatever the number of customers, the capacity and the moments at *)
(* which the clock interrupts: mutual exclusion when the capacity is 1.    *)
(***************************************************************************)
THEOREM ShopNeverOverfull == ProgramSpec => []CapacityRespected
  BY ProgramInitInv, ProgramNextKeeps, InvImpliesCapacity, PTL DEF ProgramSpec

(***************************************************************************)
(* The master goes on only after the last customer has signalled, and      *)
(* never reports an error.                                                 *)
(***************************************************************************)
THEOREM MasterIsLast == ProgramSpec => []MasterWaitsForAll
  BY ProgramInitInv, ProgramNextKeeps, InvImpliesMasterWaits, PTL DEF ProgramSpec
-----------------------------------------------------------------------------
(***************************************************************************)
(* The command prompt.                                                     *)
(***************************************************************************)
PromptSpec == CommandPromptInit /\ [][run_command_prompt]_commandPrompt
-----------------------------------------------------------------------------
(***************************************************************************)
(* What is suggested.  Neither a name nor what was typed has a NUL in it,  *)
(* so that the comparison ends at the end of the shorter one.              *)
(***************************************************************************)
LEMMA AllOfThem ==
  ASSUME NEW q \in Seq(STRING), NEW T \in SUBSET (1 .. Len(q))
  PROVE  Cardinality(T) = Len(q) <=> T = 1 .. Len(q)
<1> DEFINE n == Len(q)
<1>1. n \in Nat /\ T \in SUBSET (1 .. n)
  OBVIOUS
<1> HIDE DEF n
<1>2. IsFiniteSet(1 .. n) /\ Cardinality(1 .. n) = n
  BY <1>1, FS_Interval
<1>3. Cardinality(1 .. n) = Cardinality(T) => 1 .. n = T
  BY <1>1, <1>2, FS_Subset
<1>4. Cardinality(T) = n <=> T = 1 .. n
  BY <1>2, <1>3
<1> QED BY <1>4 DEF n

LEMMA PrefixByLetters ==
  ASSUME NEW q \in Seq(STRING), NEW t \in Seq(STRING)
  PROVE  IsPrefix(q, t) <=> Len(q) <= Len(t) /\ \A j \in 1 .. Len(q) : q[j] = t[j]
<1>1. CASE Len(q) <= Len(t)
  <2> DEFINE n == Len(q)
             a == SubSeq(q, 1, n)
             b == SubSeq(t, 1, n)
  <2>1. /\ Len(a) = n /\ Len(b) = n /\ n \in Nat
        /\ \A j \in 1 .. n : a[j] = q[j] /\ b[j] = t[j]
        /\ a \in Seq(STRING) /\ b \in Seq(STRING)
    BY <1>1
  <2> HIDE DEF a, b, n
  <2>2. a = b <=> \A j \in 1 .. n : a[j] = b[j]
    <3>1. ASSUME \A j \in 1 .. n : a[j] = b[j] PROVE a = b
      BY <2>1, <3>1, SeqEqual
    <3> QED BY <3>1
  <2>3. a = b <=> \A j \in 1 .. n : q[j] = t[j]
    BY <2>1, <2>2
  <2> QED BY <1>1, <2>3 DEF IsPrefix, a, b, n
<1>2. CASE ~(Len(q) <= Len(t))
  BY <1>2 DEF IsPrefix
<1> QED BY <1>1, <1>2

LEMMA ComparisonIsPrefix ==
  ASSUME NEW q \in Seq(STRING), NUL \notin ToSet(q), NEW c \in Names, NEW behind
  PROVE  matches(q, behind, c) <=> IsPrefix(q, c.letters)
<1> DEFINE t == c.letters
           n == Len(q)
           same(j) == q[j] = character(c, behind, j)
           T == {j \in 1 .. n : same(j)}
<1>1. t \in Seq(STRING) /\ NUL \notin ToSet(t)
  BY PromptAssumption
<1>2. /\ n \in Nat /\ Len(t) \in Nat
      /\ \A j \in 1 .. n : q[j] # NUL
      /\ DOMAIN q = 1 .. n
  BY <1>1 DEF ToSet
<1>3. matches(q, behind, c) <=> T = 1 .. n
  <2>1. {j \in DOMAIN q : same(j)} = T
    BY <1>2
  <2>2. matches(q, behind, c) <=> Cardinality(T) = n
    BY <2>1 DEF matches
  <2>3. T \in SUBSET (1 .. n)
    OBVIOUS
  <2> HIDE DEF T
  <2> QED BY <2>2, <2>3, AllOfThem
<1>4. T = 1 .. n <=> \A j \in 1 .. n : same(j)
  OBVIOUS
<1>5. ASSUME NEW j \in 1 .. n, j <= Len(t)
      PROVE  character(c, behind, j) = t[j]
  BY <1>2, <1>5 DEF character
<1>6. character(c, behind, Len(t) + 1) = NUL
  BY <1>2 DEF character
<1> HIDE DEF same, T
<1>7. (\A j \in 1 .. n : same(j)) => n <= Len(t)
  <2> SUFFICES ASSUME \A j \in 1 .. n : same(j), ~(n <= Len(t)) PROVE FALSE
    OBVIOUS
  <2>1. Len(t) + 1 \in 1 .. n
    BY <1>2
  <2>2. same(Len(t) + 1)
    BY <2>1
  <2> QED BY <1>2, <1>6, <2>1, <2>2 DEF same
<1>8. (\A j \in 1 .. n : same(j)) <=> n <= Len(t) /\ \A j \in 1 .. n : q[j] = t[j]
  <2>1. CASE n <= Len(t)
    <3>1. \A j \in 1 .. n : j <= Len(t)
      BY <1>2, <2>1
    <3> QED BY <1>5, <2>1, <3>1 DEF same
  <2>2. CASE ~(n <= Len(t))
    BY <1>7, <2>2
  <2> QED BY <2>1, <2>2
<1>9. IsPrefix(q, t) <=> n <= Len(t) /\ \A j \in 1 .. n : q[j] = t[j]
  BY <1>1, PrefixByLetters
<1> QED BY <1>3, <1>4, <1>8, <1>9
-----------------------------------------------------------------------------
(***************************************************************************)
(* What every handler keeps: the flags of buffering, the sizes of the      *)
(* environments, and the strategy of a test.                               *)
(***************************************************************************)
Placements == {"CONTALLOC", "FIRSTFIT", "BESTFIT", "NEXTFIT", "WORSTFIT"}

SettingsFit(s) ==
  /\ s.kheap \in Placements
  /\ s.modified => s.buffering

SizesFit(e) ==
  /\ e.ws <= PWS_MAX_SIZE /\ e.percent \in 1 .. 100
  /\ e.lists /\ e.ws > 0 => e.second < e.ws

TestFits(test, kheap) == test \in DOMAIN Expects => kheap \in Expects[test]

IsSettings(s) ==
  /\ s = [rep |-> s.rep, sweeps |-> s.sweeps, uheap |-> s.uheap, kheap |-> s.kheap,
          buffering |-> s.buffering, modified |-> s.modified, length |-> s.length]
  /\ s.buffering \in BOOLEAN /\ s.modified \in BOOLEAN

Fits(o) ==
  /\ IsSettings(o.settings) /\ SettingsFit(o.settings)
  /\ \A e \in o.loaded : SizesFit(e)
  /\ TestFits(o.test, o.settings.kheap)
  /\ o.result # "unknown"

Argument == [text : STRING, number : Int]
Arguments == Seq(Argument)

Before ==
  /\ IsSettings(settings) /\ SettingsFit(settings)
  /\ \A e \in loaded : SizesFit(e)

LEMMA NoExpectation ==
  ASSUME NEW k
  PROVE  TestFits("none", k)
  BY DEF TestFits, Expects

LEMMA SettingsSet ==
  ASSUME Before, NEW s, IsSettings(s), SettingsFit(s)
  PROVE  Fits(sets(s))
  BY NoExpectation DEF Fits, sets, Outcome, Before

LEMMA NothingChanged ==
  ASSUME Before, NEW what
  PROVE  Fits(refuses) /\ Fits(panics) /\ Fits(shows(what)) /\ Fits(sets(settings))
  BY NoExpectation DEF Fits, refuses, panics, shows, sets, Outcome, Before

LEMMA TestChosen ==
  ASSUME Before, NEW test, TestFits(test, settings.kheap)
  PROVE  Fits(tests(test))
  BY DEF Fits, tests, Outcome, Before

LEMMA ArgumentsAreNumbers ==
  ASSUME NEW args \in Arguments
  PROVE  \A i \in 1 .. Len(args) : strtol(args[i]) \in Int
<1>1. ASSUME NEW i \in 1 .. Len(args)
      PROVE  args[i] \in Argument
  BY DEF Arguments
<1> QED BY <1>1 DEF strtol, Argument

LEMMA FirstIsNumber ==
  ASSUME NEW args \in Arguments, args # <<>>
  PROVE  strtol(args[1]) \in Int
<1>1. 1 \in 1 .. Len(args)
  BY DEF Arguments
<1> QED BY <1>1, ArgumentsAreNumbers

(***************************************************************************)
(* The settings.                                                           *)
(***************************************************************************)
LEMMA ReplacementSet ==
  ASSUME Before, NEW args \in Arguments
  PROVE  /\ Fits(command_set_page_rep_LRU(args))
         /\ Fits(command_set_page_rep_nthCLOCK(args))
         /\ \A name \in DOMAIN page_rep : Fits(sets([settings EXCEPT !.rep = page_rep[name]]))
<1>0. ASSUME NEW t, IsSettings(t), SettingsFit(t), NEW n
      PROVE  LET u == [t EXCEPT !.sweeps = n] IN IsSettings(u) /\ SettingsFit(u)
  BY <1>0 DEF IsSettings, SettingsFit
<1>1. ASSUME NEW r, NEW n
      PROVE  Fits(sets([settings EXCEPT !.rep = r, !.sweeps = n]))
  <2> DEFINE s == [settings EXCEPT !.rep = r, !.sweeps = n]
  <2>1. IsSettings(s) /\ SettingsFit(s)
    <3> DEFINE t == [settings EXCEPT !.rep = r]
    <3>1. IsSettings(t) /\ SettingsFit(t)
      BY DEF Before, IsSettings, SettingsFit
    <3>2. s = [t EXCEPT !.sweeps = n]
      BY DEF Before, IsSettings
    <3> HIDE DEF t
    <3> QED BY <1>0, <3>1, <3>2
  <2> QED BY <2>1, SettingsSet
<1>2. ASSUME NEW r
      PROVE  Fits(sets([settings EXCEPT !.rep = r]))
  <2> DEFINE s == [settings EXCEPT !.rep = r]
  <2>1. IsSettings(s) /\ SettingsFit(s)
    BY DEF Before, IsSettings, SettingsFit
  <2> QED BY <2>1, SettingsSet
<1>3. Fits(command_set_page_rep_LRU(args))
  BY <1>2, NothingChanged DEF command_set_page_rep_LRU
<1>4. Fits(command_set_page_rep_nthCLOCK(args))
  BY <1>1, NothingChanged DEF command_set_page_rep_nthCLOCK
<1> QED BY <1>2, <1>3, <1>4

LEMMA PlacementSet ==
  ASSUME Before
  PROVE  /\ \A name \in DOMAIN uheap_plac : Fits(sets([settings EXCEPT !.uheap = uheap_plac[name]]))
         /\ \A name \in DOMAIN kheap_plac : Fits(sets([settings EXCEPT !.kheap = kheap_plac[name]]))
<1>1. ASSUME NEW p
      PROVE  Fits(sets([settings EXCEPT !.uheap = p]))
  <2> DEFINE s == [settings EXCEPT !.uheap = p]
  <2>1. IsSettings(s) /\ SettingsFit(s)
    BY DEF Before, IsSettings, SettingsFit
  <2> QED BY <2>1, SettingsSet
<1>2. ASSUME NEW p \in Placements
      PROVE  Fits(sets([settings EXCEPT !.kheap = p]))
  <2> DEFINE s == [settings EXCEPT !.kheap = p]
  <2>1. IsSettings(s) /\ SettingsFit(s)
    BY DEF Before, IsSettings, SettingsFit
  <2> QED BY <2>1, SettingsSet
<1>3. \A name \in DOMAIN kheap_plac : kheap_plac[name] \in Placements
  BY DEF kheap_plac, Placements
<1> QED BY <1>1, <1>2, <1>3

LEMMA Uint32InRange ==
  ASSUME NEW n \in Int
  PROVE  /\ uint32(n) \in 0 .. UINT32 - 1
         /\ n \in 0 .. UINT32 - 1 => uint32(n) = n
  BY PromptAssumption DEF uint32

(* What enables the modified buffer enables buffering, or asks for it.     *)
LEMMA BufferingSet ==
  ASSUME Before, NEW args, NEW answer
  PROVE  /\ Fits(modified_buffer(FALSE)) /\ Fits(modified_buffer(TRUE))
         /\ Fits(command_disable_buffering)
         /\ Fits(command_enable_buffering(answer))
         /\ Fits(command_set_modified_buffer_length(args))
<1>1. ASSUME NEW t, IsSettings(t), t.kheap \in Placements, NEW b \in BOOLEAN
      PROVE  LET u == [t EXCEPT !.buffering = b]
             IN IsSettings(u) /\ u.kheap \in Placements /\ u.buffering = b /\ u.modified = t.modified
  BY <1>1 DEF IsSettings
<1>2. ASSUME NEW t, IsSettings(t), t.kheap \in Placements, NEW m \in BOOLEAN
      PROVE  LET u == [t EXCEPT !.modified = m]
             IN IsSettings(u) /\ u.kheap \in Placements /\ u.modified = m /\ u.buffering = t.buffering
  BY <1>2 DEF IsSettings
<1>3. ASSUME NEW t, IsSettings(t), SettingsFit(t), NEW n
      PROVE  LET u == [t EXCEPT !.length = n] IN IsSettings(u) /\ SettingsFit(u)
  BY <1>3 DEF IsSettings, SettingsFit
<1>6. ASSUME NEW m \in BOOLEAN
      PROVE  Fits(modified_buffer(m))
  <2>1. CASE ~settings.buffering
    BY <2>1, NothingChanged DEF modified_buffer
  <2>2. CASE settings.buffering
    <3> DEFINE s == [settings EXCEPT !.modified = m]
    <3>1. IsSettings(s) /\ s.kheap \in Placements /\ s.buffering = settings.buffering
      BY <1>2 DEF Before, SettingsFit
    <3>2. modified_buffer(m) = sets(s)
      BY <2>2 DEF modified_buffer
    <3> HIDE DEF s
    <3>3. SettingsFit(s)
      BY <2>2, <3>1 DEF SettingsFit
    <3> QED BY <3>1, <3>2, <3>3, SettingsSet
  <2> QED BY <2>1, <2>2
<1>7. ASSUME NEW b \in BOOLEAN
      PROVE  LET u == [[settings EXCEPT !.buffering = b] EXCEPT !.modified = b]
             IN IsSettings(u) /\ SettingsFit(u)
  <2> DEFINE s == [settings EXCEPT !.buffering = b]
             u == [s EXCEPT !.modified = b]
  <2>1. IsSettings(s) /\ s.kheap \in Placements /\ s.buffering = b
    BY <1>1 DEF Before, SettingsFit
  <2> HIDE DEF s
  <2>2. IsSettings(u) /\ u.kheap \in Placements /\ u.modified = b /\ u.buffering = b
    BY <1>2, <2>1
  <2> HIDE DEF u
  <2>3. SettingsFit(u)
    BY <2>2 DEF SettingsFit
  <2> QED BY <2>2, <2>3 DEF u, s
<1>8. Fits(command_disable_buffering)
  <2> DEFINE s == [[settings EXCEPT !.buffering = FALSE] EXCEPT !.modified = FALSE]
  <2>1. IsSettings(s) /\ SettingsFit(s)
    BY <1>7
  <2>2. command_disable_buffering = sets(s)
    BY DEF command_disable_buffering
  <2> HIDE DEF s
  <2> QED BY <2>1, <2>2, SettingsSet
<1>4. Fits(command_enable_buffering(answer))
  <2> DEFINE n == IF settings.length = 0 THEN uint32(strtol(answer)) ELSE settings.length
             s == [[settings EXCEPT !.buffering = TRUE] EXCEPT !.modified = TRUE]
             t == [s EXCEPT !.length = n]
  <2>1. command_enable_buffering(answer) = sets(t)
    BY DEF command_enable_buffering, Before, IsSettings
  <2>2. IsSettings(s) /\ SettingsFit(s)
    BY <1>7
  <2> HIDE DEF s, n
  <2>3. IsSettings(t) /\ SettingsFit(t)
    BY <1>3, <2>2
  <2> HIDE DEF t
  <2> QED BY <2>1, <2>3, SettingsSet
<1>5. Fits(command_set_modified_buffer_length(args))
  <2>1. CASE args = <<>>
    BY <2>1, NothingChanged DEF command_set_modified_buffer_length
  <2>2. CASE args # <<>>
    <3> DEFINE n == uint32(strtol(args[1]))
               s == [settings EXCEPT !.length = n]
    <3>1. command_set_modified_buffer_length(args) = sets(s)
      BY <2>2 DEF command_set_modified_buffer_length
    <3> HIDE DEF n
    <3>2. IsSettings(s) /\ SettingsFit(s)
      BY DEF Before, IsSettings, SettingsFit
    <3> QED BY <3>1, <3>2, SettingsSet
  <2> QED BY <2>1, <2>2
<1> QED BY <1>4, <1>5, <1>6, <1>8

(***************************************************************************)
(* The sizes of a new environment.                                         *)
(***************************************************************************)
LEMMA SizesAreFit ==
  ASSUME Before, NEW w \in Int, NEW second \in Int, NEW percent \in Int
  PROVE  Fits(accepted(uint32(w), uint32(second), uint32(percent)))
<1> DEFINE ws == uint32(w)
           sec == uint32(second)
           per == uint32(percent)
           e == created(ws, sec, per)
<1>1. ws \in 0 .. UINT32 - 1 /\ sec \in 0 .. UINT32 - 1 /\ per \in 0 .. UINT32 - 1
  BY Uint32InRange
<1> HIDE DEF ws, sec, per
<1>2. CASE ws > PWS_MAX_SIZE \/ ~LRU_second_list(ws, sec)
  <2>1. accepted(ws, sec, per) = refuses
    BY <1>2 DEF accepted
  <2> QED BY <2>1, NothingChanged DEF ws, sec, per
<1>3. CASE ~(ws > PWS_MAX_SIZE \/ ~LRU_second_list(ws, sec)) /\ per > 100
  <2>1. accepted(ws, sec, per) = panics
    BY <1>3 DEF accepted
  <2> QED BY <2>1, NothingChanged DEF ws, sec, per
<1>4. CASE ~(ws > PWS_MAX_SIZE \/ ~LRU_second_list(ws, sec)) /\ ~(per > 100)
  <2>1. e.percent \in 1 .. 100
    BY <1>1, <1>4, PromptAssumption DEF created
  <2>2. e.ws = ws /\ (e.lists <=> lists) /\ (lists => e.second = sec)
    BY DEF created
  <2>3. ws <= PWS_MAX_SIZE
    BY <1>1, <1>4, PromptAssumption
  <2>4. lists /\ ws > 0 => sec < ws
    <3> SUFFICES ASSUME lists, ws > 0 PROVE sec < ws
      OBVIOUS
    <3>1. sec <= uint32(ws - 1)
      BY <1>4 DEF LRU_second_list
    <3>2. ws - 1 \in 0 .. UINT32 - 1 /\ ws - 1 \in Int
      BY <1>1, PromptAssumption
    <3>3. uint32(ws - 1) = ws - 1
      BY <3>2, Uint32InRange
    <3> QED BY <1>1, <3>1, <3>3
  <2>5. SizesFit(e)
    BY <2>1, <2>2, <2>3, <2>4 DEF SizesFit
  <2>6. accepted(ws, sec, per) = Outcome(settings, loaded \cup {e}, "done", "none", "none")
    BY <1>4 DEF accepted
  <2> HIDE DEF e
  <2> DEFINE o == Outcome(settings, loaded \cup {e}, "done", "none", "none")
  <2>7. /\ o.settings = settings /\ o.loaded = loaded \cup {e} /\ o.test = "none"
        /\ o.result = "done"
    BY DEF Outcome
  <2> HIDE DEF o
  <2>8. /\ IsSettings(o.settings) /\ SettingsFit(o.settings)
        /\ \A x \in o.loaded : SizesFit(x)
    BY <2>5, <2>7 DEF Before
  <2>9. Fits(o)
    BY <2>7, <2>8, NoExpectation DEF Fits
  <2> QED BY <2>6, <2>9 DEF o, ws, sec, per
<1> QED BY <1>2, <1>3, <1>4 DEF ws, sec, per

LEMMA EnvironmentCreated ==
  ASSUME Before, NEW args \in Arguments
  PROVE  Fits(CreateEnv(args))
<1> DEFINE number(i) == uint32(strtol(args[i]))
<1>1. uint32(0) = 0
  <2>1. 0 \in 0 .. UINT32 - 1
    BY PromptAssumption
  <2> QED BY <2>1, Uint32InRange
<1>2. Fits(refuses)
  BY NothingChanged
<1>3. Len(args) = 4 => Fits(accepted(number(2), number(3), number(4)))
  <2> SUFFICES ASSUME Len(args) = 4 PROVE Fits(accepted(number(2), number(3), number(4)))
    OBVIOUS
  <2>1. strtol(args[2]) \in Int /\ strtol(args[3]) \in Int /\ strtol(args[4]) \in Int
    <3>1. 2 \in 1 .. Len(args) /\ 3 \in 1 .. Len(args) /\ 4 \in 1 .. Len(args)
      OBVIOUS
    <3> QED BY <3>1, ArgumentsAreNumbers, Zenon
  <2> QED BY <2>1, SizesAreFit
<1>4. Len(args) = 3 => /\ Fits(accepted(number(2), number(3), 0))
                       /\ Fits(accepted(number(2), 0, number(3)))
  <2> SUFFICES ASSUME Len(args) = 3
               PROVE  /\ Fits(accepted(number(2), number(3), 0))
                      /\ Fits(accepted(number(2), 0, number(3)))
    OBVIOUS
  <2>1. strtol(args[2]) \in Int /\ strtol(args[3]) \in Int /\ 0 \in Int
    <3>1. 2 \in 1 .. Len(args) /\ 3 \in 1 .. Len(args)
      OBVIOUS
    <3>2. strtol(args[2]) \in Int /\ strtol(args[3]) \in Int
      BY <3>1, ArgumentsAreNumbers, Zenon
    <3> QED BY <3>2
  <2>2. /\ Fits(accepted(number(2), number(3), uint32(0)))
        /\ Fits(accepted(number(2), uint32(0), number(3)))
    BY <2>1, SizesAreFit
  <2> QED BY <1>1, <2>2
<1>5. Len(args) = 2 => Fits(accepted(number(2), 0, 0))
  <2> SUFFICES ASSUME Len(args) = 2 PROVE Fits(accepted(number(2), 0, 0))
    OBVIOUS
  <2>1. strtol(args[2]) \in Int /\ 0 \in Int
    BY ArgumentsAreNumbers
  <2>2. Fits(accepted(number(2), uint32(0), uint32(0)))
    BY <2>1, SizesAreFit
  <2> QED BY <1>1, <2>2
<1> HIDE DEF number
<1>6. \/ Len(args) = 4 /\ CreateEnv(args) = accepted(number(2), number(3), number(4))
      \/ Len(args) = 3 /\ CreateEnv(args) = accepted(number(2), number(3), 0)
      \/ Len(args) = 3 /\ CreateEnv(args) = accepted(number(2), 0, number(3))
      \/ Len(args) = 2 /\ CreateEnv(args) = accepted(number(2), 0, 0)
      \/ CreateEnv(args) = refuses
  BY DEF CreateEnv, number
<1> QED BY <1>2, <1>3, <1>4, <1>5, <1>6

(***************************************************************************)
(* The tests.  Those with a strategy of their own are named in Expects.    *)
(***************************************************************************)
LEMMA Expected ==
  /\ DOMAIN Expects = {"test_kmalloc_firstfit1", "test_kmalloc_firstfit2", "test_kmalloc_bestfit1",
                       "test_kmalloc_bestfit2", "test_kmalloc_nextfit", "test_kmalloc_worstfit",
                       "test_kfree_bestfirstfit", "test_krealloc", "test_krealloc_BF"}
  /\ Expects["test_kmalloc_firstfit1"] = {"FIRSTFIT"}
  /\ Expects["test_kmalloc_firstfit2"] = {"FIRSTFIT"}
  /\ Expects["test_kmalloc_bestfit1"] = {"BESTFIT"}
  /\ Expects["test_kmalloc_bestfit2"] = {"BESTFIT"}
  /\ Expects["test_kmalloc_nextfit"] = {"NEXTFIT"}
  /\ Expects["test_kmalloc_worstfit"] = {"WORSTFIT"}
  /\ Expects["test_kfree_bestfirstfit"] = {"FIRSTFIT", "BESTFIT"}
  /\ Expects["test_krealloc"] = {"NEXTFIT"}
  /\ Expects["test_krealloc_BF"] = {"BESTFIT"}
  BY DEF Expects

LEMMA TableEntry ==
  ASSUME NEW q, NEW k, NEW d \in Nat,
         DOMAIN q = 1 .. d, \A i \in 1 .. d : TestFits(q[i], k), NEW n \in Int
  PROVE  TestFits(IF n \in DOMAIN q THEN q[n] ELSE "none", k)
  BY NoExpectation

LEMMA NumberedTestFits ==
  ASSUME NEW k, NEW n \in Int
  PROVE  TestFits(numbered(kmalloc_tests, k, n), k) /\ TestFits(numbered(kheap_tests, k, n), k)
<1> DEFINE two == <<"test_kmalloc_firstfit1", "test_kmalloc_firstfit2">>
           ff == <<"test_kmalloc", "test_kmalloc_firstfit1", "test_kmalloc_firstfit2">>
           bf == <<"test_kmalloc", "test_kmalloc_bestfit1", "test_kmalloc_bestfit2">>
           nf == <<"test_kmalloc", "test_kmalloc_nextfit">>
           entry(q) == IF n \in DOMAIN q THEN q[n] ELSE "none"
<1>1. TestFits("test_kmalloc", k)
  BY Expected DEF TestFits
<1>2. /\ k = "FIRSTFIT" => TestFits(entry(two), k)
      /\ k = "FIRSTFIT" => TestFits(entry(ff), k)
      /\ k = "BESTFIT" => TestFits(entry(bf), k)
      /\ k = "NEXTFIT" => TestFits(entry(nf), k)
  <2>1. ASSUME k = "FIRSTFIT"
        PROVE  TestFits(entry(two), k) /\ TestFits(entry(ff), k)
    <3>1. TestFits("test_kmalloc_firstfit1", k) /\ TestFits("test_kmalloc_firstfit2", k)
      BY <2>1, Expected DEF TestFits
    <3>2. DOMAIN two = 1 .. 2 /\ \A i \in 1 .. 2 : TestFits(two[i], k)
      BY <3>1
    <3>3. DOMAIN ff = 1 .. 3 /\ \A i \in 1 .. 3 : TestFits(ff[i], k)
      BY <1>1, <3>1
    <3> HIDE DEF two, ff
    <3> QED BY <3>2, <3>3, TableEntry
  <2>2. ASSUME k = "BESTFIT"
        PROVE  TestFits(entry(bf), k)
    <3>1. TestFits("test_kmalloc_bestfit1", k) /\ TestFits("test_kmalloc_bestfit2", k)
      BY <2>2, Expected DEF TestFits
    <3>2. DOMAIN bf = 1 .. 3 /\ \A i \in 1 .. 3 : TestFits(bf[i], k)
      BY <1>1, <3>1
    <3> HIDE DEF bf
    <3> QED BY <3>2, TableEntry
  <2>3. ASSUME k = "NEXTFIT"
        PROVE  TestFits(entry(nf), k)
    <3>1. TestFits("test_kmalloc_nextfit", k)
      BY <2>3, Expected DEF TestFits
    <3>2. DOMAIN nf = 1 .. 2 /\ \A i \in 1 .. 2 : TestFits(nf[i], k)
      BY <1>1, <3>1
    <3> HIDE DEF nf
    <3> QED BY <3>2, TableEntry
  <2> QED BY <2>1, <2>2, <2>3
<1>3. /\ DOMAIN kmalloc_tests = {"FIRSTFIT", "BESTFIT", "NEXTFIT"}
      /\ kmalloc_tests["FIRSTFIT"] = two /\ kmalloc_tests["BESTFIT"] = bf
      /\ kmalloc_tests["NEXTFIT"] = nf
  BY DEF kmalloc_tests
<1>4. /\ DOMAIN kheap_tests = {"FIRSTFIT", "BESTFIT", "NEXTFIT"}
      /\ kheap_tests["FIRSTFIT"] = ff /\ kheap_tests["BESTFIT"] = bf
      /\ kheap_tests["NEXTFIT"] = nf
  BY DEF kheap_tests, kmalloc_tests
<1> HIDE DEF two, ff, bf, nf
<1>5. TestFits("none", k)
  BY NoExpectation
<1>6. numbered(kmalloc_tests, k, n)
        = IF k \notin DOMAIN kmalloc_tests THEN "none" ELSE entry(kmalloc_tests[k])
  BY DEF numbered
<1>7. numbered(kheap_tests, k, n)
        = IF k \notin DOMAIN kheap_tests THEN "none" ELSE entry(kheap_tests[k])
  BY DEF numbered
<1> HIDE DEF entry
<1> QED BY <1>2, <1>3, <1>4, <1>5, <1>6, <1>7

LEMMA HeapTestFits ==
  ASSUME NEW k
  PROVE  /\ TestFits(kfree_test(k), k)
         /\ k = "BESTFIT" => TestFits("test_krealloc_BF", k)
         /\ k = "NEXTFIT" => TestFits("test_krealloc", k)
         /\ k = "WORSTFIT" => TestFits("test_kmalloc_worstfit", k)
         /\ TestFits("test_kmalloc", k)
         /\ TestFits("test_kheap_phys_addr", k) /\ TestFits("test_kheap_virt_addr", k)
<1>1. TestFits(kfree_test(k), k)
  BY Expected DEF TestFits, kfree_test
<1> QED BY <1>1, Expected DEF TestFits

LEMMA TableTestsFit ==
  ASSUME NEW k
  PROVE  /\ \A w \in DOMAIN lists_tests : TestFits(lists_tests[w], k)
         /\ \A w \in DOMAIN chunk_tests : TestFits(chunk_tests[w], k)
         /\ \A w \in DOMAIN paging_tests : TestFits(paging_tests[w], k)
         /\ \A w \in DOMAIN single_tests : TestFits(single_tests[w], k)
<1>1. \A w \in DOMAIN lists_tests : TestFits(lists_tests[w], k)
  BY Expected DEF TestFits, lists_tests
<1>2. \A w \in DOMAIN chunk_tests : TestFits(chunk_tests[w], k)
  BY Expected DEF TestFits, chunk_tests
<1>3. \A w \in DOMAIN paging_tests : TestFits(paging_tests[w], k)
  BY Expected DEF TestFits, paging_tests
<1>4. \A w \in DOMAIN single_tests : TestFits(single_tests[w], k)
  BY Expected DEF TestFits, single_tests
<1> QED BY <1>1, <1>2, <1>3, <1>4

LEMMA TestByWord ==
  ASSUME Before, NEW table, \A w \in DOMAIN table : TestFits(table[w], settings.kheap), NEW args
  PROVE  Fits(by_word(table, args))
<1> DEFINE test == IF args[1].text \in DOMAIN table THEN table[args[1].text] ELSE "none"
<1>1. TestFits(test, settings.kheap)
  BY NoExpectation
<1>2. by_word(table, args) = refuses \/ by_word(table, args) = tests(test)
  BY DEF by_word
<1> HIDE DEF test
<1> QED BY <1>1, <1>2, NothingChanged, TestChosen

LEMMA KernelHeapTested ==
  ASSUME Before, NEW args \in Arguments
  PROVE  Fits(command_test_kmalloc(args)) /\ Fits(command_test_kfree) /\ Fits(command_test_krealloc)
<1> DEFINE k == settings.kheap
<1>1. Fits(command_test_kmalloc(args))
  <2> DEFINE n == IF Len(args) = 1 THEN strtol(args[1]) ELSE 0
  <2>1. n \in Int
    <3>1. Len(args) = 1 => 1 \in 1 .. Len(args)
      OBVIOUS
    <3> QED BY <3>1, ArgumentsAreNumbers
  <2>2. \/ command_test_kmalloc(args) = tests("test_kmalloc")
        \/ k = "WORSTFIT" /\ command_test_kmalloc(args) = tests("test_kmalloc_worstfit")
        \/ command_test_kmalloc(args) = refuses
        \/ command_test_kmalloc(args) = tests(numbered(kmalloc_tests, k, n))
    BY DEF command_test_kmalloc
  <2> HIDE DEF n, k
  <2>3. TestFits("test_kmalloc", k) /\ TestFits(numbered(kmalloc_tests, k, n), k)
    BY <2>1, HeapTestFits, NumberedTestFits
  <2>4. k = "WORSTFIT" => TestFits("test_kmalloc_worstfit", k)
    BY HeapTestFits
  <2> QED BY <2>2, <2>3, <2>4, NothingChanged, TestChosen DEF k
<1>2. Fits(command_test_kfree)
  BY HeapTestFits, TestChosen DEF command_test_kfree
<1>3. Fits(command_test_krealloc)
  <2> DEFINE test == CASE k = "NEXTFIT" -> "test_krealloc"
                       [] k = "BESTFIT" -> "test_krealloc_BF"
                       [] OTHER -> "none"
  <2>1. \/ k = "NEXTFIT" /\ test = "test_krealloc"
        \/ k = "BESTFIT" /\ test = "test_krealloc_BF"
        \/ test = "none"
    OBVIOUS
  <2>2. command_test_krealloc = tests(test)
    BY DEF command_test_krealloc
  <2> HIDE DEF test, k
  <2>3. TestFits(test, k)
    BY <2>1, HeapTestFits, NoExpectation
  <2> QED BY <2>2, <2>3, TestChosen DEF k
<1> QED BY <1>1, <1>2, <1>3

(* tstkheap chooses the test by the strategy that it has just set.         *)
LEMMA KheapTestFits ==
  ASSUME NEW k, NEW args \in Arguments,
         args[2].text = "kmalloc" => strtol(args[3]) \in Int
  PROVE  TestFits(kheap_test_of(k, args), k)
<1> DEFINE n == strtol(args[3])
           test == kheap_test_of(k, args)
<1>1. \/ args[2].text = "kmalloc" /\ test = numbered(kheap_tests, k, n)
      \/ test = kfree_test(k)
      \/ test = "test_kheap_phys_addr"
      \/ test = "test_kheap_virt_addr"
      \/ k = "BESTFIT" /\ test = "test_krealloc_BF"
      \/ test = "none"
  BY DEF kheap_test_of
<1>2. args[2].text = "kmalloc" => TestFits(numbered(kheap_tests, k, n), k)
  BY NumberedTestFits
<1> HIDE DEF n, test
<1> QED BY <1>1, <1>2, HeapTestFits, NoExpectation DEF test

LEMMA KheapTested ==
  ASSUME Before, NEW args \in Arguments
  PROVE  Fits(command_test_kheap(args))
<1> DEFINE k == IF args[1].text \in DOMAIN fit THEN fit[args[1].text] ELSE settings.kheap
           test == kheap_test_of(k, args)
           s == [settings EXCEPT !.kheap = k]
           o == Outcome(s, loaded, "done", "none", test)
<1>1. k \in Placements
  <2>1. \A w \in DOMAIN fit : fit[w] \in Placements
    BY DEF fit, Placements
  <2> QED BY <2>1 DEF Before, SettingsFit
<1> HIDE DEF k
<1>2. CASE command_test_kheap(args) \in {panics, refuses}
  BY <1>2, NothingChanged
<1>3. CASE command_test_kheap(args) \notin {panics, refuses}
  <2>1. /\ command_test_kheap(args) = o
        /\ args[2].text = "kmalloc" => Len(args) = 3
    BY <1>3 DEF command_test_kheap, k
  <2>2. args[2].text = "kmalloc" => strtol(args[3]) \in Int
    <3>1. Len(args) = 3 => 3 \in 1 .. Len(args)
      OBVIOUS
    <3> QED BY <2>1, <3>1, ArgumentsAreNumbers
  <2>3. TestFits(test, k)
    BY <2>2, KheapTestFits
  <2>4. IsSettings(s) /\ SettingsFit(s) /\ s.kheap = k
    BY <1>1 DEF Before, IsSettings, SettingsFit
  <2> HIDE DEF s, test
  <2>5. Fits(o)
    BY <2>3, <2>4 DEF Fits, Outcome, Before
  <2> QED BY <2>1, <2>5
<1> QED BY <1>2, <1>3

(***************************************************************************)
(* The table of the commands, and the words that strsplit() drops.         *)
(***************************************************************************)
LEMMA CommandFits ==
  ASSUME Before, NEW name, NEW args \in Arguments, NEW answer
  PROVE  Fits(commands(name, args, answer))
<1> DEFINE o == commands(name, args, answer)
           rep == sets([settings EXCEPT !.rep = page_rep[name]])
           user == sets([settings EXCEPT !.uheap = uheap_plac[name]])
           kheaps == sets([settings EXCEPT !.kheap = kheap_plac[name]])
           single == tests(single_tests[name])
<1>1. /\ name \in DOMAIN page_rep => Fits(rep)
      /\ name \in DOMAIN uheap_plac => Fits(user)
      /\ name \in DOMAIN kheap_plac => Fits(kheaps)
  BY ReplacementSet, PlacementSet
<1>2. name \in DOMAIN single_tests => Fits(single)
  BY TableTestsFit, TestChosen
<1>3. Fits(panics) /\ Fits(sets(settings))
  BY NothingChanged
<1>4. /\ Fits(command_print_page_rep) /\ Fits(command_print_uheap_plac)
      /\ Fits(command_print_kheap_plac)
  BY NothingChanged DEF command_print_page_rep, command_print_uheap_plac, command_print_kheap_plac
<1>5. Fits(command_sch_MLFQ(args))
  <2>1. Fits(Outcome(settings, loaded, "crashed", "none", "none"))
    BY NoExpectation DEF Fits, Outcome, Before
  <2> QED BY <2>1, NothingChanged DEF command_sch_MLFQ
<1>6. /\ Fits(by_word(lists_tests, args)) /\ Fits(by_word(chunk_tests, args))
      /\ Fits(by_word(paging_tests, args))
  BY TableTestsFit, TestByWord
<1> HIDE DEF rep, user, kheaps, single
<1>7. \/ name \in DOMAIN page_rep /\ o = rep
      \/ name \in DOMAIN uheap_plac /\ o = user
      \/ name \in DOMAIN kheap_plac /\ o = kheaps
      \/ name \in DOMAIN single_tests /\ o = single
      \/ o \in {panics, sets(settings)}
      \/ o \in {command_set_page_rep_LRU(args), command_set_page_rep_nthCLOCK(args)}
      \/ o \in {command_print_page_rep, command_print_uheap_plac, command_print_kheap_plac}
      \/ o \in {modified_buffer(FALSE), modified_buffer(TRUE), command_disable_buffering,
                command_enable_buffering(answer), command_set_modified_buffer_length(args)}
      \/ o \in {CreateEnv(args), command_sch_MLFQ(args)}
      \/ o \in {command_test_kmalloc(args), command_test_kfree, command_test_krealloc,
                command_test_kheap(args)}
      \/ o \in {by_word(lists_tests, args), by_word(chunk_tests, args), by_word(paging_tests, args)}
  <2> DEFINE labs == lab3_lab4_commands \cup lab5_commands
             others == {"lru", "nclock", "rep?", "uheap?", "kheap?", "nomodbuff", "modbuff", "nobuff",
                        "buff", "modbufflength", "load", "run", "schedMLFQ", "tstkmalloc",
                        "tstkfree", "tstkrealloc", "tstkheap", "tstlsts", "tstchunks", "tstpg"}
  <2>0. /\ DOMAIN page_rep = {"fifo", "clock", "modifiedclock"}
        /\ DOMAIN uheap_plac = {"uhfirstfit", "uhbestfit", "uhnextfit", "uhworstfit"}
        /\ DOMAIN kheap_plac = {"khcontalloc", "khfirstfit", "khbestfit", "khnextfit", "khworstfit"}
        /\ DOMAIN single_tests = {"tstkphysaddr", "tstkvirtaddr", "tst3functions", "tstkfreeall",
                                  "tstkexpand", "tstkshrink", "tstkfreelast", "tstpriority1",
                                  "tstpriority2"}
        /\ labs = {"ikb", "dkb", "shr", "sm", "sp", "sr", "nr", "asp", "cfp"}
    BY DEF page_rep, uheap_plac, kheap_plac, single_tests, lab3_lab4_commands, lab5_commands
  <2>6. /\ name \in DOMAIN page_rep => name \notin DOMAIN uheap_plac \cup DOMAIN kheap_plac
                                                    \cup DOMAIN single_tests \cup labs \cup others
        /\ name \in DOMAIN uheap_plac => name \notin DOMAIN kheap_plac \cup DOMAIN single_tests
                                                      \cup labs \cup others
        /\ name \in DOMAIN kheap_plac => name \notin DOMAIN single_tests \cup labs \cup others
        /\ name \in DOMAIN single_tests => name \notin labs \cup others
        /\ name \in labs => name \notin others
    BY <2>0
  <2>1. CASE name \in DOMAIN page_rep
    <3>1. o = rep
      BY <2>1, <2>6 DEF commands, rep
    <3> QED BY <2>1, <3>1
  <2>2. CASE name \notin DOMAIN page_rep /\ name \in DOMAIN uheap_plac
    <3>1. o = user
      BY <2>2, <2>6 DEF commands, user
    <3> QED BY <2>2, <3>1
  <2>3. CASE /\ name \notin DOMAIN page_rep /\ name \notin DOMAIN uheap_plac
             /\ name \in DOMAIN kheap_plac
    <3>1. o = kheaps
      BY <2>3, <2>6 DEF commands, kheaps
    <3> QED BY <2>3, <3>1
  <2>4. CASE /\ name \notin DOMAIN page_rep /\ name \notin DOMAIN uheap_plac
             /\ name \notin DOMAIN kheap_plac /\ name \in DOMAIN single_tests
    <3>1. o = single
      BY <2>4, <2>6 DEF commands, single
    <3> QED BY <2>4, <3>1
  <2>5. CASE /\ name \notin DOMAIN page_rep /\ name \notin DOMAIN uheap_plac
             /\ name \notin DOMAIN kheap_plac /\ name \notin DOMAIN single_tests
    <3>1. CASE name \in lab3_lab4_commands \cup lab5_commands
      <4>1. o = panics
        BY <2>5, <2>6, <3>1 DEF commands
      <4> QED BY <4>1
    <3>2. CASE name \notin lab3_lab4_commands \cup lab5_commands
      BY <2>5, <3>2 DEF commands
    <3> QED BY <3>1, <3>2
  <2> QED BY <2>1, <2>2, <2>3, <2>4, <2>5
<1> HIDE DEF o
<1>8. \A x \in {command_set_page_rep_LRU(args), command_set_page_rep_nthCLOCK(args)} : Fits(x)
  BY ReplacementSet
<1>9. \A x \in {modified_buffer(FALSE), modified_buffer(TRUE), command_disable_buffering,
                command_enable_buffering(answer), command_set_modified_buffer_length(args)} : Fits(x)
  BY BufferingSet
<1>10. \A x \in {command_test_kmalloc(args), command_test_kfree, command_test_krealloc,
                 command_test_kheap(args)} : Fits(x)
  BY KernelHeapTested, KheapTested
<1>11. Fits(o)
  BY <1>1, <1>2, <1>3, <1>4, <1>5, <1>6, <1>7, <1>8, <1>9, <1>10, EnvironmentCreated
<1> QED BY <1>11 DEF o

LEMMA WordsKept ==
  ASSUME NEW args \in Arguments
  PROVE  strsplit(args) \in Arguments
<1>1. CASE Len(args) < MAX_ARGUMENTS - 1
  BY <1>1 DEF strsplit
<1>2. CASE ~(Len(args) < MAX_ARGUMENTS - 1)
  <2> DEFINE n == MAX_ARGUMENTS - 2
  <2>1. n \in Nat /\ n <= Len(args)
    BY <1>2, PromptAssumption DEF Arguments
  <2>2. \A i \in 1 .. n : args[i] \in Argument
    BY <2>1 DEF Arguments
  <2>3. strsplit(args) = SubSeq(args, 1, n)
    BY <1>2 DEF strsplit
  <2> HIDE DEF n
  <2>4. SubSeq(args, 1, n) \in Seq(Argument)
    BY <2>1, <2>2
  <2> QED BY <2>3, <2>4 DEF Arguments
<1> QED BY <1>1, <1>2
-----------------------------------------------------------------------------
(***************************************************************************)
(* The prompt: the invariant says of the reply what PromptConsistent says, *)
(* and that the word it answers has no NUL.                                *)
(***************************************************************************)
PromptInv == Before /\ SuggestionsAreCompletions /\ TestsFitStrategy

LEMMA PromptStarts ==
  CommandPromptInit => PromptInv
<1> SUFFICES ASSUME CommandPromptInit PROVE PromptInv
  OBVIOUS
<1>1. IsSettings(settings) /\ SettingsFit(settings)
  BY DEF CommandPromptInit, IsSettings, SettingsFit, Placements
<1>2. loaded = {} /\ reply.result = "done" /\ reply.test = "none"
  BY DEF CommandPromptInit, Nothing
<1>3. TestsFitStrategy
  BY <1>2, Expected DEF TestsFitStrategy
<1> QED BY <1>1, <1>2, <1>3 DEF PromptInv, Before, SuggestionsAreCompletions

LEMMA CommandKeeps ==
  ASSUME PromptInv, NEW l \in Lines, execute_command(l)
  PROVE  PromptInv'
<1>1. l.word \in Seq(STRING) /\ NUL \notin ToSet(l.word) /\ l.args \in Arguments
  BY PromptAssumption DEF Arguments, Argument
<1>2. Before
  BY DEF PromptInv
<1>3. CASE \E c \in found(l.word), answer \in Answers :
             LET o == commands(c.name, strsplit(l.args), answer)
             IN /\ settings' = o.settings
                /\ loaded' = o.loaded
                /\ reply' = [word |-> l.word, listed |-> {}, result |-> o.result,
                             shown |-> o.shown, test |-> o.test]
  <2> PICK c \in found(l.word), answer \in Answers :
             LET o == commands(c.name, strsplit(l.args), answer)
             IN /\ settings' = o.settings
                /\ loaded' = o.loaded
                /\ reply' = [word |-> l.word, listed |-> {}, result |-> o.result,
                             shown |-> o.shown, test |-> o.test]
    BY <1>3
  <2> DEFINE o == commands(c.name, strsplit(l.args), answer)
  <2>1. Fits(o)
    BY <1>1, <1>2, WordsKept, CommandFits
  <2>2. /\ settings' = o.settings /\ loaded' = o.loaded
        /\ reply'.result = o.result /\ reply'.test = o.test
    OBVIOUS
  <2> HIDE DEF o
  <2>3. Before' /\ TestsFitStrategy'
    BY <2>1, <2>2 DEF Fits, Before, TestsFitStrategy, TestFits
  <2>4. o.result # "unknown"
    BY <2>1 DEF Fits
  <2>5. SuggestionsAreCompletions'
    BY <2>2, <2>4 DEF SuggestionsAreCompletions
  <2> QED BY <2>3, <2>5 DEF PromptInv
<1>4. CASE /\ found(l.word) = {}
           /\ \E behind \in Letters :
                reply' = [Nothing EXCEPT
                            !.word = l.word,
                            !.listed = {c \in Names : matches(l.word, behind, c)},
                            !.result = "unknown"]
           /\ UNCHANGED <<settings, loaded>>
  <2> PICK behind \in Letters :
        reply' = [Nothing EXCEPT
                    !.word = l.word,
                    !.listed = {c \in Names : matches(l.word, behind, c)},
                    !.result = "unknown"]
    BY <1>4
  <2>1. /\ reply'.word = l.word /\ reply'.test = "none"
        /\ reply'.listed = {c \in Names : matches(l.word, behind, c)}
    BY DEF Nothing
  <2>2. \A c \in Names : matches(l.word, behind, c) <=> IsPrefix(l.word, c.letters)
    BY <1>1, ComparisonIsPrefix
  <2>3. reply'.listed = {c \in Names : IsPrefix(reply'.word, c.letters)}
    BY <2>1, <2>2
  <2>4. Before'
    BY <1>2, <1>4 DEF Before
  <2>5. TestsFitStrategy'
    BY <2>1, Expected DEF TestsFitStrategy
  <2> QED BY <2>3, <2>4, <2>5 DEF PromptInv, SuggestionsAreCompletions
<1> QED BY <1>3, <1>4 DEF execute_command

LEMMA PromptMeansConsistent ==
  PromptInv => PromptConsistent
  BY DEF PromptInv, Before, SettingsFit, SizesFit, PromptConsistent, ModifiedNeedsBuffering, SizesAccepted

(***************************************************************************)
(* The prompt suggests exactly the commands that begin with what was       *)
(* typed, and after every sequence of commands the buffering flags, the    *)
(* sizes of the environments that were created and the strategy of the     *)
(* test that runs fit each other.                                          *)
(***************************************************************************)
THEOREM PromptStaysConsistent == PromptSpec => []PromptConsistent
<1>1. PromptInv /\ [run_command_prompt]_commandPrompt => PromptInv'
  <2> SUFFICES ASSUME PromptInv, [run_command_prompt]_commandPrompt PROVE PromptInv'
    OBVIOUS
  <2>1. CASE run_command_prompt
    BY <2>1, CommandKeeps DEF run_command_prompt
  <2>2. CASE UNCHANGED commandPrompt
    BY <2>2 DEF commandPrompt, PromptInv, Before, SuggestionsAreCompletions, TestsFitStrategy
  <2> QED BY <2>1, <2>2
<1> QED BY <1>1, PromptStarts, PromptMeansConsistent, PTL DEF PromptSpec
=============================================================================
