------------------------ MODULE ThreadSafeQueue_proofs ------------------------
(***************************************************************************)
(* The safety properties of the queue for every number of threads, every   *)
(* bound on its size and every number of pushes.                           *)
(***************************************************************************)
EXTENDS ThreadSafeQueue, TLAPS, FiniteSetTheorems

-----------------------------------------------------------------------------
(* ExactlyOnce in a form that speaks of one element at a time.             *)

Everything == InQueue \cup popped \cup cleared

Distinct ==
    \A i, j \in DOMAIN data_queue :
        data_queue[i].by = data_queue[j].by /\ data_queue[i].n = data_queue[j].n => i = j

Numbered == \A e \in Everything : e.n <= pushes[e.by]

AllThere ==
    \A p \in Producers : \A k \in 1..pushes[p] :
        \E e \in Everything : e.by = p /\ e.n = k

Apart == InQueue \cap (popped \cup cleared) = {} /\ popped \cap cleared = {}

\* A thread that is pushing has a push left.
Counted == \A p \in Producers : call[p] \in Pushes => pushes[p] < MaxPushes

QueueInv ==
    TypeOK /\ Counted /\ Bounded /\ Distinct /\ Numbered /\ AllThere /\ Apart /\ InOrder

-----------------------------------------------------------------------------
(* Sequences.                                                              *)

(* What Append does to the elements and their places.                      *)
LEMMA Appended ==
  ASSUME NEW S, NEW s \in Seq(S), NEW v \in S
  PROVE  /\ Append(s, v) \in Seq(S)
         /\ Len(Append(s, v)) = Len(s) + 1
         /\ DOMAIN Append(s, v) = 1..Len(s) + 1
         /\ DOMAIN s = 1..Len(s)
         /\ Len(s) \in Nat
         /\ \A i \in 1..Len(s) : Append(s, v)[i] = s[i]
         /\ Append(s, v)[Len(s) + 1] = v
OBVIOUS

(* What putting an element in front does.                                  *)
LEMMA Prepended ==
  ASSUME NEW S, NEW s \in Seq(S), NEW v \in S
  PROVE  /\ <<v>> \o s \in Seq(S)
         /\ Len(<<v>> \o s) = Len(s) + 1
         /\ DOMAIN (<<v>> \o s) = 1..Len(s) + 1
         /\ DOMAIN s = 1..Len(s)
         /\ Len(s) \in Nat
         /\ \A i \in 1..Len(s) : (<<v>> \o s)[i + 1] = s[i]
         /\ (<<v>> \o s)[1] = v
OBVIOUS

(* What Tail leaves.                                                       *)
LEMMA Removed ==
  ASSUME NEW S, NEW s \in Seq(S), s # <<>>
  PROVE  /\ Tail(s) \in Seq(S)
         /\ Len(Tail(s)) = Len(s) - 1
         /\ DOMAIN Tail(s) = 1..Len(s) - 1
         /\ DOMAIN s = 1..Len(s)
         /\ Len(s) \in Nat \ {0}
         /\ \A i \in 1..Len(s) - 1 : Tail(s)[i] = s[i + 1]
         /\ Head(s) = s[1]
OBVIOUS

-----------------------------------------------------------------------------
(* Steps that neither add nor remove elements keep the invariant as long as *)
(* the threads stay well-typed.                                            *)
LEMMA QueueKept ==
  ASSUME QueueInv, TypeOK', Counted',
         UNCHANGED <<max_size, data_queue, pushes, popped, cleared>>
  PROVE  QueueInv'
BY DEF QueueInv, Bounded, Distinct, Numbered, AllThere, Apart, InOrder,
       Everything, InQueue

(* A push adds one element with a number no other element of its thread has. *)
LEMMA PushKeeps ==
  ASSUME QueueInv, NEW p \in Producers, Push(p)
  PROVE  QueueInv'
<1> USE SizesAssumption
<1> DEFINE v == [by |-> p, n |-> pushes[p] + 1, at |-> call[p]]
<1>1. /\ max_size \in Nat /\ max_size' = max_size
      /\ data_queue \in Seq(Elements)
      /\ pushes \in [Producers -> 0..MaxPushes] /\ pushes[p] \in Nat
      /\ pushes' = [pushes EXCEPT ![p] = pushes[p] + 1]
      /\ popped' = popped /\ cleared' = cleared
  BY DEF QueueInv, TypeOK, Push
<1>2. v \in Elements
  BY DEF Counted, Elements, Push, QueueInv, TypeOK
<1>3. data_queue' = Append(data_queue, v) \/ data_queue' = <<v>> \o data_queue
  BY DEF Push
<1>4. call[p] = "push_blocking" => data_queue' = Append(data_queue, v)
  BY DEF Push
<1>5. /\ data_queue' \in Seq(Elements)
      /\ Len(data_queue') = Len(data_queue) + 1 /\ Len(data_queue) \in Nat
      /\ DOMAIN data_queue = 1..Len(data_queue)
      /\ DOMAIN data_queue' = 1..Len(data_queue) + 1
  <2>1. CASE data_queue' = Append(data_queue, v)
    BY <1>1, <1>2, <2>1, Appended
  <2>2. CASE data_queue' = <<v>> \o data_queue
    BY <1>1, <1>2, <2>2, Prepended
  <2> QED
    BY <1>3, <2>1, <2>2
<1>6. PICK h \in {0, 1} : 
        /\ \A i \in 1..Len(data_queue) : data_queue'[i + h] = data_queue[i]
        /\ data_queue'[IF h = 1 THEN 1 ELSE Len(data_queue) + 1] = v
        /\ call[p] = "push_blocking" => h = 0
  <2>1. CASE data_queue' = Append(data_queue, v)
    <3>1. \A i \in 1..Len(data_queue) : data_queue'[i + 0] = data_queue[i]
      BY <1>1, <1>2, <2>1, Appended
    <3>2. data_queue'[Len(data_queue) + 1] = v
      BY <1>1, <1>2, <2>1, Appended
    <3> QED
      BY <3>1, <3>2
  <2>2. CASE data_queue' = <<v>> \o data_queue /\ call[p] # "push_blocking"
    <3>1. \A i \in 1..Len(data_queue) : data_queue'[i + 1] = data_queue[i]
      BY <1>1, <1>2, <2>2, Prepended
    <3>2. data_queue'[1] = v
      BY <1>1, <1>2, <2>2, Prepended
    <3> QED
      BY <2>2, <3>1, <3>2
  <2> QED
    BY <1>3, <1>4, <2>1, <2>2
<1>7. InQueue' = InQueue \cup {v}
  <2>1. \A i \in 1..Len(data_queue) + 1 : data_queue'[i] \in InQueue \cup {v}
    <3> SUFFICES ASSUME NEW i \in 1..Len(data_queue) + 1
                 PROVE  data_queue'[i] \in InQueue \cup {v}
      OBVIOUS
    <3>1. CASE i = IF h = 1 THEN 1 ELSE Len(data_queue) + 1
      BY <1>6, <3>1
    <3>2. CASE i # IF h = 1 THEN 1 ELSE Len(data_queue) + 1
      <4>1. i - h \in 1..Len(data_queue) /\ i = (i - h) + h
        BY <1>5, <3>2
      <4>2. data_queue'[i] = data_queue[i - h]
        BY <1>6, <4>1
      <4> QED
        BY <1>5, <4>1, <4>2 DEF InQueue
    <3> QED
      BY <3>1, <3>2
  <2>2. \A i \in 1..Len(data_queue) : i + h \in 1..Len(data_queue) + 1
    BY <1>5
  <2>3. (IF h = 1 THEN 1 ELSE Len(data_queue) + 1) \in 1..Len(data_queue) + 1
    BY <1>5
  <2>4. InQueue \cup {v} \subseteq InQueue'
    BY SMTT(30), <1>5, <1>6, <2>2, <2>3 DEF InQueue
  <2>5. InQueue' \subseteq InQueue \cup {v}
    BY <1>5, <2>1 DEF InQueue
  <2> QED
    BY <2>4, <2>5
<1>8. Everything' = Everything \cup {v}
  BY <1>1, <1>7 DEF Everything
<1>9. Everything \subseteq Elements
  BY <1>5 DEF Everything, InQueue, QueueInv, TypeOK
<1>10. \A e \in Everything : e.by = p => e.n < v.n
  BY <1>1, <1>9 DEF QueueInv, Numbered, Elements
<1>11. v \notin Everything
  BY <1>1, <1>10
<1>12. TypeOK'
  <2>1. call' \in [Threads -> Pushes \cup {"pop_blocking", "none"}]
    BY DEF QueueInv, TypeOK, Push
  <2>2. /\ \A q \in Producers : call'[q] # "pop_blocking"
        /\ \A c \in Consumers : call'[c] \notin Pushes
    BY ThreadsAssumption DEF QueueInv, TypeOK, Push, Pushes, Threads
  <2>3. blocked' \subseteq blocked /\ p \notin blocked
    BY DEF Push, notify_one, Awake
  <2>4. blocked' \subseteq {t \in Threads : call'[t] # "none"}
    BY <2>3 DEF QueueInv, TypeOK, Push
  <2>5. pushes' \in [Producers -> 0..MaxPushes]
    BY <1>1, SizesAssumption DEF QueueInv, Counted, Push
  <2> QED
    BY <1>1, <1>5, <2>1, <2>2, <2>4, <2>5 DEF QueueInv, TypeOK
<1>22. Counted'
  BY <1>1 DEF QueueInv, Counted, TypeOK, Push, Pushes, Threads
<1>13. Bounded'
  <2>1. HasRoom
    BY DEF Push
  <2> QED
    BY <1>1, <1>5, <2>1 DEF HasRoom, Bounded
<1>14. \A i \in DOMAIN data_queue' :
          \/ data_queue'[i] = v
          \/ i - h \in DOMAIN data_queue /\ data_queue'[i] = data_queue[i - h]
  <2> SUFFICES ASSUME NEW i \in 1..Len(data_queue) + 1,
                      i # IF h = 1 THEN 1 ELSE Len(data_queue) + 1
               PROVE  i - h \in DOMAIN data_queue /\ data_queue'[i] = data_queue[i - h]
    BY <1>5, <1>6
  <2>1. i - h \in 1..Len(data_queue) /\ i = (i - h) + h
    BY <1>5
  <2> QED
    BY <1>5, <1>6, <2>1
<1>15. \A i \in DOMAIN data_queue : data_queue[i] \in Everything
  BY DEF Everything, InQueue
<1>16. \A i \in DOMAIN data_queue' :
          data_queue'[i] = v => i = IF h = 1 THEN 1 ELSE Len(data_queue) + 1
  <2> SUFFICES ASSUME NEW i \in 1..Len(data_queue) + 1,
                      i # IF h = 1 THEN 1 ELSE Len(data_queue) + 1
               PROVE  data_queue'[i] # v
    BY <1>5
  <2>1. i - h \in 1..Len(data_queue) /\ i = (i - h) + h
    BY <1>5
  <2> QED
    BY <1>5, <1>6, <1>11, <1>15, <2>1
<1>17. Distinct'
  <2> SUFFICES ASSUME NEW i \in DOMAIN data_queue', NEW j \in DOMAIN data_queue',
                      data_queue'[i].by = data_queue'[j].by,
                      data_queue'[i].n = data_queue'[j].n
               PROVE  i = j
    BY DEF Distinct
  <2>1. CASE data_queue'[i] = v /\ data_queue'[j] = v
    BY <1>16, <2>1
  <2>2. CASE data_queue'[i] = v /\ data_queue'[j] # v
    BY <1>1, <1>9, <1>10, <1>14, <1>15, <2>2 DEF Elements
  <2>3. CASE data_queue'[i] # v /\ data_queue'[j] = v
    BY <1>1, <1>9, <1>10, <1>14, <1>15, <2>3 DEF Elements
  <2>4. CASE data_queue'[i] # v /\ data_queue'[j] # v
    <3>1. i - h = j - h
      BY <1>14, <2>4 DEF QueueInv, Distinct
    <3> QED
      BY <1>5, <3>1
  <2> QED
    BY <2>1, <2>2, <2>3, <2>4
<1>18. Numbered'
  <2>1. \A e \in Elements : pushes[e.by] <= pushes'[e.by] /\ pushes[e.by] \in Nat
                            /\ pushes'[e.by] \in Nat /\ e.n \in Nat
    BY <1>1 DEF Elements
  <2>2. v.n <= pushes'[v.by]
    BY <1>1
  <2> QED
    BY <1>8, <1>9, <2>1, <2>2 DEF QueueInv, Numbered
<1>19. AllThere'
  <2> SUFFICES ASSUME NEW q \in Producers, NEW k \in 1..pushes'[q]
               PROVE  \E e \in Everything' : e.by = q /\ e.n = k
    BY DEF AllThere
  <2>1. CASE q = p /\ k = pushes[p] + 1
    <3>1. v \in Everything'
      BY <1>8
    <3>2. v.by = q /\ v.n = k
      BY <2>1
    <3> QED
      BY <3>1, <3>2
  <2>2. CASE ~(q = p /\ k = pushes[p] + 1)
    <3>1. k \in 1..pushes[q]
      BY <1>1, <2>2
    <3> QED
      BY <1>8, <3>1 DEF QueueInv, AllThere
  <2> QED
    BY <2>1, <2>2
<1>20. Apart'
  BY <1>1, <1>7, <1>11 DEF QueueInv, Apart, Everything
<1>21. InOrder'
  <2> SUFFICES ASSUME NEW i \in DOMAIN data_queue', NEW j \in DOMAIN data_queue',
                      data_queue'[i].by = data_queue'[j].by,
                      data_queue'[i].at = "push_blocking",
                      data_queue'[j].at = "push_blocking",
                      data_queue'[i].n < data_queue'[j].n
               PROVE  i < j
    BY DEF InOrder
  <2>1. CASE data_queue'[i] = v
    <3>1. CASE data_queue'[j] = v
      BY <1>1, <2>1, <3>1
    <3>2. CASE data_queue'[j] # v
      BY <1>1, <1>9, <1>10, <1>14, <1>15, <2>1, <3>2 DEF Elements
    <3> QED
      BY <3>1, <3>2
  <2>2. CASE data_queue'[i] # v /\ data_queue'[j] = v
    <3>1. h = 0
      BY <1>6, <2>2
    <3>2. j = Len(data_queue) + 1
      BY <1>16, <2>2, <3>1
    <3>3. i \in 1..Len(data_queue)
      BY <1>5, <1>14, <2>2, <3>1
    <3> QED
      BY <1>5, <3>2, <3>3
  <2>3. CASE data_queue'[i] # v /\ data_queue'[j] # v
    <3>1. i - h < j - h
      BY <1>14, <2>3 DEF QueueInv, InOrder
    <3> QED
      BY <1>5, <3>1
  <2> QED
    BY <2>1, <2>2, <2>3
<1> QED
  BY <1>12, <1>13, <1>17, <1>18, <1>19, <1>20, <1>21, <1>22 DEF QueueInv

(* A pop takes the first element; the others keep their order.             *)
LEMMA PopKeeps ==
  ASSUME QueueInv, NEW c \in Consumers, Pop(c)
  PROVE  QueueInv'
<1> DEFINE v == data_queue[1]
<1>1. /\ data_queue \in Seq(Elements) /\ data_queue # <<>>
      /\ pushes \in [Producers -> 0..MaxPushes]
      /\ max_size' = max_size /\ pushes' = pushes /\ cleared' = cleared
      /\ data_queue' = Tail(data_queue)
  BY DEF QueueInv, TypeOK, Pop
<1>2. /\ data_queue' \in Seq(Elements)
      /\ Len(data_queue') = Len(data_queue) - 1 /\ Len(data_queue) \in Nat \ {0}
      /\ DOMAIN data_queue = 1..Len(data_queue)
      /\ DOMAIN data_queue' = 1..Len(data_queue) - 1
      /\ \A i \in 1..Len(data_queue) - 1 : data_queue'[i] = data_queue[i + 1]
      /\ Head(data_queue) = v
  BY <1>1, Removed
<1>3. popped' = popped \cup {v}
  BY <1>2 DEF Pop
<1>4. InQueue = InQueue' \cup {v} /\ v \notin InQueue'
  <2>1. \A i \in 1..Len(data_queue) : i = 1 \/ i - 1 \in 1..Len(data_queue) - 1
    BY <1>2
  <2>2. \A i \in 1..Len(data_queue) - 1 : i + 1 \in 1..Len(data_queue) /\ i + 1 # 1
    BY <1>2
  <2>3. 1 \in 1..Len(data_queue)
    BY <1>2
  <2>4. \A i \in 1..Len(data_queue) : data_queue[i] \in InQueue' \cup {v}
    <3> SUFFICES ASSUME NEW i \in 1..Len(data_queue), i # 1
                 PROVE  data_queue[i] \in InQueue'
      OBVIOUS
    <3>1. i - 1 \in 1..Len(data_queue) - 1 /\ i = (i - 1) + 1
      BY <2>1
    <3>2. data_queue[i] = data_queue'[i - 1]
      BY <1>2, <3>1
    <3> QED
      BY <1>2, <3>1, <3>2 DEF InQueue
  <2>5. InQueue' \cup {v} \subseteq InQueue
    BY <1>2, <2>2, <2>3 DEF InQueue
  <2>6. InQueue \subseteq InQueue' \cup {v}
    BY <1>2, <2>4 DEF InQueue
  <2>7. \A i \in 1..Len(data_queue) - 1 : data_queue'[i] # v
    BY <1>2, <2>2, <2>3 DEF QueueInv, Distinct
  <2>8. v \notin InQueue'
    BY <1>2, <2>7 DEF InQueue
  <2> QED
    BY <2>5, <2>6, <2>8
<1>5. Everything' = Everything
  BY <1>1, <1>3, <1>4 DEF Everything
<1>6. TypeOK'
  <2>1. /\ call' \in [Threads -> Pushes \cup {"pop_blocking", "none"}]
        /\ \A p \in Producers : call'[p] # "pop_blocking"
        /\ \A d \in Consumers : call'[d] \notin Pushes
    BY DEF QueueInv, TypeOK, Pop, Threads, Pushes
  <2>2. blocked' \subseteq {t \in Threads : call'[t] # "none"}
    BY DEF QueueInv, TypeOK, Pop, Awake
  <2>3. popped' \subseteq Elements
    BY <1>2, <1>3, <1>4 DEF QueueInv, TypeOK, InQueue
  <2> QED
    BY <1>1, <1>2, <2>1, <2>2, <2>3 DEF QueueInv, TypeOK
<1>7. Counted'
  BY <1>1, ThreadsAssumption DEF QueueInv, Counted, TypeOK, Pop, Pushes, Threads
<1>8. Bounded'
  BY <1>1, <1>2, SizesAssumption DEF QueueInv, Bounded, TypeOK
<1>9. \A i \in DOMAIN data_queue' :
         i + 1 \in DOMAIN data_queue /\ data_queue'[i] = data_queue[i + 1]
  BY <1>2
<1>10. Distinct'
  <2> SUFFICES ASSUME NEW i \in DOMAIN data_queue', NEW j \in DOMAIN data_queue',
                      data_queue'[i].by = data_queue'[j].by,
                      data_queue'[i].n = data_queue'[j].n
               PROVE  i = j
    BY DEF Distinct
  <2>1. i + 1 = j + 1
    BY <1>9 DEF QueueInv, Distinct
  <2> QED
    BY <1>2, <2>1
<1>11. Numbered' /\ AllThere'
  BY <1>1, <1>5 DEF QueueInv, Numbered, AllThere
<1>12. Apart'
  BY <1>1, <1>3, <1>4 DEF QueueInv, Apart
<1>13. InOrder'
  <2> SUFFICES ASSUME NEW i \in DOMAIN data_queue', NEW j \in DOMAIN data_queue',
                      data_queue'[i].by = data_queue'[j].by,
                      data_queue'[i].at = "push_blocking",
                      data_queue'[j].at = "push_blocking",
                      data_queue'[i].n < data_queue'[j].n
               PROVE  i < j
    BY DEF InOrder
  <2>1. i + 1 < j + 1
    BY <1>9 DEF QueueInv, InOrder
  <2> QED
    BY <1>2, <2>1
<1> QED
  BY <1>6, <1>7, <1>8, <1>10, <1>11, <1>12, <1>13 DEF QueueInv

(* clear moves what is in the queue to the elements dropped.               *)
LEMMA ClearKeeps ==
  ASSUME QueueInv, clear
  PROVE  QueueInv'
<1>1. /\ data_queue' = <<>> /\ cleared' = cleared \cup InQueue
      /\ UNCHANGED <<max_size, call, blocked, pushes, popped>>
  BY DEF clear, InQueue
<1>2. DOMAIN data_queue' = {} /\ Len(data_queue') = 0 /\ InQueue' = {}
  BY <1>1 DEF InQueue
<1>3. Everything' = Everything
  BY <1>1, <1>2 DEF Everything
<1>4. TypeOK' /\ Counted'
  <2>1. InQueue \subseteq Elements
    BY DEF QueueInv, TypeOK, InQueue
  <2>2. data_queue' \in Seq(Elements)
    BY <1>1
  <2> QED
    BY <1>1, <2>1, <2>2 DEF QueueInv, TypeOK, Counted
<1>5. Bounded' /\ Distinct' /\ InOrder'
  BY <1>1, <1>2, SizesAssumption DEF QueueInv, TypeOK, Bounded, Distinct, InOrder
<1>6. Numbered' /\ AllThere'
  BY <1>1, <1>3 DEF QueueInv, Numbered, AllThere
<1>7. Apart'
  BY <1>1, <1>2 DEF QueueInv, Apart
<1> QED
  BY <1>4, <1>5, <1>6, <1>7 DEF QueueInv

-----------------------------------------------------------------------------
LEMMA QueueInit == Init => QueueInv
<1> SUFFICES ASSUME Init PROVE QueueInv
  OBVIOUS
<1> USE SizesAssumption DEF Init
<1>1. DOMAIN data_queue = {} /\ Len(data_queue) = 0 /\ data_queue \in Seq(Elements)
  OBVIOUS
<1>2. InQueue = {} /\ Everything = {}
  BY <1>1 DEF InQueue, Everything
<1>3. TypeOK
  BY <1>1 DEF TypeOK, Pushes, Threads
<1>4. Counted /\ Bounded /\ Distinct /\ InOrder
  BY <1>1 DEF Counted, Bounded, Distinct, InOrder, Pushes, Threads
<1>5. Numbered /\ AllThere /\ Apart
  BY <1>2 DEF Numbered, AllThere, Apart
<1> QED
  BY <1>3, <1>4, <1>5 DEF QueueInv

LEMMA QueueNext == QueueInv /\ [Next]_vars => QueueInv'
<1> SUFFICES ASSUME QueueInv, [Next]_vars PROVE QueueInv'
  OBVIOUS
<1> USE ThreadsAssumption, SizesAssumption
<1>1. ASSUME NEW p \in Producers, Push(p) PROVE QueueInv'
  BY <1>1, PushKeeps
<1>2. ASSUME NEW c \in Consumers, Pop(c) PROVE QueueInv'
  BY <1>2, PopKeeps
<1>3. CASE clear
  BY <1>3, ClearKeeps
<1>4. ASSUME NEW p \in Producers, PushWaits(p) PROVE QueueInv'
  <2>1. UNCHANGED <<max_size, data_queue, call, pushes, popped, cleared>>
    BY <1>4 DEF PushWaits, Wait
  <2>2. TypeOK' /\ Counted'
    BY <1>4, <2>1 DEF QueueInv, TypeOK, Counted, PushWaits, Wait, Threads, Pushes
  <2> QED
    BY <2>1, <2>2, QueueKept
<1>5. ASSUME NEW c \in Consumers, PopWaits(c) PROVE QueueInv'
  <2>1. UNCHANGED <<max_size, data_queue, call, pushes, popped, cleared>>
    BY <1>5 DEF PopWaits, Wait
  <2>2. TypeOK' /\ Counted'
    BY <1>5, <2>1 DEF QueueInv, TypeOK, Counted, PopWaits, Wait, Threads
  <2> QED
    BY <2>1, <2>2, QueueKept
<1>6. ASSUME NEW p \in Producers, NEW f \in Pushes, CallPush(p, f) PROVE QueueInv'
  <2>1. /\ UNCHANGED <<max_size, data_queue, blocked, pushes, popped, cleared>>
        /\ call[p] = "none" /\ pushes[p] < MaxPushes
        /\ call' = [call EXCEPT ![p] = f]
    BY <1>6 DEF CallPush
  <2>2. f \notin {"none", "pop_blocking"}
    BY DEF Pushes
  <2>3. TypeOK'
    BY <2>1, <2>2 DEF QueueInv, TypeOK, Threads
  <2>4. Counted'
    BY <2>1 DEF QueueInv, TypeOK, Counted, Threads
  <2> QED
    BY <2>1, <2>3, <2>4, QueueKept
<1>7. ASSUME NEW c \in Consumers, CallPop(c) PROVE QueueInv'
  <2>1. /\ UNCHANGED <<max_size, data_queue, blocked, pushes, popped, cleared>>
        /\ call[c] = "none"
        /\ call' = [call EXCEPT ![c] = "pop_blocking"]
    BY <1>7 DEF CallPop
  <2>2. TypeOK'
    BY <2>1 DEF QueueInv, TypeOK, Threads, Pushes
  <2>3. Counted'
    BY <2>1 DEF QueueInv, TypeOK, Counted, Threads
  <2> QED
    BY <2>1, <2>2, <2>3, QueueKept
<1>8. ASSUME NEW t \in Threads, WakeUp(t) PROVE QueueInv'
  <2>1. UNCHANGED <<max_size, data_queue, call, pushes, popped, cleared>>
    BY <1>8 DEF WakeUp
  <2>2. TypeOK' /\ Counted'
    BY <1>8, <2>1 DEF QueueInv, TypeOK, Counted, WakeUp
  <2> QED
    BY <2>1, <2>2, QueueKept
<1>9. CASE UNCHANGED vars
  <2>1. TypeOK' /\ Counted'
    BY <1>9 DEF QueueInv, TypeOK, Counted, vars
  <2> QED
    BY <1>9, <2>1, QueueKept DEF vars
<1> QED
  BY <1>1, <1>2, <1>3, <1>4, <1>5, <1>6, <1>7, <1>8, <1>9 DEF Next

THEOREM Invariant == Spec => []QueueInv
  BY QueueInit, QueueNext, PTL DEF Spec

(* However many pushing threads notify_one and spurious wake-ups let go on, *)
(* a bounded queue never holds more than max_size elements.                *)
THEOREM AlwaysBounded == Spec => []Bounded
<1>1. QueueInv => Bounded
  BY DEF QueueInv
<1> QED
  BY <1>1, Invariant, PTL

(* Every element pushed is in the queue, was returned by one pop or was    *)
(* dropped by clear, and is in one of these places only.                   *)
THEOREM DeliveredOnce == Spec => []ExactlyOnce
<1>1. ASSUME QueueInv PROVE ExactlyOnce
  <2>1. \A i, j \in DOMAIN data_queue :
          data_queue[i].by = data_queue[j].by /\ data_queue[i].n = data_queue[j].n => i = j
    BY <1>1 DEF QueueInv, Distinct
  <2>2. ASSUME NEW p \in Producers
        PROVE  {e.n : e \in {x \in InQueue \cup popped \cup cleared : x.by = p}}
                 = 1..pushes[p]
    <3> DEFINE N == {e.n : e \in {x \in Everything : x.by = p}}
    <3>1. Everything \subseteq Elements /\ pushes[p] \in Nat
      BY <1>1, SizesAssumption DEF QueueInv, TypeOK, Everything, InQueue
    <3>2. N \subseteq 1..pushes[p]
      BY <1>1, <3>1, SizesAssumption DEF QueueInv, Numbered, Elements
    <3>3. 1..pushes[p] \subseteq N
      BY <1>1 DEF QueueInv, AllThere
    <3> QED
      BY <3>2, <3>3 DEF Everything
  <2>3. InQueue \cap (popped \cup cleared) = {} /\ popped \cap cleared = {}
    BY <1>1 DEF QueueInv, Apart
  <2> QED
    BY <2>1, <2>2, <2>3 DEF ExactlyOnce
<1> QED
  BY <1>1, Invariant, PTL

(* Elements one thread pushes at the back stay in the order of its pushes. *)
THEOREM LeavesInOrder == Spec => []InOrder
<1>1. QueueInv => InOrder
  BY DEF QueueInv
<1> QED
  BY <1>1, Invariant, PTL

-----------------------------------------------------------------------------
(* Notifications: what the liveness of an unbounded queue rests on.        *)

\* The threads in pop_blocking that are about to test its condition.
Poppers == {c \in Consumers : call[c] = "pop_blocking" /\ Awake(c)}

\* As long as somebody is blocked, there is a thread awake for each element.
Attended ==
    max_size = 0 =>
        /\ blocked \subseteq Consumers
        /\ blocked # {} => Cardinality(Poppers) >= Len(data_queue)

\* Nobody pushing is blocked, and elements that a thread waits for are about to be
\* popped.
NobodyStuck ==
    max_size = 0 =>
        /\ \A p \in Producers : Awake(p)
        /\ data_queue # <<>> /\ (\E c \in Consumers : call[c] = "pop_blocking") => Poppers # {}

LEMMA PoppersMore ==
  ASSUME IsFiniteSet(Consumers), Poppers \subseteq Poppers'
  PROVE  /\ Cardinality(Poppers) \in Nat /\ Cardinality(Poppers') \in Nat
         /\ Cardinality(Poppers') >= Cardinality(Poppers)
         /\ Poppers' # Poppers => Cardinality(Poppers') > Cardinality(Poppers)
<1>1. IsFiniteSet(Poppers) /\ IsFiniteSet(Poppers')
  <2>1. Poppers \subseteq Consumers /\ Poppers' \subseteq Consumers
    BY DEF Poppers
  <2> QED
    BY <2>1, FS_Subset
<1> HIDE DEF Poppers
<1>2. Poppers = Poppers' \/ Poppers # Poppers'
  OBVIOUS
<1>3. Cardinality(Poppers) \in Nat /\ Cardinality(Poppers') \in Nat
  BY <1>1, FS_CardinalityType
<1>4. Cardinality(Poppers) <= Cardinality(Poppers')
  BY <1>1, FS_Subset
<1>5. Cardinality(Poppers') = Cardinality(Poppers) => Poppers' = Poppers
  BY <1>1, FS_Subset
<1> QED
  BY <1>3, <1>4, <1>5

LEMMA AttendedInit == Init => Attended
BY DEF Init, Attended

LEMMA AttendedNext ==
  ASSUME IsFiniteSet(Consumers), TypeOK, Attended, [Next]_vars
  PROVE  Attended'
<1> SUFFICES ASSUME max_size' = 0
             PROVE  /\ blocked' \subseteq Consumers
                    /\ blocked' # {} => Cardinality(Poppers') >= Len(data_queue')
  BY DEF Attended
<1> USE ThreadsAssumption
<1>1. max_size = 0 /\ blocked \subseteq Consumers /\ data_queue \in Seq(Elements)
  BY DEF Attended, TypeOK, Next, vars, Push, PushWaits, CallPush, Pop, PopWaits, CallPop, WakeUp,
         Wait, clear
<1>2. Len(data_queue) \in Nat
  BY <1>1
<1>3. blocked # {} => Cardinality(Poppers) >= Len(data_queue)
  BY <1>1 DEF Attended
<1>4. ASSUME blocked' \subseteq blocked, Poppers \subseteq Poppers',
             Len(data_queue') \in Nat, Len(data_queue') <= Len(data_queue)
      PROVE  /\ blocked' \subseteq Consumers
             /\ blocked' # {} => Cardinality(Poppers') >= Len(data_queue')
  <2>1. /\ Cardinality(Poppers) \in Nat /\ Cardinality(Poppers') \in Nat
        /\ Cardinality(Poppers') >= Cardinality(Poppers)
    BY <1>4, PoppersMore
  <2>2. blocked' # {} => Cardinality(Poppers) >= Len(data_queue)
    BY <1>3, <1>4
  <2> QED
    BY <1>1, <1>2, <1>4, <2>1, <2>2
<1>5. ASSUME NEW p \in Producers, Push(p)
      PROVE  /\ blocked' \subseteq Consumers
             /\ blocked' # {} => Cardinality(Poppers') >= Len(data_queue')
  <2>1. /\ \A c \in Consumers : call'[c] = call[c]
        /\ blocked' \subseteq blocked
    BY <1>5 DEF Push, notify_one, TypeOK, Threads
  <2>2. CASE blocked = {}
    BY <2>1, <2>2
  <2>3. CASE blocked # {}
    <3>1. PICK c \in blocked : blocked' = blocked \ {c}
      BY <1>5, <2>3 DEF Push, notify_one
    <3>2. c \in Consumers /\ call[c] = "pop_blocking"
      BY <1>1, <3>1 DEF TypeOK, Threads
    <3>3. Poppers \subseteq Poppers' /\ c \in Poppers' /\ c \notin Poppers
      BY <2>1, <3>1, <3>2 DEF Poppers, Awake
    <3>4. /\ Cardinality(Poppers) \in Nat /\ Cardinality(Poppers') \in Nat
          /\ Cardinality(Poppers') > Cardinality(Poppers)
      BY <3>3, PoppersMore
    <3>5. Len(data_queue') = Len(data_queue) + 1
      <4> DEFINE v == [by |-> p, n |-> pushes[p] + 1, at |-> call[p]]
      <4>1. data_queue' = Append(data_queue, v) \/ data_queue' = <<v>> \o data_queue
        BY <1>5 DEF Push
      <4> HIDE DEF v
      <4> QED
        BY <1>1, <4>1
    <3> QED
      BY <1>1, <1>2, <1>3, <2>1, <2>3, <3>4, <3>5
  <2> QED
    BY <2>2, <2>3
<1>6. ASSUME NEW p \in Producers, PushWaits(p) PROVE FALSE
  BY <1>1, <1>6 DEF PushWaits, HasRoom
<1>7. ASSUME NEW p \in Producers, NEW f \in Pushes, CallPush(p, f)
      PROVE  /\ blocked' \subseteq Consumers
             /\ blocked' # {} => Cardinality(Poppers') >= Len(data_queue')
  <2>1. blocked' = blocked /\ data_queue' = data_queue /\ Poppers' = Poppers
    BY <1>7 DEF CallPush, Poppers, Awake, TypeOK, Threads
  <2> QED
    BY <1>2, <1>4, <2>1
<1>8. ASSUME NEW c \in Consumers, Pop(c)
      PROVE  /\ blocked' \subseteq Consumers
             /\ blocked' # {} => Cardinality(Poppers') >= Len(data_queue')
  <2>1. blocked' = blocked /\ c \in Poppers /\ Poppers' = Poppers \ {c}
    BY <1>8 DEF Pop, Poppers, Awake, TypeOK, Threads
  <2>2. Len(data_queue') = Len(data_queue) - 1
    BY <1>1, <1>8, Removed DEF Pop
  <2>3. Cardinality(Poppers') = Cardinality(Poppers) - 1 /\ Cardinality(Poppers) \in Nat
    <3>1. IsFiniteSet(Poppers)
      <4>1. Poppers \subseteq Consumers
        BY DEF Poppers
      <4> QED
        BY <4>1, FS_Subset
    <3>2. Cardinality(Poppers \ {c}) = Cardinality(Poppers) - 1
      BY <2>1, <3>1, FS_RemoveElement
    <3>3. Cardinality(Poppers) \in Nat
      BY <3>1, FS_CardinalityType
    <3> QED
      BY <2>1, <3>2, <3>3
  <2> QED
    BY <1>1, <1>2, <1>3, <2>1, <2>2, <2>3
<1>9. ASSUME NEW c \in Consumers, PopWaits(c)
      PROVE  /\ blocked' \subseteq Consumers
             /\ blocked' # {} => Cardinality(Poppers') >= Len(data_queue')
  <2>1. blocked' = blocked \cup {c} /\ data_queue' = <<>>
    BY <1>9 DEF PopWaits, Wait
  <2>2. Cardinality(Poppers') \in Nat
    <3>1. Poppers' \subseteq Consumers
      BY DEF Poppers
    <3> QED
      BY <3>1, FS_Subset, FS_CardinalityType
  <2> QED
    BY <1>1, <2>1, <2>2
<1>10. ASSUME NEW c \in Consumers, CallPop(c)
      PROVE  /\ blocked' \subseteq Consumers
             /\ blocked' # {} => Cardinality(Poppers') >= Len(data_queue')
  <2>1. blocked' = blocked /\ data_queue' = data_queue /\ Poppers \subseteq Poppers'
    BY <1>10 DEF CallPop, Poppers, Awake, TypeOK, Threads
  <2> QED
    BY <1>2, <1>4, <2>1
<1>11. ASSUME NEW t \in Threads, WakeUp(t)
      PROVE  /\ blocked' \subseteq Consumers
             /\ blocked' # {} => Cardinality(Poppers') >= Len(data_queue')
  <2>1. blocked' \subseteq blocked /\ data_queue' = data_queue /\ Poppers \subseteq Poppers'
    BY <1>11 DEF WakeUp, Poppers, Awake
  <2> QED
    BY <1>2, <1>4, <2>1
<1>12. ASSUME clear \/ UNCHANGED vars
       PROVE  /\ blocked' \subseteq Consumers
              /\ blocked' # {} => Cardinality(Poppers') >= Len(data_queue')
  <2>1. blocked' = blocked /\ Poppers' = Poppers /\ (data_queue' = data_queue \/ data_queue' = <<>>)
    BY <1>12 DEF clear, vars, Poppers, Awake
  <2>2. Len(data_queue') \in Nat /\ Len(data_queue') <= Len(data_queue)
    BY <1>2, <2>1
  <2> QED
    BY <1>4, <2>1, <2>2
<1> QED
  BY <1>5, <1>6, <1>7, <1>8, <1>9, <1>10, <1>11, <1>12 DEF Next

(* In an unbounded queue no thread that pushes is ever blocked, and while  *)
(* an element is there and a thread waits for one, some thread is awake to *)
(* take it: pushes notify one thread each, pops none, and that is enough   *)
(* (push_blocking, pop_blocking).                                          *)
THEOREM NoLostWakeups ==
  ASSUME IsFiniteSet(Consumers)
  PROVE  Spec => []NobodyStuck
<1>1. ASSUME TypeOK, Attended PROVE NobodyStuck
  <2> SUFFICES ASSUME max_size = 0
               PROVE  /\ \A p \in Producers : Awake(p)
                      /\ data_queue # <<>> /\ (\E c \in Consumers : call[c] = "pop_blocking")
                           => Poppers # {}
    BY DEF NobodyStuck
  <2>1. blocked \subseteq Consumers
    BY <1>1 DEF Attended
  <2>2. \A p \in Producers : Awake(p)
    BY <2>1, ThreadsAssumption DEF Awake
  <2>3. ASSUME data_queue # <<>>, NEW c \in Consumers, call[c] = "pop_blocking"
        PROVE  Poppers # {}
    <3>1. CASE blocked = {}
      BY <2>3, <3>1 DEF Poppers, Awake
    <3>2. CASE blocked # {}
      <4>1. Cardinality(Poppers) >= Len(data_queue)
        BY <1>1, <3>2 DEF Attended
      <4>2. Len(data_queue) \in Nat \ {0}
        BY <1>1, <2>3, Removed DEF TypeOK
      <4>3. Poppers = {} => Cardinality(Poppers) = 0
        BY FS_EmptySet
      <4> QED
        BY <4>1, <4>2, <4>3
    <3> QED
      BY <3>1, <3>2
  <2> QED
    BY <2>2, <2>3
<1>2. QueueInv => TypeOK
  BY DEF QueueInv
<1>3. TypeOK /\ Attended /\ [Next]_vars => Attended'
  BY AttendedNext
<1> QED
  BY <1>1, <1>2, <1>3, AttendedInit, Invariant, PTL DEF Spec
==============================================================================
