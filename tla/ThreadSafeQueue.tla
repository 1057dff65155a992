--------------------------- MODULE ThreadSafeQueue ---------------------------
(***************************************************************************)
(* utils/thread_safe_queue.hpp: a deque behind one mutex and one condition *)
(* variable, on which pushing threads wait for room and popping threads    *)
(* for an element.                                                         *)
(*                                                                         *)
(* What a thread does under the mutex is one action.  A thread inside a    *)
(* call is awake, about to take the mutex and test its condition, or is    *)
(* blocked in cond_var.wait; notify_one wakes one blocked thread, whoever  *)
(* it is, and a thread may wake up without being notified.  Elements are   *)
(* told apart by the thread that pushed them and its count of pushes.      *)
(***************************************************************************)
EXTENDS Integers, Sequences

CONSTANTS
    Producers,  \* threads that push
    Consumers,  \* threads that pop
    Sizes,      \* the values max_size is constructed with
    MaxPushes   \* bound: pushes of each producer

ASSUME ThreadsAssumption == Producers \cap Consumers = {}
ASSUME SizesAssumption == Sizes \subseteq Nat /\ MaxPushes \in Nat

VARIABLES
    max_size,
    data_queue,
    call,       \* the function each thread is in, "none" outside
    blocked,    \* the threads blocked in cond_var.wait
    pushes,     \* history: how many elements each producer has pushed
    popped,     \* history: the elements pops have returned
    cleared     \* history: the elements clear has dropped

vars == <<max_size, data_queue, call, blocked, pushes, popped, cleared>>

Threads == Producers \cup Consumers
Pushes == {"push_blocking", "push_front_blocking"}
Elements == [by : Producers, n : 1..MaxPushes, at : Pushes]

Init ==
    /\ max_size \in Sizes
    /\ data_queue = <<>>
    /\ call = [t \in Threads |-> "none"]
    /\ blocked = {}
    /\ pushes = [p \in Producers |-> 0]
    /\ popped = {} /\ cleared = {}

-----------------------------------------------------------------------------
Awake(t) == t \notin blocked

CallPush(p, f) ==
    /\ call[p] = "none"
    /\ pushes[p] < MaxPushes
    /\ call' = [call EXCEPT ![p] = f]
    /\ UNCHANGED <<max_size, data_queue, blocked, pushes, popped, cleared>>

CallPop(c) ==
    /\ call[c] = "none"
    /\ call' = [call EXCEPT ![c] = "pop_blocking"]
    /\ UNCHANGED <<max_size, data_queue, blocked, pushes, popped, cleared>>

\* cond_var.wait with a condition that does not hold releases the mutex.
Wait(t) ==
    /\ blocked' = blocked \cup {t}
    /\ UNCHANGED <<max_size, data_queue, call, pushes, popped, cleared>>

\* Mutation: only the push that ends the emptiness notifies.
notify_one_if_empty ==
    IF blocked = {} \/ data_queue # <<>> THEN UNCHANGED blocked
    ELSE \E t \in blocked : blocked' = blocked \ {t}

\* cond_var.notify_one
notify_one ==
    IF blocked = {} THEN UNCHANGED blocked
    ELSE \E t \in blocked : blocked' = blocked \ {t}

\* Mutations: one element too many; zero is a size like any other.
HasRoom_one_more == max_size = 0 \/ Len(data_queue) <= max_size
HasRoom_zero == Len(data_queue) < max_size

HasRoom == max_size = 0 \/ Len(data_queue) < max_size

\* Mutation: every push goes to the front.
Push_front_only(p) ==
    /\ call[p] \in Pushes /\ Awake(p)
    /\ HasRoom
    /\ data_queue' = <<[by |-> p, n |-> pushes[p] + 1, at |-> call[p]]>> \o data_queue
    /\ notify_one
    /\ call' = [call EXCEPT ![p] = "none"]
    /\ pushes' = [pushes EXCEPT ![p] = @ + 1]
    /\ UNCHANGED <<max_size, popped, cleared>>

Push(p) ==
    /\ call[p] \in Pushes /\ Awake(p)
    /\ HasRoom
    /\ LET value == [by |-> p, n |-> pushes[p] + 1, at |-> call[p]]
       IN  data_queue' = IF call[p] = "push_blocking" THEN Append(data_queue, value)
                         ELSE <<value>> \o data_queue
    /\ notify_one
    /\ call' = [call EXCEPT ![p] = "none"]
    /\ pushes' = [pushes EXCEPT ![p] = @ + 1]
    /\ UNCHANGED <<max_size, popped, cleared>>

PushWaits(p) == call[p] \in Pushes /\ Awake(p) /\ ~HasRoom /\ Wait(p)

\* Mutation: the front is returned, the back removed.
Pop_back(c) ==
    /\ call[c] = "pop_blocking" /\ Awake(c)
    /\ data_queue # <<>>
    /\ popped' = popped \cup {Head(data_queue)}
    /\ data_queue' = SubSeq(data_queue, 1, Len(data_queue) - 1)
    /\ call' = [call EXCEPT ![c] = "none"]
    /\ UNCHANGED <<max_size, blocked, pushes, cleared>>

Pop(c) ==
    /\ call[c] = "pop_blocking" /\ Awake(c)
    /\ data_queue # <<>>
    /\ popped' = popped \cup {Head(data_queue)}
    /\ data_queue' = Tail(data_queue)
    /\ call' = [call EXCEPT ![c] = "none"]
    /\ UNCHANGED <<max_size, blocked, pushes, cleared>>

PopWaits(c) == call[c] = "pop_blocking" /\ Awake(c) /\ data_queue = <<>> /\ Wait(c)

\* "The wait may end without a notification": a spurious wakeup.
WakeUp(t) ==
    /\ t \in blocked
    /\ blocked' = blocked \ {t}
    /\ UNCHANGED <<max_size, data_queue, call, pushes, popped, cleared>>

clear ==
    /\ cleared' = cleared \cup {data_queue[i] : i \in DOMAIN data_queue}
    /\ data_queue' = <<>>
    /\ UNCHANGED <<max_size, call, blocked, pushes, popped>>

Next ==
    \/ \E p \in Producers : Push(p) \/ PushWaits(p) \/ \E f \in Pushes : CallPush(p, f)
    \/ \E c \in Consumers : Pop(c) \/ PopWaits(c) \/ CallPop(c)
    \/ \E t \in Threads : WakeUp(t)
    \/ clear

\* A thread inside a call that is not blocked goes on; nobody has to call, and no
\* wakeup happens but by notify_one.
Fairness ==
    /\ \A p \in Producers : WF_vars(Push(p) \/ PushWaits(p))
    /\ \A c \in Consumers : WF_vars(Pop(c) \/ PopWaits(c))
Spec == Init /\ [][Next]_vars /\ Fairness

-----------------------------------------------------------------------------
InQueue == {data_queue[i] : i \in DOMAIN data_queue}

TypeOK ==
    /\ max_size \in Sizes
    /\ data_queue \in Seq(Elements)
    /\ call \in [Threads -> Pushes \cup {"pop_blocking", "none"}]
    /\ \A p \in Producers : call[p] # "pop_blocking"
    /\ \A c \in Consumers : call[c] \notin Pushes
    /\ blocked \subseteq {t \in Threads : call[t] # "none"}
    /\ pushes \in [Producers -> 0..MaxPushes]
    /\ popped \subseteq Elements /\ cleared \subseteq Elements

\* A bounded queue never holds more than max_size elements, however many pushing
\* threads were woken at once (the wait conditions of push_blocking and
\* push_front_blocking are tested again under the mutex).
Bounded == max_size > 0 => Len(data_queue) <= max_size

\* Every element that was pushed is in the queue, has been returned by one pop,
\* or was dropped by clear; no element is there twice (push_*, pop_*, clear).
ExactlyOnce ==
    /\ \A i, j \in DOMAIN data_queue :
         data_queue[i].by = data_queue[j].by /\ data_queue[i].n = data_queue[j].n => i = j
    /\ \A p \in Producers :
         {e.n : e \in {x \in InQueue \cup popped \cup cleared : x.by = p}} = 1..pushes[p]
    /\ InQueue \cap (popped \cup cleared) = {} /\ popped \cap cleared = {}

\* What one thread pushed at the back leaves in the order it was pushed
\* (push_blocking appends, pop_blocking_* take the front).
InOrder ==
    \A i, j \in DOMAIN data_queue :
        /\ data_queue[i].by = data_queue[j].by
        /\ data_queue[i].at = "push_blocking" /\ data_queue[j].at = "push_blocking"
        /\ data_queue[i].n < data_queue[j].n
        => i < j

\* An unbounded queue never keeps elements from a thread that waits to pop one.
ElementsArrive ==
    max_size = 0 =>
        []<>(data_queue = <<>> \/ \A c \in Consumers : call[c] # "pop_blocking")

\* Pushing to an unbounded queue never waits for ever.
PushesReturn ==
    max_size = 0 => \A p \in Producers : call[p] \in Pushes ~> call[p] = "none"

=============================================================================
