---------------------------- MODULE AccessLogger ----------------------------
(***************************************************************************)
(* The asynchronous access log (src/src/core/utils/access_logger.hpp): the *)
(* thread that executes statements queues entries, a worker thread writes  *)
(* them to the file, and the destructor of the CLI shuts the worker down.  *)
(*                                                                         *)
(* The queue and running_ are touched under mutex_ only, so what a thread  *)
(* does between taking the mutex and releasing it is one step; releasing   *)
(* it inside cv_.wait goes with falling asleep.  A notify is a step of its *)
(* own, after the mutex was released.                                      *)
(***************************************************************************)
EXTENDS Naturals, Sequences

CONSTANTS
    Entries,    \* the log entries
    MaxLogged   \* bound: the statements executed

ASSUME MaxLoggedAssumption == MaxLogged \in Nat

VARIABLES
    opened,    \* whether initialize could open the file
    closed,    \* whether shutdown has closed it
    running,   \* running_
    queue,     \* queue_
    main,      \* where the main thread is
    worker,    \* where the worker thread is
    hand,      \* the entry the worker has popped and not yet written
    file,      \* the entries in the log file
    logged     \* history: the entries handed to log

vars == <<opened, closed, running, queue, main, worker, hand, file, logged>>

\* initialize: without a file no worker is started, and log does not notice
Init ==
    /\ opened \in BOOLEAN
    /\ closed = FALSE
    /\ running = opened
    /\ worker = IF opened THEN "check" ELSE "none"
    /\ queue = <<>> /\ main = "run" /\ hand = <<>> /\ file = <<>> /\ logged = <<>>

(***************************************************************************)
(* The main thread.                                                        *)
(***************************************************************************)
Log ==
    /\ main = "run" /\ Len(logged) < MaxLogged
    /\ \E e \in Entries : queue' = Append(queue, e) /\ logged' = Append(logged, e)
    /\ main' = "notifyLog"
    /\ UNCHANGED <<opened, closed, running, worker, hand, file>>

\* Mutant: the notification is sent to nobody.
WakeNobody == UNCHANGED worker

\* cv_.notify_one
Wake == worker' = IF worker = "asleep" THEN "check" ELSE worker

NotifyLog ==
    /\ main = "notifyLog"
    /\ Wake
    /\ main' = "run"
    /\ UNCHANGED <<opened, closed, running, queue, hand, file, logged>>

BeginShutdown ==
    /\ main = "run"
    /\ running' = FALSE
    /\ main' = "notifyShutdown"
    /\ UNCHANGED <<opened, closed, queue, worker, hand, file, logged>>

NotifyShutdown ==
    /\ main = "notifyShutdown"
    /\ Wake
    /\ main' = "join"
    /\ UNCHANGED <<opened, closed, running, queue, hand, file, logged>>

\* join returns when the worker is done, at once when there never was one
Join ==
    /\ main = "join" /\ worker \in {"done", "none"}
    /\ closed' = TRUE
    /\ main' = "off"
    /\ UNCHANGED <<opened, running, queue, worker, hand, file, logged>>

(***************************************************************************)
(* The worker thread.                                                      *)
(***************************************************************************)
\* Mutant: entries are taken from the wrong end of the queue.
PopLast ==
    /\ hand' = <<queue[Len(queue)]>>
    /\ queue' = SubSeq(queue, 1, Len(queue) - 1)
    /\ worker' = "write"

\* Mutant: the worker takes the whole queue for one entry.
PopAll ==
    /\ hand' = queue
    /\ queue' = <<>>
    /\ worker' = "write"

Pop ==
    /\ hand' = <<Head(queue)>>
    /\ queue' = Tail(queue)
    /\ worker' = "write"

\* Mutant: the wait is not ended by running_.
WaitForEntry ==
    IF queue # <<>> THEN Pop
    ELSE worker' = "asleep" /\ UNCHANGED <<queue, hand>>

\* the test of cv_.wait, and what the loop does when it passes
Wait ==
    IF queue # <<>> THEN Pop
    ELSE /\ worker' = IF running THEN "asleep" ELSE "done"
         /\ UNCHANGED <<queue, hand>>

Check ==
    /\ worker = "check"
    /\ Wait
    /\ UNCHANGED <<opened, closed, running, main, file, logged>>

\* a condition variable may wake its waiter without a notification
SpuriousWakeup ==
    /\ worker = "asleep"
    /\ worker' = "check"
    /\ UNCHANGED <<opened, closed, running, queue, main, hand, file, logged>>

\* writeEntry, without mutex_; a closed file takes nothing
WriteEntry ==
    /\ worker = "write"
    /\ file' = IF closed THEN file ELSE file \o hand
    /\ hand' = <<>>
    /\ worker' = "next"
    /\ UNCHANGED <<opened, closed, running, queue, main, logged>>

\* Mutant: a shutdown is obeyed before the queue is empty.
NextUnlessStopped ==
    /\ worker = "next"
    /\ IF ~running THEN worker' = "done" /\ UNCHANGED <<queue, hand>>
       ELSE IF queue # <<>> THEN Pop
       ELSE worker' = "check" /\ UNCHANGED <<queue, hand>>
    /\ UNCHANGED <<opened, closed, running, main, file, logged>>

\* the inner loop, and its way out: the test for the end or back to the wait
NextEntry ==
    /\ worker = "next"
    /\ IF queue # <<>> THEN Pop
       ELSE /\ worker' = IF running THEN "check" ELSE "done"
            /\ UNCHANGED <<queue, hand>>
    /\ UNCHANGED <<opened, closed, running, main, file, logged>>

Shutdown == BeginShutdown \/ NotifyShutdown \/ Join
Work == Check \/ WriteEntry \/ NextEntry
Next == Log \/ NotifyLog \/ Shutdown \/ Work \/ SpuriousWakeup

Spec == Init /\ [][Next]_vars

\* the worker runs when it can, and the main thread gets through log and
\* through a shutdown it has begun
FairSpec == Spec /\ WF_vars(Work) /\ WF_vars(NotifyLog) /\ WF_vars(NotifyShutdown \/ Join)

(***************************************************************************)
(* Properties.                                                             *)
(***************************************************************************)
TypeOK ==
    /\ opened \in BOOLEAN /\ closed \in BOOLEAN /\ running \in BOOLEAN
    /\ queue \in Seq(Entries) /\ file \in Seq(Entries) /\ logged \in Seq(Entries)
    /\ hand \in Seq(Entries) /\ Len(hand) <= 1
    /\ main \in {"run", "notifyLog", "notifyShutdown", "join", "off"}
    /\ worker \in {"none", "check", "asleep", "write", "next", "done"}

\* No entry is lost, repeated or overtaken: what is in the file, in the worker's
\* hand and in the queue is, in this order, what was logged.  A process that is
\* killed therefore leaves a prefix of the log.
Accounted == file \o hand \o queue = logged

\* shutdown returns only after every entry logged is in the file, if there is one.
DrainedOnExit == main = "off" /\ opened => file = logged

\* No notification is lost: when the worker sleeps although there is something
\* to write, or to stop for, the main thread is just about to wake it.
SleepsForAReason ==
    worker = "asleep" =>
        /\ queue # <<>> => main \in {"notifyLog", "notifyShutdown"}
        /\ ~running => main = "notifyShutdown"

\* Every entry reaches the file, without waiting for the next statement or for
\* the end of the session.
EntriesReachFile ==
    \A n \in 1 .. MaxLogged : opened /\ Len(logged) >= n ~> Len(file) >= n

\* A shutdown that has begun comes to an end: join does not wait for a worker
\* that sleeps for ever.
ShutdownEnds == main = "notifyShutdown" ~> main = "off"
=============================================================================
