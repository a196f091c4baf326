----------------------------- MODULE Telemetry ------------------------------
(***************************************************************************)
(* The telemetry of src/src/core/utils/telemetry.hpp: the thread that      *)
(* executes statements records each one and takes snapshots, a worker      *)
(* trims the queues once a second.  Every operation reads the clock first  *)
(* and takes data_mutex_ afterwards: two steps, between which the other    *)
(* thread and the clock can go on.                                         *)
(*                                                                         *)
(* Abstractions.  A deque is the sequence of all that was pushed and how   *)
(* many were popped off its front.  Of a latency only its time is kept, of *)
(* the average how many latencies it is made of.  The wait of the worker   *)
(* may last any time.                                                      *)
(***************************************************************************)
EXTENDS Integers, Sequences, FiniteSets

CONSTANTS
    Second, TenSeconds, Minute, TenMinutes,  \* the lengths of the windows
    MaxTime                                  \* bound: the clock

ASSUME WindowAssumption ==
    /\ {Second, TenSeconds, Minute, TenMinutes} \subseteq Nat
    /\ 0 < Second /\ Second <= TenSeconds /\ TenSeconds <= Minute /\ Minute <= TenMinutes
ASSUME ClockAssumption == MaxTime \in Nat

VARIABLES
    now,             \* steady_clock
    running,         \* running_
    rps_events, latency_events, error_events,
    caller,          \* what the thread of statements is doing
    callerAt,        \* the time it read
    callerError,     \* is_error
    snap,            \* the last MetricsSnapshot
    worker,          \* where the worker is
    workerAt         \* the time it read

queues == <<rps_events, latency_events, error_events>>
calling == <<caller, callerAt, callerError>>
telemetry == <<now, running, queues, calling, snap, worker, workerAt>>

Time == 0 .. MaxTime
NoEvents == [all |-> <<>>, gone |-> 0]

Push(q, t) == [q EXCEPT !.all = Append(@, t)]

Held(q) == q.gone + 1 .. Len(q.all)

\* the events from a time on that a queue holds
Since(q, from) == {i \in Held(q) : q.all[i] >= from}

\* r is q after its events before a time have been popped off its front
Trimmed(q, from, r) ==
    /\ r.all = q.all /\ r.gone \in q.gone .. Len(q.all)
    /\ \A i \in q.gone + 1 .. r.gone : q.all[i] < from
    /\ r.gone < Len(q.all) => q.all[r.gone + 1] >= from

(***************************************************************************)
(* The thread that executes statements.                                    *)
(***************************************************************************)
Start ==
    /\ ~running /\ worker = "none"
    /\ running' = TRUE /\ worker' = "wait"
    /\ UNCHANGED <<now, queues, calling, snap, workerAt>>

BeginRecord(is_error) ==
    /\ caller = "idle"
    /\ caller' = "record" /\ callerAt' = now /\ callerError' = is_error
    /\ UNCHANGED <<now, running, queues, snap, worker, workerAt>>

RecordRequest ==
    /\ caller = "record"
    /\ rps_events' = Push(rps_events, callerAt)
    /\ latency_events' = Push(latency_events, callerAt)
    /\ error_events' = IF callerError THEN Push(error_events, callerAt) ELSE error_events
    /\ caller' = "idle"
    /\ UNCHANGED <<now, running, callerAt, callerError, snap, worker, workerAt>>

BeginSnapshot ==
    /\ caller = "idle"
    /\ caller' = "snapshot" /\ callerAt' = now
    /\ UNCHANGED <<now, running, queues, callerError, snap, worker, workerAt>>

\* the events of the second that begins with event i, up to the first later one
Burst(q, i) == {j \in i .. Len(q.all) : \A k \in i .. j : q.all[k] < q.all[i] + Second}

\* computeMaxRps
MaxRps(q, from, m) ==
    LET counts == {Cardinality(Burst(q, i)) : i \in Since(q, from)} IN
    m \in counts \cup {0} /\ \A n \in counts : n <= m

GetSnapshot ==
    /\ caller = "snapshot"
    /\ \E m \in 0 .. Len(rps_events.all) :
          /\ MaxRps(rps_events, callerAt - TenMinutes, m)
          /\ snap' = [current_rps |-> Cardinality(Since(rps_events, callerAt - Second)),
                      count_10min |-> Cardinality(Since(rps_events, callerAt - TenMinutes)),
                      max_rps     |-> m,
                      lat_count   |-> Cardinality(Since(latency_events, callerAt - TenSeconds)),
                      error_count |-> Cardinality(Since(error_events, callerAt - Minute))]
    /\ caller' = "idle"
    /\ UNCHANGED <<now, running, queues, callerAt, callerError, worker, workerAt>>

Stop ==
    /\ caller = "idle" /\ running
    /\ running' = FALSE /\ caller' = "joining"
    /\ UNCHANGED <<now, queues, callerAt, callerError, snap, worker, workerAt>>

Join ==
    /\ caller = "joining" /\ worker = "done"
    /\ caller' = "gone"
    /\ UNCHANGED <<now, running, queues, callerAt, callerError, snap, worker, workerAt>>

(***************************************************************************)
(* The worker: backgroundLoop and cleanup.  What it tests of running_      *)
(* before and after the wait is one test: nothing happens in between.      *)
(***************************************************************************)
\* Mutant: the worker does not look at running_ after the wait.
WakeAlways ==
    /\ worker = "wait"
    /\ worker' = "clean"
    /\ workerAt' = now
    /\ UNCHANGED <<now, running, queues, calling, snap>>

Wake ==
    /\ worker = "wait"
    /\ worker' = IF running THEN "clean" ELSE "done"
    /\ workerAt' = now
    /\ UNCHANGED <<now, running, queues, calling, snap>>

\* Mutant: latencies are trimmed by the window of the errors and the other way round.
CleanupSwapped ==
    /\ worker = "clean"
    /\ \E g, h, i \in 0 .. Len(rps_events.all) :
          /\ rps_events' = [rps_events EXCEPT !.gone = g]
          /\ latency_events' = [latency_events EXCEPT !.gone = h]
          /\ error_events' = [error_events EXCEPT !.gone = i]
    /\ Trimmed(rps_events, workerAt - TenMinutes, rps_events')
    /\ Trimmed(latency_events, workerAt - Minute, latency_events')
    /\ Trimmed(error_events, workerAt - TenSeconds, error_events')
    /\ worker' = "wait"
    /\ UNCHANGED <<now, running, calling, snap, workerAt>>

\* Mutant: the oldest requests are kept.
CleanupKeepsRequests ==
    /\ worker = "clean"
    /\ worker' = "wait"
    /\ UNCHANGED <<now, running, queues, calling, snap, workerAt>>

Cleanup ==
    /\ worker = "clean"
    /\ \E g, h, i \in 0 .. Len(rps_events.all) :
          /\ rps_events' = [rps_events EXCEPT !.gone = g]
          /\ latency_events' = [latency_events EXCEPT !.gone = h]
          /\ error_events' = [error_events EXCEPT !.gone = i]
    /\ Trimmed(rps_events, workerAt - TenMinutes, rps_events')
    /\ Trimmed(latency_events, workerAt - TenSeconds, latency_events')
    /\ Trimmed(error_events, workerAt - Minute, error_events')
    /\ worker' = "wait"
    /\ UNCHANGED <<now, running, calling, snap, workerAt>>

Tick ==
    /\ now < MaxTime
    /\ now' = now + 1
    /\ UNCHANGED <<running, queues, calling, snap, worker, workerAt>>

NoMetrics == [current_rps |-> 0, count_10min |-> 0, max_rps |-> 0, lat_count |-> 0,
              error_count |-> 0]

Init ==
    /\ now = 0 /\ running = FALSE
    /\ rps_events = NoEvents /\ latency_events = NoEvents /\ error_events = NoEvents
    /\ caller = "idle" /\ callerAt = 0 /\ callerError = FALSE
    /\ snap = NoMetrics
    /\ worker = "none" /\ workerAt = 0

Caller == Start \/ (\E e \in BOOLEAN : BeginRecord(e)) \/ RecordRequest
          \/ BeginSnapshot \/ GetSnapshot \/ Stop \/ Join

Worker == Wake \/ Cleanup

Next == Caller \/ Worker \/ Tick

Spec == Init /\ [][Next]_telemetry

(***************************************************************************)
(* Properties.                                                             *)
(***************************************************************************)
\* all the events ever pushed from a time on, popped or not
Ever(q, from) == {i \in 1 .. Len(q.all) : q.all[i] >= from}

\* a count of a window of length w that a snapshot reports of q
Bracketed(q, w, n) ==
    Cardinality(Ever(q, now - w)) <= n /\ n <= Cardinality(Ever(q, callerAt - w))

\* A snapshot that waited for data_mutex_ while the worker trimmed reports, for
\* every window, no event older than the window that ends when it read the clock
\* and every event of the window that ends when it got the mutex; and at least
\* as many requests in its busiest second as there were in the last one.
SnapshotBracketed ==
    [][GetSnapshot =>
        /\ Bracketed(rps_events, Second, snap'.current_rps)
        /\ Bracketed(rps_events, TenMinutes, snap'.count_10min)
        /\ Bracketed(latency_events, TenSeconds, snap'.lat_count)
        /\ Bracketed(error_events, Minute, snap'.error_count)
        /\ \A i \in Ever(rps_events, now - Second + 1) :
              snap'.max_rps >= Len(rps_events.all) - i + 1]_telemetry

\* an event held though its window is over
Expired == \/ \E i \in Held(rps_events) : rps_events.all[i] < now - TenMinutes
           \/ \E i \in Held(latency_events) : latency_events.all[i] < now - TenSeconds
           \/ \E i \in Held(error_events) : error_events.all[i] < now - Minute

\* The queues do not grow for ever: an event past its window is popped, though no
\* statement ever comes again, as long as the telemetry is not stopped.
EventsExpire == Expired /\ running ~> ~Expired \/ ~running
=============================================================================
