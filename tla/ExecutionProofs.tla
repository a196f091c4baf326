-------------------------- MODULE ExecutionProofs ---------------------------
(***************************************************************************)
(* A snapshot counts every event of its windows and none that is too old,  *)
(* whatever the lengths of the windows and however the worker's cleanups   *)
(* fall between the clock readings of the other thread.  And whatever the  *)
(* statements are and whatever becomes of them, each is logged and counted *)
(* once: the log and the queues of the telemetry agree.                    *)
(***************************************************************************)
EXTENDS Execution, TLAPS, FiniteSetTheorems

(***************************************************************************)
(* The telemetry.                                                          *)
(***************************************************************************)

Queue == [all : Seq(Nat), gone : Nat]

\* A queue at time n whose window has length w: what was popped is older than the
\* window that ends at n, and nothing is newer than n.
QueueInv(q, w, n) ==
    /\ q \in Queue /\ q.gone <= Len(q.all)
    /\ \A i \in 1 .. q.gone : q.all[i] < n - w
    /\ \A i \in 1 .. Len(q.all) : q.all[i] <= n

\* The clock readings of both threads are in the past.
ClockInv == /\ now \in Nat /\ callerAt \in Nat /\ callerAt <= now
            /\ workerAt \in Nat /\ workerAt <= now

TelemetryInv ==
    /\ ClockInv
    /\ QueueInv(rps_events, TenMinutes, now)
    /\ QueueInv(latency_events, TenSeconds, now)
    /\ QueueInv(error_events, Minute, now)

\* The parts of a queue.
LEMMA QueueParts ==
    ASSUME NEW q \in Queue
    PROVE  /\ q.all \in Seq(Nat) /\ Len(q.all) \in Nat /\ q.gone \in Nat
           /\ \A i \in 1 .. Len(q.all) : q.all[i] \in Nat
  <1>1. q.all \in Seq(Nat) /\ q.gone \in Nat
    BY DEF Queue
  <1> QED BY <1>1

\* A push of a past clock reading keeps a queue's invariant.
LEMMA PushKeeps ==
    ASSUME NEW q, NEW w \in Nat, NEW n \in Nat, NEW t \in Nat, t <= n, QueueInv(q, w, n)
    PROVE  QueueInv(Push(q, t), w, n)
  <1> DEFINE p == Push(q, t)
  <1>0. q \in Queue /\ q.all \in Seq(Nat) /\ Len(q.all) \in Nat /\ q.gone \in Nat
    BY QueueParts DEF QueueInv
  <1>1. p.all = Append(q.all, t) /\ p.gone = q.gone /\ p \in Queue
    <2>1. Append(q.all, t) \in Seq(Nat)
      BY <1>0
    <2>2. p = [q EXCEPT !.all = Append(q.all, t)]
      BY DEF Push
    <2> HIDE DEF p
    <2> QED BY <2>1, <2>2, <1>0 DEF Queue
  <1> HIDE DEF p
  <1>2. Len(p.all) = Len(q.all) + 1
    BY <1>0, <1>1
  <1>3. \A i \in 1 .. Len(q.all) : p.all[i] = q.all[i]
    BY <1>0, <1>1
  <1>4. p.all[Len(q.all) + 1] = t
    BY <1>0, <1>1
  <1>5. \A i \in 1 .. p.gone : p.all[i] < n - w
    BY <1>0, <1>1, <1>3 DEF QueueInv
  <1>6. \A i \in 1 .. Len(p.all) : p.all[i] <= n
    <2>1. ASSUME NEW i \in 1 .. Len(p.all) PROVE i \in 1 .. Len(q.all) \/ i = Len(q.all) + 1
      BY <1>0, <1>2
    <2> QED BY <2>1, <1>3, <1>4 DEF QueueInv
  <1>7. p.gone <= Len(p.all)
    BY <1>0, <1>1, <1>2 DEF QueueInv
  <1>8. QueueInv(p, w, n)
    BY <1>1, <1>5, <1>6, <1>7 DEF QueueInv
  <1> QED BY <1>8 DEF p

\* So does a trim by the window that ended when the worker read the clock.
LEMMA TrimKeeps ==
    ASSUME NEW q, NEW r \in Queue, NEW w \in Nat, NEW n \in Nat, NEW t \in Nat, t <= n,
           QueueInv(q, w, n), Trimmed(q, t - w, r)
    PROVE  QueueInv(r, w, n)
  <1>0. q \in Queue /\ q.all \in Seq(Nat) /\ Len(q.all) \in Nat /\ q.gone \in Nat
        /\ r.gone \in Nat
    BY QueueParts DEF QueueInv
  <1>1. r.all = q.all /\ r.gone \in q.gone .. Len(q.all)
    BY DEF Trimmed
  <1>2. ASSUME NEW i \in 1 .. r.gone PROVE r.all[i] < n - w
    <2>0. i \in 1 .. Len(q.all) /\ q.all[i] \in Nat
      BY SMTT(30), <1>0, <1>1, QueueParts
    <2>1. CASE i <= q.gone
      BY <1>0, <1>1, <2>0, <2>1 DEF QueueInv
    <2>2. CASE i > q.gone
      <3>1. q.all[i] < t - w
        BY SMTT(30), <1>0, <1>1, <2>0, <2>2 DEF Trimmed
      <3> QED BY <3>1, <1>1, <2>0
    <2> QED BY <2>1, <2>2, <1>0
  <1> QED BY <1>0, <1>1, <1>2 DEF QueueInv

\* And so does time.
LEMMA TimeKeeps ==
    ASSUME NEW q, NEW w \in Nat, NEW n \in Nat, NEW m \in Nat, n <= m, QueueInv(q, w, n)
    PROVE  QueueInv(q, w, m)
  <1>0. q \in Queue /\ Len(q.all) \in Nat /\ q.gone \in Nat
        /\ \A i \in 1 .. Len(q.all) : q.all[i] \in Nat
    BY QueueParts DEF QueueInv
  <1> QED BY <1>0 DEF QueueInv

\* The windows of the code are natural numbers.
LEMMA WindowsNat == Second \in Nat /\ TenSeconds \in Nat /\ Minute \in Nat /\ TenMinutes \in Nat
  BY WindowAssumption

\* The invariant holds at the start ...
LEMMA TelemetryStarts == Init => TelemetryInv
  <1>1. NoEvents \in Queue /\ NoEvents.gone = 0 /\ Len(NoEvents.all) = 0
    BY DEF NoEvents, Queue
  <1> QED BY <1>1, WindowsNat DEF Init, TelemetryInv, ClockInv, QueueInv

\* ... and is kept by every step.
LEMMA TelemetryKeeps == TelemetryInv /\ [Next]_telemetry => TelemetryInv'
  <1> SUFFICES ASSUME TelemetryInv, [Next]_telemetry PROVE TelemetryInv'
    OBVIOUS
  <1>0. ClockInv /\ QueueInv(rps_events, TenMinutes, now)
        /\ QueueInv(latency_events, TenSeconds, now) /\ QueueInv(error_events, Minute, now)
    BY DEF TelemetryInv
  <1>1. CASE UNCHANGED queues /\ ClockInv' /\ now <= now'
    <2>1. rps_events' = rps_events /\ latency_events' = latency_events
          /\ error_events' = error_events /\ now \in Nat /\ now' \in Nat
      BY <1>0, <1>1 DEF queues, ClockInv
    <2> QED BY <1>0, <1>1, <2>1, TimeKeeps, WindowsNat DEF TelemetryInv
  <1>2. CASE Start \/ Stop \/ Join \/ (\E e \in BOOLEAN : BeginRecord(e)) \/ BeginSnapshot
             \/ GetSnapshot \/ Wake \/ Tick \/ UNCHANGED telemetry
    <2>1. UNCHANGED queues
      BY <1>2 DEF Start, Stop, Join, BeginRecord, BeginSnapshot, GetSnapshot, Wake, Tick,
                  telemetry
    <2>2. ClockInv' /\ now <= now'
      BY <1>0, <1>2 DEF ClockInv, Start, Stop, Join, BeginRecord, BeginSnapshot, GetSnapshot,
                        Wake, Tick, telemetry, calling
    <2> QED BY <1>1, <2>1, <2>2
  <1>3. CASE RecordRequest
    <2>1. ClockInv' /\ now' = now
      BY <1>0, <1>3 DEF RecordRequest, ClockInv
    <2>2. QueueInv(rps_events', TenMinutes, now)
      BY <1>0, <1>3, PushKeeps, WindowsNat DEF RecordRequest, ClockInv
    <2>3. QueueInv(latency_events', TenSeconds, now)
      BY <1>0, <1>3, PushKeeps, WindowsNat DEF RecordRequest, ClockInv
    <2>4. QueueInv(error_events', Minute, now)
      BY <1>0, <1>3, PushKeeps, WindowsNat DEF RecordRequest, ClockInv
    <2> QED BY <2>1, <2>2, <2>3, <2>4 DEF TelemetryInv
  <1>4. CASE Cleanup
    <2>1. ClockInv' /\ now' = now
      BY <1>0, <1>4 DEF Cleanup, ClockInv, calling
    <2>2. /\ Trimmed(rps_events, workerAt - TenMinutes, rps_events')
          /\ Trimmed(latency_events, workerAt - TenSeconds, latency_events')
          /\ Trimmed(error_events, workerAt - Minute, error_events')
      BY <1>4 DEF Cleanup
    <2>3. PICK g, h, i \in 0 .. Len(rps_events.all) :
              /\ rps_events' = [rps_events EXCEPT !.gone = g]
              /\ latency_events' = [latency_events EXCEPT !.gone = h]
              /\ error_events' = [error_events EXCEPT !.gone = i]
      BY <1>4 DEF Cleanup
    <2>4. rps_events' \in Queue /\ latency_events' \in Queue /\ error_events' \in Queue
      <3>1. ASSUME NEW q \in Queue, NEW k \in Nat PROVE [q EXCEPT !.gone = k] \in Queue
        BY DEF Queue
      <3>2. rps_events \in Queue /\ latency_events \in Queue /\ error_events \in Queue
        BY <1>0 DEF QueueInv
      <3>3. g \in Nat /\ h \in Nat /\ i \in Nat
        BY <3>2, QueueParts
      <3> QED BY <2>3, <3>1, <3>2, <3>3
    <2>5. /\ QueueInv(rps_events', TenMinutes, now)
          /\ QueueInv(latency_events', TenSeconds, now)
          /\ QueueInv(error_events', Minute, now)
      BY <1>0, <2>2, <2>4, TrimKeeps, WindowsNat DEF ClockInv
    <2> QED BY <2>1, <2>5 DEF TelemetryInv
  <1> QED BY <1>2, <1>3, <1>4 DEF Next, Caller, Worker

\* What was popped is past its window, and nothing is newer than the clock.
THEOREM Invariance == Spec => []TelemetryInv
  BY TelemetryStarts, TelemetryKeeps, PTL DEF Spec

\* Of a window no longer than that of its queue a snapshot counts what it should.
LEMMA CountsBracketed ==
    ASSUME NEW q, NEW w \in Nat, NEW v \in Nat, v <= w, ClockInv, QueueInv(q, w, now)
    PROVE  Bracketed(q, v, Cardinality(Since(q, callerAt - v)))
  <1> DEFINE S == Since(q, callerAt - v)
             Low == Ever(q, now - v)
             High == Ever(q, callerAt - v)
  <1>0. q \in Queue /\ Len(q.all) \in Nat /\ q.gone \in Nat
        /\ \A i \in 1 .. Len(q.all) : q.all[i] \in Nat
    BY QueueParts DEF QueueInv
  <1>1. Low \subseteq S
    <2> SUFFICES ASSUME NEW i \in Low PROVE i \in S
      OBVIOUS
    <2>1. i \in 1 .. Len(q.all) /\ q.all[i] >= now - v /\ q.all[i] \in Nat
      BY <1>0 DEF Ever
    <2>2. ~(i <= q.gone)
      BY <1>0, <2>1 DEF QueueInv, ClockInv
    <2> QED BY <1>0, <2>1, <2>2 DEF Since, Held, ClockInv
  <1>2. S \subseteq High
    BY <1>0 DEF Ever, Since, Held
  <1>3. IsFiniteSet(High)
    <2>1. High \subseteq 1 .. Len(q.all)
      BY DEF Ever
    <2>2. IsFiniteSet(1 .. Len(q.all))
      <3>1. 1 \in Int /\ Len(q.all) \in Int
        BY <1>0
      <3> QED BY <3>1, FS_Interval
    <2> QED BY <2>1, <2>2, FS_Subset
  <1>4. IsFiniteSet(S) /\ Cardinality(S) <= Cardinality(High)
    BY <1>2, <1>3, FS_Subset
  <1>5. Cardinality(Low) <= Cardinality(S)
    BY <1>1, <1>4, FS_Subset
  <1> QED BY <1>4, <1>5 DEF Bracketed

\* The busiest second counts at least the requests from any one of the last second.
LEMMA BusiestCounts ==
    ASSUME NEW q, NEW m, ClockInv, QueueInv(q, TenMinutes, now),
           MaxRps(q, callerAt - TenMinutes, m), NEW i \in Ever(q, now - Second + 1)
    PROVE  m >= Len(q.all) - i + 1
  <1>0. q \in Queue /\ Len(q.all) \in Nat /\ q.gone \in Nat
        /\ \A k \in 1 .. Len(q.all) : q.all[k] \in Nat
    BY QueueParts DEF QueueInv
  <1>1. i \in 1 .. Len(q.all) /\ q.all[i] \in Nat /\ q.all[i] >= now - Second + 1
    BY <1>0 DEF Ever
  <1>2. now \in Nat /\ callerAt \in Nat /\ callerAt <= now /\ Second <= TenMinutes
        /\ Second \in Nat /\ TenMinutes \in Nat
    BY WindowsNat, WindowAssumption DEF ClockInv
  <1>3. i \in Since(q, callerAt - TenMinutes)
    <2>1. ~(i <= q.gone)
      BY <1>0, <1>1, <1>2 DEF QueueInv
    <2> QED BY <1>0, <1>1, <1>2, <2>1 DEF Since, Held
  <1>4. Burst(q, i) = i .. Len(q.all)
    <2>1. ASSUME NEW j \in i .. Len(q.all), NEW k \in i .. j
          PROVE  q.all[k] < q.all[i] + Second
      <3>1. k \in 1 .. Len(q.all)
        BY <1>0, <1>1
      <3>2. q.all[k] \in Nat /\ q.all[k] <= now
        BY <1>0, <3>1 DEF QueueInv
      <3> QED BY SMTT(30), <3>2, <1>1, <1>2
    <2> QED BY <2>1 DEF Burst
  <1>5. Cardinality(i .. Len(q.all)) = Len(q.all) - i + 1
    <2>1. i \in Int /\ Len(q.all) \in Int /\ ~(i > Len(q.all))
      BY <1>0, <1>1
    <2> QED BY <2>1, FS_Interval
  <1> QED BY <1>3, <1>4, <1>5 DEF MaxRps

\* The property of the runs, for windows of any length and any number of events:
\* a snapshot that waited for data_mutex_ while the worker trimmed counts every
\* event of its windows and none that is older.
THEOREM SnapshotsBracketed == Spec => SnapshotBracketed
  <1> DEFINE Good ==
        GetSnapshot =>
            /\ Bracketed(rps_events, Second, snap'.current_rps)
            /\ Bracketed(rps_events, TenMinutes, snap'.count_10min)
            /\ Bracketed(latency_events, TenSeconds, snap'.lat_count)
            /\ Bracketed(error_events, Minute, snap'.error_count)
            /\ \A i \in Ever(rps_events, now - Second + 1) :
                  snap'.max_rps >= Len(rps_events.all) - i + 1
  <1>1. TelemetryInv => Good
    <2> SUFFICES ASSUME TelemetryInv, GetSnapshot PROVE Good
      OBVIOUS
    <2>1. PICK m \in 0 .. Len(rps_events.all) :
              /\ MaxRps(rps_events, callerAt - TenMinutes, m)
              /\ snap' =
                   [current_rps |-> Cardinality(Since(rps_events, callerAt - Second)),
                    count_10min |-> Cardinality(Since(rps_events, callerAt - TenMinutes)),
                    max_rps     |-> m,
                    lat_count   |-> Cardinality(Since(latency_events, callerAt - TenSeconds)),
                    error_count |-> Cardinality(Since(error_events, callerAt - Minute))]
      BY DEF GetSnapshot
    <2>2. /\ Bracketed(rps_events, Second, snap'.current_rps)
          /\ Bracketed(rps_events, TenMinutes, snap'.count_10min)
      <3>1. Second <= TenMinutes
        BY WindowAssumption
      <3> QED BY <2>1, <3>1, WindowsNat, CountsBracketed DEF TelemetryInv
    <2>3. Bracketed(latency_events, TenSeconds, snap'.lat_count)
      BY <2>1, WindowsNat, CountsBracketed DEF TelemetryInv
    <2>4. Bracketed(error_events, Minute, snap'.error_count)
      BY <2>1, WindowsNat, CountsBracketed DEF TelemetryInv
    <2>5. ASSUME NEW i \in Ever(rps_events, now - Second + 1)
          PROVE  snap'.max_rps >= Len(rps_events.all) - i + 1
      BY <2>1, <2>5, BusiestCounts DEF TelemetryInv
    <2> QED BY <2>2, <2>3, <2>4, <2>5
  <1>2. TelemetryInv /\ [Next]_telemetry => [Good]_telemetry
    BY <1>1
  <1> QED BY <1>2, Invariance, PTL DEF Spec, SnapshotBracketed

(***************************************************************************)
(* The execution of statements.                                            *)
(***************************************************************************)
Entries == [text : Texts, status : STRING, refused : BOOLEAN]

Erroneous(l) == {i \in DOMAIN l : l[i].status # "OK"}

\* Every statement executed is in the log, in order.
AllLogged ==
    /\ Len(log) = Due(executed, Len(executed))
    /\ \A n \in DOMAIN executed :
          ToLog(executed[n]) => log[Due(executed, n)].text = executed[n]

\* The queues have one event for every entry of the log, but the last while its
\* statement waits for data_mutex_.
AllCounted ==
    /\ Len(log) = Len(rps_events.all) + (IF caller = "record" THEN 1 ELSE 0)
    /\ Cardinality(Erroneous(log))
          = Len(error_events.all) + (IF caller = "record" /\ callerError THEN 1 ELSE 0)

ExecutionInv ==
    /\ TelemetryInv /\ callerError \in BOOLEAN
    /\ statements \in Seq(Texts) /\ executed \in Seq(Texts) /\ log \in Seq(Entries)
    /\ AllLogged /\ AllCounted

\* What a step of the program does to the telemetry is a step of the telemetry.
LEMMA ExecutionSteps == [ExecutionNext]_<<execution, telemetry>> => [Next]_telemetry
  <1> SUFFICES ASSUME ExecutionNext PROVE [Next]_telemetry
    BY DEF execution
  <1>1. CASE NextLine \/ CommandEnd \/ Empty
    BY <1>1 DEF NextLine, CommandEnd, Empty
  <1>2. CASE Begin \/ Metrics \/ Count \/ Close \/ Exit
    BY <1>2 DEF Begin, Metrics, Count, Close, Exit, Next, Caller
  <1>3. CASE \E status \in STRING, refused \in BOOLEAN : Execute(status, refused)
    <2>1. PICK status \in STRING : BeginRecord(status # "OK")
      BY <1>3 DEF Execute
    <2>2. (status # "OK") \in BOOLEAN
      OBVIOUS
    <2> QED BY <2>1, <2>2 DEF Next, Caller
  <1>4. CASE Beside
    BY <1>4 DEF Beside, Next
  <1> QED BY <1>1, <1>2, <1>3, <1>4 DEF ExecutionNext

\* So every run of the program is a run of the telemetry, whatever the statements.
THEOREM ExecutionIsTelemetry == ExecutionSpec => Spec
  <1>1. ExecutionInit => Init
    BY DEF ExecutionInit
  <1> QED BY <1>1, ExecutionSteps, PTL DEF ExecutionSpec, Spec

\* A set of positions up to n is finite, and counts one more with n + 1.
LEMMA OneMore ==
    ASSUME NEW n \in Nat, NEW S, S \subseteq 1 .. n
    PROVE  /\ Cardinality(S) \in Nat /\ Cardinality(S) <= n
           /\ Cardinality(S \cup {n + 1}) = Cardinality(S) + 1
  <1>1. IsFiniteSet(1 .. n) /\ Cardinality(1 .. n) = n
    <2>1. 1 \in Int /\ n \in Int /\ (1 > n => n = 0)
      OBVIOUS
    <2> QED BY <2>1, FS_Interval
  <1>2. IsFiniteSet(S) /\ Cardinality(S) <= n
    BY <1>1, FS_Subset
  <1>3. n + 1 \notin S
    OBVIOUS
  <1> QED BY <1>2, <1>3, FS_AddElement, FS_CardinalityType

\* Due does not look past its position.
LEMMA DueOfPrefix ==
    ASSUME NEW texts \in Seq(Texts), NEW x \in Texts, NEW n \in 0 .. Len(texts)
    PROVE  Due(Append(texts, x), n) = Due(texts, n)
  <1>1. \A i \in 1 .. n : Append(texts, x)[i] = texts[i]
    OBVIOUS
  <1>2. {i \in 1 .. n : ToLog(Append(texts, x)[i])} = {i \in 1 .. n : ToLog(texts[i])}
    BY <1>1
  <1> QED BY <1>2 DEF Due

\* A text appended is due if it is to be logged.
LEMMA DueOfAppend ==
    ASSUME NEW texts \in Seq(Texts), NEW x \in Texts
    PROVE  Due(Append(texts, x), Len(texts) + 1)
              = Due(texts, Len(texts)) + (IF ToLog(x) THEN 1 ELSE 0)
  <1> DEFINE n == Len(texts)
             S == {i \in 1 .. n : ToLog(texts[i])}
             T == {i \in 1 .. n + 1 : ToLog(Append(texts, x)[i])}
  <1>1. /\ n \in Nat /\ Append(texts, x)[n + 1] = x
        /\ \A i \in 1 .. n : Append(texts, x)[i] = texts[i]
    OBVIOUS
  <1>2. T = IF ToLog(x) THEN S \cup {n + 1} ELSE S
    <2>1. \A i : i \in 1 .. n + 1 <=> i \in 1 .. n \/ i = n + 1
      BY <1>1
    <2> HIDE DEF n
    <2> QED BY <1>1, <2>1
  <1>3. S \subseteq 1 .. n
    OBVIOUS
  <1>4. Due(texts, n) = Cardinality(S) /\ Due(Append(texts, x), n + 1) = Cardinality(T)
    BY DEF Due
  <1> HIDE DEF n, S, T
  <1>5. Cardinality(S) \in Nat /\ Cardinality(S \cup {n + 1}) = Cardinality(S) + 1
    BY <1>1, <1>3, OneMore
  <1>6. Due(Append(texts, x), n + 1) = Due(texts, n) + (IF ToLog(x) THEN 1 ELSE 0)
    BY <1>2, <1>4, <1>5
  <1> QED BY <1>6 DEF n

\* A text to be logged has its place in the log.
LEMMA DuePlace ==
    ASSUME NEW texts \in Seq(Texts), NEW n \in 1 .. Len(texts), ToLog(texts[n])
    PROVE  Due(texts, n) \in 1 .. Due(texts, Len(texts))
  <1> DEFINE S == {i \in 1 .. n : ToLog(texts[i])}
             T == {i \in 1 .. Len(texts) : ToLog(texts[i])}
             R == {i \in 1 .. n - 1 : ToLog(texts[i])}
  <1>1. n \in Nat /\ n - 1 \in Nat /\ Len(texts) \in Nat
    OBVIOUS
  <1>2. S \subseteq T /\ T \subseteq 1 .. Len(texts) /\ R \subseteq 1 .. n - 1
    BY <1>1
  <1>3. S = R \cup {(n - 1) + 1}
    <2>1. \A i : i \in 1 .. n <=> i \in 1 .. n - 1 \/ i = (n - 1) + 1
      BY <1>1
    <2>2. ToLog(texts[(n - 1) + 1])
      BY <1>1
    <2> QED BY <2>1, <2>2
  <1>4. Due(texts, n) = Cardinality(S) /\ Due(texts, Len(texts)) = Cardinality(T)
    BY DEF Due
  <1> HIDE DEF S, T, R
  <1>5. Cardinality(R) \in Nat /\ Cardinality(S) = Cardinality(R) + 1
    BY <1>1, <1>2, <1>3, OneMore
  <1>6. Cardinality(T) \in Nat /\ Cardinality(S) <= Cardinality(T)
    <2>1. IsFiniteSet(1 .. Len(texts))
      <3>1. 1 \in Int /\ Len(texts) \in Int
        BY <1>1
      <3> QED BY <3>1, FS_Interval
    <2>2. IsFiniteSet(T)
      BY <1>2, <2>1, FS_Subset
    <2> QED BY <1>2, <2>2, FS_Subset, FS_CardinalityType
  <1> QED BY <1>4, <1>5, <1>6

\* An entry appended counts as an error if it has one.
LEMMA ErroneousOfAppend ==
    ASSUME NEW l \in Seq(Entries), NEW e \in Entries
    PROVE  /\ Cardinality(Erroneous(l)) \in Nat
           /\ Cardinality(Erroneous(Append(l, e)))
                 = Cardinality(Erroneous(l)) + (IF e.status # "OK" THEN 1 ELSE 0)
  <1> DEFINE n == Len(l)
             S == Erroneous(l)
             T == Erroneous(Append(l, e))
  <1>1. /\ n \in Nat /\ Append(l, e)[n + 1] = e
        /\ \A i \in 1 .. n : Append(l, e)[i] = l[i]
        /\ DOMAIN l = 1 .. n /\ DOMAIN Append(l, e) = 1 .. n + 1
    OBVIOUS
  <1>2. S \subseteq 1 .. n
    BY <1>1 DEF Erroneous
  <1>3. T = IF e.status # "OK" THEN S \cup {n + 1} ELSE S
    <2>1. \A i : i \in 1 .. n + 1 <=> i \in 1 .. n \/ i = n + 1
      BY <1>1
    <2> HIDE DEF n
    <2> QED BY <1>1, <2>1 DEF Erroneous
  <1> HIDE DEF n, S, T
  <1>4. Cardinality(S) \in Nat /\ Cardinality(S \cup {n + 1}) = Cardinality(S) + 1
    BY <1>1, <1>2, OneMore
  <1>5. Cardinality(T) = Cardinality(S) + (IF e.status # "OK" THEN 1 ELSE 0)
    BY <1>3, <1>4
  <1> QED BY <1>4, <1>5 DEF S, T

\* What a statement leaves of the command, and of the history.
LEMMA Consumed ==
    ASSUME statements \in Seq(Texts), executed \in Seq(Texts), Executing, Consume
    PROVE  /\ Statement \in Texts /\ statements' \in Seq(Texts) /\ executed' \in Seq(Texts)
           /\ executed' = Append(executed, Statement)
  <1>1. statements # <<>>
    BY DEF Executing
  <1> QED BY <1>1 DEF Consume, Statement

\* A text that need not be logged leaves AllLogged as it is.
LEMMA LoggedWithout ==
    ASSUME executed \in Seq(Texts), AllLogged, NEW x \in Texts, ~ToLog(x),
           executed' = Append(executed, x), log' = log
    PROVE  AllLogged'
  <1> DEFINE n == Len(executed)
  <1>1. /\ n \in Nat /\ Len(executed') = n + 1 /\ executed'[n + 1] = x
        /\ DOMAIN executed = 1 .. n /\ DOMAIN executed' = 1 .. n + 1
        /\ \A i \in 1 .. n : executed'[i] = executed[i]
    OBVIOUS
  <1>2. Due(executed', n + 1) = Due(executed, n)
    <2>1. Due(executed, n) \in Nat
      BY <1>1, OneMore DEF Due
    <2> QED BY <2>1, DueOfAppend
  <1>3. \A i \in 1 .. n : Due(executed', i) = Due(executed, i)
    BY DueOfPrefix
  <1> HIDE DEF n
  <1>4. ASSUME NEW i \in 1 .. n + 1, ToLog(executed'[i])
        PROVE  log[Due(executed', i)].text = executed'[i]
    <2>1. i \in 1 .. n
      BY <1>1, <1>4
    <2> QED BY <1>1, <1>3, <1>4, <2>1 DEF AllLogged
  <1>5. Len(log) = Due(executed', n + 1)
    BY <1>2 DEF AllLogged, n
  <1> QED BY <1>1, <1>4, <1>5 DEF AllLogged

\* An entry with the text keeps it.
LEMMA LoggedWith ==
    ASSUME executed \in Seq(Texts), log \in Seq(Entries), AllLogged,
           NEW e \in Entries, ToLog(e.text), e.text \in Texts,
           executed' = Append(executed, e.text), log' = Append(log, e)
    PROVE  AllLogged'
  <1> DEFINE n == Len(executed)
             m == Len(log)
  <1>1. /\ n \in Nat /\ Len(executed') = n + 1 /\ executed'[n + 1] = e.text
        /\ DOMAIN executed = 1 .. n /\ DOMAIN executed' = 1 .. n + 1
        /\ \A i \in 1 .. n : executed'[i] = executed[i]
    OBVIOUS
  <1>2. /\ m \in Nat /\ Len(log') = m + 1 /\ log'[m + 1] = e
        /\ \A i \in 1 .. m : log'[i] = log[i]
    OBVIOUS
  <1>3. m = Due(executed, n)
    BY DEF AllLogged
  <1>4. Due(executed', n + 1) = m + 1
    BY <1>3, DueOfAppend
  <1>5. \A i \in 1 .. n : Due(executed', i) = Due(executed, i)
    BY DueOfPrefix
  <1>6. \A i \in 1 .. n : ToLog(executed[i]) => Due(executed, i) \in 1 .. m
    BY <1>3, DuePlace
  <1> HIDE DEF n, m
  <1>7. ASSUME NEW i \in 1 .. n + 1, ToLog(executed'[i])
        PROVE  log'[Due(executed', i)].text = executed'[i]
    <2>1. CASE i = n + 1
      BY <1>1, <1>2, <1>4, <2>1
    <2>2. CASE i # n + 1
      <3>1. i \in 1 .. n
        BY <1>1, <2>2
      <3>2. ToLog(executed[i]) /\ executed'[i] = executed[i]
        BY <1>1, <1>7, <3>1
      <3>3. log[Due(executed, i)].text = executed[i]
        BY <1>1, <3>1, <3>2 DEF AllLogged
      <3> QED BY <1>2, <1>5, <1>6, <3>1, <3>2, <3>3
    <2> QED BY <2>1, <2>2
  <1> QED BY <1>1, <1>2, <1>4, <1>7 DEF AllLogged

\* The queues' lengths after a push.
LEMMA PushLength ==
    ASSUME NEW q \in Queue, NEW t \in Nat
    PROVE  Len(q.all) \in Nat /\ Len(Push(q, t).all) = Len(q.all) + 1
  <1>1. q.all \in Seq(Nat)
    BY QueueParts
  <1>2. Push(q, t).all = Append(q.all, t)
    BY DEF Push, Queue
  <1> QED BY <1>1, <1>2

\* The log and the telemetry agree at the start ...
LEMMA ExecutionStarts == ExecutionInit => ExecutionInv
  <1> SUFFICES ASSUME ExecutionInit PROVE ExecutionInv
    OBVIOUS
  <1>1. TelemetryInv /\ callerError \in BOOLEAN
    BY TelemetryStarts DEF ExecutionInit, Init
  <1>2. statements \in Seq(Texts) /\ executed \in Seq(Texts) /\ log \in Seq(Entries)
    BY DEF ExecutionInit
  <1>3. AllLogged
    <2>1. executed = <<>> /\ log = <<>> /\ Len(log) = 0 /\ Len(executed) = 0
      BY DEF ExecutionInit
    <2>2. {i \in 1 .. 0 : ToLog(executed[i])} = {}
      OBVIOUS
    <2>3. Due(executed, 0) = 0
      BY <2>2, FS_EmptySet DEF Due
    <2> QED BY <2>1, <2>3 DEF AllLogged
  <1>4. AllCounted
    <2>1. log = <<>> /\ caller = "idle" /\ rps_events.all = <<>> /\ error_events.all = <<>>
      BY DEF ExecutionInit, Init, NoEvents
    <2>2. Erroneous(log) = {}
      BY <2>1 DEF Erroneous
    <2>3. /\ Len(log) = 0 /\ Cardinality(Erroneous(log)) = 0 /\ caller # "record"
          /\ Len(rps_events.all) = 0 /\ Len(error_events.all) = 0
      BY <2>1, <2>2, FS_EmptySet
    <2> QED BY <2>3 DEF AllCounted
  <1> QED BY <1>1, <1>2, <1>3, <1>4 DEF ExecutionInv

\* ... and every step of the program keeps them in agreement: a statement with an
\* entry is counted by the telemetry's next step, and no other step adds to either.
LEMMA ExecutionKeeps == ExecutionInv /\ [ExecutionNext]_<<execution, telemetry>> => ExecutionInv'
  <1> SUFFICES ASSUME ExecutionInv, [ExecutionNext]_<<execution, telemetry>> PROVE ExecutionInv'
    OBVIOUS
  <1>1. /\ TelemetryInv /\ callerError \in BOOLEAN
        /\ statements \in Seq(Texts) /\ executed \in Seq(Texts) /\ log \in Seq(Entries)
        /\ AllLogged /\ AllCounted
    BY DEF ExecutionInv
  <1>2. TelemetryInv'
    BY <1>1, ExecutionSteps, TelemetryKeeps
  <1>3. CASE UNCHANGED <<execution, telemetry>>
    BY <1>1, <1>2, <1>3 DEF ExecutionInv, AllLogged, AllCounted, Due, execution, telemetry,
                            calling, queues
  <1>4. CASE NextLine \/ CommandEnd \/ Begin \/ Close
    <2>1. /\ log' = log /\ executed' = executed /\ statements' \in Seq(Texts)
          /\ rps_events' = rps_events /\ error_events' = error_events
          /\ callerError' = callerError /\ (caller' = "record" <=> caller = "record")
      BY <1>1, <1>4 DEF NextLine, CommandEnd, Begin, Close, Idle, Start, Stop, telemetry, calling,
                   queues
    <2> QED BY <1>1, <1>2, <2>1 DEF ExecutionInv, AllLogged, AllCounted, Due
  <1>5. CASE Empty \/ Metrics
    <2>1. Executing /\ Consume /\ ~ToLog(Statement) /\ log' = log
      BY <1>5 DEF Empty, Metrics, ToLog
    <2>2. /\ rps_events' = rps_events /\ error_events' = error_events
          /\ callerError' = callerError /\ caller # "record" /\ caller' # "record"
      BY <1>5 DEF Empty, Metrics, Executing, Idle, BeginSnapshot, telemetry, calling, queues
    <2>3. /\ Statement \in Texts /\ statements' \in Seq(Texts) /\ executed' \in Seq(Texts)
          /\ executed' = Append(executed, Statement)
      BY <1>1, <2>1, Consumed
    <2>4. AllLogged'
      BY <1>1, <2>1, <2>3, LoggedWithout
    <2> QED BY <1>1, <1>2, <2>1, <2>2, <2>3, <2>4 DEF ExecutionInv, AllCounted
  <1>6. ASSUME NEW status \in STRING, NEW refused \in BOOLEAN, Execute(status, refused)
        PROVE  ExecutionInv'
    <2> DEFINE e == [text |-> Statement, status |-> status, refused |-> refused]
    <2>1. Executing /\ Consume /\ ToLog(Statement) /\ log' = Append(log, e)
      BY <1>6 DEF Execute, Parseable, ToLog, LogQuery
    <2>2. /\ rps_events' = rps_events /\ error_events' = error_events
          /\ caller = "idle" /\ caller' = "record" /\ callerError' = (status # "OK")
      BY <1>6 DEF Execute, BeginRecord, queues
    <2>3. /\ Statement \in Texts /\ statements' \in Seq(Texts) /\ executed' \in Seq(Texts)
          /\ executed' = Append(executed, Statement)
      BY <1>1, <2>1, Consumed
    <2>4. e \in Entries /\ e.text = Statement /\ e.status = status
      BY <2>3 DEF Entries
    <2> HIDE DEF e
    <2>5. log' \in Seq(Entries) /\ Len(log') = Len(log) + 1 /\ Len(log) \in Nat
      BY <1>1, <2>1, <2>4
    <2>6. AllLogged'
      BY <1>1, <2>1, <2>3, <2>4, LoggedWith
    <2>7. /\ Len(log) = Len(rps_events.all)
          /\ Cardinality(Erroneous(log)) = Len(error_events.all)
      <3>1. Len(rps_events.all) \in Nat /\ Len(error_events.all) \in Nat
        BY <1>1, QueueParts DEF TelemetryInv, QueueInv
      <3> QED BY <1>1, <2>2, <3>1 DEF AllCounted
    <2>8. /\ Cardinality(Erroneous(log)) \in Nat
          /\ Cardinality(Erroneous(log'))
                = Cardinality(Erroneous(log)) + (IF status # "OK" THEN 1 ELSE 0)
      BY <1>1, <2>1, <2>4, ErroneousOfAppend
    <2>9. AllCounted'
      BY <2>2, <2>5, <2>7, <2>8 DEF AllCounted
    <2>10. callerError' \in BOOLEAN
      BY <2>2
    <2> QED BY <1>2, <2>3, <2>5, <2>6, <2>9, <2>10 DEF ExecutionInv
  <1>7. CASE Count \/ Exit \/ Beside
    <2>1. log' = log /\ executed' = executed /\ statements' = statements
      BY <1>7 DEF Count, Exit, Beside, execution
    <2>2. AllLogged'
      BY <1>1, <2>1 DEF AllLogged, Due
    <2>3. /\ rps_events \in Queue /\ error_events \in Queue /\ callerAt \in Nat
          /\ Len(rps_events.all) \in Nat /\ Len(error_events.all) \in Nat
      BY <1>1, QueueParts DEF TelemetryInv, QueueInv, ClockInv
    <2>4. callerError' = callerError
      BY <1>7 DEF Count, Exit, Beside, RecordRequest, GetSnapshot, Join, Worker, Wake, Cleanup,
                  Tick, calling
    <2>5. CASE RecordRequest
      <3>1. Len(rps_events'.all) = Len(rps_events.all) + 1
        BY <2>3, <2>5, PushLength DEF RecordRequest
      <3>2. Len(error_events'.all) = Len(error_events.all) + (IF callerError THEN 1 ELSE 0)
        <4>1. CASE callerError
          BY <2>3, <2>5, <4>1, PushLength DEF RecordRequest
        <4>2. CASE ~callerError
          BY <2>3, <2>5, <4>2 DEF RecordRequest
        <4> QED BY <4>1, <4>2
      <3>3. caller = "record" /\ caller' = "idle"
        BY <2>5 DEF RecordRequest
      <3>4. AllCounted'
        BY <1>1, <2>1, <2>3, <3>1, <3>2, <3>3 DEF AllCounted
      <3> QED BY <1>1, <1>2, <2>1, <2>2, <2>4, <3>4 DEF ExecutionInv
    <2>6. CASE ~RecordRequest
      <3>1. rps_events'.all = rps_events.all /\ error_events'.all = error_events.all
        <4>1. CASE Cleanup
          BY <4>1 DEF Cleanup, Trimmed
        <4> QED BY <1>7, <2>6, <4>1 DEF Count, Exit, Beside, GetSnapshot, Join, Worker, Wake,
                                        Tick, queues
      <3>2. caller' = "record" <=> caller = "record"
        BY <1>7, <2>6 DEF Count, Exit, Beside, GetSnapshot, Join, Worker, Wake, Cleanup, Tick,
                          calling
      <3>3. AllCounted'
        BY <1>1, <2>1, <2>4, <3>1, <3>2 DEF AllCounted
      <3> QED BY <1>1, <1>2, <2>1, <2>2, <2>4, <3>3 DEF ExecutionInv
    <2> QED BY <2>5, <2>6
  <1> QED BY <1>3, <1>4, <1>5, <1>6, <1>7 DEF ExecutionNext

\* For statements of any number and kind, and whatever becomes of them in the
\* parser and the engine: each is logged once, in order, and counted once, and the
\* errors counted are the errors logged, whenever no statement is in hand.
THEOREM LoggedAndCountedAlways == ExecutionSpec => []LoggedAndCounted
  <1>1. ExecutionInv => LoggedAndCounted
    <2> SUFFICES ASSUME ExecutionInv, Idle PROVE LoggedAndCounted
      BY DEF LoggedAndCounted
    <2>1. AllLogged /\ AllCounted /\ caller # "record"
      BY DEF ExecutionInv, Idle
    <2>2. Len(rps_events.all) \in Nat /\ Len(error_events.all) \in Nat
      BY QueueParts DEF ExecutionInv, TelemetryInv, QueueInv
    <2>3. /\ Len(rps_events.all) = Len(log)
          /\ Len(error_events.all) = Cardinality(Erroneous(log))
      BY <2>1, <2>2 DEF AllCounted
    <2> QED BY <2>1, <2>3 DEF LoggedAndCounted, AllLogged, Erroneous
  <1> QED BY <1>1, ExecutionStarts, ExecutionKeeps, PTL DEF ExecutionSpec

\* The snapshots that METRICS prints are as exact as the telemetry's, whatever runs.
THEOREM MetricsBracketed == ExecutionSpec => SnapshotBracketed
  BY ExecutionIsTelemetry, SnapshotsBracketed, PTL
=============================================================================
