------------------------- MODULE AccessLoggerProofs -------------------------
(***************************************************************************)
(* The safety properties of the access log, for any set of entries and any *)
(* number of them.                                                         *)
(***************************************************************************)
EXTENDS AccessLogger, TLAPS

\* What ties the threads' places to the shared state: the worker holds an entry
\* only while it writes, the main thread is past the shutdown only when the worker
\* is done, and the worker is done only when nothing is left.
Places ==
    /\ worker = "none" <=> ~opened
    /\ worker = "write" <=> Len(hand) = 1
    /\ worker = "done" => queue = <<>> /\ ~running
    /\ main \in {"run", "notifyLog"} => running = opened
    /\ main \in {"notifyShutdown", "join", "off"} => ~running
    /\ closed => main = "off"
    /\ main = "off" => worker \in {"none", "done"}

Inv == TypeOK /\ Places /\ SleepsForAReason /\ Accounted

\* Taking the head of a queue to the hand, and the hand to the file, keeps the order.
LEMMA Moving ==
    ASSUME NEW S, NEW f \in Seq(S), NEW q \in Seq(S)
    PROVE  /\ <<>> \o q = q /\ q \o <<>> = q
           /\ q # <<>> => /\ Head(q) \in S /\ Tail(q) \in Seq(S)
                          /\ f \o <<Head(q)>> \o Tail(q) = f \o q
  <1>1. <<>> \o q = q /\ q \o <<>> = q  BY SMT
  <1>2. ASSUME q # <<>>
        PROVE  Head(q) \in S /\ Tail(q) \in Seq(S) /\ f \o <<Head(q)>> \o Tail(q) = f \o q
    BY <1>2, SMTT(30)
  <1> QED BY <1>1, <1>2

\* A sequence of length 0 is empty.
LEMMA EmptySeq == ASSUME NEW S, NEW s \in Seq(S), Len(s) = 0 PROVE s = <<>>
  BY SMT

\* Appending to the queue appends to what is accounted for.
LEMMA Appending ==
    ASSUME NEW S, NEW f \in Seq(S), NEW h \in Seq(S), NEW q \in Seq(S), NEW e \in S
    PROVE  f \o h \o Append(q, e) = Append(f \o h \o q, e)
  BY SMTT(30)

\* A worker that does not write holds nothing.
LEMMA EmptyHand == ASSUME TypeOK, Places, worker # "write" PROVE hand = <<>>
  <1>1. hand \in Seq(Entries) /\ Len(hand) \in Nat /\ Len(hand) <= 1 /\ Len(hand) # 1
    BY DEF TypeOK, Places
  <1>2. Len(hand) = 0  BY <1>1
  <1> QED BY <1>1, <1>2, EmptySeq

\* Logging an entry appends it to what is accounted for.
LEMMA AccountedGrows ==
    ASSUME TypeOK, NEW e \in Entries
    PROVE  file \o hand \o Append(queue, e) = Append(file \o hand \o queue, e)
  <1>1. file \in Seq(Entries) /\ hand \in Seq(Entries) /\ queue \in Seq(Entries)  BY DEF TypeOK
  <1> QED BY <1>1, Appending

\* A main thread's step: the invariant is kept.
LEMMA MainKeeps == ASSUME Inv, Log \/ NotifyLog \/ Shutdown PROVE Inv'
  <1> USE DEF Inv, TypeOK, Places, SleepsForAReason, Accounted
  <1>1. CASE Log
    <2> PICK e \in Entries : queue' = Append(queue, e) /\ logged' = Append(logged, e)
      BY <1>1 DEF Log
    <2>1. file \o hand \o Append(queue, e) = Append(file \o hand \o queue, e)
      BY AccountedGrows
    <2>2. Accounted'  BY <1>1, <2>1 DEF Log
    <2>3. TypeOK'  BY <1>1 DEF Log
    <2>4. worker # "done"  BY <1>1 DEF Log
    <2> QED BY <1>1, <2>2, <2>3, <2>4 DEF Log
  <1>2. CASE NotifyLog  BY <1>2 DEF NotifyLog, Wake
  <1>3. CASE BeginShutdown  BY <1>3 DEF BeginShutdown
  <1>4. CASE NotifyShutdown  BY <1>4 DEF NotifyShutdown, Wake
  <1>5. CASE Join  BY <1>5 DEF Join
  <1> QED BY <1>1, <1>2, <1>3, <1>4, <1>5 DEF Shutdown

\* Popping an entry, with an empty hand: the invariant is kept.
LEMMA PopKeeps ==
    ASSUME Inv, queue # <<>>, hand = <<>>, worker \in {"check", "next"}, Pop,
           UNCHANGED <<opened, closed, running, main, file, logged>>
    PROVE  Inv'
  <1> USE DEF Inv, TypeOK, Places, SleepsForAReason, Accounted
  <1>1. /\ Head(queue) \in Entries /\ Tail(queue) \in Seq(Entries)
        /\ file \o <<Head(queue)>> \o Tail(queue) = file \o queue
    BY Moving
  <1>2. hand' = <<Head(queue)>> /\ queue' = Tail(queue) /\ worker' = "write"  BY DEF Pop
  <1>3. hand' \in Seq(Entries) /\ Len(hand') = 1  BY <1>1, <1>2
  <1>4. file \o hand \o queue = file \o queue  BY Moving
  <1>5. Accounted'  BY <1>1, <1>2, <1>4
  <1>6. TypeOK'  BY <1>1, <1>2, <1>3
  <1> QED BY <1>2, <1>3, <1>5, <1>6

\* A worker's step: the invariant is kept.
LEMMA WorkerKeeps == ASSUME Inv, Work \/ SpuriousWakeup PROVE Inv'
  <1> USE DEF Inv, TypeOK, Places, SleepsForAReason, Accounted
  <1>1. CASE Check
    <2>0. hand = <<>>  BY <1>1, EmptyHand DEF Check
    <2>1. CASE queue # <<>>  BY <1>1, <2>0, <2>1, PopKeeps DEF Check, Wait
    <2>2. CASE queue = <<>>  BY <1>1, <2>2 DEF Check, Wait
    <2> QED BY <2>1, <2>2
  <1>2. CASE NextEntry
    <2>0. hand = <<>>  BY <1>2, EmptyHand DEF NextEntry
    <2>1. CASE queue # <<>>  BY <1>2, <2>0, <2>1, PopKeeps DEF NextEntry
    <2>2. CASE queue = <<>>  BY <1>2, <2>2 DEF NextEntry
    <2> QED BY <2>1, <2>2
  <1>3. CASE WriteEntry
    <2>1. ~closed  BY <1>3 DEF WriteEntry
    <2>2. file \o hand \in Seq(Entries)  OBVIOUS
    <2>3. (file \o hand) \o <<>> = file \o hand  BY <2>2, Moving
    <2>4. Accounted'
      <3>1. file' = file \o hand /\ hand' = <<>> /\ queue' = queue /\ logged' = logged
        BY <1>3, <2>1 DEF WriteEntry
      <3> QED BY <3>1, <2>3
    <2>5. <<>> \in Seq(Entries) /\ Len(<<>>) = 0  OBVIOUS
    <2>6. TypeOK'  BY <1>3, <2>1, <2>2, <2>5 DEF WriteEntry
    <2>7. worker' = "next" /\ hand' = <<>> /\ Len(hand') = 0
      BY <1>3 DEF WriteEntry
    <2>8. Places'
      <3>1. /\ worker = "write" /\ opened' = opened /\ closed' = closed
            /\ running' = running /\ main' = main
        BY <1>3 DEF WriteEntry
      <3>2. worker' = "write" <=> Len(hand') = 1  BY <2>7
      <3>3. opened /\ main # "off"  BY <3>1
      <3>4. worker' # "none" /\ worker' # "done"  BY <2>7
      <3> QED BY <3>1, <3>2, <3>3, <3>4
    <2>9. SleepsForAReason'  BY <1>3 DEF WriteEntry
    <2> QED BY <2>4, <2>6, <2>8, <2>9
  <1>4. CASE SpuriousWakeup  BY <1>4 DEF SpuriousWakeup
  <1> QED BY <1>1, <1>2, <1>3, <1>4 DEF Work

\* The invariant is inductive, whatever the scheduler does.
THEOREM LoggerInvariance == Spec => []Inv
  <1>1. Init => Inv
    <2> SUFFICES ASSUME Init PROVE Inv  OBVIOUS
    <2>1. <<>> \in Seq(Entries) /\ Len(<<>>) = 0  OBVIOUS
    <2>2. TypeOK
      <3>1. opened \in BOOLEAN /\ closed \in BOOLEAN /\ running \in BOOLEAN  BY DEF Init
      <3>2. main = "run" /\ worker \in {"none", "check"}  BY DEF Init
      <3>3. queue = <<>> /\ file = <<>> /\ logged = <<>> /\ hand = <<>>  BY DEF Init
      <3> QED BY <2>1, <3>1, <3>2, <3>3 DEF TypeOK
    <2>3. Places  BY <2>1 DEF Init, Places
    <2>4. SleepsForAReason  BY DEF Init, SleepsForAReason
    <2>5. Accounted  BY <2>1, Moving DEF Init, Accounted
    <2> QED BY <2>2, <2>3, <2>4, <2>5 DEF Inv
  <1>2. Inv /\ [Next]_vars => Inv'
    <2> SUFFICES ASSUME Inv, [Next]_vars PROVE Inv'
      OBVIOUS
    <2>1. CASE UNCHANGED vars
      BY <2>1 DEF vars, Inv, TypeOK, Places, SleepsForAReason, Accounted
    <2> QED BY <2>1, MainKeeps, WorkerKeeps DEF Next
  <1> QED BY <1>1, <1>2, PTL DEF Spec

\* The worker holds at most one entry, and the log's state is well-typed.
THEOREM LoggerTypeCorrect == Spec => []TypeOK
  <1>1. Inv => TypeOK  BY DEF Inv
  <1> QED BY <1>1, LoggerInvariance, PTL

\* No entry is lost, repeated or overtaken on its way to the file.
THEOREM NothingLost == Spec => []Accounted
  <1>1. Inv => Accounted  BY DEF Inv
  <1> QED BY <1>1, LoggerInvariance, PTL

\* cv_ loses no wakeup: a worker that sleeps beside work is about to be notified.
THEOREM NoLostWakeup == Spec => []SleepsForAReason
  <1>1. Inv => SleepsForAReason  BY DEF Inv
  <1> QED BY <1>1, LoggerInvariance, PTL

\* shutdown returns only when every entry that was logged is in the file.
THEOREM ShutdownDrains == Spec => []DrainedOnExit
  <1>1. Inv => DrainedOnExit
    <2> SUFFICES ASSUME Inv, main = "off", opened PROVE file = logged
      BY DEF DrainedOnExit
    <2>1. worker = "done" /\ queue = <<>>  BY DEF Inv, Places
    <2>3. hand = <<>>  BY <2>1, EmptyHand DEF Inv
    <2>2. file \o <<>> = file  BY Moving DEF Inv, TypeOK
    <2> QED BY <2>1, <2>2, <2>3 DEF Inv, Accounted
  <1> QED BY <1>1, LoggerInvariance, PTL
=============================================================================
