-------------------------- MODULE TreeSyncProofs --------------------------
(***************************************************************************)
(* Proofs about the hybrid logical clock and about TreeSync, for any peers *)
(* and any width of the counter.                                           *)
(***************************************************************************)
EXTENDS TreeSync, FiniteSetTheorems, FunctionTheorems, WellFoundedInduction, TLAPS

\* Masking keeps a counter that fits the bits it has in a timestamp.
LEMMA Masked ==
    ASSUME NEW n \in Nat
    PROVE  /\ n % Radix \in 0..(Radix - 1)
           /\ n < Radix => n % Radix = n
BY ClockAssumption, SMT

\* A timestamp is in range.
LEMMA PackType ==
    ASSUME NEW c \in Clock
    PROVE  Pack(c) \in Timestamp
BY Masked DEF Pack, Clock, Timestamp

\* next() moves the clock forward, its counter by at most one.
LEMMA AdvanceMoves ==
    ASSUME NEW c \in Clock, NEW now \in Time
    PROVE  /\ Advance(c, now) \in Clock
           /\ Earlier(c, Advance(c, now))
           /\ Advance(c, now).logical <= c.logical + 1
BY ClockAssumption DEF Advance, Clock, Time, Earlier

\* Timestamps and clocks are in one linear order.
LEMMA EarlierLinear ==
    ASSUME NEW a \in Clock, NEW b \in Clock, NEW c \in Clock
    PROVE  /\ ~Earlier(a, a)
           /\ Earlier(a, b) => ~Earlier(b, a)
           /\ ~Earlier(b, a) /\ Earlier(b, c) => Earlier(a, c)
           /\ ~Earlier(b, a) /\ ~Earlier(c, b) => ~Earlier(c, a)
BY ClockAssumption DEF Earlier, Clock, Time

LEMMA TimestampIsClock == Timestamp \subseteq Clock
BY ClockAssumption DEF Timestamp, Clock

\* observe() of one timestamp leaves the latest of the clock, the timestamp
\* and the present moment; the four cases of its match say no more than that.
LEMMA ObserveIsLatest ==
    ASSUME NEW c \in Clock, NEW t \in Timestamp, NEW now \in Time
    PROVE  Observe(c, t, now) \in ObserveAll(c, {t}, now)
<1> DEFINE start == [physical |-> now, logical |-> 0]
           o == Observe(c, t, now)
<1>1. /\ c = [physical |-> c.physical, logical |-> c.logical]
      /\ t = [physical |-> t.physical, logical |-> t.logical]
      /\ c.physical \in Nat /\ c.logical \in Nat
      /\ t.physical \in Nat /\ t.logical \in Nat /\ now \in Nat
  BY ClockAssumption DEF Clock, Timestamp, Time
<1>2. o \in {c, t, start}
  BY <1>1 DEF Observe, Later
<1>3. ~Earlier(o, c) /\ ~Earlier(o, t) /\ ~Earlier(o, start)
  BY <1>1 DEF Observe, Later, Earlier
<1> QED BY <1>2, <1>3 DEF ObserveAll, IsLatest

-----------------------------------------------------------------------------
(***************************************************************************)
(* The loop of observe() calls.  Its recursion is shown to have a result,  *)
(* and the result to be the latest of all that was seen.                   *)
(***************************************************************************)

\* A nonempty set of natural numbers has a least element.
LEMMA LeastNumber ==
    ASSUME NEW T \in SUBSET Nat, T # {}
    PROVE  \E m \in T : \A k \in T : m <= k
<1> DEFINE I == {1..n : n \in T}
<1>1. \A n \in Nat : 1..n \in FiniteSubsetsOf(Nat)
  BY FS_Interval DEF FiniteSubsetsOf
<1>2. I \subseteq FiniteSubsetsOf(Nat) /\ I # {}
  BY <1>1
<1>3. \E x \in I : \A y \in I : ~(<<y, x>> \in StrictSubsetOrdering(Nat))
  BY <1>2, WFMin, FS_StrictSubsetOrderingWellFounded, Zenon
<1>4. PICK m \in T : \A k \in T : ~(<<1..k, 1..m>> \in StrictSubsetOrdering(Nat))
  BY <1>3
<1>5. ASSUME NEW k \in T, k < m PROVE FALSE
  <2>1. 1..k \subseteq 1..m /\ m \in 1..m /\ m \notin 1..k
    BY <1>5
  <2>2. <<1..k, 1..m>> \in (SUBSET Nat) \X (SUBSET Nat)
    OBVIOUS
  <2>3. <<1..k, 1..m>> \in StrictSubsetOrdering(Nat)
    BY <2>1, <2>2, Zenon DEF StrictSubsetOrdering
  <2> QED BY <1>4, <2>3
<1> QED BY <1>5

\* A set with 0 and the successor of each of its members has every number.
LEMMA Induct ==
    ASSUME NEW S, 0 \in S, \A n \in Nat : n \in S => n + 1 \in S
    PROVE  Nat \subseteq S
<1> DEFINE T == {n \in Nat : n \notin S}
<1> SUFFICES ASSUME T # {} PROVE FALSE
  OBVIOUS
<1>1. T \in SUBSET Nat
  OBVIOUS
<1>2. PICK m \in T : \A k \in T : m <= k
  <2> HIDE DEF T
  <2> QED BY <1>1, LeastNumber
<1>3. m # 0 /\ m - 1 \in Nat /\ m - 1 \notin T
  BY <1>2
<1> QED BY <1>2, <1>3

\* observe() leaves a clock.
LEMMA ObserveType ==
    ASSUME NEW c \in Clock, NEW t \in Timestamp, NEW now \in Time
    PROVE  Observe(c, t, now) \in Clock
<1>1. Observe(c, t, now) \in {c, t, [physical |-> now, logical |-> 0]}
  BY ObserveIsLatest DEF ObserveAll
<1>2. [physical |-> now, logical |-> 0] \in Clock
  BY DEF Clock
<1> QED BY <1>1, <1>2, TimestampIsClock

\* There is such a function for every number of timestamps.
LEMMA ObservesExists ==
    ASSUME NEW c \in Clock, NEW n \in Nat,
           NEW times \in [1..n -> Timestamp], NEW nows \in [1..n -> Time]
    PROVE  \E f \in [0..n -> Clock] :
                /\ f[0] = c
                /\ \A i \in 1..n : f[i] = Observe(f[i - 1], times[i], nows[i])
<1> DEFINE Up(f, m) == /\ f[0] = c
                       /\ \A i \in 1..m : f[i] = Observe(f[i - 1], times[i], nows[i])
           S == {m \in Nat : m > n \/ \E f \in [0..m -> Clock] : Up(f, m)}
<1>1. 0 \in S
  <2>1. [i \in 0..0 |-> c] \in [0..0 -> Clock] /\ Up([i \in 0..0 |-> c], 0)
    OBVIOUS
  <2> QED BY <2>1
<1>2. ASSUME NEW m \in Nat, m \in S PROVE m + 1 \in S
  <2> SUFFICES ASSUME m + 1 <= n PROVE \E f \in [0..(m + 1) -> Clock] : Up(f, m + 1)
    OBVIOUS
  <2>1. PICK f \in [0..m -> Clock] : Up(f, m)
    BY <1>2
  <2> DEFINE next == Observe(f[m], times[m + 1], nows[m + 1])
             g == [i \in 0..(m + 1) |-> IF i = m + 1 THEN next ELSE f[i]]
  <2>2. next \in Clock
    <3>1. f[m] \in Clock /\ times[m + 1] \in Timestamp /\ nows[m + 1] \in Time
      OBVIOUS
    <3> QED BY <3>1, ObserveType
  <2>3. /\ g \in [0..(m + 1) -> Clock]
        /\ g[m + 1] = next /\ \A i \in 0..m : g[i] = f[i]
    <3> HIDE DEF next
    <3> QED BY <2>2
  <2> HIDE DEF g
  <2>4. g[0] = c
    BY <2>1, <2>3
  <2>5. ASSUME NEW i \in 1..(m + 1) PROVE g[i] = Observe(g[i - 1], times[i], nows[i])
    <3>1. i - 1 \in 0..m /\ g[i - 1] = f[i - 1]
      BY <2>3
    <3>2. CASE i = m + 1
      <4>1. i - 1 = m
        BY <3>2
      <4> QED BY <2>3, <3>1, <3>2, <4>1
    <3>3. CASE i # m + 1
      <4>1. i \in 1..m /\ i \in 0..m
        BY <3>3
      <4>2. g[i] = f[i] /\ f[i] = Observe(f[i - 1], times[i], nows[i])
        BY <2>1, <2>3, <4>1
      <4> QED BY <3>1, <4>2
    <3> QED BY <3>2, <3>3
  <2>6. Up(g, m + 1)
    BY <2>4, <2>5
  <2> QED BY <2>3, <2>6
<1>3. n \in S
  <2> HIDE DEF S
  <2> QED BY <1>1, <1>2, Induct
<1> QED BY <1>3

\* So the loop leaves its last clock.
LEMMA EachIs ==
    ASSUME NEW c \in Clock, NEW n \in Nat,
           NEW times \in [1..n -> Timestamp], NEW nows \in [1..n -> Time]
    PROVE  \E f :
                /\ f[0] = c
                /\ \A i \in 1..n : f[i] = Observe(f[i - 1], times[i], nows[i])
                /\ ObserveEach(c, times, nows) = f[n]
<1> DEFINE Loop(f) == [i \in 0..Len(times) |->
                        IF i = 0 THEN c ELSE Observe(f[i - 1], times[i], nows[i])]
           after == CHOOSE f : f = Loop(f)
<1>1. Len(times) = n
  <2>1. times \in Seq(Timestamp) /\ DOMAIN times = 1..n
    OBVIOUS
  <2> QED BY <2>1
<1>2. PICK f \in [0..n -> Clock] :
        f[0] = c /\ \A i \in 1..n : f[i] = Observe(f[i - 1], times[i], nows[i])
  BY ObservesExists
<1>3. f = Loop(f)
  <2>1. \A i \in 0..n : f[i] = IF i = 0 THEN c ELSE Observe(f[i - 1], times[i], nows[i])
    BY <1>2
  <2> QED BY <1>1, <2>1
<1>4. after = Loop(after)
  <2> HIDE DEF Loop
  <2> QED BY <1>3
<1>5. ObserveEach(c, times, nows) = after[n]
  BY <1>1, Zenon DEF ObserveEach
<1>6. after[0] = c /\ \A i \in 1..n : after[i] = Observe(after[i - 1], times[i], nows[i])
  <2> HIDE DEF after
  <2>1. \A i \in 0..n : after[i] = Loop(after)[i]
    BY <1>4
  <2> QED BY <1>1, <2>1
<1> QED BY <1>5, <1>6

\* What has been seen after i of the observe() calls.
Seen(c, times, nows, i) ==
    {c} \cup {times[j] : j \in 1..i} \cup {[physical |-> nows[j], logical |-> 0] : j \in 1..i}

\* Everything seen is a clock, and what is seen later is seen at a place of its own.
LEMMA SeenIs ==
    ASSUME NEW c \in Clock, NEW n \in Nat,
           NEW times \in [1..n -> Timestamp], NEW nows \in [1..n -> Time]
    PROVE  /\ Seen(c, times, nows, 0) = {c}
           /\ \A i \in 0..n : /\ c \in Seen(c, times, nows, i)
                             /\ Seen(c, times, nows, i) \subseteq Clock
           /\ \A i \in 1..n : Seen(c, times, nows, i) =
                Seen(c, times, nows, i - 1) \cup {times[i], [physical |-> nows[i], logical |-> 0]}
<1>1. Seen(c, times, nows, 0) = {c}
  BY DEF Seen
<1>2. ASSUME NEW i \in 0..n
      PROVE  c \in Seen(c, times, nows, i) /\ Seen(c, times, nows, i) \subseteq Clock
  <2>1. \A j \in 1..i : times[j] \in Clock /\ [physical |-> nows[j], logical |-> 0] \in Clock
    <3>1. TAKE j \in 1..i
    <3>2. j \in 1..n /\ times[j] \in Timestamp /\ nows[j] \in Time
      OBVIOUS
    <3> QED BY <3>2, TimestampIsClock DEF Clock
  <2> QED BY <2>1 DEF Seen
<1>3. ASSUME NEW i \in 1..n
      PROVE  Seen(c, times, nows, i) =
                Seen(c, times, nows, i - 1) \cup {times[i], [physical |-> nows[i], logical |-> 0]}
  <2>1. 1..i = 1..(i - 1) \cup {i}
    OBVIOUS
  <2> QED BY <2>1, Zenon DEF Seen
<1> QED BY <1>1, <1>2, <1>3

\* The loop leaves the latest of all that has been seen, in whatever order.
LEMMA EachIsLatest ==
    ASSUME NEW c \in Clock, NEW n \in Nat,
           NEW times \in [1..n -> Timestamp], NEW nows \in [1..n -> Time]
    PROVE  IsLatest(ObserveEach(c, times, nows), Seen(c, times, nows, n))
<1>1. PICK f :
        /\ f[0] = c
        /\ \A i \in 1..n : f[i] = Observe(f[i - 1], times[i], nows[i])
        /\ ObserveEach(c, times, nows) = f[n]
  BY EachIs
<1> DEFINE At(i) == Seen(c, times, nows, i)
           S == {i \in Nat : i <= n => IsLatest(f[i], At(i))}
<1>2. 0 \in S
  BY <1>1, SeenIs, EarlierLinear DEF IsLatest
<1>3. ASSUME NEW i \in Nat, i \in S PROVE i + 1 \in S
  <2> SUFFICES ASSUME i + 1 <= n PROVE IsLatest(f[i + 1], At(i + 1))
    OBVIOUS
  <2> DEFINE t == times[i + 1]
             start == [physical |-> nows[i + 1], logical |-> 0]
  <2>1. i \in 0..n /\ i + 1 \in 1..n /\ (i + 1) - 1 = i /\ IsLatest(f[i], At(i))
    BY <1>3
  <2>2. At(i) \subseteq Clock /\ At(i + 1) = At(i) \cup {t, start} /\ At(i + 1) \subseteq Clock
    BY <2>1, SeenIs
  <2>3. f[i] \in At(i) /\ f[i] \in Clock
    BY <2>1, <2>2 DEF IsLatest
  <2>4. t \in Timestamp /\ nows[i + 1] \in Time
    BY <2>1
  <2>5. f[i + 1] = Observe(f[i], t, nows[i + 1])
    BY <1>1, <2>1
  <2>6. f[i + 1] \in ObserveAll(f[i], {t}, nows[i + 1])
    BY <2>3, <2>4, <2>5, ObserveIsLatest
  <2> HIDE DEF At
  <2>7. f[i + 1] \in {f[i], t, start} /\ \A u \in {f[i], t, start} : ~Earlier(f[i + 1], u)
    BY <2>6 DEF ObserveAll, IsLatest
  <2>8. f[i + 1] \in At(i + 1) /\ f[i + 1] \in Clock
    BY <2>2, <2>3, <2>7
  <2>9. ASSUME NEW u \in At(i + 1) PROVE ~Earlier(f[i + 1], u)
    <3>1. CASE u \in {t, start}
      BY <2>7, <3>1
    <3>2. CASE u \in At(i)
      <4>1. ~Earlier(f[i], u) /\ ~Earlier(f[i + 1], f[i]) /\ u \in Clock
        BY <2>1, <2>2, <2>7, <3>2 DEF IsLatest
      <4> QED BY <2>3, <2>8, <4>1, EarlierLinear
    <3> QED BY <2>2, <3>1, <3>2
  <2> QED BY <2>8, <2>9 DEF IsLatest
<1>4. n \in S
  <2> HIDE DEF S
  <2> QED BY <1>2, <1>3, Induct
<1> QED BY <1>1, <1>4

\* Clocks neither of which is earlier are equal.
LEMMA OneLatest ==
    ASSUME NEW a \in Clock, NEW b \in Clock, ~Earlier(a, b), ~Earlier(b, a)
    PROVE  a = b
BY ClockAssumption DEF Earlier, Clock, Time

\* A loop of n calls for the timestamps seen, during which the wall clock shows nows and
\* nothing later than at the k-th.
LoopOf(c, n, times, nows, k, seen) ==
    /\ c \in Clock
    /\ n \in Nat
    /\ times \in [1..n -> Timestamp]
    /\ nows \in [1..n -> Time]
    /\ k \in 1..n
    /\ \A i \in 1..n : nows[i] <= nows[k]
    /\ seen = {times[i] : i \in 1..n}

\* It leaves the clock that the model lets it leave.
LoopLeaves(c, times, nows, k, seen) ==
    ObserveAll(c, seen, nows[k]) = {ObserveEach(c, times, nows)}

\* Nothing else is the latest; and of the moments of the loop only the last matters.
LEMMA LoopIs ==
    ASSUME NEW c, NEW n, NEW times, NEW nows, NEW k, NEW seen,
           LoopOf(c, n, times, nows, k, seen)
    PROVE  LoopLeaves(c, times, nows, k, seen)
<1> DEFINE each == ObserveEach(c, times, nows)
           all == Seen(c, times, nows, n)
           now == [physical |-> nows[k], logical |-> 0]
           kept == seen \cup {c, now}
<1>0. /\ c \in Clock /\ n \in Nat /\ k \in 1..n
      /\ times \in [1..n -> Timestamp] /\ nows \in [1..n -> Time]
      /\ \A i \in 1..n : nows[i] <= nows[k]
      /\ seen = {times[i] : i \in 1..n}
  BY DEF LoopOf
<1>1. IsLatest(each, all) /\ all \subseteq Clock
  BY <1>0, EachIsLatest, SeenIs
<1>2. kept \subseteq all /\ now \in all
  BY <1>0 DEF Seen
<1>3. each \in all /\ each \in Clock /\ \A u \in all : ~Earlier(each, u)
  BY <1>1 DEF IsLatest
<1>4. each \in kept
  <2>1. ASSUME NEW i \in 1..n, each = [physical |-> nows[i], logical |-> 0]
        PROVE  each = now
    <3>1. /\ nows[i] \in Nat /\ nows[k] \in Nat /\ nows[i] <= nows[k]
          /\ ~Earlier(each, now)
      BY <1>0, <1>2, <1>3, ClockAssumption DEF Time
    <3>2. ~(nows[i] < nows[k])
      BY <2>1, <3>1 DEF Earlier
    <3> QED BY <2>1, <3>1, <3>2
  <2> QED BY <1>0, <1>3, <2>1 DEF Seen
<1> HIDE DEF each, all, now
<1>5. ASSUME NEW other \in kept, IsLatest(other, kept) PROVE other = each
  <2>1. other \in Clock /\ ~Earlier(other, each) /\ ~Earlier(each, other)
    BY <1>1, <1>2, <1>3, <1>4, <1>5 DEF IsLatest
  <2> QED BY <1>3, <2>1, OneLatest
<1>6. IsLatest(each, kept)
  BY <1>2, <1>3, <1>4 DEF IsLatest
<1>7. ObserveAll(c, seen, nows[k]) = {u \in kept : IsLatest(u, kept)}
  BY DEF ObserveAll, now
<1>8. ObserveAll(c, seen, nows[k]) = {each}
  <2> HIDE DEF kept
  <2> QED BY <1>4, <1>5, <1>6, <1>7
<1> QED BY <1>8 DEF each, LoopLeaves

-----------------------------------------------------------------------------
\* Applying operations keeps the old ones and adds only given ones.
LEMMA AppliedBetween ==
    ASSUME NEW ops, NEW new, NEW all \in Applied(ops, new)
    PROVE  /\ ops \subseteq all
           /\ all \subseteq ops \cup new
BY DEF Applied

\* What apply_operations leaves in the clock and the log.
LEMMA ApplyType ==
    ASSUME TypeOK, NEW p \in Peer, NEW ops \in SUBSET Operation, ApplyOperations(p, ops)
    PROVE  /\ clock' \in [Peer -> Clock]
           /\ log' \in [Peer -> SUBSET Operation]
<1>0. PICK now \in Time : \E c \in ObserveAll(clock[p], Times(ops), now) :
        clock' = [clock EXCEPT ![p] = c]
  BY DEF ApplyOperations
<1>1. PICK c \in ObserveAll(clock[p], Times(ops), now) : clock' = [clock EXCEPT ![p] = c]
  BY <1>0
<1>2. PICK all \in Applied(log[p], ops) : log' = [log EXCEPT ![p] = all]
  BY DEF ApplyOperations
<1>3. Times(ops) \subseteq Clock
  BY TimestampIsClock DEF Times, Operation
<1>4. c \in Clock
  BY <1>3 DEF ObserveAll, Clock, TypeOK
<1>5. all \in SUBSET Operation
  BY AppliedBetween DEF TypeOK
<1> QED BY <1>1, <1>2, <1>4, <1>5 DEF TypeOK

\* Every step keeps the shape of the state.
LEMMA TypeStep ==
    ASSUME TypeOK, [Next]_vars
    PROVE  TypeOK'
<1> USE SyncAssumption
<1>1. ASSUME NEW p \in Peer, Edit(p)
      PROVE  TypeOK'
  <2>1. PICK now \in Time :
          LET advanced == Advance(clock[p], now)
              op == [actor |-> p, time |-> Pack(advanced), edit |-> edits + 1]
          IN  /\ clock' = [clock EXCEPT ![p] = advanced]
              /\ \E ops \in Applied(log[p], {op}) : log' = [log EXCEPT ![p] = ops]
              /\ unsent' = [unsent EXCEPT ![p] = @ \cup {op}]
    BY <1>1 DEF Edit
  <2> DEFINE advanced == Advance(clock[p], now)
             op == [actor |-> p, time |-> Pack(advanced), edit |-> edits + 1]
  <2>2. advanced \in Clock
    BY AdvanceMoves DEF TypeOK
  <2>3. op \in Operation
    BY <1>1, <2>2, PackType DEF Edit, Operation, TypeOK
  <2>4. PICK ops \in Applied(log[p], {op}) : log' = [log EXCEPT ![p] = ops]
    BY <2>1
  <2>5. ops \in SUBSET Operation
    BY <2>3, <2>4, AppliedBetween DEF TypeOK
  <2>6. edits' \in 0..MaxEdits
    BY <1>1 DEF Edit, TypeOK
  <2>7. /\ clock' \in [Peer -> Clock]
        /\ log' \in [Peer -> SUBSET Operation]
        /\ unsent' \in [Peer -> SUBSET Operation]
    BY <2>1, <2>2, <2>3, <2>4, <2>5 DEF TypeOK
  <2> QED BY <1>1, <2>6, <2>7 DEF Edit, TypeOK
<1>2. ASSUME NEW p \in Peer, Crash(p)
      PROVE  TypeOK'
  <2>1. crashes' \in 0..MaxCrashes
    BY <1>2 DEF Crash, TypeOK
  <2> QED BY <1>2, <2>1 DEF Crash, TypeOK
<1>3. ASSUME NEW p \in Peer, NEW ops \in SUBSET unsent[p], Broadcast(p, ops)
      PROVE  TypeOK'
  BY <1>3 DEF Broadcast, TypeOK
<1>4. ASSUME NEW p \in Peer, NEW ops \in SUBSET gossip[p], ApplyGossip(p, ops)
      PROVE  TypeOK'
  BY <1>4, ApplyType DEF ApplyGossip, TypeOK
<1>5. ASSUME NEW p \in Peer, NEW q \in Peer, SynchronizeWith(p, q)
      PROVE  pulls' \subseteq Pull
  <2>1. Ids(log[p]) \in SUBSET (Peer \X Timestamp)
    BY DEF Ids, Id, Operation, TypeOK
  <2> QED BY <1>5, <2>1 DEF SynchronizeWith, Pull, TypeOK
<1>6. ASSUME NEW p \in Peer, NEW q \in Peer, SyncTick(p, q)
      PROVE  TypeOK'
  BY <1>5, <1>6 DEF SyncTick, TypeOK
<1>7. ASSUME NEW p \in Peer, NEW q \in Peer, Connect(p, q)
      PROVE  TypeOK'
  BY <1>5, <1>7 DEF Connect, Dialable, TypeOK
<1>8. ASSUME NEW p \in Peer, NEW q \in Peer, Disconnect(p, q)
      PROVE  TypeOK'
  <2>1. faults' \in 0..MaxFaults
    BY <1>8 DEF Disconnect, TypeOK
  <2> QED BY <1>8, <2>1 DEF Disconnect, TypeOK
<1>9. ASSUME NEW m \in pulls, AnswerPull(m)
      PROVE  TypeOK'
  <2>1. m \in Pull
    BY DEF TypeOK
  <2>2. OperationsMissingFrom(m.dst, m.known) \in SUBSET Operation
    BY <2>1 DEF OperationsMissingFrom, Pull, TypeOK
  <2>3. [m EXCEPT !.state = "answered", !.known = {},
                  !.ops = OperationsMissingFrom(m.dst, m.known)] \in Pull
    BY <2>1, <2>2 DEF Pull
  <2>4. pulls' \subseteq Pull
    BY <1>9, <2>3 DEF AnswerPull, TypeOK
  <2> QED BY <1>9, <2>4 DEF AnswerPull, TypeOK
<1>10. ASSUME NEW m \in pulls, MissingOperations(m)
       PROVE  TypeOK'
  <2>1. m.src \in Peer /\ m.ops \in SUBSET Operation
    BY DEF Pull, TypeOK
  <2>2. clock' \in [Peer -> Clock] /\ log' \in [Peer -> SUBSET Operation]
    BY <1>10, <2>1, ApplyType DEF MissingOperations, TypeOK
  <2> QED BY <1>10, <2>2 DEF MissingOperations, TypeOK
<1>11. ASSUME NEW m \in pulls, PullFailed(m)
       PROVE  TypeOK'
  <2>1. faults' \in 0..MaxFaults
    BY <1>11 DEF PullFailed, TypeOK
  <2> QED BY <1>11, <2>1 DEF PullFailed, TypeOK
<1>12. CASE UNCHANGED vars
  BY <1>12 DEF vars, TypeOK
<1> QED BY <1>1, <1>2, <1>3, <1>4, <1>6, <1>7, <1>8, <1>9, <1>10, <1>11, <1>12
      DEF Next, PullStep

\* The peers' state always has its shape.
THEOREM TypeCorrect == Spec => []TypeOK
<1>1. Init => TypeOK
  BY SyncAssumption, ClockAssumption DEF Init, TypeOK, NewClock, Clock, Time
<1>2. TypeOK /\ [Next]_vars => TypeOK'
  BY TypeStep
<1> QED BY <1>1, <1>2, PTL DEF Spec

-----------------------------------------------------------------------------
\* There are finitely many operations.
LEMMA FiniteOperation == IsFiniteSet(Operation)
<1> DEFINE Parts == ((Peer \X Time) \X (0..(Radix - 1))) \X (1..MaxEdits)
           Of(op) == <<<<<<op.actor, op.time.physical>>, op.time.logical>>, op.edit>>
           of == [op \in Operation |-> Of(op)]
<1>1. IsFiniteSet(Parts)
  <2>1. IsFiniteSet(Time) /\ IsFiniteSet(0..(Radix - 1)) /\ IsFiniteSet(1..MaxEdits)
    <3>1. 0 \in Int /\ 1 \in Int /\ MaxTime \in Int /\ Radix - 1 \in Int /\ MaxEdits \in Int
      BY ClockAssumption, SyncAssumption
    <3> QED BY <3>1, FS_Interval, Zenon DEF Time
  <2>2. IsFiniteSet(Peer \X Time)
    BY <2>1, FS_Product, SyncAssumption
  <2>3. IsFiniteSet((Peer \X Time) \X (0..(Radix - 1)))
    BY <2>1, <2>2, FS_Product
  <2> QED BY <2>1, <2>3, FS_Product
<1>2. of \in [Operation -> Parts]
  BY DEF Operation, Timestamp
<1>3. ASSUME NEW a \in Operation, NEW b \in Operation, of[a] = of[b] PROVE a = b
  <2>1. Of(a) = Of(b)
    BY <1>3
  <2>2. /\ a.actor = b.actor /\ a.edit = b.edit
        /\ a.time.physical = b.time.physical /\ a.time.logical = b.time.logical
    BY <2>1
  <2> QED BY <2>2 DEF Operation, Timestamp
<1> HIDE DEF of
<1>4. of \in Injection(Operation, Parts)
  BY <1>2, <1>3, Fun_IsInj
<1> QED BY <1>1, <1>4, FS_Injection

\* The observe() calls for the operations in a set, in one order of them.
LEMMA LoopOfOperations ==
    ASSUME NEW c \in Clock, NEW new \in SUBSET Operation,
           NEW n, n = Cardinality(new), NEW ops \in Bijection(1..n, new),
           NEW nows \in [1..n -> Time], NEW k \in 1..n, \A i \in 1..n : nows[i] <= nows[k]
    PROVE  LoopOf(c, n, [i \in 1..n |-> ops[i].time], nows, k, Times(new))
<1> DEFINE times == [i \in 1..n |-> ops[i].time]
<1>1. ops \in [1..n -> new]
  BY Fun_BijectionProperties
<1>2. \A op \in new : \E i \in 1..n : ops[i] = op
  BY DEF Bijection, Surjection
<1>3. times \in [1..n -> Timestamp]
  BY <1>1 DEF Operation
<1>4. Times(new) = {times[i] : i \in 1..n}
  BY <1>1, <1>2 DEF Times
<1>5. n \in Nat
  BY FiniteOperation, FS_Subset, FS_CardinalityType
<1> HIDE DEF times
<1>6. LoopOf(c, n, times, nows, k, Times(new))
  BY <1>3, <1>4, <1>5, Zenon DEF LoopOf
<1> QED BY <1>6 DEF times

\* Any order and any readings of the wall clock do.
LEMMA LoopAlwaysAgrees ==
    ASSUME NEW c \in Clock, NEW new \in SUBSET Operation
    PROVE  LoopAgrees(c, new)
<1> DEFINE n == Cardinality(new)
<1>1. SUFFICES ASSUME NEW ops \in Bijection(1..n, new), NEW nows \in [1..n -> Time],
                      NEW now \in {nows[i] : i \in 1..n}, \A i \in 1..n : nows[i] <= now
               PROVE  ObserveAll(c, Times(new), now) =
                        {ObserveEach(c, [i \in 1..n |-> ops[i].time], nows)}
  BY Zenon DEF LoopAgrees
<1>2. PICK k \in 1..n : now = nows[k]
  OBVIOUS
<1> HIDE DEF n
<1>3. LoopOf(c, n, [i \in 1..n |-> ops[i].time], nows, k, Times(new))
  BY <1>1, <1>2, LoopOfOperations DEF n
<1>4. LoopLeaves(c, [i \in 1..n |-> ops[i].time], nows, k, Times(new))
  BY <1>3, LoopIs, Zenon
<1> QED BY <1>2, <1>4, Zenon DEF LoopLeaves

\* In every state, the observe() calls of apply_operations come to what the model lets
\* the clock become, in whatever order operations come and however the wall clock
\* moves meanwhile: the loop never leaves the clock behind what it has been told.
THEOREM ObservedInAnyOrder == Spec => []ObserveLoop
<1>1. TypeOK => ObserveLoop
  BY LoopAlwaysAgrees DEF TypeOK, ObserveLoop
<1> QED BY <1>1, TypeCorrect, PTL

-----------------------------------------------------------------------------
\* Where an operation can be.
LEMMA EverywhereIs ==
    \A op : op \in Everywhere <=>
        \/ \E p \in Peer : op \in log[p] \/ op \in unsent[p] \/ op \in gossip[p]
        \/ \E m \in pulls : op \in m.ops
BY DEF Everywhere

LEMMA EverywhereNext ==
    \A op : op \in Everywhere' <=>
        \/ \E p \in Peer : op \in log'[p] \/ op \in unsent'[p] \/ op \in gossip'[p]
        \/ \E m \in pulls' : op \in m.ops
BY DEF Everywhere

LEMMA EverywhereType ==
    ASSUME TypeOK
    PROVE  Everywhere \subseteq Operation
BY EverywhereIs DEF TypeOK, Pull

\* A step that applies operations leaves the clock at or past all of them.
LEMMA ApplyAhead ==
    ASSUME TypeOK, ClockAhead, NEW p \in Peer, NEW ops \in SUBSET Everywhere,
           ApplyOperations(p, ops), edits' = edits
    PROVE  /\ \A q \in Peer : log[q] \subseteq log'[q] /\ log'[q] \subseteq log[q] \cup Everywhere
           /\ \A q \in Peer : \A op \in log'[q] : ~Earlier(clock'[q], op.time)
           /\ \A q \in Peer : clock'[q].logical <= edits'
<1>0. PICK now \in Time : \E c \in ObserveAll(clock[p], Times(ops), now) :
        clock' = [clock EXCEPT ![p] = c]
  BY DEF ApplyOperations
<1>1. PICK c \in ObserveAll(clock[p], Times(ops), now) : clock' = [clock EXCEPT ![p] = c]
  BY <1>0
<1>2. PICK all \in Applied(log[p], ops) : log' = [log EXCEPT ![p] = all]
  BY DEF ApplyOperations
<1>3. ops \subseteq Operation /\ log[p] \subseteq Operation
  BY EverywhereType DEF TypeOK
<1>4. Times(ops) \subseteq Clock
  BY <1>3, TimestampIsClock DEF Times, Operation
<1>5. clock[p] \in Clock /\ c \in Clock
  BY <1>4 DEF ObserveAll, Clock, TypeOK
<1>6. log[p] \subseteq all /\ all \subseteq log[p] \cup ops
  BY AppliedBetween
<1>7. \A op \in all : ~Earlier(c, op.time)
  <2>1. TAKE op \in all
  <2>2. CASE op \in ops
    BY <2>2 DEF ObserveAll, IsLatest, Times
  <2>3. CASE op \in log[p]
    <3>1. op.time \in Clock
      BY <1>3, <2>3, TimestampIsClock DEF Operation
    <3>2. ~Earlier(clock[p], op.time)
      BY <2>3 DEF ClockAhead
    <3>3. ~Earlier(c, clock[p])
      BY DEF ObserveAll, IsLatest
    <3> QED BY <1>5, <3>1, <3>2, <3>3, EarlierLinear
  <2> QED BY <1>6, <2>2, <2>3
<1>8. c.logical <= edits
  <2>1. CASE c \in Times(ops)
    BY <2>1 DEF Times, ClockAhead
  <2>2. CASE c = clock[p]
    BY <2>2 DEF ClockAhead
  <2>3. CASE c = [physical |-> now, logical |-> 0]
    BY <2>3 DEF TypeOK
  <2> QED BY <2>1, <2>2, <2>3 DEF ObserveAll
<1> QED BY <1>1, <1>2, <1>6, <1>7, <1>8 DEF TypeOK, ClockAhead

\* A step that makes no operation and keeps clocks ahead keeps the invariant.
LEMMA NothingNew ==
    ASSUME TypeOK, ClockAhead, IdsUnique, edits' = edits,
           \A q \in Peer : log[q] \subseteq log'[q],
           Everywhere' \subseteq Everywhere,
           \A q \in Peer : \A op \in log'[q] : ~Earlier(clock'[q], op.time),
           \A q \in Peer : clock'[q].logical <= edits'
    PROVE  ClockAhead' /\ IdsUnique'
<1>1. \A op \in Everywhere' : op \in log'[op.actor] /\ op.time.logical <= edits'
  BY EverywhereType DEF ClockAhead, Operation
<1> QED BY <1>1 DEF ClockAhead, IdsUnique

\* A new operation is ordered after all its author knows, and its id is new.
LEMMA EditStep ==
    ASSUME MaxEdits < Radix, TypeOK, ClockAhead, IdsUnique, NEW p \in Peer, Edit(p)
    PROVE  /\ ClockAhead' /\ IdsUnique'
           /\ \E op \in log'[p] \ log[p] :
                /\ op.edit = edits' /\ \A old \in log[p] : Precedes(old, op)
                /\ op \in Operation
                /\ \A old \in Everywhere : Id(old) # Id(op)
                /\ log' = [log EXCEPT ![p] = @ \cup {op}]
<1>1. PICK now \in Time :
        LET advanced == Advance(clock[p], now)
            op == [actor |-> p, time |-> Pack(advanced), edit |-> edits + 1]
        IN  /\ clock' = [clock EXCEPT ![p] = advanced]
            /\ \E ops \in Applied(log[p], {op}) : log' = [log EXCEPT ![p] = ops]
            /\ unsent' = [unsent EXCEPT ![p] = @ \cup {op}]
  BY DEF Edit
<1> DEFINE advanced == Advance(clock[p], now)
           op == [actor |-> p, time |-> Pack(advanced), edit |-> edits + 1]
<1>2. /\ edits' = edits + 1 /\ edits \in Nat /\ edits' <= MaxEdits
      /\ gossip' = gossip /\ pulls' = pulls
  BY SyncAssumption DEF Edit, TypeOK
<1>3. /\ advanced \in Clock
      /\ Earlier(clock[p], advanced)
      /\ advanced.logical <= edits'
  BY <1>2, AdvanceMoves DEF TypeOK, ClockAhead, Clock
<1>4. Pack(advanced) = advanced
  BY <1>2, <1>3, Masked, SyncAssumption, ClockAssumption DEF Pack, Clock
<1>5. \A old \in log[p] : old.time \in Clock /\ Earlier(old.time, op.time)
  <2>1. TAKE old \in log[p]
  <2>2. old.time \in Clock
    BY TimestampIsClock DEF TypeOK, Operation
  <2>3. clock[p] \in Clock /\ ~Earlier(clock[p], old.time)
    BY DEF TypeOK, ClockAhead
  <2> QED BY <1>3, <1>4, <2>2, <2>3, EarlierLinear
<1>6. op.time \in Clock /\ ~Earlier(op.time, op.time)
  BY <1>3, <1>4, EarlierLinear
<1>7. \A other \in Everywhere : Id(other) # Id(op)
  BY <1>5, <1>6 DEF ClockAhead, Id
<1>8. Applied(log[p], {op}) = {log[p] \cup {op}}
  <2>1. log[p] \subseteq Everywhere
    BY EverywhereIs
  <2>2. {new \in {op} : Id(new) \notin Ids(log[p])} = {op}
    BY <1>7, <2>1 DEF Ids
  <2> HIDE DEF op
  <2>3. Ids({op}) = {Id(op)} /\ Ids({}) = {}
    BY DEF Ids
  <2>4. {k \in SUBSET {op} : Ids(k) = Ids({op}) /\ \A b, c \in k : Id(b) = Id(c) => b = c}
            = {{op}}
    <3>1. \A k \in SUBSET {op} : k = {} \/ k = {op}
      OBVIOUS
    <3> QED BY <2>3, <3>1
  <2>5. Applied(log[p], {op}) = {log[p] \cup kept : kept \in {{op}}}
    BY <2>2, <2>4 DEF Applied
  <2> QED BY <2>5
<1>9. /\ clock' = [clock EXCEPT ![p] = advanced]
      /\ log' = [log EXCEPT ![p] = @ \cup {op}]
      /\ unsent' = [unsent EXCEPT ![p] = @ \cup {op}]
  BY <1>1, <1>8 DEF TypeOK
<1>10. Everywhere' \subseteq Everywhere \cup {op}
  <2> HIDE DEF op
  <2> QED BY <1>2, <1>9, EverywhereIs, EverywhereNext DEF TypeOK
<1>11. op \in log'[p] \ log[p] /\ op.edit = edits'
  <2>1. log[p] \subseteq Everywhere
    BY EverywhereIs
  <2> QED BY <1>2, <1>7, <1>9, <2>1 DEF TypeOK
<1>12. \A q \in Peer : log[q] \subseteq log'[q]
  BY <1>9 DEF TypeOK
<1>13. ClockAhead'
  <2>1. \A other \in Everywhere' :
            other \in log'[other.actor] /\ other.time.logical <= edits'
    <3>1. ASSUME NEW other \in Everywhere
          PROVE  other \in log'[other.actor] /\ other.time.logical <= edits'
      <4>1. other.actor \in Peer /\ other.time.logical \in Nat
        BY EverywhereType, ClockAssumption DEF Operation, Timestamp
      <4> QED BY <1>2, <1>12, <4>1 DEF ClockAhead
    <3>2. op \in log'[op.actor] /\ op.time.logical <= edits'
      BY <1>3, <1>4, <1>11
    <3> QED BY <1>10, <3>1, <3>2
  <2>2. \A q \in Peer : \A other \in log'[q] : ~Earlier(clock'[q], other.time)
    <3>1. TAKE q \in Peer
    <3>2. CASE q # p
      BY <1>9, <3>2 DEF TypeOK, ClockAhead
    <3>3. CASE q = p
      <4>1. ~Earlier(advanced, op.time)
        BY <1>4, <1>6
      <4>2. \A old \in log[p] : ~Earlier(advanced, old.time)
        BY <1>3, <1>4, <1>5, EarlierLinear
      <4> QED BY <1>9, <3>3, <4>1, <4>2 DEF TypeOK
    <3> QED BY <3>2, <3>3
  <2>3. \A q \in Peer : clock'[q].logical <= edits'
    BY <1>2, <1>3, <1>9 DEF TypeOK, ClockAhead, Clock
  <2> QED BY <2>1, <2>2, <2>3 DEF ClockAhead
<1>14. IdsUnique'
  BY <1>7, <1>10 DEF IdsUnique
<1>15. \A old \in log[p] : Precedes(old, op)
  BY <1>5 DEF Precedes
<1>16. op \in Operation
  <2>1. op.time \in Timestamp
    BY <1>3, <1>4, SyncAssumption, ClockAssumption, PackType
  <2>2. edits + 1 \in 1..MaxEdits
    BY <1>2, SyncAssumption
  <2> QED BY <2>1, <2>2 DEF Operation
<1> QED BY <1>7, <1>9, <1>11, <1>13, <1>14, <1>15, <1>16

\* Every step keeps the clocks ahead of the logs and the ids unique.
LEMMA AheadStep ==
    ASSUME MaxEdits < Radix, TypeOK, ClockAhead, IdsUnique, [Next]_vars
    PROVE  ClockAhead' /\ IdsUnique'
<1>1. ASSUME edits' = edits, log' = log, clock' = clock, Everywhere' \subseteq Everywhere
      PROVE  ClockAhead' /\ IdsUnique'
  BY <1>1, NothingNew DEF ClockAhead
<1>2. ASSUME NEW p \in Peer, NEW ops \in SUBSET Everywhere, ApplyOperations(p, ops),
             edits' = edits, unsent' = unsent,
             \A q \in Peer : gossip'[q] \subseteq gossip[q], pulls' \subseteq pulls
      PROVE  ClockAhead' /\ IdsUnique'
  <2>1. Everywhere' \subseteq Everywhere
    BY <1>2, ApplyAhead, EverywhereIs, EverywhereNext
  <2> QED BY <1>2, <2>1, ApplyAhead, NothingNew
<1>3. ASSUME NEW p \in Peer, Edit(p)
      PROVE  ClockAhead' /\ IdsUnique'
  BY <1>3, EditStep
<1>4. ASSUME NEW p \in Peer, Crash(p)
      PROVE  ClockAhead' /\ IdsUnique'
  <2>1. Everywhere' \subseteq Everywhere
    BY <1>4, EverywhereIs, EverywhereNext DEF Crash, TypeOK
  <2> QED BY <1>1, <1>4, <2>1 DEF Crash
<1>5. ASSUME NEW p \in Peer, NEW ops \in SUBSET unsent[p], Broadcast(p, ops)
      PROVE  ClockAhead' /\ IdsUnique'
  <2>1. Everywhere' \subseteq Everywhere
    BY <1>5, EverywhereIs, EverywhereNext DEF Broadcast, TypeOK
  <2> QED BY <1>1, <1>5, <2>1 DEF Broadcast
<1>6. ASSUME NEW p \in Peer, NEW ops \in SUBSET gossip[p], ApplyGossip(p, ops)
      PROVE  ClockAhead' /\ IdsUnique'
  <2>1. ops \in SUBSET Everywhere
    BY EverywhereIs
  <2> QED BY <1>2, <1>6, <2>1 DEF ApplyGossip, TypeOK
<1>7. ASSUME NEW p \in Peer, NEW q \in Peer, SyncTick(p, q) \/ Connect(p, q)
      PROVE  ClockAhead' /\ IdsUnique'
  <2>1. Everywhere' \subseteq Everywhere
    BY <1>7, EverywhereIs, EverywhereNext DEF SyncTick, Connect, SynchronizeWith
  <2> QED BY <1>1, <1>7, <2>1 DEF SyncTick, Connect
<1>8. ASSUME NEW p \in Peer, NEW q \in Peer, Disconnect(p, q)
      PROVE  ClockAhead' /\ IdsUnique'
  <2>1. Everywhere' \subseteq Everywhere
    BY <1>8, EverywhereIs, EverywhereNext DEF Disconnect
  <2> QED BY <1>1, <1>8, <2>1 DEF Disconnect
<1>9. ASSUME NEW m \in pulls, AnswerPull(m)
      PROVE  ClockAhead' /\ IdsUnique'
  <2>1. m.dst \in Peer
    BY DEF TypeOK, Pull
  <2> DEFINE answer == [m EXCEPT !.state = "answered", !.known = {},
                                 !.ops = OperationsMissingFrom(m.dst, m.known)]
  <2>2. answer.ops \subseteq log[m.dst]
    BY DEF TypeOK, Pull, OperationsMissingFrom
  <2>3. pulls' = (pulls \ {m}) \cup {answer}
    BY <1>9 DEF AnswerPull
  <2> HIDE DEF answer
  <2>4. Everywhere' \subseteq Everywhere
    BY <1>9, <2>1, <2>2, <2>3, EverywhereIs, EverywhereNext DEF AnswerPull
  <2> QED BY <1>1, <1>9, <2>4 DEF AnswerPull
<1>10. ASSUME NEW m \in pulls, MissingOperations(m)
       PROVE  ClockAhead' /\ IdsUnique'
  <2>1. m.src \in Peer /\ m.ops \in SUBSET Everywhere
    BY EverywhereIs DEF TypeOK, Pull
  <2>2. CASE m.ops = {}
    <3>1. Everywhere' \subseteq Everywhere
      BY <1>10, <2>2, EverywhereIs, EverywhereNext DEF MissingOperations
    <3> QED BY <1>1, <1>10, <2>2, <3>1 DEF MissingOperations
  <2>3. CASE m.ops # {}
    BY <1>2, <1>10, <2>1, <2>3 DEF MissingOperations
  <2> QED BY <2>2, <2>3
<1>11. ASSUME NEW m \in pulls, PullFailed(m)
       PROVE  ClockAhead' /\ IdsUnique'
  <2>1. Everywhere' \subseteq Everywhere
    BY <1>11, EverywhereIs, EverywhereNext DEF PullFailed
  <2> QED BY <1>1, <1>11, <2>1 DEF PullFailed
<1>12. CASE UNCHANGED vars
  <2>1. Everywhere' \subseteq Everywhere
    BY <1>12, EverywhereIs, EverywhereNext DEF vars
  <2> QED BY <1>1, <1>12, <2>1 DEF vars
<1> QED BY <1>3, <1>4, <1>5, <1>6, <1>7, <1>8, <1>9, <1>10, <1>11, <1>12
      DEF Next, PullStep

LEMMA AheadInvariant ==
    ASSUME MaxEdits < Radix
    PROVE  Spec => [](ClockAhead /\ IdsUnique)
<1>1. Init => ClockAhead /\ IdsUnique
  BY EverywhereIs DEF Init, ClockAhead, IdsUnique, NewClock
<1>2. TypeOK /\ ClockAhead /\ IdsUnique /\ [Next]_vars => ClockAhead' /\ IdsUnique'
  BY AheadStep
<1> QED BY <1>1, <1>2, TypeCorrect, PTL DEF Spec

\* With fewer edits than the counter has values, no two operations anywhere
\* share an id, whatever the wall clocks show: pulls never take one operation
\* for another.
THEOREM UniqueIds ==
    ASSUME MaxEdits < Radix
    PROVE  Spec => []IdsUnique
BY AheadInvariant, PTL

\* Under the same bound, no clock falls behind the operations its peer knows.
THEOREM ClocksAhead ==
    ASSUME MaxEdits < Radix
    PROVE  Spec => []ClockAhead
BY AheadInvariant, PTL

\* Under the same bound, every edit is the latest operation its author knows,
\* so the tree never discards what the user has just been told was done.
THEOREM EditsStick ==
    ASSUME MaxEdits < Radix
    PROVE  Spec => EditsTakeEffect
<1> DEFINE Sticks == edits' # edits =>
        \E p \in Peer : \E op \in log'[p] \ log[p] :
            op.edit = edits' /\ \A old \in log[p] : Precedes(old, op)
<1>1. TypeOK /\ ClockAhead /\ IdsUnique /\ [Next]_vars => Sticks
  <2> SUFFICES ASSUME TypeOK, ClockAhead, IdsUnique, [Next]_vars, edits' # edits
               PROVE  \E p \in Peer : \E op \in log'[p] \ log[p] :
                        op.edit = edits' /\ \A old \in log[p] : Precedes(old, op)
    OBVIOUS
  <2>1. PICK p \in Peer : Edit(p)
    BY DEF Next, vars, Crash, Broadcast, ApplyGossip, SyncTick, Connect, Disconnect,
           PullStep, AnswerPull, MissingOperations, PullFailed
  <2> QED BY <2>1, EditStep
<1> HIDE DEF Sticks
<1>2. TypeOK /\ ClockAhead /\ IdsUnique /\ [Next]_vars => [Sticks]_vars
  BY <1>1
<1>3. Spec => [][Sticks]_vars
  BY <1>2, TypeCorrect, AheadInvariant, PTL DEF Spec
<1> QED BY <1>3 DEF Sticks, EditsTakeEffect

-----------------------------------------------------------------------------
\* Timestamps of different ids are ordered one way or the other.
LEMMA PrecedesTotal ==
    ASSUME NEW a \in Operation, NEW b \in Operation, Id(a) # Id(b)
    PROVE  Precedes(a, b) \/ Precedes(b, a)
<1>1. /\ a.actor \in Peer /\ b.actor \in Peer
      /\ a.time \in Timestamp /\ b.time \in Timestamp
  BY DEF Operation
<1>2. CASE a.time = b.time
  <2>1. a.actor # b.actor
    BY <1>2 DEF Id
  <2>2. PeerBytes[a.actor] < PeerBytes[b.actor] \/ PeerBytes[b.actor] < PeerBytes[a.actor]
    BY <1>1, <2>1, SyncAssumption
  <2> QED BY <1>2, <2>2 DEF Precedes
<1>3. CASE a.time # b.time
  BY <1>1, <1>3, ClockAssumption DEF Precedes, Earlier, Timestamp, Time
<1> QED BY <1>2, <1>3

\* Operations that come over the network are in their authors' logs.
LEMMA ApplyLearns ==
    ASSUME TypeOK, ClockAhead, NEW p \in Peer, NEW ops \in SUBSET Everywhere,
           ApplyOperations(p, ops)
    PROVE  Abstract!Step(p)
<1>1. PICK all \in Applied(log[p], ops) : log' = [log EXCEPT ![p] = all]
  BY DEF ApplyOperations
<1>2. log[p] \subseteq all /\ all \subseteq log[p] \cup ops
  BY AppliedBetween
<1>3. log'[p] = all /\ all = log[p] \cup (log'[p] \ log[p])
  BY <1>1, <1>2 DEF TypeOK
<1>4. \A op \in ops : \E q \in Peer : op \in log[q]
  BY EverywhereType DEF ClockAhead, Operation
<1>5. log'[p] \ log[p] \subseteq Abstract!Known
  BY <1>2, <1>3, <1>4 DEF Abstract!Known
<1>6. log' = [log EXCEPT ![p] = @ \cup (log'[p] \ log[p])]
  BY <1>1, <1>3 DEF TypeOK
<1> QED BY <1>5, <1>6 DEF Abstract!Step, Abstract!Learn

\* An edit makes one operation.
LEMMA EditMakes ==
    ASSUME MaxEdits < Radix, TypeOK, ClockAhead, IdsUnique, NEW p \in Peer, Edit(p)
    PROVE  Abstract!Step(p)
<1>1. PICK op \in log'[p] \ log[p] :
        /\ \A old \in log[p] : Precedes(old, op)
        /\ op \in Operation
        /\ \A old \in Everywhere : Id(old) # Id(op)
        /\ log' = [log EXCEPT ![p] = @ \cup {op}]
  BY EditStep
<1>2. \A old \in Abstract!Known : Precedes(old, op) \/ Precedes(op, old)
  <2>1. TAKE old \in Abstract!Known
  <2>2. old \in Everywhere
    BY EverywhereIs DEF Abstract!Known
  <2>3. old \in Operation
    BY <2>2, EverywhereType
  <2> QED BY <1>1, <2>2, <2>3, PrecedesTotal
<1>3. Abstract!Make(p, op)
  BY <1>1, <1>2 DEF Abstract!Make
<1> QED BY <1>1, <1>3 DEF Abstract!Step

\* Under the same bound, logs change as ReplicatedLog says, whatever the wall
\* clocks show and the network loses: what FileTree assumes of gossip, pulls
\* and clocks is what they do.
THEOREM SyncRefines ==
    ASSUME MaxEdits < Radix
    PROVE  Spec => ImplementsReplicatedLog
<1>1. Init => Abstract!LogInit
  BY DEF Init, Abstract!LogInit
<1>2. TypeOK /\ ClockAhead /\ IdsUnique /\ [Next]_vars
        => [\E p \in Peer : Abstract!Step(p)]_log
  <2> SUFFICES ASSUME TypeOK, ClockAhead, IdsUnique, [Next]_vars, log' # log
               PROVE  \E p \in Peer : Abstract!Step(p)
    OBVIOUS
  <2>1. CASE \E p \in Peer : Edit(p)
    BY <2>1, EditMakes
  <2>2. ASSUME NEW p \in Peer, NEW ops \in SUBSET gossip[p], ApplyGossip(p, ops)
        PROVE  Abstract!Step(p)
    <3>1. ops \in SUBSET Everywhere
      BY EverywhereIs
    <3> QED BY <2>2, <3>1, ApplyLearns DEF ApplyGossip
  <2>3. ASSUME NEW m \in pulls, MissingOperations(m)
        PROVE  \E p \in Peer : Abstract!Step(p)
    <3>1. m.src \in Peer /\ m.ops \in SUBSET Everywhere
      BY EverywhereIs DEF TypeOK, Pull
    <3> QED BY <2>3, <3>1, ApplyLearns DEF MissingOperations
  <2> QED BY <2>1, <2>2, <2>3 DEF Next, vars, Crash, Broadcast, SyncTick, Connect,
              Disconnect, PullStep, AnswerPull, PullFailed
<1> QED BY <1>1, <1>2, TypeCorrect, AheadInvariant, PTL
        DEF Spec, ImplementsReplicatedLog, Abstract!LogSpec

===========================================================================
