------------------------ MODULE HybridLogicalClock ------------------------
(***************************************************************************)
(* The clock that orders tree operations (src/filesystem/tree/hlc.rs).     *)
(*                                                                         *)
(* A timestamp is a 64-bit word, milliseconds in the upper bits and a      *)
(* counter in the lower LOGICAL_BITS.  Shifting and masking take it apart  *)
(* without loss, so here it is the pair; what pack() loses is everything   *)
(* of the clock's own counter beyond those bits.                           *)
(***************************************************************************)
EXTENDS Naturals, Sequences

CONSTANTS
    Radix,      \* 2^LOGICAL_BITS
    MaxTime     \* model bound: milliseconds any node's wall clock shows

ASSUME ClockAssumption ==
    /\ Radix \in Nat \ {0}
    /\ MaxTime \in Nat

Time == 0..MaxTime
Timestamp == [physical : Time, logical : 0..(Radix - 1)]
Clock == [physical : Time, logical : Nat]

NewClock == [physical |-> 0, logical |-> 0]

\* pack().
Pack(c) == [physical |-> c.physical, logical |-> c.logical % Radix]

(***************************************************************************)
(* Definitions called mutants, here and below, are plausible mistakes: no  *)
(* definition uses them, and each would break a property if it took the    *)
(* place of the next one.                                                  *)
(***************************************************************************)

\* next(), before it packs the result; the mutant starts the counter again
\* within the same millisecond.
AdvanceEagerly(c, now) ==
    IF now >= c.physical
    THEN [physical |-> now, logical |-> 0]
    ELSE [c EXCEPT !.logical = @ + 1]

Advance(c, now) ==
    IF now > c.physical
    THEN [physical |-> now, logical |-> 0]
    ELSE [c EXCEPT !.logical = @ + 1]

Later(m, n) == IF m > n THEN m ELSE n

\* observe() of a remote timestamp t; the mutant ignores its counter.
ObserveMillis(c, t, now) ==
    LET physical == Later(Later(now, c.physical), t.physical)
    IN  [physical |-> physical, logical |-> IF physical = c.physical THEN c.logical ELSE 0]

Observe(c, t, now) ==
    LET physical == Later(Later(now, c.physical), t.physical)
        logical == IF physical = c.physical
                   THEN IF physical = t.physical THEN Later(c.logical, t.logical) ELSE c.logical
                   ELSE IF physical = t.physical THEN t.logical ELSE 0
    IN  [physical |-> physical, logical |-> logical]

\* The order of timestamps as words.
Earlier(s, t) ==
    \/ s.physical < t.physical
    \/ s.physical = t.physical /\ s.logical < t.logical

\* c is the latest of the clocks and timestamps in S.
IsLatest(c, S) == c \in S /\ \A t \in S : ~Earlier(c, t)

\* The clocks that observing every timestamp in S, one after the other, may
\* leave.  The mutants observe nothing, or nothing but milliseconds.
ObserveNone(c, S, now) == {c}

ObserveAllMillis(c, S, now) ==
    {[physical |-> t.physical, logical |-> IF t.physical = c.physical THEN c.logical ELSE 0] :
        t \in {t \in S \cup {c} : \A u \in S \cup {c} : t.physical >= u.physical}}

ObserveAll(c, S, now) ==
    LET seen == S \cup {c, [physical |-> now, logical |-> 0]}
    IN  {latest \in seen : IsLatest(latest, seen)}

\* What the loop itself leaves: observe() of times[i] when the wall clock shows
\* nows[i].
ObserveEach(c, times, nows) ==
    LET after[i \in 0..Len(times)] ==
            IF i = 0 THEN c ELSE Observe(after[i - 1], times[i], nows[i])
    IN  after[Len(times)]

===========================================================================
