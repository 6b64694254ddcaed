--------------------------- MODULE TapTempoProofs ---------------------------
(***************************************************************************)
(* Theorems about TapTempo, for every set of pauses and any number of      *)
(* events.                                                                 *)
(***************************************************************************)
EXTENDS TapTempo, TLAPS

LEMMA QuotientIsNat ==
  ASSUME NEW a \in Nat, NEW b \in Nat
  PROVE  Quotient(a, b) \in Nat
  BY DEF Quotient

\* calc_bpm clamps whatever the division yields, so that the tempo is in
\* range even for taps too close to measure.
LEMMA BpmInRange ==
  ASSUME NEW delta_us \in Nat, NEW intervals \in Nat
  PROVE  calc_bpm(delta_us, intervals) \in TAP_MIN_BPM .. TAP_MAX_BPM
<1> DEFINE delta_ms == (delta_us + 500) \div 1000
           bpm == Quotient(60000 * intervals + delta_ms \div 2, delta_ms)
<1>1. delta_ms \in Nat
  OBVIOUS
<1>2. 60000 * intervals + delta_ms \div 2 \in Nat
  BY <1>1
<1>3. bpm \in Nat
  BY <1>1, <1>2, QuotientIsNat
<1>4. Clamp(bpm) \in TAP_MIN_BPM .. TAP_MAX_BPM
  BY <1>3 DEF Clamp, TAP_MIN_BPM, TAP_MAX_BPM
<1> QED
  BY <1>4 DEF calc_bpm, TAP_MIN_BPM, TAP_MAX_BPM

\* RunIsPaced says nothing of the past of an empty run, and needs no more than
\* the shape of the state to be inductive.
IInv == TypeOK /\ RunIsPaced

LEMMA TapInit == Init => IInv
  BY TapAssumption DEF Init, IInv, TypeOK, RunIsPaced, TAP_MAX_TAPS, TAP_MIN_BPM, TAP_MAX_BPM, Results

LEMMA TapStep == IInv /\ [Next]_vars => IInv'
<1> SUFFICES ASSUME IInv, [Next]_vars
             PROVE  IInv'
  OBVIOUS
<1> USE DEF IInv
<1>1. CASE UNCHANGED vars
  BY <1>1 DEF vars, ctxVars, TypeOK, RunIsPaced
<1>2. ASSUME Next
      PROVE  IInv'
  <2>1. PICK d \in Pauses, ev \in Events :
          now' = now + d /\ taptempo_handle_event(ev, now + d)
    BY <1>2 DEF Next
  <2>2. now' \in Nat /\ now <= now' /\ handled' \in Nat
    BY <1>2, <2>1, TapAssumption DEF Next, TypeOK
  <2>3. CASE UNCHANGED <<stamp, count>> /\ latest_bpm' = latest_bpm
             /\ state' \in {"TT_IDLE", "TT_COLLECT"} /\ result' \in Results
    BY <2>2, <2>3 DEF TypeOK, RunIsPaced, TAP_MAX_TAPS
  <2>4. CASE Exit(ev)
    BY <2>3, <2>4 DEF Exit, Results
  <2>5. CASE OpenRun(ev, now + d)
    <3>1. stamp' \in [0 .. TAP_MAX_TAPS - 1 -> Nat] /\ count' = 0
      BY <2>1, <2>2, <2>5 DEF OpenRun, TypeOK
    <3> QED
      BY <2>2, <2>5, <3>1 DEF OpenRun, TypeOK, RunIsPaced, TAP_MAX_TAPS, Results
  <2>6. CASE Timeout(ev, now + d)
    BY <2>2, <2>6 DEF Timeout, TypeOK, RunIsPaced, TAP_MAX_TAPS, Results
  <2>7. CASE Tap(ev, now + d)
    <3>1. /\ stamp' = [stamp EXCEPT ![count] = now']
          /\ count' = IF count + 1 = TAP_MAX_TAPS THEN 0 ELSE count + 1
          /\ count > 0 => now' - stamp[count - 1] <= TIMEOUT_US
      BY <2>1, <2>2, <2>7 DEF Tap, Expired, TypeOK, TAP_MAX_TAPS, TIMEOUT_US
    <3>2. count' \in 0 .. TAP_MAX_TAPS - 1 /\ stamp' \in [0 .. TAP_MAX_TAPS - 1 -> Nat]
      BY <2>2, <3>1 DEF TypeOK, TAP_MAX_TAPS
    <3>3. stamp'[0] \in Nat /\ stamp'[0] <= now'
      <4>1. CASE count = 0
        BY <2>2, <3>1, <4>1 DEF TypeOK, TAP_MAX_TAPS
      <4>2. CASE count # 0
        BY <2>2, <3>1, <4>2 DEF TypeOK, TAP_MAX_TAPS, RunIsPaced
      <4> QED
        BY <4>1, <4>2
    <3>4. latest_bpm' \in TAP_MIN_BPM .. TAP_MAX_BPM
      <4>1. CASE count + 1 < 2
        BY <2>7, <4>1 DEF Tap, TypeOK
      <4>2. CASE count + 1 >= 2
        <5>1. now' - stamp'[0] \in Nat /\ count + 1 - 1 \in Nat
          BY <2>2, <3>3 DEF TypeOK
        <5>2. latest_bpm' = calc_bpm(now' - stamp'[0], count + 1 - 1)
          BY <2>1, <2>7, <4>2 DEF Tap, TypeOK
        <5> QED
          BY <5>1, <5>2, BpmInRange
      <4> QED
        BY <4>1, <4>2 DEF TypeOK
    <3>5. \A i \in 0 .. count' - 1 : stamp'[i] <= now'
      BY <2>2, <3>1 DEF TypeOK, TAP_MAX_TAPS, RunIsPaced
    <3>6. \A i \in 0 .. count' - 2 :
            stamp'[i] <= stamp'[i + 1] /\ stamp'[i + 1] - stamp'[i] <= TIMEOUT_US
      <4> SUFFICES ASSUME NEW i \in 0 .. count' - 2
                   PROVE  stamp'[i] <= stamp'[i + 1] /\ stamp'[i + 1] - stamp'[i] <= TIMEOUT_US
        OBVIOUS
      <4>1. count' = count + 1 /\ i \in 0 .. count - 1
        BY <3>1, <3>2 DEF TypeOK, TAP_MAX_TAPS
      <4>2. CASE i = count - 1
        BY <2>2, <3>1, <4>1, <4>2 DEF TypeOK, TAP_MAX_TAPS, RunIsPaced, TIMEOUT_US
      <4>3. CASE i # count - 1
        BY <2>2, <3>1, <4>1, <4>3 DEF TypeOK, TAP_MAX_TAPS, RunIsPaced
      <4> QED
        BY <4>2, <4>3
    <3> QED
      BY <2>2, <2>7, <3>2, <3>4, <3>5, <3>6 DEF Tap, TypeOK, RunIsPaced, Results
  <2>8. CASE Ignore(ev, now + d)
    BY <2>3, <2>8 DEF Ignore, ctxVars, TypeOK, Results
  <2> QED
    BY <2>1, <2>4, <2>5, <2>6, <2>7, <2>8 DEF taptempo_handle_event
<1> QED
  BY <1>1, <1>2

\* The machine keeps its shape, and the tempo the range of 40 to 240.
THEOREM TapTempoTypeOK == Spec => []TypeOK
<1>1. IInv => TypeOK
  BY DEF IInv
<1> QED
  BY <1>1, TapInit, TapStep, PTL DEF Spec

\* However long the musician pauses between events, no tempo is computed over
\* a run of taps with more than the timeout between two neighbours.
THEOREM RunsArePaced == Spec => []RunIsPaced
<1>1. IInv => RunIsPaced
  BY DEF IInv
<1> QED
  BY <1>1, TapInit, TapStep, PTL DEF Spec

-----------------------------------------------------------------------------
(* No slow tempo: taps in time are at most a second apart.                 *)

LEMMA QuotientAtLeast ==
  ASSUME NEW a \in Nat, NEW b \in Nat \ {0}, NEW q \in Nat, a >= q * b
  PROVE  a \div b >= q
<1>1. a \div b \in Nat /\ a < b * (a \div b) + b
  OBVIOUS
<1> QED
  BY <1>1

\* Taps a second apart or closer, whose distance does not round to nothing.
LEMMA BpmAtLeast60 ==
  ASSUME NEW intervals \in 1 .. 3, NEW delta_us \in Nat,
         500 <= delta_us, delta_us <= intervals * TIMEOUT_US
  PROVE  calc_bpm(delta_us, intervals) >= 60
<1> DEFINE delta_ms == (delta_us + 500) \div 1000
           a == 60000 * intervals + delta_ms \div 2
<1>1. delta_ms \in Nat \ {0} /\ delta_ms <= 1000 * intervals
  BY DEF TIMEOUT_US
<1>2. a \in Nat /\ a >= 60 * delta_ms
  BY <1>1
<1> HIDE DEF delta_ms, a
<1>3. a \div delta_ms \in Nat /\ a \div delta_ms >= 60
  BY <1>1, <1>2, QuotientAtLeast
<1>4. Clamp(Quotient(a, delta_ms)) >= 60
  BY <1>1, <1>3 DEF Clamp, Quotient, TAP_MIN_BPM, TAP_MAX_BPM
<1> QED
  BY <1>4 DEF calc_bpm, delta_ms, a

\* In a run the last tap lies at most one timeout per interval behind the first.
LEMMA RunSpan ==
  ASSUME TypeOK, RunIsPaced, count > 0
  PROVE  stamp[count - 1] - stamp[0] <= (count - 1) * TIMEOUT_US
<1> USE DEF TypeOK, RunIsPaced, TAP_MAX_TAPS, TIMEOUT_US
<1>1. CASE count = 1
  BY <1>1
<1>2. CASE count = 2
  BY <1>2
<1>3. CASE count = 3
  <2>1. stamp[1] - stamp[0] <= TIMEOUT_US
    BY <1>3
  <2>2. stamp[2] - stamp[1] <= TIMEOUT_US
    BY <1>3
  <2> QED
    BY <1>3, <2>1, <2>2
<1> QED
  BY <1>1, <1>2, <1>3

\* One more tap in time, b the last one and t the new one.
LEMMA SpanGrows ==
  ASSUME NEW intervals \in 1 .. 3, NEW a \in Nat, NEW b \in Nat, NEW t \in Nat,
         b - a <= (intervals - 1) * TIMEOUT_US, t - b <= TIMEOUT_US
  PROVE  t - a <= intervals * TIMEOUT_US
<1>1. TIMEOUT_US \in Nat
  BY DEF TIMEOUT_US
<1>2. (intervals - 1) * TIMEOUT_US + TIMEOUT_US = intervals * TIMEOUT_US
  BY <1>1
<1> QED
  BY <1>1, <1>2

\* The lower clamp of 40 is met only by taps too close to measure: whatever
\* the pauses, taps in time give 60 or more.
THEOREM NoSlowTempo == Spec => SlowTempoUnreachable
<1>1. ASSUME IInv, Next
      PROVE  TapsFast
  <2>1. PICK d \in Pauses, ev \in Events :
          now' = now + d /\ taptempo_handle_event(ev, now + d)
    BY <1>1 DEF Next
  <2>2. now \in Nat /\ now' \in Nat /\ now <= now'
    BY <1>1, <2>1, TapAssumption DEF IInv, TypeOK
  <2>3. CASE Tap(ev, now + d)
    <3>1. CASE count + 1 < 2
      BY <1>1, <2>3, <3>1 DEF Tap, IInv, TypeOK, TapsFast
    <3>2. CASE count + 1 >= 2 /\ 500 <= now' - stamp'[0]
      <4>1. count \in 1 .. 3
        BY <1>1, <3>2 DEF IInv, TypeOK, TAP_MAX_TAPS
      <4>2. stamp' = [stamp EXCEPT ![count] = now'] /\ now' - stamp[count - 1] <= TIMEOUT_US
        BY <1>1, <2>1, <2>2, <2>3, <4>1 DEF Tap, Expired, IInv, TypeOK, TAP_MAX_TAPS, TIMEOUT_US
      <4>3. /\ stamp'[0] = stamp[0] /\ stamp[0] \in Nat
            /\ stamp[count - 1] \in Nat /\ stamp[count - 1] <= now
        BY <1>1, <4>1, <4>2 DEF IInv, TypeOK, TAP_MAX_TAPS, RunIsPaced
      <4>4. stamp[count - 1] - stamp[0] <= (count - 1) * TIMEOUT_US
        BY <1>1, <4>1, RunSpan DEF IInv
      <4>5. now' - stamp'[0] \in Nat /\ now' - stamp'[0] <= count * TIMEOUT_US
        <5>1. now' - stamp[0] <= count * TIMEOUT_US
          BY <2>2, <4>1, <4>2, <4>3, <4>4, SpanGrows
        <5>2. now' - stamp[0] \in Nat
          BY <2>2, <3>2, <4>3
        <5> QED
          BY <4>3, <5>1, <5>2
      <4>6. latest_bpm' = calc_bpm(now' - stamp'[0], count)
        BY <2>1, <2>3, <4>1 DEF Tap
      <4>7. latest_bpm' >= 60
        BY <3>2, <4>1, <4>5, <4>6, BpmAtLeast60
      <4> QED
        BY <4>7 DEF TapsFast
    <3>3. CASE ~(500 <= now' - stamp'[0])
      <4>1. stamp' \in [0 .. TAP_MAX_TAPS - 1 -> Nat]
        BY <1>1, TapStep DEF IInv, TypeOK
      <4> QED
        BY <2>2, <3>3, <4>1 DEF TAP_MAX_TAPS, TapsFast
    <3> QED
      BY <1>1, <3>1, <3>2, <3>3 DEF IInv, TypeOK, TapsFast
  <2>4. CASE Exit(ev) \/ OpenRun(ev, now + d) \/ Timeout(ev, now + d) \/ Ignore(ev, now + d)
    BY <2>4 DEF Exit, OpenRun, Timeout, Ignore, TapsFast
  <2> QED
    BY <2>1, <2>3, <2>4 DEF taptempo_handle_event
<1>2. IInv /\ [Next]_vars => [TapsFast]_vars
  BY <1>1
<1> QED
  BY <1>2, TapInit, TapStep, PTL DEF Spec, SlowTempoUnreachable

-----------------------------------------------------------------------------
(* Accuracy.  The distance is rounded to milliseconds, the quotient to a    *)
(* beat per minute, and both are integers: the two errors together stay     *)
(* within one beat.  Tempi are compared as beats times delta_us.            *)

LEMMA QuotientBounds ==
  ASSUME NEW a \in Nat, NEW b \in Nat \ {0}
  PROVE  /\ a \div b \in Nat
         /\ (a \div b) * b <= a /\ a < (a \div b) * b + b
OBVIOUS

\* What rounding the distance to milliseconds does to a tempo of bpm.
LEMMA RoundedToMillis ==
  ASSUME NEW delta_us \in Nat, NEW m \in Nat, NEW bpm \in Nat,
         1000 * m <= delta_us + 500, delta_us + 500 <= 1000 * m + 999
  PROVE  /\ bpm * delta_us <= 1000 * (bpm * m) + 499 * bpm
         /\ 1000 * (bpm * m) <= bpm * delta_us + 500 * bpm
<1>1. bpm * delta_us <= 1000 * (bpm * m) + 499 * bpm
  <2>1. delta_us <= 1000 * m + 499
    OBVIOUS
  <2>2. bpm * delta_us <= bpm * (1000 * m + 499)
    BY <2>1
  <2>3. bpm * (1000 * m + 499) = 1000 * (bpm * m) + 499 * bpm
    OBVIOUS
  <2> QED
    BY <2>2, <2>3
<1>2. 1000 * (bpm * m) <= bpm * delta_us + 500 * bpm
  <2>1. bpm * (1000 * m) <= bpm * (delta_us + 500)
    OBVIOUS
  <2>2. bpm * (1000 * m) = 1000 * (bpm * m) /\ bpm * (delta_us + 500) = bpm * delta_us + 500 * bpm
    OBVIOUS
  <2> QED
    BY <2>1, <2>2
<1> QED
  BY <1>1, <1>2

\* A tempo in range needs more milliseconds than it has beats.
LEMMA BeatsBelowMillis ==
  ASSUME NEW n \in Nat \ {0}, NEW m \in Nat, NEW bpm \in Nat, NEW h \in Nat,
         2 * h <= m, bpm * m <= 60000 * n + h, 249 * n < m
  PROVE  bpm <= 241
<1>1. SUFFICES ASSUME 242 <= bpm PROVE FALSE
  OBVIOUS
<1>2. 242 * m <= bpm * m
  BY <1>1
<1> DEFINE p == bpm * m
<1>3. p \in Nat /\ 242 * m <= p /\ p <= 60000 * n + h
  BY <1>2
<1> HIDE DEF p
<1> QED
  BY <1>3

\* Taps of a tempo in range give that tempo, within one beat per minute.
THEOREM TempoIsNear ==
  ASSUME NEW delta_us \in Nat \ {0}, NEW intervals \in Nat \ {0},
         TAP_MIN_BPM * delta_us <= Exact(intervals),
         Exact(intervals) <= TAP_MAX_BPM * delta_us
  PROVE  Near(calc_bpm(delta_us, intervals), delta_us, intervals)
<1> DEFINE m == (delta_us + 500) \div 1000
           h == m \div 2
           a == 60000 * intervals + h
           bpm == a \div m
<1>1. m \in Nat /\ 1000 * m <= delta_us + 500 /\ delta_us + 500 <= 1000 * m + 999
  OBVIOUS
<1>2. 249 * intervals < m
  <2>1. 60000000 * intervals <= 240 * delta_us
    BY DEF Exact, TAP_MAX_BPM
  <2> HIDE DEF m
  <2> QED
    BY <1>1, <2>1
<1>3. h \in Nat /\ 2 * h <= m /\ m <= 2 * h + 1
  BY <1>1
<1>4. bpm \in Nat /\ bpm * m <= a /\ a < bpm * m + m
  <2>1. m \in Nat \ {0} /\ a \in Nat
    BY <1>1, <1>2, <1>3
  <2> HIDE DEF m, h, a
  <2> QED
    BY <2>1, QuotientBounds
<1>5. calc_bpm(delta_us, intervals) = Clamp(bpm)
  BY <1>2 DEF calc_bpm, Quotient
<1> HIDE DEF m, h, bpm
<1>6. bpm <= 241
  BY <1>1, <1>2, <1>3, <1>4, BeatsBelowMillis
<1>7. bpm < m
  BY <1>1, <1>2, <1>4, <1>6
<1> USE DEF Near
<1>8. /\ bpm * delta_us <= Exact(intervals) + delta_us
      /\ Exact(intervals) <= bpm * delta_us + delta_us
  <2> DEFINE p == bpm * m
             q == bpm * delta_us
  <2>1. q <= 1000 * p + 499 * bpm /\ 1000 * p <= q + 500 * bpm
    BY <1>1, <1>4, RoundedToMillis
  <2>2. p \in Nat /\ q \in Nat /\ p <= 60000 * intervals + h /\ 60000 * intervals + h < p + m
    BY <1>1, <1>4
  <2> HIDE DEF p, q
  <2>3. q <= 60000000 * intervals + delta_us /\ 60000000 * intervals <= q + delta_us
    BY <1>1, <1>3, <1>4, <1>7, <2>1, <2>2
  <2> QED
    BY <2>3 DEF Exact, q
<1>9. CASE bpm < TAP_MIN_BPM
  <2>1. Clamp(bpm) = 40
    <3>1. bpm \in Nat /\ bpm < 40
      BY <1>4, <1>9 DEF TAP_MIN_BPM
    <3> QED
      BY ONLY <3>1 DEF Clamp, TAP_MIN_BPM, TAP_MAX_BPM
  <2>2. bpm * delta_us <= 39 * delta_us
    BY <1>4, <1>9 DEF TAP_MIN_BPM
  <2> QED
    BY <1>4, <1>5, <1>8, <2>1, <2>2 DEF TAP_MIN_BPM, Exact
<1>10. CASE bpm > TAP_MAX_BPM
  <2>1. Clamp(bpm) = 240
    BY <1>4, <1>10 DEF Clamp, TAP_MIN_BPM, TAP_MAX_BPM
  <2>2. bpm = 241
    BY <1>4, <1>6, <1>10 DEF TAP_MAX_BPM
  <2> QED
    BY <1>5, <1>8, <2>1, <2>2 DEF TAP_MAX_BPM, Exact
<1>11. CASE bpm \in TAP_MIN_BPM .. TAP_MAX_BPM
  BY <1>5, <1>8, <1>11 DEF Clamp, TAP_MIN_BPM, TAP_MAX_BPM
<1> QED
  BY <1>4, <1>9, <1>10, <1>11 DEF TAP_MIN_BPM, TAP_MAX_BPM

\* Whenever taps yield a tempo, the one kept is that of the taps: the intervals
\* counted are those between the stamps of the run, and calc_bpm rounds by
\* less than a beat.
THEOREM TempoMeasured == Spec => TempoIsTapped
<1>1. ASSUME IInv, Next
      PROVE  TapsMeasured
  <2>1. PICK d \in Pauses, ev \in Events :
          now' = now + d /\ taptempo_handle_event(ev, now + d)
    BY <1>1 DEF Next
  <2> DEFINE delta_us == now' - stamp'[0]
  <2>2. SUFFICES ASSUME result' \in {"TAP_PRELIM", "TAP_FINAL"},
                        TAP_MIN_BPM * delta_us <= Exact(count),
                        Exact(count) <= TAP_MAX_BPM * delta_us
                 PROVE  Near(latest_bpm', delta_us, count)
    BY DEF TapsMeasured
  <2>3. Tap(ev, now + d)
    BY <2>1, <2>2 DEF taptempo_handle_event, Exit, OpenRun, Timeout, Ignore
  <2>4. count \in Nat \ {0} /\ count + 1 - 1 = count
    BY <1>1, <2>2, <2>3 DEF Tap, IInv, TypeOK, TAP_MAX_TAPS
  <2>5. latest_bpm' = calc_bpm(delta_us, count)
    BY <2>1, <2>3, <2>4 DEF Tap
  <2>6. delta_us \in Int
    BY <1>1, TapStep DEF IInv, TypeOK, TAP_MAX_TAPS
  <2>7. delta_us \in Nat \ {0}
    BY <2>2, <2>4, <2>6 DEF Exact, TAP_MAX_BPM
  <2> QED
    BY <2>2, <2>4, <2>5, <2>7, TempoIsNear
<1>2. IInv /\ [Next]_vars => [TapsMeasured]_vars
  BY <1>1
<1> QED
  BY <1>2, TapInit, TapStep, PTL DEF Spec, TempoIsTapped
=============================================================================
