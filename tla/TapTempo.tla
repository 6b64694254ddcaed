------------------------------ MODULE TapTempo ------------------------------
(***************************************************************************)
(* tap_tempo.c: the state machine that turns button clicks into a tempo.   *)
(* Times are microseconds since boot; the clock moves between events by    *)
(* one of the amounts in Pauses.                                           *)
(***************************************************************************)
EXTENDS Integers

CONSTANTS
  Pauses,     \* microseconds that may pass between two events
  MaxEvents   \* bound: events handled

ASSUME TapAssumption == Pauses \subseteq Nat /\ MaxEvents \in Nat

TAP_MIN_BPM  == 40
TAP_MAX_BPM  == 240
TAP_MAX_TAPS == 4
TIMEOUT_US   == 1000000

Events == {"CLICK_BEGIN", "CLICK_RELEASE", "HOLD_RELEASE",
           "LONG_HOLD_RELEASE", "VERY_LONG_HOLD_RELEASE"}
Results == {"TAP_NONE", "TAP_PRELIM", "TAP_FINAL", "TAP_EXIT"}

VARIABLES
  state,       \* TT_IDLE or TT_COLLECT
  stamp,       \* times of the taps of the current run, indexed from 0
  count,       \* taps of the current run that have a stamp
  latest_bpm,  \* what taptempo_get_bpm returns
  now,         \* the clock
  handled,     \* events handled so far
  result       \* history: what the last event returned

ctxVars == <<state, stamp, count>>
vars == <<ctxVars, latest_bpm, now, handled, result>>

-----------------------------------------------------------------------------
(* calc_bpm.                                                               *)

\* The unsigned quotient.  The C code does not exclude a zero divisor, for
\* which the UDIV instruction of the RP2350's ARM cores yields 0.
Quotient(a, b) == IF b = 0 THEN 0 ELSE a \div b

ClampNone(bpm) == bpm
Clamp(bpm) ==
  CASE bpm < TAP_MIN_BPM -> TAP_MIN_BPM
    [] bpm > TAP_MAX_BPM -> TAP_MAX_BPM
    [] OTHER -> bpm

\* What calc_bpm would give if it counted the taps instead of the pauses
\* between them.
calc_bpmOfTaps(delta_us, intervals) ==
  LET delta_ms == (delta_us + 500) \div 1000 IN
  IF delta_us = 0
  THEN TAP_MIN_BPM
  ELSE Clamp(Quotient(60000 * (intervals + 1) + delta_ms \div 2, delta_ms))

\* The tempo of taps delta_us apart, rounded to milliseconds and to a beat.
calc_bpm(delta_us, intervals) ==
  LET delta_ms == (delta_us + 500) \div 1000 IN
  IF delta_us = 0
  THEN TAP_MIN_BPM
  ELSE Clamp(Quotient(60000 * intervals + delta_ms \div 2, delta_ms))

-----------------------------------------------------------------------------

Init ==
  /\ state = "TT_IDLE"
  /\ stamp = [i \in 0 .. TAP_MAX_TAPS - 1 |-> 0]
  /\ count = 0
  /\ latest_bpm = 120
  /\ now = 0
  /\ handled = 0
  /\ result = "TAP_NONE"

IsExit(ev) == ev \in {"HOLD_RELEASE", "LONG_HOLD_RELEASE"}

ExpiredNever(t) == FALSE
\* The last tap of the run is too long ago.  A run without taps never expires.
Expired(t) == count > 0 /\ t - stamp[count - 1] > TIMEOUT_US

\* A long press leaves the mode; taps already collected are kept.
Exit(ev) ==
  /\ IsExit(ev)
  /\ state' = "TT_IDLE"
  /\ result' = "TAP_EXIT"
  /\ UNCHANGED <<stamp, count, latest_bpm>>

\* The first click only opens a run: it notes the time and counts no tap.
OpenRun(ev, t) ==
  /\ state = "TT_IDLE"
  /\ ev = "CLICK_RELEASE"
  /\ state' = "TT_COLLECT"
  /\ count' = 0
  /\ stamp' = [stamp EXCEPT ![0] = t]
  /\ result' = "TAP_NONE"
  /\ UNCHANGED latest_bpm

\* Any event, a click included, that comes too late closes the run and is
\* not a tap.
Timeout(ev, t) ==
  /\ state = "TT_COLLECT"
  /\ ~IsExit(ev)
  /\ Expired(t)
  /\ state' = "TT_IDLE"
  /\ count' = 0
  /\ result' = "TAP_NONE"
  /\ UNCHANGED <<stamp, latest_bpm>>

\* A tap in time.  From the second counted tap on the tempo is recomputed
\* over the whole run; the fourth ends the run but not the collecting.
Tap(ev, t) ==
  /\ state = "TT_COLLECT"
  /\ ev = "CLICK_RELEASE"
  /\ ~Expired(t)
  /\ LET n == count + 1 IN
     /\ stamp' = [stamp EXCEPT ![count] = t]
     /\ count' = IF n = TAP_MAX_TAPS THEN 0 ELSE n
     /\ \/ n < 2 /\ UNCHANGED latest_bpm
        \/ n >= 2 /\ latest_bpm' = calc_bpm(t - stamp'[0], n - 1)
     /\ result' = CASE n = 1 -> "TAP_NONE" [] n = 2 -> "TAP_PRELIM"
                    [] OTHER -> "TAP_FINAL"
  /\ UNCHANGED state

\* Every other event changes nothing.
Ignore(ev, t) ==
  /\ ~IsExit(ev)
  /\ ev # "CLICK_RELEASE"
  /\ state = "TT_COLLECT" => ~Expired(t)
  /\ result' = "TAP_NONE"
  /\ UNCHANGED <<ctxVars, latest_bpm>>

taptempo_handle_event(ev, t) ==
  Exit(ev) \/ OpenRun(ev, t) \/ Timeout(ev, t) \/ Tap(ev, t) \/ Ignore(ev, t)

Next ==
  /\ handled < MaxEvents
  /\ handled' = handled + 1
  /\ \E d \in Pauses, ev \in Events :
       now' = now + d /\ taptempo_handle_event(ev, now + d)

Spec == Init /\ [][Next]_vars

-----------------------------------------------------------------------------
(* Properties.                                                             *)

\* The machine keeps its shape and the tempo its documented range.
TypeOK ==
  /\ state \in {"TT_IDLE", "TT_COLLECT"}
  /\ stamp \in [0 .. TAP_MAX_TAPS - 1 -> Nat]
  /\ count \in 0 .. TAP_MAX_TAPS - 1
  /\ latest_bpm \in TAP_MIN_BPM .. TAP_MAX_BPM
  /\ now \in Nat
  /\ handled \in Nat
  /\ result \in Results

\* The taps of a run lie in the past, in order, and no two neighbours are
\* more than the timeout apart: a tempo is never computed across a pause.
RunIsPaced ==
  /\ \A i \in 0 .. count - 1 : stamp[i] <= now
  /\ \A i \in 0 .. count - 2 :
       stamp[i] <= stamp[i + 1] /\ stamp[i + 1] - stamp[i] <= TIMEOUT_US

\* Because a pause of more than a second ends the run, a tempo between 40 and
\* 59 cannot be tapped: the lower clamp is met only by taps so close that
\* their distance rounds to no millisecond.
TapsFast ==
  result' \in {"TAP_PRELIM", "TAP_FINAL"} =>
    latest_bpm' >= 60 \/ now' - stamp'[0] < 500

SlowTempoUnreachable == [][TapsFast]_vars

\* The exact tempo times the distance in microseconds: a minute per interval.
Exact(intervals) == 60000000 * intervals

\* bpm is within one beat per minute of the tempo of a run of delta_us.
Near(bpm, delta_us, intervals) ==
  /\ bpm * delta_us <= Exact(intervals) + delta_us
  /\ Exact(intervals) <= bpm * delta_us + delta_us

\* The tempo shown is the one tapped: whenever a tap yields a tempo, it is
\* within one beat per minute of that of all intervals of the run since its
\* first tap, though the distance is rounded to milliseconds, the quotient to
\* a beat, and four taps, a timeout or a long press leave old stamps in place.
TapsMeasured ==
  LET delta_us == now' - stamp'[0] IN
  /\ result' \in {"TAP_PRELIM", "TAP_FINAL"}
  /\ TAP_MIN_BPM * delta_us <= Exact(count)
  /\ Exact(count) <= TAP_MAX_BPM * delta_us
  => Near(latest_bpm', delta_us, count)

TempoIsTapped == [][TapsMeasured]_vars
=============================================================================
