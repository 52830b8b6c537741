------------------------------- MODULE Cadence -------------------------------
(***************************************************************************)
(* internal/schedule: the clock the engine publishes for advancing a       *)
(* registration.  It is declared here and kept by the caller: Due, Spread  *)
(* and Delay are questions anybody may ask of it.  Durations are signed    *)
(* integers that wrap around past maxDuration, as time.Duration does.       *)
(***************************************************************************)
EXTENDS Integers

CONSTANT maxDuration   \* the longest duration the width of one holds

ASSUME WidthAssumption == maxDuration \in Nat \ {0}

Durations == -(maxDuration + 1)..maxDuration
Wrap(n)   == ((n + maxDuration + 1) % (2 * (maxDuration + 1))) - maxDuration - 1

Clocks == [Interval : Durations, Jitter : Durations, MinInterval : Durations,
           First : Durations, Factor : Durations, Max : Durations]

(* The gap the floor leaves, and whether a registration whose last pass was *)
(* `since' ago may be advanced.                                            *)
Gap(c)        == IF c.MinInterval > c.Interval THEN c.MinInterval ELSE c.Interval
Due(c, since) == Gap(c) > 0 /\ since >= Gap(c)

(* Mutant: a jitter that is not positive is converted like any other.      *)
SpreadUnguarded(c, hash) ==
  Wrap(IF c.Jitter = 0 THEN 0 ELSE hash % (c.Jitter % (2 * (maxDuration + 1))))

(* The offset of one registration, from the 64-bit hash of its key.        *)
Spread(c, hash) == IF c.Jitter <= 0 THEN 0 ELSE hash % c.Jitter

(* Mutant: the wait is multiplied first and bounded afterwards.            *)
LongerUnguarded(c, delay) == Wrap(delay * c.Factor)

(* One more failure: a step that would pass the ceiling, or the width,     *)
(* stops there instead of being multiplied.                                *)
Longer(c, delay) ==
  IF c.Max > 0 /\ delay >= c.Max \div c.Factor THEN c.Max
  ELSE IF delay > maxDuration \div c.Factor THEN maxDuration
  ELSE Wrap(delay * c.Factor)

(* The wait of the loop after n turns.                                     *)
Turns(c) ==
  LET wait[n \in Nat] == IF n = 0 THEN c.First ELSE Longer(c, wait[n - 1])
  IN  wait

Grown(c, attempt) == Turns(c)[attempt - 1]

(* Mutant: the ceiling bounds the steps and not the first wait.            *)
DelayUnclamped(c, attempt) ==
  IF attempt <= 0 \/ c.First <= 0 THEN 0
  ELSE IF c.Factor > 1 THEN Grown(c, attempt) ELSE c.First

(* The wait after `attempt' consecutive failures.                          *)
Delay(c, attempt) ==
  IF attempt <= 0 \/ c.First <= 0 THEN 0
  ELSE LET wait == IF c.Factor > 1 THEN Grown(c, attempt) ELSE c.First
       IN  IF c.Max > 0 /\ wait > c.Max THEN c.Max ELSE wait
=============================================================================
