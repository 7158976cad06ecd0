--------------------------------- MODULE Grid ---------------------------------
(***************************************************************************)
(* The series a run trains on (training/forecast_training/data.py): which  *)
(* stamps are asked of Prometheus, the regular grid they are snapped to,   *)
(* the slots that are excluded, and the slots a value is computed from.    *)
(* The ranges to exclude come from the scaler's breaker (trigger.py).      *)
(* A sample is its stamp; what it measured plays no role here.             *)
(***************************************************************************)
EXTENDS Windows, FiniteSetsExt

CONSTANT Day   \* 86400

ASSUME DayAssumption == Day \in Nat \ {0}

-----------------------------------------------------------------------------
(***************************************************************************)
(* query_prometheus(): the stamps of the chunks, the last one cut at end.  *)
(***************************************************************************)
ChunkStarts(start, end, size, step) ==
  {t \in start..(end - 1) : (t - start) % (size + step) = 0}

Chunk(t, end, size, step) == {s \in t..Smallest(end, t + size) : (s - t) % step = 0}

Fetched(start, end, size, step) ==
  UNION {Chunk(t, end, size, step) : t \in ChunkStarts(start, end, size, step)}

(***************************************************************************)
(* regularize(): slots of the grid.                                        *)
(***************************************************************************)

\* Faulty variant: the grid starts at the first stamp.
FirstInstantExact(points, step) == Min(points)

FirstInstant(points, step) == Rounded(Min(points), step) * step

\* Python rounds half to even; the difference may be negative.
Slot(ts, points, step) ==
  LET d == ts - FirstInstant(points, step)
  IN IF d >= 0 THEN Rounded(d, step) ELSE -Rounded(-d, step)

Slots(points, step) == 0..Slot(Max(points), points, step)

Instant(k, points, step) == FirstInstant(points, step) + k * step

InRange(t, exclude) == \E r \in exclude : r[1] <= t /\ t <= r[2]

\* Slots that hold samples and are in no excluded range.
Kept(points, step, exclude) ==
  {k \in Slots(points, step) :
     /\ \E ts \in points : Slot(ts, points, step) = k
     /\ ~InRange(Instant(k, points, step), exclude)}

TimeOfDay(t, step) == ((t % Day) \div step) % Largest(1, Day \div step)

\* Faulty variant: the profile is that of all slots with samples.
ProfileOfAll(k, points, step, exclude) ==
  {j \in Kept(points, step, {}) :
     TimeOfDay(Instant(j, points, step), step) = TimeOfDay(Instant(k, points, step), step)}

\* The mean of the same time of day.
Profile(k, points, step, exclude) ==
  {j \in Kept(points, step, exclude) :
     TimeOfDay(Instant(j, points, step), step) = TimeOfDay(Instant(k, points, step), step)}

\* The slots behind the value of a slot, {} when the day knows nothing of it.
Known(k, points, step, exclude) ==
  IF k \in Kept(points, step, exclude) THEN {k} ELSE Profile(k, points, step, exclude)

\* Interpolation between the nearest slots that have a value by now.
Behind(k, points, step, exclude) ==
  LET known(j) == Known(j, points, step, exclude)
      have == {j \in Slots(points, step) : known(j) # {}}
      before == {j \in have : j < k}
      after == {j \in have : j > k}
  IN IF k \in have THEN known(k)
     ELSE (IF before = {} THEN {} ELSE known(Max(before)))
            \cup (IF after = {} THEN {} ELSE known(Min(after)))

\* "every point is missing or excluded".
NoSeries(points, step, exclude) == Kept(points, step, exclude) = {}

(***************************************************************************)
(* align_series(): two channels on the instants both have.                 *)
(***************************************************************************)
Instants(points, step) == {Instant(k, points, step) : k \in Slots(points, step)}

Common(points, other, step) ==
  Largest(FirstInstant(points, step), FirstInstant(other, step))
    ..Smallest(Max(Instants(points, step)), Max(Instants(other, step)))

Aligned(points, other, step) == Instants(points, step) \cap Common(points, other, step)

(***************************************************************************)
(* breaker_windows(): the ranges the breaker was seen open in, padded.  It *)
(* is looked at every so often; sightings no more than one and a half      *)
(* times that apart are of one episode.                                    *)
(***************************************************************************)
BreakerWindows(open, every, pad) ==
  LET joined(a, b) == \A s \in a..(b - 1) : s \in open =>
                        \E t \in open : s < t /\ t <= b /\ 2 * (t - s) <= 3 * every
      ranges == {r \in open \X open : r[1] <= r[2] /\ joined(r[1], r[2])}
      widest == {r \in ranges : \A q \in ranges :
                   q[1] <= r[1] /\ r[2] <= q[2] => q = r}
  IN {<<r[1] - pad, r[2] + pad>> : r \in widest}

\* handle_alerts(): when Prometheus does not answer, the Job is made all the same.
Exclusions(answered, open, every, pad) ==
  IF answered THEN BreakerWindows(open, every, pad) ELSE {}

-----------------------------------------------------------------------------
(***************************************************************************)
(* What they promise.                                                      *)
(***************************************************************************)

\* Every stamp of the range is asked for in exactly one chunk.
ChunksCoverIn(start, end, size, step) ==
  \A s \in start..(end - 1) : (s - start) % step = 0 =>
    \E t \in ChunkStarts(start, end, size, step) :
      {u \in ChunkStarts(start, end, size, step) : s \in Chunk(u, end, size, step)} = {t}

\* The breaker was open at t: seen so, or seen so shortly before and after.
OpenAt(t, open, every) ==
  \E a, b \in open : a <= t /\ t <= b /\ 2 * (b - a) <= 3 * every

\* Once Prometheus has told when the breaker was open, no value of the series,
\* imputed ones included, is computed from a sample taken while it was, if the
\* padding is at least half a step: the model is retrained without the episode
\* that made it wrong.  Nothing farther from an episode than the padding is given
\* up for it, and as long as something is kept every slot has a value.
OpenNeverUsedIn(points, step, answered, open, every, pad) ==
  LET exclude == Exclusions(answered, open, every, pad) IN
  ~NoSeries(points, step, exclude) =>
    /\ \A k \in Slots(points, step) :
         /\ Behind(k, points, step, exclude) # {}
         /\ \A ts \in points :
              answered /\ 2 * pad >= step /\ OpenAt(ts, open, every) =>
                Slot(ts, points, step) \notin Behind(k, points, step, exclude)
    /\ \A t \in Instants(points, step) :
         InRange(t, exclude) => \E e \in (t - pad)..(t + pad) : OpenAt(e, open, every)

\* "regularize() makes this impossible": channels sampled at any instants have
\* the same grid where they overlap, and every sample is in the slot nearest to
\* it, the oldest in the first.
GridsAgreeIn(points, other, step) ==
  /\ Aligned(points, other, step) = Aligned(other, points, step)
  /\ \A ts \in points :
       /\ Slot(ts, points, step) \in Slots(points, step)
       /\ 2 * (ts - Instant(Slot(ts, points, step), points, step)) \in -step..step
  /\ Slot(Min(points), points, step) = 0

=============================================================================
