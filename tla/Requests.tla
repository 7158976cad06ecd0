------------------------------- MODULE Requests -------------------------------
(***************************************************************************)
(* A request of the scaler to forecast-serving, from the metadata of the   *)
(* ScaledObject (config.py) over the samples Prometheus returns            *)
(* (clients.py) and the input built of them (engine.py) to what serving    *)
(* makes of it (serving/app.py).  Of a sample only counts whether there is *)
(* one and whether it is finite.  Instants are grid points.                *)
(***************************************************************************)
EXTENDS Integers, FiniteSetsExt

-----------------------------------------------------------------------------
(***************************************************************************)
(* parse_metadata().  Numbers are in tenths where the code takes floats.   *)
(***************************************************************************)
Absent == -1000
NotANumber == -1001
Required == Absent

Key(default, zero) == [default |-> default, zero |-> zero]

Floats ==
  [targetValue |-> Key(Required, FALSE), capacity |-> Key(10, FALSE),
   activationValue |-> Key(0, TRUE), cacheSeconds |-> Key(150, TRUE),
   timeoutSeconds |-> Key(30, FALSE), forecastSurgeFactor |-> Key(30, TRUE),
   breakerResidualZ |-> Key(40, FALSE), breakerLevelShift |-> Key(25, FALSE),
   breakerJumpFactor |-> Key(20, FALSE), breakerMinOpenSeconds |-> Key(6000, FALSE),
   smoothingAlpha |-> Key(3, FALSE), smoothingMaxAgeSeconds |-> Key(6000, TRUE),
   forecastTimeoutSeconds |-> Key(2, FALSE), forecastBreakerOpenSeconds |-> Key(300, FALSE),
   capacityRefreshSeconds |-> Key(3000, TRUE), capacityDriftFactor |-> Key(20, TRUE)]

Ints ==
  [timeSteps |-> Key(10, FALSE), stepSeconds |-> Key(300, FALSE),
   breakerJumpMinSamples |-> Key(48, FALSE), breakerCalmPolls |-> Key(6, FALSE),
   spikeMinSteps |-> Key(3, TRUE), forecastBreakerFailures |-> Key(3, TRUE)]

\* Whether _positive_float() and _positive_int() return, and what.
NumberAccepted(raw, key) ==
  IF raw = Absent THEN key.default # Required
  ELSE raw # NotANumber /\ (raw > 0 \/ (raw = 0 /\ key.zero))

Number(raw, key) == IF raw = Absent THEN key.default ELSE raw

HistoryKey(meta) == Key(Number(meta.timeSteps, Ints.timeSteps), FALSE)

Config(meta) ==
  [k \in DOMAIN Floats \cup DOMAIN Ints \cup {"historySteps"} |->
     IF k \in DOMAIN Floats THEN Number(meta[k], Floats[k])
     ELSE IF k \in DOMAIN Ints THEN Number(meta[k], Ints[k])
     ELSE Number(meta[k], HistoryKey(meta))]

\* No ConfigError.
MetadataAccepted(meta) ==
  /\ \A k \in DOMAIN Floats : NumberAccepted(meta[k], Floats[k])
  /\ \A k \in DOMAIN Ints : NumberAccepted(meta[k], Ints[k])
  /\ NumberAccepted(meta.historySteps, HistoryKey(meta))
  /\ LET c == Config(meta) IN
     /\ c.historySteps >= c.timeSteps
     /\ c.breakerLevelShift > 10
     /\ c.smoothingAlpha <= 10
     /\ c.capacityDriftFactor \notin 1..9

\* metadata.channels: names with a query each, none of them targetChannel.
ChannelsAccepted(channels) == "target" \notin DOMAIN channels

-----------------------------------------------------------------------------
(***************************************************************************)
(* fetch_history(): samples gives the state of the last points + 1         *)
(* instants up to end: "value", "nan" or "none".  The grid is anchored at  *)
(* the newest sample there is.                                             *)
(***************************************************************************)
Sampled(samples) == {t \in DOMAIN samples : samples[t] # "none"}

Newest(samples) == Max(Sampled(samples))

GridEnding(last, points) == (last - points + 1)..last

\* Instants of the grid with a value; None is a hole.
Values(samples, points) ==
  {t \in GridEnding(Newest(samples), points) : t \in DOMAIN samples /\ samples[t] = "value"}

\* Length of the trailing run of samples.
Run(samples, points) ==
  Max({n \in 0..points : (Newest(samples) - n + 1)..Newest(samples) \subseteq Values(samples, points)})

\* _compute() asks for a forecast.  Without a value in the newest sample there is
\* no run at all, and the poll raises.
Asks(cfg, samples) == Run(samples, cfg.historySteps) >= cfg.timeSteps

(***************************************************************************)
(* The input: the grid sent, and the instants of a row with a value.       *)
(***************************************************************************)
SentGrid(cfg, samples) ==
  GridEnding(Newest(samples), IF cfg.historySteps > cfg.timeSteps THEN cfg.historySteps
                              ELSE cfg.timeSteps)

TargetRow(cfg, samples) == Values(samples, cfg.historySteps) \cap SentGrid(cfg, samples)

\* Faulty variant: a channel that lags is sent as it is.
ChannelRowAsIs(cfg, samples, channel) ==
  IF Sampled(channel) = {} THEN {}
  ELSE Values(channel, cfg.historySteps) \cap SentGrid(cfg, samples)

\* _channels(): on the target's grid, carried forward over the trailing gap.
ChannelRow(cfg, samples, channel) ==
  LET row == IF Sampled(channel) = {} THEN {}
             ELSE Values(channel, cfg.historySteps) \cap SentGrid(cfg, samples)
  IN IF row = {} THEN {}
     ELSE row \cup {t \in SentGrid(cfg, samples) : t > Max(row)}

RowsSent(cfg, samples, channels) ==
  {TargetRow(cfg, samples)} \cup {ChannelRow(cfg, samples, channels[c]) : c \in DOMAIN channels}

-----------------------------------------------------------------------------
(***************************************************************************)
(* A poll: what is configured, what Prometheus has, what serving serves.   *)
(***************************************************************************)
IsSampling(samples) ==
  /\ DOMAIN samples \subseteq Int /\ IsFiniteSet(DOMAIN samples)
  /\ \A t \in DOMAIN samples : samples[t] \in {"value", "nan", "none"}

IsPoll(meta, samples, channels, model) ==
  /\ meta \in [DOMAIN Floats \cup DOMAIN Ints \cup {"historySteps"} -> Int]
  /\ IsSampling(samples)
  /\ IsFiniteSet(DOMAIN channels) /\ \A c \in DOMAIN channels : IsSampling(channels[c])
  /\ model.time_steps \in Nat /\ model.season_steps \in Nat /\ IsFiniteSet(model.channels)

-----------------------------------------------------------------------------
(***************************************************************************)
(* Serving: the validators of PredictRequest, prepare_channels() and       *)
(* prepare_input() on a row over a grid.                                   *)
(***************************************************************************)
ModelLength(model) == model.time_steps + model.season_steps

RowAccepted(row, grid, model, strict) ==
  /\ Max(grid) \in row
  /\ Cardinality(grid) >= ModelLength(model)
  /\ strict => Cardinality(grid) = ModelLength(model)
  /\ GridEnding(Max(grid), model.time_steps) \subseteq row

\* Instants of the input that are interpolated.
Filled(row, grid, model) == GridEnding(Max(grid), ModelLength(model)) \ row

\* A model of one series takes a list, or a dictionary with its own one name; a
\* model of several takes a dictionary with all its names.
NamesAccepted(names, model) ==
  IF Cardinality(model.channels) > 1 THEN model.channels \subseteq names ELSE names = {}

\* No 422.
RequestAccepted(cfg, samples, channels, model, strict) ==
  /\ NamesAccepted(IF DOMAIN channels = {} THEN {} ELSE {"target"} \cup DOMAIN channels, model)
  /\ \A row \in RowsSent(cfg, samples, channels) :
       RowAccepted(row, SentGrid(cfg, samples), model, strict)

(***************************************************************************)
(* ForecastClient.predict(): what the service breaker is told.             *)
(***************************************************************************)
Reason(answer) ==
  CASE answer = "503" -> "not_ready"
    [] answer = "500" -> "server_error"
    [] answer \in {"422", "no json", "no number", "not finite"} -> "bad_response"
    [] answer = "late" -> "timeout"
    [] answer = "refused" -> "unavailable"
    [] answer = "200" -> "none"

Outcome(cfg, samples, channels, model, strict) ==
  IF ~Asks(cfg, samples) THEN "not asked"
  ELSE IF RequestAccepted(cfg, samples, channels, model, strict) THEN Reason("200")
  ELSE Reason("422")

-----------------------------------------------------------------------------
(***************************************************************************)
(* What they promise.                                                      *)
(***************************************************************************)

\* The metadata the chart writes for a model.
WrittenFor(cfg, channels, model, strict) ==
  /\ cfg.timeSteps = model.time_steps
  /\ model.season_steps > 0 => cfg.historySteps >= ModelLength(model)
  /\ strict => cfg.historySteps = ModelLength(model)
  /\ IF DOMAIN channels = {} THEN model.channels = {}
     ELSE model.channels = {"target"} \cup DOMAIN channels

\* "A slightly stale rate is a fine input": the last values a channel has are
\* followed by nothing but holes.
OnlyLags(cfg, samples, channel) ==
  LET row == IF Sampled(channel) = {} THEN {}
             ELSE Values(channel, cfg.historySteps) \cap SentGrid(cfg, samples)
  IN /\ row # {}
     /\ \A t \in GridEnding(Newest(samples), cfg.timeSteps) : t \in row \/ t > Max(row)

\* Metadata that is accepted and written for the model gets a forecast of every
\* history whose last timeSteps samples are there, whatever is missing of the
\* season before them and however far its channels lag; only a channel without
\* a sample, or with a hole inside the window, is refused, which counts as a
\* failure of the service.
AnsweredIn(meta, samples, channels, model, strict) ==
  LET cfg == Config(meta) IN
  /\ MetadataAccepted(meta) /\ ChannelsAccepted(channels)
  /\ WrittenFor(cfg, channels, model, strict) /\ Sampled(samples) # {}
  =>
    Outcome(cfg, samples, channels, model, strict) =
      IF \E t \in GridEnding(Newest(samples), cfg.timeSteps) :
           t \notin DOMAIN samples \/ samples[t] # "value"
        THEN "not asked"
      ELSE IF \A c \in DOMAIN channels : OnlyLags(cfg, samples, channels[c])
        THEN "none"
        ELSE "bad_response"

=============================================================================
