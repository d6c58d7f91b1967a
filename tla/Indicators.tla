----------------------------- MODULE Indicators -----------------------------
(***************************************************************************)
(* The indicators of one symbol (src/processing/indicators/): a simple     *)
(* moving average, the RSI and the VWAP, all fed by each priced tick, as   *)
(* StreamProcessor::process_tick() and ParallelPipeline::                  *)
(* process_ticker_batch() feed them.  The arithmetic is exact: a ratio is  *)
(* a pair of integers, and Wilder's averages have the common denominator   *)
(* scale; the rounding of double is left out.                              *)
(***************************************************************************)
EXTENDS Integers, Sequences, Functions

CONSTANTS Bar,        \* the ticks: records with price, high, low, volume
          SmaPeriod,  \* period_ of the moving average; 20 or 50
          RsiPeriod,  \* period_ of the RSI; 14
          IntRange,   \* how many values an int has; 2^32
          MaxUpdates  \* bound on the number of ticks

ASSUME PeriodAssumption == SmaPeriod \in Nat \ {0} /\ RsiPeriod \in Nat \ {0}
ASSUME BarAssumption == Bar \subseteq [price : Nat \ {0}, high : Nat, low : Nat,
                                       volume : Int]
ASSUME RangeAssumption == IntRange \in Nat \ {0} /\ MaxUpdates \in Nat

VARIABLES
  owner,  \* "stream", whose process_tick() feeds the calculators, or "batch"
  window_, running_sum_,                          \* MovingAverage
  prices_seen_, prev_price_, initial_changes_,    \* RSICalculator
  avg_gain_, avg_loss_, scale, rsi_,
  cumulative_tp_volume_, cumulative_volume_,      \* VWAPCalculator
  smaFed, rsiFed,  \* history: the prices fed to each since its last reset()
  weighed,         \* history: the ticks the VWAP took since its last reset()
                   \* with the volumes the feed gave them
  updates          \* history: how many ticks were fed

sma == <<window_, running_sum_, smaFed>>
rsi == <<prices_seen_, prev_price_, initial_changes_, avg_gain_, avg_loss_,
         scale, rsi_, rsiFed>>
vwap == <<cumulative_tp_volume_, cumulative_volume_, weighed>>
vars == <<owner, sma, rsi, vwap, updates>>

Zero == <<0, 1>>
Hundred == <<100, 1>>

Init ==
  /\ owner \in {"stream", "batch"}
  /\ window_ = <<>> /\ running_sum_ = 0 /\ smaFed = <<>>
  /\ prices_seen_ = 0 /\ prev_price_ = 0 /\ initial_changes_ = <<>>
  /\ avg_gain_ = 0 /\ avg_loss_ = 0 /\ scale = 1 /\ rsi_ = Zero /\ rsiFed = <<>>
  /\ cumulative_tp_volume_ = 0 /\ cumulative_volume_ = 0 /\ weighed = <<>>
  /\ updates = 0

-----------------------------------------------------------------------------
(* MovingAverage.                                                          *)

Overfull(prices) == Len(prices) > SmaPeriod

\* Mutation: the price that leaves the window stays in the sum.
SumWithout_Kept(sum, oldest) == sum
SumWithout(sum, oldest) == sum - oldest

UpdateSma(price) ==
  LET prices == Append(window_, price)
      sum == running_sum_ + price IN
  /\ window_' = IF Overfull(prices) THEN Tail(prices) ELSE prices
  /\ running_sum_' = IF Overfull(prices) THEN SumWithout(sum, Head(prices)) ELSE sum
  /\ smaFed' = Append(smaFed, price)

ResetSma ==
  /\ window_' = <<>> /\ running_sum_' = 0 /\ smaFed' = <<>>
  /\ UNCHANGED <<owner, rsi, vwap, updates>>

-----------------------------------------------------------------------------
(* RSICalculator.                                                          *)

Gain(change) == IF change > 0 THEN change ELSE 0
\* Mutation: a loss counts with its sign.
Loss_Signed(change) == IF change < 0 THEN change ELSE 0
Loss(change) == IF change < 0 THEN -change ELSE 0

\* 100 - 100 / (1 + gain / loss).
RsiOf(gain, loss) == IF loss = 0 THEN Hundred ELSE <<100 * gain, gain + loss>>

\* initialise_averages(): the simple mean of the first changes.
InitialiseAverages(changes) ==
  LET gains == SumFunction([i \in 1 .. Len(changes) |-> Gain(changes[i])])
      losses == SumFunction([i \in 1 .. Len(changes) |-> Loss(changes[i])]) IN
  /\ avg_gain_' = gains /\ avg_loss_' = losses /\ scale' = RsiPeriod
  /\ rsi_' = RsiOf(gains, losses)

\* The window of changes is not complete.  prices_seen_ is below period_ + 1
\* here, or is_ready() would be true; the test of the code is kept.
Collect(change) ==
  LET changes == Append(initial_changes_, change) IN
  IF prices_seen_ + 1 = RsiPeriod + 1
  THEN InitialiseAverages(changes) /\ initial_changes_' = <<>>
  ELSE /\ initial_changes_' = changes
       /\ UNCHANGED <<avg_gain_, avg_loss_, scale, rsi_>>

\* One step of Wilder's smoothing, avg * (period - 1) + change over period.
Smooth(change) ==
  /\ avg_gain_' = avg_gain_ * (RsiPeriod - 1) + Gain(change) * scale
  /\ avg_loss_' = avg_loss_ * (RsiPeriod - 1) + Loss(change) * scale
  /\ scale' = scale * RsiPeriod
  /\ rsi_' = RsiOf(avg_gain_', avg_loss_')
  /\ UNCHANGED initial_changes_

UpdateRsi(price) ==
  LET seen == prices_seen_ + 1
      change == price - prev_price_ IN
  /\ prices_seen_' = seen /\ prev_price_' = price
  /\ rsiFed' = Append(rsiFed, price)
  /\ \/ seen = 1 /\ UNCHANGED <<initial_changes_, avg_gain_, avg_loss_, scale, rsi_>>
     \/ seen > 1 /\ seen =< RsiPeriod /\ Collect(change)
     \/ seen > 1 /\ seen > RsiPeriod /\ Smooth(change)

ResetRsi ==
  /\ prices_seen_' = 0 /\ prev_price_' = 0 /\ initial_changes_' = <<>>
  /\ avg_gain_' = 0 /\ avg_loss_' = 0 /\ scale' = 1 /\ rsi_' = Zero
  /\ rsiFed' = <<>>
  /\ UNCHANGED <<owner, sma, vwap, updates>>

-----------------------------------------------------------------------------
(* VWAPCalculator.  Three times the typical price keeps it an integer.     *)

ThriceTypical(bar) == bar.high + bar.low + bar.price

Narrow(volume) == ((volume + IntRange \div 2) % IntRange) - IntRange \div 2

\* value("volume", 0) reads an int, value("volume", int64_t(0)) does not.
VolumeOf(bar) == IF owner = "stream" THEN Narrow(bar.volume) ELSE bar.volume

\* Mutation: the guard on the volume is dropped.
Usable_AnyVolume(bar) == bar.price > 0 /\ bar.high > 0 /\ bar.low > 0
Usable(bar) == VolumeOf(bar) > 0 /\ bar.price > 0 /\ bar.high > 0 /\ bar.low > 0

UpdateVwap(bar) ==
  IF Usable(bar)
  THEN /\ cumulative_tp_volume_' =
            cumulative_tp_volume_ + ThriceTypical(bar) * VolumeOf(bar)
       /\ cumulative_volume_' = cumulative_volume_ + VolumeOf(bar)
       /\ weighed' = Append(weighed, bar)
  ELSE UNCHANGED vwap

ResetVwap ==
  /\ cumulative_tp_volume_' = 0 /\ cumulative_volume_' = 0 /\ weighed' = <<>>
  /\ UNCHANGED <<owner, sma, rsi, updates>>

-----------------------------------------------------------------------------
Update(bar) ==
  /\ updates < MaxUpdates /\ UNCHANGED owner
  /\ updates' = updates + 1
  /\ UpdateSma(bar.price)
  /\ UpdateRsi(bar.price)
  /\ UpdateVwap(bar)

Next == \/ \E bar \in Bar : Update(bar)
        \/ ResetSma \/ ResetRsi \/ ResetVwap

Spec == Init /\ [][Next]_vars

-----------------------------------------------------------------------------
TypeOK ==
  /\ owner \in {"stream", "batch"}
  /\ window_ \in Seq(Nat) /\ Len(window_) =< SmaPeriod
  /\ running_sum_ \in Nat
  /\ prices_seen_ \in Nat /\ prev_price_ \in Nat /\ initial_changes_ \in Seq(Int)
  /\ avg_gain_ \in Nat /\ avg_loss_ \in Nat /\ scale \in Nat \ {0}
  /\ rsi_ \in Nat \X (Nat \ {0})
  /\ cumulative_tp_volume_ \in Nat /\ cumulative_volume_ \in Nat
  /\ smaFed \in Seq(Nat) /\ rsiFed \in Seq(Nat) /\ weighed \in Seq(Bar)
  /\ updates \in 0 .. MaxUpdates

(***************************************************************************)
(* The sum that is carried from update to update is the sum of the last    *)
(* SmaPeriod prices fed since the last reset, or of all when there are     *)
(* fewer, so the average never drifts from its definition.                 *)
(***************************************************************************)
SmaIsWindowAverage ==
  TypeOK /\
  LET from == IF Len(smaFed) > SmaPeriod THEN Len(smaFed) - SmaPeriod + 1 ELSE 1
      last == SubSeq(smaFed, from, Len(smaFed)) IN
  window_ = last /\ running_sum_ = SumFunction(last)

Changes == [i \in 1 .. Len(rsiFed) - 1 |-> rsiFed[i + 1] - rsiFed[i]]

\* base ^ k, by the recursion that defines it: of ^ itself the provers know nothing.
Power(base, k) ==
  LET power[n \in Nat] == IF n = 0 THEN 1 ELSE base * power[n - 1] IN power[k]

\* Wilder's average of the rises (sign 1) or falls (sign -1) among the changes
\* from the RsiPeriod-th on, started from 0: their weighted sum, to be divided
\* by RsiPeriod to the power of their number.
Wilder(sign) ==
  LET smoothed == SubSeq(Changes, RsiPeriod, Len(Changes))
      n == Len(smoothed)
      size(i) == IF sign * smoothed[i] > 0 THEN sign * smoothed[i] ELSE 0 IN
  SumFunction([i \in 1 .. n |->
    size(i) * Power(RsiPeriod, i - 1) * Power(RsiPeriod - 1, n - i)])

(***************************************************************************)
(* Once ready, the RSI is Wilder's, over the prices fed since the last     *)
(* reset, but its averages start from 0 and not from the mean of the first *)
(* changes, of which all but the last count for nothing: the code that     *)
(* seeds them (rsi_calculator.cpp) is not reached.  So it is 100 when no   *)
(* price fell and 0 when every one fell, as the tests expect.              *)
(***************************************************************************)
RsiIsUnseeded ==
  prices_seen_ > RsiPeriod =>
    /\ avg_gain_ = Wilder(1) /\ avg_loss_ = Wilder(-1)
    /\ (\A i \in DOMAIN Changes : Changes[i] >= 0) => rsi_ = Hundred
    /\ (\A i \in DOMAIN Changes : Changes[i] < 0) => rsi_[1] = 0

(***************************************************************************)
(* A VWAP is an average: it lies between the lowest and the highest        *)
(* typical price of the ticks it has taken.  In a batch it is weighted by  *)
(* the volumes of the feed; in the stream it is ("avoid overflow on large  *)
(* volumes", vwap_calculator.hpp) while each of them fits in an int.       *)
(***************************************************************************)
VwapIsWeightedAverage ==
  LET taken == 1 .. Len(weighed)
      typical == {ThriceTypical(weighed[i]) : i \in taken}
      exact == owner = "batch" \/ \A i \in taken : weighed[i].volume = Narrow(weighed[i].volume) IN
  /\ weighed # <<>> =>
       /\ \E low \in typical : low * cumulative_volume_ =< cumulative_tp_volume_
       /\ \E high \in typical : cumulative_tp_volume_ =< high * cumulative_volume_
  /\ exact => cumulative_volume_ = SumFunction([i \in taken |-> weighed[i].volume])
=============================================================================
