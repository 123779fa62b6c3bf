-------------------------- MODULE IntradayV2_proofs --------------------------
(***************************************************************************)
(* What holds of IntradayV2 for every matrix and every configuration: when *)
(* a position leaves, what the account comes to, and what a day buys.      *)
(***************************************************************************)
EXTENDS IntradayV2, SumLemmas

\* The input is one of those assumed.
OneEntryEach(entries) ==
    \A j, k \in DOMAIN entries : entries[j].symbol = entries[k].symbol => j = k

InOrder(bars) ==
    /\ bars # <<>>
    /\ \A j, k \in DOMAIN bars : j < k => bars[j].bar_num < bars[k].bar_num

DaySound(date) ==
    /\ date \in Nat \ {0}
    /\ matrix[date] \in Seq(Entry) /\ matrix[date] # <<>>
    /\ OneEntryEach(matrix[date])
    /\ \A j \in DOMAIN matrix[date] : InOrder(matrix[date][j].bars)

InputSound == config \in Config /\ \A date \in DOMAIN matrix : DaySound(date)

LEMMA InitSound == Init => InputSound
<1> SUFFICES ASSUME Init PROVE InputSound
  OBVIOUS
<1>1. PICK i \in Inputs : config = i.config /\ matrix = i.matrix
  BY DEF Init
<1> QED BY <1>1, IntradayAssumption DEF InputSound, DaySound, OneEntryEach, InOrder, ToSet

----------------------------------------------------------------------------
(* The larger and the smaller of two *)

LEMMA LargerIs ==
    ASSUME NEW a \in Int, NEW b \in Int
    PROVE  Max({a, b}) = IF a >= b THEN a ELSE b
<1>1. \E x \in {a, b} : \A y \in {a, b} : x >= y
  OBVIOUS
<1>2. Max({a, b}) \in {a, b} /\ Max({a, b}) >= a /\ Max({a, b}) >= b
  BY <1>1 DEF Max
<1> QED BY <1>2

LEMMA SmallerIs ==
    ASSUME NEW a \in Int, NEW b \in Int
    PROVE  Min({a, b}) = IF a <= b THEN a ELSE b
<1>1. \E x \in {a, b} : \A y \in {a, b} : x <= y
  OBVIOUS
<1>2. Min({a, b}) \in {a, b} /\ Min({a, b}) <= a /\ Min({a, b}) <= b
  BY <1>1 DEF Min
<1> QED BY <1>2

----------------------------------------------------------------------------
(* The walk over the bars *)

ExitTypes == {"eod", "time_stop", "signal", "reentry"}
ExitRow == [exit_bar : Nat, exit_price : Int, exit_type : ExitTypes]
Loop == [highest : Nat, left : BOOLEAN, exit : ExitRow]

\* Prices of bars and levels are numbers.
LEMMA LevelsType ==
    ASSUME config \in Config, NEW entry \in Entry, NEW bar \in Bar, NEW highest \in Nat
    PROVE  /\ PriceHigh(bar) \in Nat /\ PriceLow(bar) \in Nat
           /\ Level(PriceHigh(bar)) \in Nat /\ Level(PriceLow(bar)) \in Nat
           /\ Level(bar.close) \in Nat /\ TargetPrice(entry) \in Nat
           /\ FixedStop(entry) \in Int /\ FixedStop(entry) >= entry.entry_price
           /\ StopPrice(entry, highest) \in Int
           /\ StopPrice(entry, highest) >= FixedStop(entry)
<1>1. PriceHigh(bar) \in Nat /\ PriceLow(bar) \in Nat /\ bar.close \in Nat
  BY DEF Bar, PriceHigh, PriceLow
<1>2. entry.entry_price \in Nat /\ entry.atr_14 \in Nat
  BY DEF Entry
<1>3. /\ config.target_pct \in Nat /\ config.stop_pct \in Nat
      /\ config.trailing_stop_pct \in Nat /\ config.atr_multiplier \in Nat
  BY DEF Config
<1>4. TargetPrice(entry) \in Nat
  BY <1>2, <1>3 DEF TargetPrice
<1>5. FixedStop(entry) \in Int /\ FixedStop(entry) >= entry.entry_price
  <2> DEFINE stop == IF config.use_atr_stop /\ entry.atr_14 # 0
                     THEN Level(entry.entry_price) - config.atr_multiplier * Level(entry.atr_14)
                     ELSE entry.entry_price * (100 - config.stop_pct)
  <2>1. stop \in Int
    BY <1>2, <1>3 DEF Level
  <2>2. FixedStop(entry) = Max({stop, entry.entry_price})
    BY DEF FixedStop
  <2> HIDE DEF stop
  <2> QED BY <1>2, <2>1, <2>2, LargerIs
<1>6. StopPrice(entry, highest) \in Int /\ StopPrice(entry, highest) >= FixedStop(entry)
  <2> DEFINE trail == highest * (100 - config.trailing_stop_pct)
  <2>1. trail \in Int
    BY <1>3
  <2>2. StopPrice(entry, highest) = IF config.trailing_stop_pct > 0
                                    THEN Max({FixedStop(entry), trail}) ELSE FixedStop(entry)
    BY DEF StopPrice
  <2> HIDE DEF trail
  <2> QED BY <1>5, <2>1, <2>2, LargerIs
<1> QED BY <1>1, <1>4, <1>5, <1>6 DEF Level

LEMMA HighestIs ==
    ASSUME config \in Config, NEW entry, NEW bar \in Bar, NEW highest \in Nat
    PROVE  /\ Highest(entry, highest, bar) \in Nat
           /\ Highest(entry, highest, bar) \in {highest, PriceHigh(bar)}
           /\ Highest(entry, highest, bar) >= highest
           /\ Highest(entry, highest, bar) >= PriceHigh(bar)
<1>1. PriceHigh(bar) \in Nat
  BY DEF Bar, PriceHigh
<1> QED BY <1>1, LargerIs DEF Highest

\* One bar leaves the loop in a state of its type.
LEMMA CheckedType ==
    ASSUME config \in Config, NEW entry \in Entry, NEW w \in Loop, NEW bar \in Bar
    PROVE  Checked(entry, w, bar) \in Loop
<1> DEFINE held == Held(entry, bar)
           highest == Highest(entry, w.highest, bar)
           stop == StopPrice(entry, highest)
           Leaves(price, type) == [highest |-> highest, left |-> TRUE,
                                   exit |-> Exit(bar, price, type)]
<1>1. highest \in Nat
  BY HighestIs DEF Loop
<1> HIDE DEF highest
<1>2. /\ stop \in Int /\ Level(bar.close) \in Int /\ TargetPrice(entry) \in Int
      /\ bar.bar_num \in Nat
  BY <1>1, LevelsType DEF Bar
<1> HIDE DEF stop
<1>3. ASSUME NEW price \in Int, NEW type \in ExitTypes
      PROVE  /\ Leaves(price, type) \in Loop
             /\ [Leaves(price, type) EXCEPT !.left = FALSE] \in Loop
  BY <1>1, <1>2 DEF Exit, Loop, ExitRow
<1> HIDE DEF Leaves
<1>4. Checked(entry, w, bar) \in
        {w, [Leaves(Level(bar.close), "eod") EXCEPT !.left = FALSE],
         Leaves(Level(bar.close), "time_stop"), Leaves(Level(bar.close), "signal"),
         Leaves(Level(bar.close), "reentry"), Leaves(stop, "signal"),
         Leaves(TargetPrice(entry), "signal")}
  BY DEF Checked, Leaves, stop, highest
<1> QED BY <1>2, <1>3, <1>4 DEF ExitTypes

Start(entry) ==
    [highest |-> entry.entry_price, left |-> FALSE,
     exit |-> Exit(entry.bars[1], Level(entry.bars[1].close), "eod")]

\* The recursive function of the walk exists, and is what its equation says.
LEMMA WalkIs ==
    ASSUME config \in Config, NEW entry \in Entry, entry.bars # <<>>
    PROVE  /\ Walked(entry) \in [1..Len(entry.bars) -> Loop]
           /\ Walked(entry)[1] = Start(entry)
           /\ \A i \in 2..Len(entry.bars) :
                Walked(entry)[i] = Checked(entry, Walked(entry)[i - 1], entry.bars[i])
<1> DEFINE N == Len(entry.bars)
           D == 1..N
           start == Start(entry)
           next(w, i) == Checked(entry, w, entry.bars[i])
           body(f, i) == IF i = 1 THEN start ELSE next(f[i - 1], i)
           rank == [i \in D |-> i]
           prev == [i \in D \ {1} |-> i - 1]
           step == [p \in D \X Loop |-> next(p[2], p[1])]
<1>1. N \in Nat \ {0} /\ DOMAIN entry.bars = D /\ \A i \in D : entry.bars[i] \in Bar
  BY DEF Entry
<1>2. start \in Loop
  <2>1. entry.bars[1] \in Bar
    BY <1>1
  <2>2. entry.bars[1].bar_num \in Nat /\ entry.bars[1].close \in Nat /\ entry.entry_price \in Nat
    BY <2>1 DEF Bar, Entry
  <2> QED BY <2>2 DEF Start, Exit, Level, Loop, ExitRow, ExitTypes
<1>3. ASSUME NEW w \in Loop, NEW i \in D PROVE next(w, i) \in Loop
  BY <1>1, CheckedType
<1> HIDE DEF start, next
<1>4. Descends(D, {1}, rank, prev)
  BY <1>1 DEF Descends
<1>5. step \in [D \X Loop -> Loop]
  BY <1>3
<1>6. \E g \in [D -> Loop] : Solution(g, D, {1}, prev, start, step)
  <2> HIDE DEF D, rank, prev, step
  <2> QED BY <1>2, <1>4, <1>5, Recursion
<1>7. PICK g \in [D -> Loop] :
        \A i \in D : g[i] = IF i \in {1} THEN start ELSE step[<<i, g[prev[i]]>>]
  BY <1>6 DEF Solution
<1>8. \A i \in D : g[i] = body(g, i)
  <2> SUFFICES ASSUME NEW i \in D, i # 1 PROVE g[i] = body(g, i)
    BY <1>7
  <2>1. prev[i] = i - 1 /\ i - 1 \in D
    BY <1>1
  <2> QED BY <1>7, <2>1
<1>9. g = [i \in D |-> body(g, i)]
  BY <1>8
<1> DEFINE h == CHOOSE f : f = [i \in D |-> body(f, i)]
<1>10. h = [i \in D |-> body(h, i)]
  <2> HIDE DEF body, D
  <2> QED BY <1>9
<1>11. Walked(entry) = h
  BY <1>1 DEF Walked, start, Start, next
<1> HIDE DEF h
<1> DEFINE Good == {i \in D : h[i] \in Loop}
<1>12. PassedUp(D, {1}, prev, Good)
  <2> SUFFICES ASSUME NEW i \in D, i \in {1} \/ prev[i] \in Good PROVE h[i] \in Loop
    BY DEF PassedUp
  <2>1. h[i] = body(h, i)
    BY <1>10
  <2>2. i # 1 => i - 1 \in D /\ prev[i] = i - 1
    BY <1>1
  <2> QED BY <1>2, <1>3, <2>1, <2>2
<1>13. D \subseteq Good
  <2> HIDE DEF D, rank, prev, Good
  <2> QED BY <1>4, <1>12, Descent
<1>14. h \in [D -> Loop]
  <2>1. h = [i \in D |-> h[i]]
    <3> HIDE DEF body, D
    <3> QED BY <1>10
  <2> QED BY <1>13, <2>1
<1>15. h[1] = start /\ \A i \in 2..N : h[i] = next(h[i - 1], i)
  <2>1. \A i \in D : h[i] = body(h, i)
    BY <1>10
  <2> QED BY <1>1, <2>1
<1> QED BY <1>11, <1>14, <1>15 DEF start, next

----------------------------------------------------------------------------
(* The exit the walk settles on *)

\* The names of LeavesWhenItMust.
Minutes(entry, i) == entry.bars[i].bar_num - entry.bars[1].bar_num
Highs(entry, i) == {entry.entry_price} \cup {PriceHigh(entry.bars[j]) : j \in 2..i}
Quiet(entry, i) ==
    /\ config.time_stop_bars > 0 => Minutes(entry, i) < config.time_stop_bars
    /\ Minutes(entry, i) > config.min_hold_bars =>
          /\ ~TargetHit(entry, entry.bars[i])
          /\ Level(PriceLow(entry.bars[i])) > entry.entry_price
          /\ Level(PriceLow(entry.bars[i])) > StopPrice(entry, Max(Highs(entry, i)))
          /\ config.exit_reentry_range => entry.bars[i].close >= entry.or_high

\* After the i-th bar w stands at the bar `last`: whatever came before it was quiet,
\* and if the position is still held, so was it, and the cutoff lies behind it.
Stands(entry, w, last, i) ==
    /\ w.exit.exit_bar = entry.bars[last].bar_num
    /\ \A j \in 2..(last - 1) : Quiet(entry, j)
    /\ last > 1 => entry.bars[last].bar_num <= Cutoff(entry.bars)
    /\ w.left <=> w.exit.exit_type # "eod"
    /\ ~w.left => /\ last > 1 => Quiet(entry, last)
                  /\ \A j \in last + 1..i : entry.bars[j].bar_num > Cutoff(entry.bars)
                  /\ w.highest \in Highs(entry, last)
                  /\ \A x \in Highs(entry, last) : w.highest >= x

LEMMA MaxUnique ==
    ASSUME NEW S \in SUBSET Int, NEW h \in S, \A x \in S : h >= x
    PROVE  Max(S) = h
<1>1. \E x \in S : \A y \in S : x >= y
  OBVIOUS
<1>2. Max(S) \in S /\ \A y \in S : Max(S) >= y
  BY <1>1 DEF Max
<1>3. Max(S) \in Int /\ h \in Int /\ Max(S) >= h /\ h >= Max(S)
  BY <1>2
<1> QED BY <1>3

\* The high of one bar more.
LEMMA HighsGrow ==
    ASSUME config \in Config, NEW entry \in Entry, NEW i \in 2..Len(entry.bars),
           NEW highest \in Nat, highest \in Highs(entry, i - 1),
           \A x \in Highs(entry, i - 1) : highest >= x
    PROVE  LET new == Highest(entry, highest, entry.bars[i])
           IN  /\ new \in Highs(entry, i) /\ \A x \in Highs(entry, i) : new >= x
               /\ new = Max(Highs(entry, i))
<1> DEFINE new == Highest(entry, highest, entry.bars[i])
<1>1. \A j \in 1..Len(entry.bars) : entry.bars[j] \in Bar
  BY DEF Entry
<1>2. \A j \in 1..Len(entry.bars) : PriceHigh(entry.bars[j]) \in Nat
  BY <1>1 DEF PriceHigh, Bar
<1>3. Highs(entry, i) = Highs(entry, i - 1) \cup {PriceHigh(entry.bars[i])}
  BY DEF Highs
<1>4. Highs(entry, i) \in SUBSET Nat
  BY <1>2 DEF Highs, Entry
<1>5. /\ new \in Nat /\ new \in {highest, PriceHigh(entry.bars[i])}
      /\ new >= highest /\ new >= PriceHigh(entry.bars[i])
  BY <1>1, HighestIs
<1> HIDE DEF new
<1>6. new \in Highs(entry, i) /\ \A x \in Highs(entry, i) : new >= x
  BY <1>3, <1>4, <1>5
<1>7. new = Max(Highs(entry, i))
  BY <1>4, <1>6, MaxUnique
<1> QED BY <1>6, <1>7 DEF new

\* The next bar ends the walk, is passed because it is over, or is quiet.
LEMMA NextBarStands ==
    ASSUME config \in Config, NEW entry \in Entry, InOrder(entry.bars),
           NEW i \in 2..Len(entry.bars), NEW w \in Loop, NEW last \in 1..(i - 1),
           Stands(entry, w, last, i - 1)
    PROVE  \E new \in 1..i : Stands(entry, Checked(entry, w, entry.bars[i]), new, i)
<1> DEFINE bar == entry.bars[i]
           held == Held(entry, bar)
           highest == Highest(entry, w.highest, bar)
           stop == StopPrice(entry, highest)
           Leaves(price, type) == [highest |-> highest, left |-> TRUE,
                                   exit |-> Exit(bar, price, type)]
           AtClose(type) == Leaves(Level(bar.close), type)
           over == w.left \/ bar.bar_num > Cutoff(entry.bars)
           timed == config.time_stop_bars > 0 /\ held >= config.time_stop_bars
           hit == held > config.min_hold_bars
                    /\ (Level(PriceLow(bar)) <= stop \/ TargetHit(entry, bar))
           back == held > config.min_hold_bars /\ config.exit_reentry_range
                    /\ bar.close < entry.or_high
           w1 == Checked(entry, w, bar)
<1>1. /\ Len(entry.bars) \in Nat /\ DOMAIN entry.bars = 1..Len(entry.bars)
      /\ \A j \in 1..Len(entry.bars) : entry.bars[j] \in Bar
      /\ bar \in Bar /\ bar.bar_num \in Nat
      /\ entry.bars[1] \in Bar /\ entry.bars[1].bar_num \in Nat
  <2>1. entry.bars \in Seq(Bar)
    BY DEF Entry
  <2>2. /\ Len(entry.bars) \in Nat /\ DOMAIN entry.bars = 1..Len(entry.bars)
        /\ \A j \in 1..Len(entry.bars) : entry.bars[j] \in Bar
    BY <2>1
  <2>3. bar \in Bar /\ entry.bars[1] \in Bar
    BY <2>2
  <2> QED BY <2>2, <2>3 DEF Bar
<1>2. held = Minutes(entry, i) /\ held \in Int
  BY <1>1 DEF Held, Minutes
<1>3. w.highest \in Nat /\ w.left \in BOOLEAN
  BY DEF Loop
<1>4. Cutoff(entry.bars) \in Int
  <2>1. entry.bars[Len(entry.bars)] \in Bar
    BY <1>1
  <2>2. entry.bars[Len(entry.bars)].bar_num \in Nat /\ config.eod_buffer_bars \in Nat
    BY <2>1 DEF Bar, Config
  <2> QED BY <2>2 DEF Cutoff, Last
<1>5. CASE over
  <2>1. w1 = w
    BY <1>5 DEF Checked
  <2>2. ASSUME ~w.left, NEW j \in last + 1..i PROVE entry.bars[j].bar_num > Cutoff(entry.bars)
    BY <1>5, <2>2 DEF Stands
  <2>3. Stands(entry, w, last, i)
    BY <2>2 DEF Stands
  <2> QED BY <2>1, <2>3
<1>6. CASE ~over
  <2> SUFFICES Stands(entry, w1, i, i)
    <3>1. i \in 1..i
      OBVIOUS
    <3> QED BY <3>1
  <2>1. last = i - 1
    <3> SUFFICES ASSUME last < i - 1 PROVE FALSE
      OBVIOUS
    <3>1. i - 1 \in last + 1..(i - 1)
      OBVIOUS
    <3>2. entry.bars[i - 1].bar_num > Cutoff(entry.bars)
      BY <1>6, <3>1 DEF Stands
    <3>3. entry.bars[i - 1].bar_num < bar.bar_num
      <4>1. i - 1 \in DOMAIN entry.bars /\ i \in DOMAIN entry.bars /\ i - 1 < i
        BY <1>1
      <4> QED BY <4>1 DEF InOrder
    <3>4. entry.bars[i - 1].bar_num \in Nat
      BY <1>1 DEF Bar
    <3> QED BY <1>1, <1>4, <1>6, <3>2, <3>3, <3>4
  <2>2. \A j \in 2..(i - 1) : Quiet(entry, j)
    <3> SUFFICES ASSUME NEW j \in 2..(i - 1) PROVE Quiet(entry, j)
      OBVIOUS
    <3>1. j \in 2..(last - 1) \/ (j = last /\ last > 1)
      BY <2>1
    <3> QED BY <1>6, <3>1 DEF Stands
  <2>3. /\ highest \in Highs(entry, i) /\ \A x \in Highs(entry, i) : highest >= x
        /\ highest = Max(Highs(entry, i)) /\ highest \in Nat
    <3>1. w.highest \in Highs(entry, i - 1) /\ \A x \in Highs(entry, i - 1) : w.highest >= x
      BY <1>6, <2>1 DEF Stands
    <3>2. highest \in Nat
      BY <1>1, <1>3, HighestIs
    <3> QED BY <1>3, <3>1, <3>2, HighsGrow
  <2>4. bar.bar_num <= Cutoff(entry.bars)
    BY <1>1, <1>4, <1>6
  <2> HIDE DEF highest
  <2>5. ASSUME NEW price, NEW type \in ExitTypes \ {"eod"}, w1 = Leaves(price, type)
        PROVE  Stands(entry, w1, i, i)
    <3>1. w1.left /\ w1.exit.exit_bar = bar.bar_num /\ w1.exit.exit_type # "eod"
      BY <2>5 DEF Exit
    <3> HIDE DEF w1, bar
    <3> QED BY <2>2, <2>4, <3>1 DEF Stands, bar
  <2>6. CASE timed
    <3>1. w1 = AtClose("time_stop")
      BY <1>6, <2>6 DEF Checked, highest
    <3> HIDE DEF w1, Leaves
    <3> QED BY <2>5, <3>1 DEF ExitTypes
  <2>7. CASE ~timed /\ hit
    <3>1. \E price : w1 = Leaves(price, "signal")
      BY <1>6, <2>7 DEF Checked, highest
    <3> HIDE DEF w1, Leaves
    <3> QED BY <2>5, <3>1 DEF ExitTypes
  <2>8. CASE ~timed /\ ~hit /\ back
    <3>1. w1 = AtClose("reentry")
      BY <1>6, <2>8 DEF Checked, highest
    <3> HIDE DEF w1, Leaves
    <3> QED BY <2>5, <3>1 DEF ExitTypes
  <2>9. CASE ~timed /\ ~hit /\ ~back
    <3>1. w1 = [AtClose("eod") EXCEPT !.left = FALSE]
      BY <1>6, <2>9 DEF Checked, highest
    <3>2. /\ ~w1.left /\ w1.exit.exit_bar = bar.bar_num /\ w1.exit.exit_type = "eod"
          /\ w1.highest = highest
      BY <3>1 DEF Exit
    <3>3. /\ PriceLow(bar) \in Nat /\ Level(PriceLow(bar)) \in Nat
          /\ stop \in Int /\ stop >= FixedStop(entry)
          /\ FixedStop(entry) \in Int /\ FixedStop(entry) >= entry.entry_price
          /\ entry.entry_price \in Nat /\ entry.or_high \in Nat /\ bar.close \in Nat
      BY <1>1, <2>3, LevelsType DEF Entry, Bar
    <3>4. /\ config.time_stop_bars \in Nat /\ config.min_hold_bars \in Nat
      BY DEF Config
    <3>5. Quiet(entry, i)
      <4> HIDE DEF w1
      <4>1. config.time_stop_bars > 0 => held < config.time_stop_bars
        BY <1>2, <2>9, <3>4
      <4>2. ASSUME held > config.min_hold_bars
            PROVE  /\ ~TargetHit(entry, bar) /\ Level(PriceLow(bar)) > stop
                   /\ Level(PriceLow(bar)) > entry.entry_price
                   /\ config.exit_reentry_range => bar.close >= entry.or_high
        <5> HIDE DEF stop, bar
        <5> QED BY <2>9, <3>3, <4>2
      <4> QED BY <1>2, <2>3, <4>1, <4>2 DEF Quiet
    <3> HIDE DEF w1, bar
    <3> QED BY <2>2, <2>3, <2>4, <3>2, <3>5 DEF Stands, bar
  <2> QED BY <2>5, <2>6, <2>7, <2>8, <2>9
<1> QED BY <1>5, <1>6

\* The whole walk: the exit is on the first bar that gives reason to.
LEMMA ExitStands ==
    ASSUME config \in Config, NEW entry \in Entry, InOrder(entry.bars)
    PROVE  \E last \in 1..Len(entry.bars) :
                \E w \in Loop : /\ Stands(entry, w, last, Len(entry.bars))
                                /\ ResolveExit(entry) = w.exit
<1> DEFINE N == Len(entry.bars)
           W == Walked(entry)
           D == 1..N
           prev == [i \in D \ {1} |-> i - 1]
           rank == [i \in D |-> i]
           Good == {i \in D : \E last \in 1..i : Stands(entry, W[i], last, i)}
<1>1. entry.bars \in Seq(Bar) /\ entry.bars # <<>>
  BY DEF Entry, InOrder
<1>2. N \in Nat \ {0}
  BY <1>1
<1>3. /\ W \in [D -> Loop] /\ W[1] = Start(entry)
      /\ \A i \in 2..N : W[i] = Checked(entry, W[i - 1], entry.bars[i])
  BY <1>1, WalkIs
<1> HIDE DEF W
<1>4. Descends(D, {1}, rank, prev)
  BY <1>2 DEF Descends
<1>5. Stands(entry, Start(entry), 1, 1)
  <2> DEFINE w == Start(entry)
  <2>1. /\ w.exit.exit_bar = entry.bars[1].bar_num /\ w.exit.exit_type = "eod"
        /\ ~w.left /\ w.highest = entry.entry_price
    BY DEF Start, Exit
  <2>2. Highs(entry, 1) = {entry.entry_price} /\ entry.entry_price \in Nat
    BY DEF Highs, Entry
  <2> HIDE DEF w
  <2> QED BY <2>1, <2>2 DEF Stands, w
<1>6. PassedUp(D, {1}, prev, Good)
  <2> SUFFICES ASSUME NEW i \in D, i \in {1} \/ prev[i] \in Good PROVE i \in Good
    BY DEF PassedUp
  <2>1. CASE i = 1
    BY <1>3, <1>5, <2>1
  <2>2. CASE i # 1
    <3>1. i \in 2..N /\ i - 1 \in D /\ prev[i] = i - 1
      BY <1>2, <2>2
    <3>2. PICK last \in 1..(i - 1) : Stands(entry, W[i - 1], last, i - 1)
      BY <2>2, <3>1
    <3>3. W[i - 1] \in Loop
      BY <1>3, <3>1
    <3>4. \E new \in 1..i : Stands(entry, Checked(entry, W[i - 1], entry.bars[i]), new, i)
      BY <3>1, <3>2, <3>3, NextBarStands
    <3> QED BY <1>3, <3>1, <3>4
  <2> QED BY <2>1, <2>2
<1>7. D \subseteq Good
  <2> HIDE DEF D, rank, prev, Good
  <2> QED BY <1>4, <1>6, Descent
<1>8. N \in Good /\ W[N] \in Loop
  BY <1>2, <1>3, <1>7
<1>9. ResolveExit(entry) = W[N].exit
  BY DEF ResolveExit, W
<1> QED BY <1>8, <1>9

----------------------------------------------------------------------------
(* The order of sorted() *)

\* A relation that orders the places of a list strictly.
Orders(D, R) ==
    /\ R \in SUBSET (D \X D)
    /\ \A i \in D : <<i, i>> \notin R
    /\ \A i, j, k \in D : <<i, j>> \in R /\ <<j, k>> \in R => <<i, k>> \in R
    /\ \A i, j \in D : i = j \/ <<i, j>> \in R \/ <<j, i>> \in R

Before(R, D, i) == {j \in D : <<j, i>> \in R}

\* How many come before tells the places apart.
LEMMA PlacesDiffer ==
    ASSUME NEW n \in Nat, NEW R, Orders(1..n, R)
    PROVE  /\ \A i \in 1..n : /\ IsFiniteSet(Before(R, 1..n, i))
                              /\ Cardinality(Before(R, 1..n, i)) + 1 \in 1..n
           /\ \A i, j \in 1..n : <<i, j>> \in R =>
                Cardinality(Before(R, 1..n, i)) < Cardinality(Before(R, 1..n, j))
<1> DEFINE D == 1..n
<1>1. IsFiniteSet(D) /\ Cardinality(D) = n
  BY FS_Interval
<1> HIDE DEF D
<1>2. ASSUME NEW i \in D
      PROVE  /\ IsFiniteSet(Before(R, D, i)) /\ Cardinality(Before(R, D, i)) \in Nat
             /\ Cardinality(Before(R, D, i)) < n
  <2>1. Before(R, D, i) \in SUBSET D /\ i \notin Before(R, D, i)
    BY DEF Before, Orders, D
  <2>2. IsFiniteSet(Before(R, D, i)) /\ Cardinality(Before(R, D, i)) <= n
    BY <1>1, <2>1, FS_Subset
  <2>3. Cardinality(Before(R, D, i)) # n
    BY <1>1, <2>1, FS_Subset
  <2> QED BY <2>2, <2>3, FS_CardinalityType
<1>3. ASSUME NEW i \in D, NEW j \in D, <<i, j>> \in R
      PROVE  Cardinality(Before(R, D, i)) < Cardinality(Before(R, D, j))
  <2>1. Before(R, D, i) \in SUBSET Before(R, D, j)
    BY <1>3 DEF Before, Orders, D
  <2>2. i \in Before(R, D, j) /\ i \notin Before(R, D, i)
    BY <1>3 DEF Before, Orders, D
  <2>3. /\ Cardinality(Before(R, D, i)) <= Cardinality(Before(R, D, j))
        /\ Cardinality(Before(R, D, i)) # Cardinality(Before(R, D, j))
    BY <1>2, <2>1, <2>2, FS_Subset
  <2> QED BY <1>2, <2>3
<1> QED BY <1>2, <1>3 DEF D

\* A list can be put in the order of such a relation.
LEMMA OrderExists ==
    ASSUME NEW n \in Nat, NEW R, Orders(1..n, R)
    PROVE  \E o \in [1..n -> 1..n] : \A i, j \in 1..n : i < j => <<o[i], o[j]>> \in R
<1> DEFINE D == 1..n
           place == [i \in D |-> Cardinality(Before(R, D, i)) + 1]
<1>1. IsFiniteSet(D)
  BY FS_Interval
<1>2. place \in [D -> D]
  BY PlacesDiffer
<1>3. \A i, j \in D : <<i, j>> \in R => place[i] < place[j]
  <2> SUFFICES ASSUME NEW i \in D, NEW j \in D, <<i, j>> \in R PROVE place[i] < place[j]
    OBVIOUS
  <2>1. Cardinality(Before(R, D, i)) < Cardinality(Before(R, D, j))
    BY PlacesDiffer
  <2>2. Cardinality(Before(R, D, i)) \in Nat /\ Cardinality(Before(R, D, j)) \in Nat
    BY PlacesDiffer, FS_CardinalityType
  <2> QED BY <2>1, <2>2
<1> HIDE DEF place
<1>4. \A i, j \in D : place[i] = place[j] => i = j
  <2> SUFFICES ASSUME NEW i \in D, NEW j \in D, place[i] = place[j], i # j PROVE FALSE
    OBVIOUS
  <2>1. <<i, j>> \in R \/ <<j, i>> \in R
    BY DEF Orders
  <2>2. place[i] \in Int /\ place[j] \in Int
    BY <1>2
  <2> QED BY <1>3, <2>1, <2>2
<1>5. place \in Injection(D, D)
  BY <1>2, <1>4 DEF Injection, IsInjective
<1>6. place \in Surjection(D, D)
  BY <1>1, <1>5, FS_Injection
<1>7. \A p \in D : \E i \in D : place[i] = p
  BY <1>6 DEF Surjection
<1> DEFINE o == [p \in D |-> CHOOSE i \in D : place[i] = p]
<1>8. \A p \in D : o[p] \in D /\ place[o[p]] = p
  BY <1>7
<1>9. o \in [D -> D]
  BY <1>8
<1> HIDE DEF o
<1>10. ASSUME NEW i \in D, NEW j \in D, i < j PROVE <<o[i], o[j]>> \in R
  <2>1. o[i] \in D /\ o[j] \in D /\ place[o[i]] = i /\ place[o[j]] = j
    BY <1>8
  <2>2. o[i] # o[j]
    BY <1>10, <2>1
  <2>3. <<o[j], o[i]>> \notin R
    BY <1>3, <1>10, <2>1
  <2> QED BY <2>1, <2>2, <2>3 DEF Orders
<1> QED BY <1>9, <1>10

----------------------------------------------------------------------------
(* Types *)

ChargesAreNumbers == \A value \in Nat : Charges(value) \in Int

TradeRow == [symbol : Symbols, trade_date : Nat, exit_bar : Nat, exit_price : Int,
             exit_type : ExitTypes, pnl : Int, pnl_pct : Int, order_value : Nat]
DayRow == [date : Nat, margin_available : Int]

LogsTyped == trade_log \in Seq(TradeRow) /\ day_wise_log \in Seq(DayRow)

DayTyped ==
    /\ dates \in SUBSET DOMAIN matrix /\ d \in {NoDay} \cup DOMAIN matrix
    /\ ov \in Nat /\ (d # NoDay => ov > 0)
    /\ selected \in Seq(Entry) /\ (selected # <<>> => d # NoDay)
    /\ \A i \in DOMAIN selected : \E j \in DOMAIN matrix[d] : selected[i] = matrix[d][j]
    /\ margin_used \in Int /\ daily_pnl \in Int
    /\ \E S \in SUBSET Symbols : instrument_counts \in [S -> Nat]

AccountTyped ==
    /\ margin \in Int /\ days_elapsed \in Nat
    /\ next_payout_day \in Nat /\ total_withdrawn \in Int

Typed == InputSound /\ LogsTyped /\ DayTyped /\ AccountTyped

\* The log has finitely many trades, with numbers to add up.
LEMMA TradesType ==
    ASSUME LogsTyped
    PROVE  /\ DOMAIN trade_log = 1..Len(trade_log) /\ Len(trade_log) \in Nat
           /\ IsFiniteSet(DOMAIN trade_log)
           /\ \A n \in DOMAIN trade_log : trade_log[n] \in TradeRow
<1>1. /\ DOMAIN trade_log = 1..Len(trade_log) /\ Len(trade_log) \in Nat
      /\ \A n \in DOMAIN trade_log : trade_log[n] \in TradeRow
  BY DEF LogsTyped
<1> QED BY <1>1, FS_Interval

\* A score is a number.
LEMMA ScoreType == ASSUME LogsTyped, NEW symbol, NEW date PROVE Score(symbol, date) \in Int
<1> DEFINE trades == {n \in DOMAIN trade_log :
                        /\ trade_log[n].symbol = symbol
                        /\ trade_log[n].trade_date > date - config.ranking_window_days}
           f == [n \in trades |-> trade_log[n].pnl_pct]
<1>1. IsFiniteSet(trades)
  BY TradesType, FS_Subset
<1>2. \A n \in trades : trade_log[n].pnl_pct \in Int
  BY TradesType DEF TradeRow
<1>3. f \in [trades -> Int]
  BY <1>2
<1>4. Score(symbol, date) = SumFunction(f)
  BY DEF Score, SumOf
<1> HIDE DEF f, trades
<1> QED BY <1>1, <1>3, <1>4, SumIsInt

\* The pairs of places of which the first comes before the second.
Precede(D, rank) ==
    {p \in D \X D : \/ Higher(rank[p[1]], rank[p[2]])
                    \/ (rank[p[1]] = rank[p[2]] /\ p[1] < p[2])}

LEMMA RanksOrder ==
    ASSUME NEW D \in SUBSET Nat, NEW rank, \A i \in D : \E a, b \in Int : rank[i] = <<a, b>>
    PROVE  Orders(D, Precede(D, rank))
<1> DEFINE before(i, j) == Higher(rank[i], rank[j]) \/ (rank[i] = rank[j] /\ i < j)
<1>2. \A i, j \in D : <<i, j>> \in Precede(D, rank) <=> before(i, j)
  BY DEF Precede
<1>3. Precede(D, rank) \in SUBSET (D \X D)
  BY DEF Precede
<1>5. \A i \in D : ~before(i, i)
  BY DEF Higher
<1>6. ASSUME NEW i \in D, NEW j \in D, NEW k \in D, before(i, j), before(j, k)
      PROVE  before(i, k)
  <2>1. PICK a1, b1 \in Int : rank[i] = <<a1, b1>>
    OBVIOUS
  <2>2. PICK a2, b2 \in Int : rank[j] = <<a2, b2>>
    OBVIOUS
  <2>3. PICK a3, b3 \in Int : rank[k] = <<a3, b3>>
    OBVIOUS
  <2> QED BY <1>6, <2>1, <2>2, <2>3 DEF Higher
<1>7. ASSUME NEW i \in D, NEW j \in D
      PROVE  i = j \/ before(i, j) \/ before(j, i)
  <2>1. PICK a1, b1 \in Int : rank[i] = <<a1, b1>>
    OBVIOUS
  <2>2. PICK a2, b2 \in Int : rank[j] = <<a2, b2>>
    OBVIOUS
  <2>3. i \in Nat /\ j \in Nat
    OBVIOUS
  <2> QED BY <2>1, <2>2, <2>3 DEF Higher
<1> HIDE DEF before
<1> QED BY <1>2, <1>3, <1>5, <1>6, <1>7 DEF Orders

RankOf(date, i) == Rank(matrix[date][i], Score(matrix[date][i].symbol, date))
Ahead(date) == Precede(DOMAIN matrix[date], [i \in DOMAIN matrix[date] |-> RankOf(date, i)])

LEMMA RankType ==
    ASSUME InputSound, NEW date \in DOMAIN matrix, NEW i \in DOMAIN matrix[date],
           NEW score \in Int
    PROVE  \E a, b \in Int : Rank(matrix[date][i], score) = <<a, b>>
<1>1. matrix[date][i] \in Entry
  BY DEF InputSound, DaySound
<1>2. /\ matrix[date][i].signal_strength \in Int /\ matrix[date][i].rvol \in Int
  BY <1>1 DEF Entry
<1> QED BY <1>2 DEF Rank

LEMMA AheadOrders ==
    ASSUME InputSound, LogsTyped, NEW date \in DOMAIN matrix
    PROVE  Orders(DOMAIN matrix[date], Ahead(date))
<1> DEFINE rank == [i \in DOMAIN matrix[date] |-> RankOf(date, i)]
<1>1. DOMAIN matrix[date] \in SUBSET Nat
  BY DEF InputSound, DaySound
<1>2. \A i \in DOMAIN matrix[date] : \E a, b \in Int : rank[i] = <<a, b>>
  BY RankType, ScoreType DEF RankOf
<1> HIDE DEF rank
<1> QED BY <1>1, <1>2, RanksOrder DEF Ahead, rank

\* The entries of a day ranked are the same entries in the order of Ahead.
LEMMA RankedIs ==
    ASSUME InputSound, LogsTyped, NEW date \in DOMAIN matrix
    PROVE  \E o \in [DOMAIN matrix[date] -> DOMAIN matrix[date]] :
              /\ \A i, j \in DOMAIN matrix[date] : i < j => <<o[i], o[j]>> \in Ahead(date)
              /\ Ranked(date) = [i \in DOMAIN matrix[date] |-> matrix[date][o[i]]]
<1> DEFINE D == DOMAIN matrix[date]
           good(o) == \A i, j \in D : i < j => \/ Higher(RankOf(date, o[i]), RankOf(date, o[j]))
                                            \/ /\ RankOf(date, o[i]) = RankOf(date, o[j])
                                               /\ o[i] < o[j]
           order == CHOOSE o \in [D -> D] : good(o)
<1>1. Len(matrix[date]) \in Nat /\ D = 1..Len(matrix[date])
  BY DEF InputSound, DaySound
<1>2. PICK o \in [D -> D] : \A i, j \in D : i < j => <<o[i], o[j]>> \in Ahead(date)
  BY <1>1, AheadOrders, OrderExists
<1>3. ASSUME NEW p \in [D -> D]
      PROVE  good(p) <=> \A i, j \in D : i < j => <<p[i], p[j]>> \in Ahead(date)
  BY DEF Ahead, Precede
<1>4. Ranked(date) = [i \in D |-> matrix[date][order[i]]]
  BY DEF Ranked, RankOf
<1>5. order \in [D -> D] /\ good(order)
  <2> HIDE DEF good, D
  <2> QED BY <1>2, <1>3
<1>6. \A i, j \in D : i < j => <<order[i], order[j]>> \in Ahead(date)
  BY <1>3, <1>5
<1> HIDE DEF order, good
<1> QED BY <1>4, <1>5, <1>6

\* The selected entries are the first of them.
LEMMA SelectedIs ==
    ASSUME InputSound, LogsTyped, NEW date \in DOMAIN matrix
    PROVE  \E o \in [DOMAIN matrix[date] -> DOMAIN matrix[date]] :
              /\ \A i, j \in DOMAIN matrix[date] : i < j => <<o[i], o[j]>> \in Ahead(date)
              /\ Selected(date) \in Seq(Entry)
              /\ Len(Selected(date)) = Min({config.max_positions, Len(matrix[date])})
              /\ Len(Selected(date)) \in 0..Len(matrix[date])
              /\ \A i \in DOMAIN matrix[date] :
                    i \in DOMAIN Selected(date) <=> i <= config.max_positions
              /\ \A i \in DOMAIN Selected(date) : Selected(date)[i] = matrix[date][o[i]]
<1> DEFINE entries == matrix[date]
           D == DOMAIN entries
           n == Len(entries)
           ranked == Ranked(date)
           m == Min({config.max_positions, n})
<1>1. PICK o \in [D -> D] :
         /\ \A i, j \in D : i < j => <<o[i], o[j]>> \in Ahead(date)
         /\ ranked = [i \in D |-> entries[o[i]]]
  BY RankedIs
<1>2. n \in Nat /\ D = 1..n /\ \A i \in D : entries[i] \in Entry
  BY DEF InputSound, DaySound
<1>3. config.max_positions \in Nat
  BY DEF InputSound, Config
<1>4. m \in Nat /\ m <= n /\ m <= config.max_positions /\ m \in {config.max_positions, n}
  BY <1>2, <1>3, SmallerIs
<1> HIDE DEF m
<1>5. ranked \in Seq(Entry) /\ Len(ranked) = n
  <2>1. ranked \in [1..n -> Entry]
    BY <1>1, <1>2
  <2> QED BY <1>2, <2>1
<1>6. Selected(date) = SubSeq(ranked, 1, m)
  BY DEF Selected, m
<1> HIDE DEF ranked
<1>7. /\ Selected(date) \in Seq(Entry) /\ Len(Selected(date)) = m
      /\ \A i \in 1..m : Selected(date)[i] = ranked[i]
  BY <1>4, <1>5, <1>6
<1>8. DOMAIN Selected(date) = 1..m
  BY <1>7
<1>9. ASSUME NEW i \in D
      PROVE  i \in DOMAIN Selected(date) <=> i <= config.max_positions
  <2> DEFINE mp == config.max_positions
  <2>1. i \in Nat /\ i >= 1 /\ i <= n
    BY <1>2
  <2> HIDE DEF n, mp
  <2>2. i \in 1..m <=> i <= m
    BY <1>4, <2>1
  <2>3. i <= m <=> i <= mp
    <3>1. m <= n /\ m <= mp /\ (m = mp \/ m = n) /\ mp \in Nat /\ n \in Nat /\ m \in Nat
      BY <1>2, <1>3, <1>4 DEF n, mp
    <3> QED BY <2>1, <3>1
  <2> QED BY <1>8, <2>2, <2>3 DEF mp
<1>10. Selected(date) \in Seq(Entry) /\ Len(Selected(date)) = m /\ m \in 0..n
  <2> HIDE DEF n
  <2>1. m \in 0..n
    BY <1>2, <1>4
  <2> QED BY <1>7, <2>1
<1>11. \A i \in DOMAIN Selected(date) : Selected(date)[i] = entries[o[i]]
  <2> SUFFICES ASSUME NEW i \in 1..m PROVE Selected(date)[i] = entries[o[i]]
    BY <1>8
  <2>1. i \in D
    <3>1. i \in 1..n
      <4> HIDE DEF D, n
      <4> QED BY <1>2, <1>4
    <3> QED BY <1>2, <3>1
  <2> QED BY <1>1, <1>7, <2>1
<1> QED BY <1>1, <1>9, <1>10, <1>11 DEF m

\* A quotient of any sign.
LEMMA WholeQuotient ==
    ASSUME NEW a \in Int, NEW b \in Nat \ {0}
    PROVE  /\ a \div b \in Int
           /\ a < 0 => a \div b < 0
           /\ a >= 0 => a \div b >= 0
  OBVIOUS

\* A share has the sign of what is shared.
LEMMA QuotientsSign ==
    ASSUME NEW a \in Int, NEW b \in Nat \ {0}, NEW q \in Quotients(a, b)
    PROVE  q \in Int /\ (q > 0 <=> a > 0)
<1>1. -a \in Int /\ a \div b \in Int /\ (-a) \div b \in Int
  BY WholeQuotient
<1>2. q \in {a \div b, -((-a) \div b)} /\ (q = 0 => a = 0)
  BY DEF Quotients
<1>3. a = 0 => a \div b = 0 /\ (-a) \div b = 0
  OBVIOUS
<1>4. /\ a < 0 => a \div b < 0
      /\ a >= 0 => a \div b >= 0
      /\ -a < 0 => (-a) \div b < 0
      /\ -a >= 0 => (-a) \div b >= 0
  BY <1>1, WholeQuotient
<1> QED BY <1>1, <1>2, <1>3, <1>4

\* Order values are numbers, and whether one is positive does not depend on the rounding.
LEMMA OrderValuesSign ==
    ASSUME config \in Config, NEW balance \in Int
    PROVE  /\ OrderValues(balance) \in SUBSET Int
           /\ \A v, w \in OrderValues(balance) : v > 0 => w > 0
<1> DEFINE sizes == CASE config.sizing_type = "equal_weight" ->
                        IF config.max_positions = 0 THEN {0}
                        ELSE Quotients(balance, config.max_positions)
                      [] config.sizing_type = "pct_equity" ->
                        Quotients(balance * config.sizing_pct, 100)
                      [] OTHER -> {config.order_value}
<1>1. /\ config.max_positions \in Nat /\ config.sizing_pct \in Nat
      /\ config.order_value \in Nat /\ config.max_order_value \in Nat
  BY DEF Config
<1>2. sizes \in SUBSET Int /\ \A v, w \in sizes : v > 0 => w > 0
  <2>1. CASE config.sizing_type = "equal_weight"
    <3>1. config.max_positions # 0 =>
            \A q \in Quotients(balance, config.max_positions) : q \in Int /\ (q > 0 <=> balance > 0)
      BY <1>1, QuotientsSign
    <3> QED BY <2>1, <3>1
  <2>2. CASE config.sizing_type = "pct_equity"
    <3>1. PICK a \in Int : a = balance * config.sizing_pct
      BY <1>1
    <3>2. \A q \in Quotients(a, 100) : q \in Int /\ (q > 0 <=> a > 0)
      BY QuotientsSign
    <3> QED BY <2>2, <3>1, <3>2
  <2>3. CASE config.sizing_type \notin {"equal_weight", "pct_equity"}
    BY <1>1, <2>3
  <2> QED BY <2>1, <2>2, <2>3
<1>3. OrderValues(balance) = IF config.max_order_value = 0 THEN sizes
                             ELSE {Min({v, config.max_order_value}) : v \in sizes}
  BY DEF OrderValues
<1> HIDE DEF sizes
<1>4. ASSUME NEW v \in sizes
      PROVE  /\ Min({v, config.max_order_value}) \in Int
             /\ config.max_order_value # 0 => (Min({v, config.max_order_value}) > 0 <=> v > 0)
  <2>1. v \in Int
    BY <1>2
  <2>2. /\ Min({v, config.max_order_value}) \in {v, config.max_order_value}
        /\ Min({v, config.max_order_value}) <= v
    BY <1>1, <2>1, SmallerIs
  <2> QED BY <1>1, <2>1, <2>2
<1>5. CASE config.max_order_value = 0
  BY <1>2, <1>3, <1>5
<1>6. CASE config.max_order_value # 0
  <2>1. ASSUME NEW x \in OrderValues(balance)
        PROVE  x \in Int /\ \E v \in sizes : x > 0 <=> v > 0
    <3>1. PICK v \in sizes : x = Min({v, config.max_order_value})
      BY <1>3, <1>6
    <3> QED BY <1>4, <1>6, <3>1
  <2> QED BY <1>2, <2>1
<1> QED BY <1>5, <1>6

\* A payout is a number.
LEMMA PayoutType ==
    ASSUME config \in Config, NEW balance \in Int
    PROVE  Payout(balance) \in Int
<1> DEFINE amount == IF config.payout = "percentage"
                     THEN (balance * config.payout_value) \div 100 ELSE config.payout_value
<1>1. config.payout_value \in Nat
  BY DEF Config
<1>2. amount \in Int
  <2>1. PICK a \in Int : a = balance * config.payout_value
    BY <1>1
  <2> QED BY <1>1, <2>1, WholeQuotient
<1>3. Max({balance, 0}) \in Int
  BY LargerIs
<1>4. Payout(balance) = Min({amount, Max({balance, 0})})
  BY DEF Payout
<1> HIDE DEF amount
<1> QED BY <1>2, <1>3, <1>4, SmallerIs

\* The exit of an entry of a day is of its type.
LEMMA ExitType ==
    ASSUME InputSound, NEW date \in DOMAIN matrix, NEW j \in DOMAIN matrix[date]
    PROVE  matrix[date][j] \in Entry /\ ResolveExit(matrix[date][j]) \in ExitRow
<1>1. matrix[date][j] \in Entry /\ InOrder(matrix[date][j].bars) /\ config \in Config
  BY DEF InputSound, DaySound
<1>2. \E w \in Loop : ResolveExit(matrix[date][j]) = w.exit
  BY <1>1, ExitStands
<1> QED BY <1>1, <1>2 DEF Loop

LEMMA InitTyped == Init => Typed
<1> SUFFICES ASSUME Init PROVE Typed
  OBVIOUS
<1>1. InputSound /\ config \in Config
  BY InitSound DEF InputSound
<1>2. FirstPayoutDay(config) \in Nat
  <2>1. config.lockup_days \in Nat /\ config.interval_days \in Nat
    BY <1>1 DEF Config
  <2> QED BY <2>1, LargerIs DEF FirstPayoutDay
<1>3. config.initial_capital \in Nat
  BY <1>1 DEF Config
<1>4. LogsTyped
  BY DEF Init, LogsTyped
<1>5. DayTyped
  <2>1. instrument_counts = NoCounts /\ NoCounts \in [{} -> Nat]
    BY DEF Init, NoCounts
  <2>2. \E S \in SUBSET Symbols : instrument_counts \in [S -> Nat]
    BY <2>1
  <2>3. /\ dates = DOMAIN matrix /\ d = NoDay /\ selected = <<>> /\ ov = 0
        /\ margin_used = 0 /\ daily_pnl = 0
    BY DEF Init
  <2>4. selected \in Seq(Entry) /\ DOMAIN selected = {}
    BY <2>3
  <2> QED BY <2>2, <2>3, <2>4 DEF DayTyped
<1> QED BY <1>1, <1>2, <1>3, <1>4, <1>5 DEF Init, Typed, AccountTyped

\* The next date is the first of those that are left.
LEMMA NextDate ==
    ASSUME InputSound, dates \in SUBSET DOMAIN matrix, dates # {}
    PROVE  /\ Min(dates) \in dates /\ Min(dates) \in DOMAIN matrix
           /\ Min(dates) \in Nat \ {0} /\ \A x \in dates : Min(dates) <= x
<1>1. dates \in SUBSET (Nat \ {0})
  BY DEF InputSound, DaySound
<1>2. dates \in SUBSET Nat
  BY <1>1
<1> QED BY <1>1, <1>2, MinIs

LEMMA SkipKeepsTyped == ASSUME Typed, SkipDay PROVE Typed'
<1> USE DEF Typed
<1>1. Min(dates) \in Nat /\ margin \in Int
  BY NextDate DEF SkipDay, DayTyped, AccountTyped
<1>2. day_wise_log' \in Seq(DayRow)
  <2>1. [date |-> Min(dates), margin_available |-> margin] \in DayRow
    BY <1>1 DEF DayRow
  <2> QED BY <2>1 DEF SkipDay, Log, LogsTyped
<1>3. InputSound' /\ AccountTyped' /\ LogsTyped'
  BY <1>2 DEF SkipDay, input, InputSound, DaySound, AccountTyped, LogsTyped
<1>4. DayTyped'
  BY DEF SkipDay, input, day, DayTyped
<1> QED BY <1>3, <1>4

LEMMA OpenKeepsTyped == ASSUME Typed, OpenDay PROVE Typed'
<1> USE DEF Typed
<1>1. /\ d' \in DOMAIN matrix /\ d' # NoDay /\ dates' \in SUBSET DOMAIN matrix
  BY NextDate DEF OpenDay, DayTyped, NoDay
<1>2. ov' \in Nat /\ ov' > 0
  <2>1. ov' \in Int /\ ov' > 0
    BY OrderValuesSign DEF OpenDay, AccountTyped, InputSound
  <2> QED BY <2>1
<1>3. selected' = Selected(d') /\ UNCHANGED <<config, matrix, trade_log, day_wise_log>>
  BY DEF OpenDay, input, account
<1>4. PICK o \in [DOMAIN matrix[d'] -> DOMAIN matrix[d']] :
         /\ Selected(d') \in Seq(Entry)
         /\ \A i \in DOMAIN Selected(d') : Selected(d')[i] = matrix[d'][o[i]]
         /\ Len(Selected(d')) \in 0..Len(matrix[d'])
  BY <1>1, SelectedIs
<1>5. \A i \in DOMAIN selected' : \E j \in DOMAIN matrix'[d'] : selected'[i] = matrix'[d'][j]
  <2>1. ASSUME NEW i \in DOMAIN Selected(d') PROVE i \in DOMAIN matrix[d']
    <3>1. i \in 1..Len(Selected(d'))
      BY <1>4
    <3>2. Len(matrix[d']) \in Nat /\ DOMAIN matrix[d'] = 1..Len(matrix[d'])
      BY <1>1 DEF InputSound, DaySound
    <3> QED BY <1>4, <3>1, <3>2
  <2>2. \A i \in DOMAIN Selected(d') :
            o[i] \in DOMAIN matrix[d'] /\ Selected(d')[i] = matrix[d'][o[i]]
    BY <1>4, <2>1
  <2> QED BY <1>3, <2>2
<1>6. selected' \in Seq(Entry)
  BY <1>3, <1>4
<1>7. margin_used' = 0 /\ daily_pnl' = 0 /\ instrument_counts' = NoCounts
  BY DEF OpenDay
<1>8. \E S \in SUBSET Symbols : instrument_counts' \in [S -> Nat]
  <2>1. instrument_counts' \in [{} -> Nat]
    BY <1>7 DEF NoCounts
  <2> QED BY <2>1
<1>9. DayTyped'
  BY <1>1, <1>2, <1>3, <1>5, <1>6, <1>7, <1>8 DEF DayTyped
<1> QED BY <1>9 DEF OpenDay, input, account, InputSound, DaySound, AccountTyped, LogsTyped

\* The head of the selection is an entry of the day.
LEMMA HeadIs ==
    ASSUME Typed, selected # <<>>
    PROVE  /\ d \in DOMAIN matrix /\ d \in Nat \ {0} /\ d # NoDay
           /\ Head(selected) = selected[1] /\ 1 \in DOMAIN selected
           /\ Head(selected) \in Entry
           /\ \E j \in DOMAIN matrix[d] : Head(selected) = matrix[d][j]
           /\ Tail(selected) \in Seq(Entry)
           /\ \A i \in DOMAIN Tail(selected) :
                i + 1 \in DOMAIN selected /\ Tail(selected)[i] = selected[i + 1]
<1>1. selected \in Seq(Entry)
  BY DEF Typed, DayTyped
<1>2. /\ Head(selected) = selected[1] /\ 1 \in DOMAIN selected /\ Head(selected) \in Entry
      /\ Tail(selected) \in Seq(Entry)
      /\ \A i \in DOMAIN Tail(selected) :
            i + 1 \in DOMAIN selected /\ Tail(selected)[i] = selected[i + 1]
  BY <1>1
<1>3. d \in DOMAIN matrix /\ d # NoDay
  BY DEF Typed, DayTyped
<1>4. d \in Nat \ {0}
  BY <1>3 DEF Typed, InputSound, DaySound
<1> QED BY <1>2, <1>3, <1>4 DEF Typed, DayTyped

LEMMA PassKeepsTyped == ASSUME Typed, PassOver \/ StopBuying PROVE Typed'
<1>1. selected # <<>> /\ (selected' = Tail(selected) \/ selected' = <<>>)
  BY DEF PassOver, StopBuying
<1>2. UNCHANGED <<config, matrix, dates, d, ov, margin_used, daily_pnl, instrument_counts,
                  margin, days_elapsed, next_payout_day, total_withdrawn, trade_log,
                  day_wise_log>>
  BY DEF PassOver, StopBuying, input, day, account
<1>3. selected' \in Seq(Entry) /\ d # NoDay
  <2>1. Tail(selected) \in Seq(Entry) /\ d # NoDay /\ <<>> \in Seq(Entry)
    BY <1>1, HeadIs
  <2> QED BY <1>1, <2>1
<1>4. \A i \in DOMAIN selected' : \E j \in DOMAIN matrix[d] : selected'[i] = matrix[d][j]
  BY <1>1, HeadIs DEF Typed, DayTyped
<1> QED BY <1>2, <1>3, <1>4
        DEF Typed, DayTyped, InputSound, DaySound, AccountTyped, LogsTyped

\* The row a trade adds to the log.
GainOf(entry) == ResolveExit(entry).exit_price - Level(entry.entry_price)
PnlOf(entry, value) == (GainOf(entry) * value) \div Level(entry.entry_price) - Charges(value)
RowOf(entry, date, value) ==
    [symbol |-> entry.symbol, trade_date |-> date,
     exit_bar |-> ResolveExit(entry).exit_bar, exit_price |-> ResolveExit(entry).exit_price,
     exit_type |-> ResolveExit(entry).exit_type, pnl |-> PnlOf(entry, value),
     pnl_pct |-> (100 * GainOf(entry)) \div entry.entry_price, order_value |-> value]

LEMMA TradeIs ==
    ASSUME Typed, ChargesAreNumbers, Trade
    PROVE  /\ RowOf(Head(selected), d, ov) \in TradeRow
           /\ trade_log' = Append(trade_log, RowOf(Head(selected), d, ov))
           /\ daily_pnl' = daily_pnl + PnlOf(Head(selected), ov)
           /\ PnlOf(Head(selected), ov) \in Int
<1> DEFINE entry == Head(selected)
<1>1. selected # <<>> /\ entry.entry_price > 0
  BY DEF Trade, Tradable
<1>2. PICK j \in DOMAIN matrix[d] : entry = matrix[d][j]
  BY <1>1, HeadIs
<1>3. entry \in Entry /\ d \in Nat /\ d \in DOMAIN matrix
  BY <1>1, HeadIs
<1>4. ResolveExit(entry) \in ExitRow
  BY <1>2, <1>3, ExitType DEF Typed
<1>5. ov \in Nat /\ Charges(ov) \in Int
  BY DEF Typed, DayTyped, ChargesAreNumbers
<1>6. /\ entry.entry_price \in Nat \ {0} /\ Level(entry.entry_price) \in Nat \ {0}
      /\ entry.symbol \in Symbols
  BY <1>1, <1>3 DEF Entry, Level
<1>7. GainOf(entry) \in Int
  BY <1>4, <1>6 DEF GainOf, ExitRow
<1>8. GainOf(entry) * ov \in Int /\ 100 * GainOf(entry) \in Int
  BY <1>5, <1>7
<1>9. PnlOf(entry, ov) \in Int /\ (100 * GainOf(entry)) \div entry.entry_price \in Int
  BY <1>5, <1>6, <1>8, WholeQuotient DEF PnlOf
<1>10. /\ trade_log' = Append(trade_log, RowOf(entry, d, ov))
       /\ daily_pnl' = daily_pnl + PnlOf(entry, ov)
  BY DEF Trade, RowOf, PnlOf, GainOf
<1> HIDE DEF entry
<1>11. RowOf(entry, d, ov) \in TradeRow
  BY <1>3, <1>4, <1>5, <1>6, <1>9 DEF RowOf, TradeRow, ExitRow
<1> QED BY <1>9, <1>10, <1>11 DEF entry

LEMMA TradeKeepsTyped == ASSUME Typed, ChargesAreNumbers, Trade PROVE Typed'
<1>1. /\ selected # <<>> /\ selected' = Tail(selected)
      /\ UNCHANGED <<config, matrix, dates, d, ov, margin, days_elapsed, next_payout_day,
                     total_withdrawn, day_wise_log>>
      /\ margin_used' = margin_used + ov
  BY DEF Trade, input, account
<1>2. trade_log' \in Seq(TradeRow) /\ daily_pnl' \in Int
  <2>1. trade_log \in Seq(TradeRow) /\ daily_pnl \in Int
    BY DEF Typed, LogsTyped, DayTyped
  <2>2. PICK row \in TradeRow, gain \in Int :
           trade_log' = Append(trade_log, row) /\ daily_pnl' = daily_pnl + gain
    BY TradeIs
  <2> QED BY <2>1, <2>2
<1>3. \E S \in SUBSET Symbols : instrument_counts' \in [S -> Nat]
  <2> DEFINE sym == Head(selected).symbol
  <2>1. PICK S \in SUBSET Symbols : instrument_counts \in [S -> Nat]
    BY DEF Typed, DayTyped
  <2>2. sym \in Symbols
    BY <1>1, HeadIs DEF Entry
  <2>3. \A x : Count(x) \in Nat
    BY <2>1 DEF Count
  <2>4. instrument_counts' = [x \in S \cup {sym} |-> Count(x) + IF x = sym THEN 1 ELSE 0]
    BY <2>1 DEF Trade
  <2> HIDE DEF sym
  <2>5. instrument_counts' \in [S \cup {sym} -> Nat]
    BY <2>3, <2>4
  <2> QED BY <2>2, <2>5
<1>4. selected' \in Seq(Entry) /\ d # NoDay
  BY <1>1, HeadIs
<1>5. \A i \in DOMAIN selected' : \E j \in DOMAIN matrix[d] : selected'[i] = matrix[d][j]
  BY <1>1, HeadIs DEF Typed, DayTyped
<1> QED BY <1>1, <1>2, <1>3, <1>4, <1>5
        DEF Typed, DayTyped, InputSound, DaySound, AccountTyped, LogsTyped

LEMMA CloseKeepsTyped == ASSUME Typed, CloseDay PROVE Typed'
<1> DEFINE balance == margin + daily_pnl
           withdrawal == IF PayoutDue THEN Payout(balance) ELSE 0
<1> USE DEF Typed
<1>1. balance \in Int /\ config \in Config
  BY DEF AccountTyped, DayTyped, InputSound
<1>2. withdrawal \in Int
  BY <1>1, PayoutType
<1>3. config.interval_days \in Nat
  BY <1>1 DEF Config
<1>4. /\ margin' = balance - withdrawal /\ total_withdrawn' = total_withdrawn + withdrawal
      /\ next_payout_day' = next_payout_day + IF PayoutDue THEN config.interval_days ELSE 0
      /\ days_elapsed' = days_elapsed + 1 /\ d' = NoDay /\ ov' = 0
      /\ UNCHANGED <<config, matrix, dates, selected, margin_used, daily_pnl,
                     instrument_counts, trade_log>>
      /\ d \in DOMAIN matrix /\ d # NoDay /\ selected = <<>>
  BY DEF CloseDay, input, day, DayTyped
<1>5. day_wise_log' = Append(day_wise_log, [date |-> d, margin_available |-> margin'])
  BY DEF CloseDay, Log
<1> HIDE DEF balance, withdrawal
<1>6. AccountTyped'
  BY <1>1, <1>2, <1>3, <1>4 DEF AccountTyped
<1>7. d \in Nat /\ margin' \in Int
  BY <1>4, <1>6 DEF AccountTyped, InputSound, DaySound
<1>8. [date |-> d, margin_available |-> margin'] \in DayRow
  BY <1>7 DEF DayRow
<1>9. LogsTyped'
  BY <1>4, <1>5, <1>8 DEF LogsTyped
<1>10. DayTyped'
  BY <1>4 DEF DayTyped
<1> QED BY <1>4, <1>6, <1>9, <1>10 DEF InputSound, DaySound

LEMMA StepKeepsTyped == ASSUME Typed, ChargesAreNumbers, [Next]_vars PROVE Typed'
<1>1. CASE UNCHANGED vars
  BY <1>1 DEF vars, Typed, DayTyped, InputSound, DaySound, AccountTyped, LogsTyped
<1> QED BY <1>1, SkipKeepsTyped, OpenKeepsTyped, PassKeepsTyped, TradeKeepsTyped,
           CloseKeepsTyped DEF Next

\* The variables keep their types.
THEOREM IntradayTypes == ASSUME ChargesAreNumbers PROVE Spec => []Typed
<1>1. Typed /\ [Next]_vars => Typed'
  BY StepKeepsTyped
<1> QED BY <1>1, InitTyped, PTL DEF Spec

----------------------------------------------------------------------------
(* When a position leaves *)

\* A trade is one of an entry of its day, out as _resolve_exit has it.
ResolvedRow(t) ==
    /\ t.trade_date \in DOMAIN matrix
    /\ \E j \in DOMAIN matrix[t.trade_date] :
          LET entry == matrix[t.trade_date][j]
          IN  /\ t.symbol = entry.symbol
              /\ t.exit_bar = ResolveExit(entry).exit_bar
              /\ t.exit_type = ResolveExit(entry).exit_type

Resolved == \A n \in DOMAIN trade_log : ResolvedRow(trade_log[n])

\* Only a trade is written to the log, behind the others.
LEMMA LogGrows ==
    ASSUME Typed, ChargesAreNumbers, [Next]_vars
    PROVE  /\ UNCHANGED <<config, matrix>>
           /\ \/ UNCHANGED trade_log
              \/ Trade /\ trade_log' = Append(trade_log, RowOf(Head(selected), d, ov))
<1>1. UNCHANGED <<config, matrix>>
  BY DEF Next, vars, SkipDay, OpenDay, PassOver, StopBuying, Trade, CloseDay, input
<1>2. UNCHANGED trade_log \/ Trade
  BY DEF Next, vars, SkipDay, OpenDay, PassOver, StopBuying, CloseDay
<1> QED BY <1>1, <1>2, TradeIs

\* The trades of a longer log.
LEMMA AppendIs ==
    ASSUME LogsTyped, NEW row \in TradeRow
    PROVE  /\ DOMAIN Append(trade_log, row) = DOMAIN trade_log \cup {Len(trade_log) + 1}
           /\ Len(trade_log) + 1 \notin DOMAIN trade_log
           /\ \A n \in DOMAIN trade_log : Append(trade_log, row)[n] = trade_log[n]
           /\ Append(trade_log, row)[Len(trade_log) + 1] = row
<1>1. trade_log \in Seq(TradeRow)
  BY DEF LogsTyped
<1>2. Len(trade_log) \in Nat /\ DOMAIN trade_log = 1..Len(trade_log)
  BY <1>1
<1>3. /\ Append(trade_log, row) \in Seq(TradeRow)
      /\ Len(Append(trade_log, row)) = Len(trade_log) + 1
      /\ \A n \in 1..Len(trade_log) : Append(trade_log, row)[n] = trade_log[n]
      /\ Append(trade_log, row)[Len(trade_log) + 1] = row
  BY <1>1
<1>4. DOMAIN Append(trade_log, row) = 1..Len(trade_log) + 1
  BY <1>3
<1> QED BY <1>2, <1>3, <1>4

\* The walk depends on the configuration alone.
LEMMA ExitRemains ==
    ASSUME UNCHANGED config, NEW entry
    PROVE  ResolveExit(entry)' = ResolveExit(entry)
<1>1. \A bar : PriceHigh(bar)' = PriceHigh(bar) /\ PriceLow(bar)' = PriceLow(bar)
  BY DEF PriceHigh, PriceLow
<1>2. \A highest : StopPrice(entry, highest)' = StopPrice(entry, highest)
  BY DEF StopPrice, FixedStop, Level
<1>3. \A bar : TargetHit(entry, bar)' = TargetHit(entry, bar)
  BY <1>1 DEF TargetHit, TargetPrice, Level
<1>4. ASSUME NEW w, NEW bar
      PROVE  Checked(entry, w, bar)' = Checked(entry, w, bar)
  <2> DEFINE highest == Highest(entry, w.highest, bar)
             stop == StopPrice(entry, highest)
             Leaves(price, type) == [highest |-> highest, left |-> TRUE,
                                     exit |-> Exit(bar, price, type)]
             AtClose(type) == Leaves(Level(bar.close), type)
             held == Held(entry, bar)
             stop_hit == Level(PriceLow(bar)) <= stop
             result(over, timed, hit, aside, back) ==
                IF over THEN w ELSE IF timed THEN AtClose("time_stop")
                ELSE IF hit
                THEN IF ~aside THEN AtClose("signal")
                     ELSE Leaves(IF stop_hit THEN stop ELSE TargetPrice(entry), "signal")
                ELSE IF back THEN AtClose("reentry")
                ELSE [AtClose("eod") EXCEPT !.left = FALSE]
             over == w.left \/ bar.bar_num > Cutoff(entry.bars)
             timed == config.time_stop_bars > 0 /\ held >= config.time_stop_bars
             hit == held > config.min_hold_bars /\ (stop_hit \/ TargetHit(entry, bar))
             back == held > config.min_hold_bars /\ config.exit_reentry_range
                        /\ bar.close < entry.or_high
  <2>1. Checked(entry, w, bar) = result(over, timed, hit, config.use_bar_hilo, back)
    BY DEF Checked
  <2>2. Checked(entry, w, bar)' = result(over, timed, hit, config.use_bar_hilo, back)'
    BY DEF Checked
  <2>3. highest' = highest
    BY <1>1 DEF Highest
  <2>4. stop' = stop
    BY <1>2, <2>3
  <2>5. /\ over' = over /\ timed' = timed /\ hit' = hit /\ back' = back
        /\ stop_hit' = stop_hit /\ TargetPrice(entry)' = TargetPrice(entry)
    BY <1>1, <1>3, <2>4 DEF Cutoff, Held, Level, TargetPrice
  <2> HIDE DEF highest, stop, over, timed, hit, back, stop_hit
  <2>6. result(over, timed, hit, config.use_bar_hilo, back)'
            = result(over, timed, hit, config.use_bar_hilo, back)
    BY <2>3, <2>4, <2>5 DEF Exit, Level
  <2> QED BY <2>1, <2>2, <2>6
<1> DEFINE body(f) == [i \in DOMAIN entry.bars |->
                         IF i = 1 THEN Start(entry) ELSE Checked(entry, f[i - 1], entry.bars[i])]
<1>5. Walked(entry) = CHOOSE f : f = body(f)
  BY DEF Walked, Start
<1>6. Walked(entry)' = CHOOSE f : f = body(f)'
  BY DEF Walked, Start
<1>7. \A f : body(f)' = body(f)
  BY <1>4 DEF Start, Exit, Level
<1> HIDE DEF body
<1> QED BY <1>5, <1>6, <1>7 DEF ResolveExit

LEMMA StepKeepsResolved ==
    ASSUME Typed, ChargesAreNumbers, Resolved, [Next]_vars PROVE Resolved'
<1>1. CASE UNCHANGED trade_log
  <2>1. \A entry : ResolveExit(entry)' = ResolveExit(entry)
    BY LogGrows, ExitRemains
  <2> QED BY <1>1, <2>1, LogGrows DEF Resolved, ResolvedRow
<1>2. CASE Trade
  <2> DEFINE row == RowOf(Head(selected), d, ov)
  <2>1. trade_log' = Append(trade_log, row) /\ UNCHANGED <<config, matrix>>
    BY <1>2, TradeIs DEF Trade, input
  <2>2. PICK j \in DOMAIN matrix[d] : Head(selected) = matrix[d][j]
    BY <1>2, HeadIs DEF Trade
  <2>3. d \in DOMAIN matrix
    BY <1>2, HeadIs DEF Trade
  <2>4. ResolvedRow(row)
    BY <2>2, <2>3 DEF ResolvedRow, RowOf
  <2> HIDE DEF row
  <2> SUFFICES ASSUME NEW n \in DOMAIN trade_log' PROVE ResolvedRow(trade_log'[n])
    <3>1. \A entry : ResolveExit(entry)' = ResolveExit(entry)
      BY <2>1, ExitRemains
    <3> QED BY <2>1, <3>1 DEF Resolved, ResolvedRow
  <2>5. n \in DOMAIN trade_log \/ n = Len(trade_log) + 1
    BY <1>2, <2>1, TradeIs, AppendIs DEF Typed, row
  <2>6. row \in TradeRow
    BY <1>2, TradeIs DEF row
  <2> QED BY <2>1, <2>4, <2>5, <2>6, AppendIs DEF Typed, Resolved
<1> QED BY <1>1, <1>2, LogGrows

\* What the property says of one trade, given its entry and the place of its bar.
LeftInTime(t, entry, last) ==
    /\ \A i \in 2..(last - 1) : Quiet(entry, i)
    /\ last > 1 => t.exit_bar <= Cutoff(entry.bars)
    /\ t.exit_type = "eod" =>
          /\ last > 1 => Quiet(entry, last)
          /\ \A i \in last + 1..Len(entry.bars) : entry.bars[i].bar_num > Cutoff(entry.bars)

LEMMA ResolvedLeaves == ASSUME InputSound, Resolved PROVE LeavesWhenItMust
<1> DEFINE EntryOf(t) == CHOOSE e \in ToSet(matrix[t.trade_date]) : e.symbol = t.symbol
           LastOf(t) == CHOOSE i \in DOMAIN EntryOf(t).bars :
                            EntryOf(t).bars[i].bar_num = t.exit_bar
<1>1. ASSUME NEW n \in DOMAIN trade_log
      PROVE  LeftInTime(trade_log[n], EntryOf(trade_log[n]), LastOf(trade_log[n]))
  <2> DEFINE t == trade_log[n]
             entries == matrix[t.trade_date]
  <2>1. /\ t.trade_date \in DOMAIN matrix
        /\ \E j \in DOMAIN entries : /\ t.symbol = entries[j].symbol
                                     /\ t.exit_bar = ResolveExit(entries[j]).exit_bar
                                     /\ t.exit_type = ResolveExit(entries[j]).exit_type
    BY DEF Resolved, ResolvedRow
  <2>2. PICK j \in DOMAIN entries : /\ t.symbol = entries[j].symbol
                                    /\ t.exit_bar = ResolveExit(entries[j]).exit_bar
                                    /\ t.exit_type = ResolveExit(entries[j]).exit_type
    BY <2>1
  <2> DEFINE entry == entries[j]
  <2>3. /\ entries \in Seq(Entry) /\ OneEntryEach(entries) /\ InOrder(entry.bars)
        /\ config \in Config
    BY <2>1 DEF InputSound, DaySound
  <2>4. entry \in Entry
    BY <2>3
  <2>5. EntryOf(t) = entry
    <3>1. \A e \in ToSet(entries) : e.symbol = t.symbol <=> e = entry
      BY <2>2, <2>3 DEF ToSet, OneEntryEach
    <3>2. entry \in ToSet(entries)
      BY DEF ToSet
    <3> HIDE DEF entry, entries, t
    <3> QED BY <3>1, <3>2 DEF entries
  <2>6. PICK last \in 1..Len(entry.bars), w \in Loop :
           Stands(entry, w, last, Len(entry.bars)) /\ ResolveExit(entry) = w.exit
    BY <2>3, <2>4, ExitStands
  <2>7. /\ entry.bars \in Seq(Bar)
        /\ DOMAIN entry.bars = 1..Len(entry.bars) /\ Len(entry.bars) \in Nat
    BY <2>4 DEF Entry
  <2>8. \A i \in DOMAIN entry.bars : entry.bars[i].bar_num \in Nat
    <3>1. \A i \in DOMAIN entry.bars : entry.bars[i] \in Bar
      BY <2>7
    <3> HIDE DEF entry
    <3> QED BY <3>1 DEF Bar
  <2>9. t.exit_bar = entry.bars[last].bar_num
    BY <2>2, <2>6 DEF Stands
  <2>10. \A i \in DOMAIN entry.bars : entry.bars[i].bar_num = t.exit_bar <=> i = last
    <3> SUFFICES ASSUME NEW i \in DOMAIN entry.bars, entry.bars[i].bar_num = t.exit_bar, i # last
                 PROVE  FALSE
      BY <2>9
    <3>1. i < last \/ last < i
      BY <2>7
    <3>2. last \in DOMAIN entry.bars
      BY <2>7
    <3>3. entry.bars[i].bar_num < entry.bars[last].bar_num
            \/ entry.bars[last].bar_num < entry.bars[i].bar_num
      BY <2>3, <3>1, <3>2 DEF InOrder
    <3> QED BY <2>8, <2>9, <3>2, <3>3
  <2> HIDE DEF entry
  <2>11. LastOf(t) = last
    <3> HIDE DEF t, EntryOf
    <3> QED BY <2>5, <2>7, <2>10
  <2> HIDE DEF t, EntryOf, LastOf
  <2>12. w.exit.exit_type = t.exit_type /\ (w.left <=> t.exit_type # "eod")
    BY <2>2, <2>6 DEF Stands, entry
  <2>13. LeftInTime(t, entry, last)
    BY <2>6, <2>9, <2>12 DEF LeftInTime, Stands
  <2> QED BY <2>5, <2>11, <2>13 DEF t
<1> HIDE DEF EntryOf, LastOf
<1> QED BY <1>1 DEF LeavesWhenItMust, LeftInTime, Quiet, Highs, Minutes, EntryOf, LastOf

\* A position is sold on the first bar that gives reason to, whatever the bars, the
\* stops and the buffers are.
THEOREM SoldOnTime == ASSUME ChargesAreNumbers PROVE Spec => []LeavesWhenItMust
<1>1. Init => Typed /\ Resolved
  BY InitTyped DEF Init, Resolved
<1>2. Typed /\ Resolved /\ [Next]_vars => Typed' /\ Resolved'
  BY StepKeepsTyped, StepKeepsResolved
<1>3. Typed /\ Resolved => LeavesWhenItMust
  BY ResolvedLeaves DEF Typed
<1> QED BY <1>1, <1>2, <1>3, PTL DEF Spec

----------------------------------------------------------------------------
(* What the account comes to *)

Fields == {"pnl", "pnl_pct", "order_value"}
Total(log, trades, field) == SumFunction([n \in trades |-> log[n][field]])

\* Sums over the log are numbers, and stay what they are as it grows.
LEMMA TotalType ==
    ASSUME LogsTyped, NEW trades \in SUBSET DOMAIN trade_log, NEW field \in Fields
    PROVE  Total(trade_log, trades, field) \in Int
<1>1. IsFiniteSet(trades)
  BY TradesType, FS_Subset
<1>2. \A n \in trades : trade_log[n][field] \in Int
  BY TradesType DEF TradeRow, Fields
<1>3. [n \in trades |-> trade_log[n][field]] \in [trades -> Int]
  BY <1>2
<1> QED BY <1>1, <1>3, SumIsInt DEF Total

LEMMA TotalGrows ==
    ASSUME LogsTyped, NEW row \in TradeRow, NEW field \in Fields,
           NEW trades \in SUBSET DOMAIN trade_log
    PROVE  LET log == Append(trade_log, row)
           IN  /\ Total(log, trades, field) = Total(trade_log, trades, field)
               /\ Total(log, trades \cup {Len(trade_log) + 1}, field)
                    = row[field] + Total(trade_log, trades, field)
<1> DEFINE log == Append(trade_log, row)
           N == Len(trade_log) + 1
           more == trades \cup {N}
           f == [n \in more |-> log[n][field]]
           g == [n \in trades |-> trade_log[n][field]]
<1>1. /\ \A n \in trades : log[n] = trade_log[n]
      /\ log[N] = row /\ N \notin trades
  BY AppendIs
<1>2. row[field] \in Int
  BY DEF TradeRow, Fields
<1>3. IsFiniteSet(more) /\ N \in more /\ more \ {N} = trades
  <2>1. IsFiniteSet(trades)
    BY TradesType, FS_Subset
  <2> QED BY <1>1, <2>1, FS_AddElement
<1>4. \A n \in trades : trade_log[n][field] \in Int
  BY TradesType DEF TradeRow, Fields
<1>5. f \in [more -> Int] /\ g \in [more \ {N} -> Int] /\ f[N] = row[field]
      /\ \A n \in more \ {N} : g[n] = f[n]
  BY <1>1, <1>2, <1>3, <1>4
<1>6. Total(log, trades, field) = SumFunction(g)
  <2>1. [n \in trades |-> log[n][field]] = g
    BY <1>1
  <2> QED BY <2>1 DEF Total
<1>7. Total(log, more, field) = SumFunction(f) /\ Total(trade_log, trades, field) = SumFunction(g)
  BY DEF Total
<1> HIDE DEF f, g, log, N, more
<1>8. SumFunction(f) = f[N] + SumFunction(g)
  BY <1>3, <1>5, SumSplits
<1> QED BY <1>5, <1>6, <1>7, <1>8 DEF log, N, more

LEMMA TotalOfNothing == ASSUME NEW log, NEW field PROVE Total(log, {}, field) = 0
<1>1. [n \in {} |-> log[n][field]] \in [{} -> Nat]
  OBVIOUS
<1> QED BY <1>1, SumEmpty DEF Total

LEMMA EarnedIs == ASSUME NEW trades PROVE Earned(trades) = Total(trade_log, trades, "pnl")
  BY DEF Earned, SumOf, Total

\* The days are logged in their order; a day that is walked, and the days that are
\* left, come after them.
LogInOrder ==
    /\ \A i, j \in DOMAIN day_wise_log : i < j => day_wise_log[i].date < day_wise_log[j].date
    /\ \A i \in DOMAIN day_wise_log :
          /\ day_wise_log[i].date \in DOMAIN matrix
          /\ d # NoDay => day_wise_log[i].date < d
          /\ \A x \in dates : day_wise_log[i].date < x
    /\ \A x \in dates : d < x

\* Days without an order value come last: once the account cannot size an order, no
\* later day can.  So the day walked is the day after those that count.
SkippedLast ==
    /\ days_elapsed <= Len(day_wise_log)
    /\ days_elapsed < Len(day_wise_log) =>
          d = NoDay /\ \A v \in OrderValues(margin) : v <= 0

\* The trades are of the days that count and of the day walked.
TradesDated ==
    \A n \in DOMAIN trade_log :
        \/ d # NoDay /\ trade_log[n].trade_date = d
        \/ \E i \in 1..days_elapsed : trade_log[n].trade_date = day_wise_log[i].date

\* The books within a day and between days.
BooksKept ==
    /\ margin = OpenedWith(Len(day_wise_log) + 1)
    /\ d # NoDay => daily_pnl = Earned(TradesOf(d))

\* The next payout is on the schedule, and not more than an interval ahead.
OnSchedule ==
    LET first == FirstPayoutDay(config)
        interval == config.interval_days
    IN  /\ first = 0 => next_payout_day = 0
        /\ first > 0 => /\ next_payout_day >= first
                        /\ interval = 0 => next_payout_day = first
                        /\ interval > 0 =>
                              /\ (next_payout_day - first) % interval = 0
                              /\ days_elapsed < next_payout_day
                              /\ next_payout_day > first =>
                                    next_payout_day - interval <= days_elapsed

\* The names of PaidOnSchedule.
Due(i) ==
    LET first == FirstPayoutDay(config)
    IN  /\ config.payout # "none" /\ first # 0 /\ i >= first
        /\ config.interval_days = 0 \/ (i - first) % config.interval_days = 0
Earning(i) == OpenedWith(i) + Earned(TradesOf(day_wise_log[i].date))
DayPaid(i) ==
    day_wise_log[i].margin_available = Earning(i) - IF Due(i) THEN Payout(Earning(i)) ELSE 0
DaysPaid ==
    /\ \A i \in 1..days_elapsed : DayPaid(i)
    /\ \A i \in days_elapsed + 1..Len(day_wise_log) :
          day_wise_log[i].margin_available = OpenedWith(i)
AllAccounted ==
    config.initial_capital + Earned(DOMAIN trade_log) - total_withdrawn =
        margin + Earned(TradesOf(d))

PaidInv == /\ LogInOrder /\ SkippedLast /\ TradesDated /\ BooksKept /\ OnSchedule
           /\ DaysPaid /\ AllAccounted

LEMMA PaidIs == DaysPaid /\ AllAccounted => PaidOnSchedule
  BY DEF DaysPaid, DayPaid, Due, Earning, AllAccounted, PaidOnSchedule

\* The log of the days, as it is and one day longer.
LEMMA DaysType ==
    ASSUME LogsTyped
    PROVE  /\ DOMAIN day_wise_log = 1..Len(day_wise_log) /\ Len(day_wise_log) \in Nat
           /\ \A i \in DOMAIN day_wise_log : day_wise_log[i] \in DayRow
           /\ \A i \in DOMAIN day_wise_log : /\ day_wise_log[i].date \in Nat
                                             /\ day_wise_log[i].margin_available \in Int
<1>1. /\ DOMAIN day_wise_log = 1..Len(day_wise_log) /\ Len(day_wise_log) \in Nat
      /\ \A i \in DOMAIN day_wise_log : day_wise_log[i] \in DayRow
  BY DEF LogsTyped
<1> QED BY <1>1 DEF DayRow

LEMMA DaysAppend ==
    ASSUME LogsTyped, NEW row \in DayRow
    PROVE  LET log == Append(day_wise_log, row)
           IN  /\ DOMAIN log = 1..Len(day_wise_log) + 1 /\ Len(log) = Len(day_wise_log) + 1
               /\ \A i \in DOMAIN day_wise_log : log[i] = day_wise_log[i]
               /\ log[Len(day_wise_log) + 1] = row
<1>1. day_wise_log \in Seq(DayRow) /\ Len(day_wise_log) \in Nat
      /\ DOMAIN day_wise_log = 1..Len(day_wise_log)
  BY DEF LogsTyped
<1>2. /\ Append(day_wise_log, row) \in Seq(DayRow)
      /\ Len(Append(day_wise_log, row)) = Len(day_wise_log) + 1
      /\ \A n \in 1..Len(day_wise_log) : Append(day_wise_log, row)[n] = day_wise_log[n]
      /\ Append(day_wise_log, row)[Len(day_wise_log) + 1] = row
  BY <1>1
<1>3. DOMAIN Append(day_wise_log, row) = 1..Len(day_wise_log) + 1
  BY <1>2
<1> QED BY <1>1, <1>2, <1>3

\* A day opens with a number.
LEMMA OpenedType ==
    ASSUME Typed, NEW i \in 1..Len(day_wise_log) + 1
    PROVE  OpenedWith(i) \in Int
<1>1. config.initial_capital \in Int
  BY DEF Typed, InputSound, Config
<1>2. CASE i # 1
  <2>1. i - 1 \in DOMAIN day_wise_log
    BY <1>2, DaysType DEF Typed
  <2>2. day_wise_log[i - 1].margin_available \in Int
    BY <2>1, DaysType DEF Typed
  <2> QED BY <1>2, <2>2 DEF OpenedWith
<1> QED BY <1>1, <1>2 DEF OpenedWith

\* A payout is due on the i-th day exactly if the schedule has got there.
Scheduled(first, interval, next, i) ==
    /\ first \in Nat \ {0} /\ interval \in Nat \ {0} /\ next \in Nat /\ i \in Nat
    /\ next >= first /\ (next - first) % interval = 0 /\ i <= next
    /\ next > first => next - interval < i

LEMMA DueIs ==
    ASSUME NEW first, NEW interval, NEW next, NEW i, Scheduled(first, interval, next, i)
    PROVE  i >= next <=> (i >= first /\ (i - first) % interval = 0)
<1> USE DEF Scheduled
<1>1. CASE i = next
  BY <1>1
<1>2. CASE i < next /\ i >= first
  <2> SUFFICES ASSUME (i - first) % interval = 0 PROVE FALSE
    BY <1>2
  <2> DEFINE a == i - first
             b == next - first
             r == next - i
  <2>1. a \in Nat /\ b \in Nat /\ r \in Nat /\ r > 0 /\ r < interval /\ b = a + r
        /\ a % interval = 0 /\ b % interval = 0
    BY <1>2
  <2> HIDE DEF a, b, r
  <2>2. /\ a = interval * (a \div interval) /\ a \div interval \in Nat
        /\ b = interval * (b \div interval) /\ b \div interval \in Nat
    BY <2>1, Division
  <2>3. interval * (b \div interval) = interval * (a \div interval) + r
    BY <2>1, <2>2
  <2>4. r = 0
    BY <2>1, <2>2, <2>3, NoRemainder
  <2> QED BY <2>1, <2>4
<1> QED BY <1>1, <1>2

\* No trade is of a day yet to come, and none of no day.
LEMMA NoneYet ==
    ASSUME Typed, PaidInv
    PROVE  /\ \A x \in dates : TradesOf(x) = {}
           /\ d = NoDay => TradesOf(d) = {}
<1>1. ASSUME NEW n \in DOMAIN trade_log, NEW x \in dates \cup {NoDay},
             trade_log[n].trade_date = x, d = NoDay \/ x \in dates
      PROVE  FALSE
  <2>1. d \in Int /\ x \in Int /\ (x \in dates => d < x)
    BY DEF PaidInv, LogInOrder, Typed, DayTyped, InputSound, DaySound, NoDay
  <2>2. PICK i \in 1..days_elapsed : trade_log[n].trade_date = day_wise_log[i].date
    BY <1>1, <2>1 DEF PaidInv, TradesDated
  <2>3. i \in DOMAIN day_wise_log
    BY DaysType DEF PaidInv, SkippedLast, Typed, AccountTyped
  <2>4. /\ day_wise_log[i].date \in Nat \ {0} /\ day_wise_log[i].date = x
        /\ x \in dates => day_wise_log[i].date < x
    BY <1>1, <2>2, <2>3 DEF PaidInv, LogInOrder, Typed, InputSound, DaySound
  <2> QED BY <1>1, <2>1, <2>4 DEF NoDay
<1> QED BY <1>1 DEF TradesOf

\* What keeps the log of the days keeps what it says of them, as long as the trades of
\* their days stay the same.
LEMMA DaysRemain ==
    ASSUME Typed, PaidInv, UNCHANGED <<config, matrix, day_wise_log, days_elapsed>>,
           \A i \in 1..days_elapsed :
                Earned(TradesOf(day_wise_log[i].date))' = Earned(TradesOf(day_wise_log[i].date))
    PROVE  DaysPaid'
<1>1. \A i : OpenedWith(i)' = OpenedWith(i) /\ Due(i)' = Due(i)
  BY DEF OpenedWith, Due, FirstPayoutDay
<1>2. \A balance : Payout(balance)' = Payout(balance)
  BY DEF Payout
<1>3. \A i \in 1..days_elapsed : DayPaid(i)' = DayPaid(i)
  <2> SUFFICES ASSUME NEW i \in 1..days_elapsed PROVE DayPaid(i)' = DayPaid(i)
    OBVIOUS
  <2>1. Earning(i)' = Earning(i)
    BY <1>1 DEF Earning
  <2> QED BY <1>1, <1>2, <2>1 DEF DayPaid
<1> QED BY <1>1, <1>3 DEF DaysPaid, PaidInv

\* A log that stays keeps every sum.
LEMMA EarnedRemains ==
    ASSUME UNCHANGED trade_log
    PROVE  /\ \A trades : Earned(trades)' = Earned(trades)
           /\ \A date : TradesOf(date)' = TradesOf(date)
           /\ Earned(DOMAIN trade_log)' = Earned(DOMAIN trade_log)
           /\ \A date : Earned(TradesOf(date))' = Earned(TradesOf(date))
  BY DEF Earned, SumOf, TradesOf

LEMMA OpenKeepsPaid == ASSUME Typed, PaidInv, OpenDay PROVE PaidInv'
<1>1. /\ d = NoDay /\ dates # {} /\ d' = Min(dates) /\ dates' = dates \ {d'} /\ daily_pnl' = 0
      /\ UNCHANGED <<config, matrix, margin, days_elapsed, next_payout_day, total_withdrawn,
                     day_wise_log, trade_log>>
  BY DEF OpenDay, input, account
<1>2. d' \in dates /\ d' \in Nat \ {0} /\ d' \in DOMAIN matrix /\ \A x \in dates : d' <= x
  BY <1>1, NextDate DEF Typed, DayTyped
<1>3. dates \in SUBSET Nat
  BY DEF Typed, DayTyped, InputSound, DaySound
<1>4. LogInOrder'
  <2>1. \A x \in dates' : d' < x
    BY <1>1, <1>2, <1>3
  <2> QED BY <1>1, <1>2, <2>1 DEF PaidInv, LogInOrder
<1>5. days_elapsed = Len(day_wise_log)
  <2>1. PICK v \in OrderValues(margin) : v > 0
    BY DEF OpenDay
  <2>2. v \in Int
    BY OrderValuesSign DEF Typed, InputSound, AccountTyped
  <2>3. Len(day_wise_log) \in Nat /\ days_elapsed \in Nat
    BY DaysType DEF Typed, AccountTyped
  <2> QED BY <2>1, <2>2, <2>3 DEF PaidInv, SkippedLast
<1>6. SkippedLast'
  <2>1. days_elapsed' = days_elapsed /\ day_wise_log' = day_wise_log /\ days_elapsed \in Nat
    BY <1>1 DEF Typed, AccountTyped
  <2> QED BY <1>5, <2>1 DEF SkippedLast
<1>7. TradesDated'
  BY <1>1 DEF PaidInv, TradesDated
<1>8. TradesOf(d)' = {} /\ TradesOf(d) = {}
  BY <1>1, <1>2, NoneYet DEF TradesOf
<1>9. Earned(TradesOf(d)) = 0 /\ Earned(TradesOf(d))' = 0
  <2>1. Earned({}) = 0
    BY EarnedIs, TotalOfNothing
  <2>2. Earned(TradesOf(d))' = Earned({})'
    BY <1>8 DEF Earned, SumOf
  <2>3. Earned({})' = Earned({})
    BY <1>1, EarnedRemains
  <2> QED BY <1>8, <2>1, <2>2, <2>3
<1>10. BooksKept'
  BY <1>1, <1>9 DEF PaidInv, BooksKept, OpenedWith
<1>11. OnSchedule'
  BY <1>1 DEF PaidInv, OnSchedule, FirstPayoutDay
<1>12. DaysPaid'
  <2>1. \A i : Earned(TradesOf(day_wise_log[i].date))' = Earned(TradesOf(day_wise_log[i].date))
    BY <1>1 DEF Earned, SumOf, TradesOf
  <2> QED BY <1>1, <2>1, DaysRemain
<1>13. AllAccounted'
  <2>1. Earned(DOMAIN trade_log)' = Earned(DOMAIN trade_log)
    BY <1>1, EarnedRemains
  <2> QED BY <1>1, <1>9, <2>1 DEF PaidInv, AllAccounted
<1> QED BY <1>4, <1>6, <1>7, <1>10, <1>11, <1>12, <1>13 DEF PaidInv

LEMMA PassKeepsPaid == ASSUME Typed, PaidInv, PassOver \/ StopBuying PROVE PaidInv'
<1>1. UNCHANGED <<config, matrix, dates, d, daily_pnl, margin, days_elapsed, next_payout_day,
                  total_withdrawn, trade_log, day_wise_log>>
  BY DEF PassOver, StopBuying, input, day, account
<1>2. \A v : v \in OrderValues(margin)' <=> v \in OrderValues(margin)
  BY <1>1 DEF OrderValues
<1>3. LogInOrder' /\ SkippedLast' /\ TradesDated'
  BY <1>1, <1>2 DEF PaidInv, LogInOrder, SkippedLast, TradesDated
<1>4. Earned(TradesOf(d))' = Earned(TradesOf(d))
  BY <1>1 DEF Earned, SumOf, TradesOf
<1>5. BooksKept' /\ OnSchedule'
  BY <1>1, <1>4 DEF PaidInv, BooksKept, OpenedWith, OnSchedule, FirstPayoutDay
<1>6. DaysPaid'
  <2>1. \A i : Earned(TradesOf(day_wise_log[i].date))' = Earned(TradesOf(day_wise_log[i].date))
    BY <1>1 DEF Earned, SumOf, TradesOf
  <2> QED BY <1>1, <2>1, DaysRemain
<1>7. AllAccounted'
  <2>1. Earned(DOMAIN trade_log)' = Earned(DOMAIN trade_log)
    BY <1>1, EarnedRemains
  <2> QED BY <1>1, <1>4, <2>1 DEF PaidInv, AllAccounted
<1> QED BY <1>3, <1>5, <1>6, <1>7 DEF PaidInv

LEMMA SkipKeepsPaid == ASSUME Typed, PaidInv, SkipDay PROVE PaidInv'
<1> DEFINE N == Len(day_wise_log)
           row == [date |-> Min(dates), margin_available |-> margin]
<1>1. /\ d = NoDay /\ dates # {} /\ dates' = dates \ {Min(dates)}
      /\ day_wise_log' = Append(day_wise_log, row)
      /\ UNCHANGED <<config, matrix, d, daily_pnl, margin, days_elapsed, next_payout_day,
                     total_withdrawn, trade_log>>
  BY DEF SkipDay, Log, input, day
<1>2. /\ Min(dates) \in dates /\ Min(dates) \in Nat \ {0} /\ Min(dates) \in DOMAIN matrix
      /\ \A x \in dates : Min(dates) <= x
  BY <1>1, NextDate DEF Typed, DayTyped
<1>3. dates \in SUBSET Nat /\ margin \in Int /\ days_elapsed \in Nat
  BY DEF Typed, DayTyped, InputSound, DaySound, AccountTyped
<1>4. N \in Nat /\ DOMAIN day_wise_log = 1..N /\ row \in DayRow
  BY <1>2, <1>3, DaysType DEF Typed, DayRow
<1>5. /\ DOMAIN day_wise_log' = 1..N + 1 /\ Len(day_wise_log') = N + 1
      /\ \A i \in 1..N : day_wise_log'[i] = day_wise_log[i]
      /\ day_wise_log'[N + 1] = row
  BY <1>1, <1>4, DaysAppend DEF Typed
<1> HIDE DEF N
<1>6. LogInOrder'
  <2>1. \A x \in dates' : Min(dates) < x /\ x \in dates
    BY <1>1, <1>2, <1>3
  <2>2. \A i \in 1..N : /\ day_wise_log'[i].date \in DOMAIN matrix
                        /\ \A x \in dates : day_wise_log'[i].date < x
    BY <1>4, <1>5 DEF PaidInv, LogInOrder
  <2>3. /\ day_wise_log'[N + 1].date = Min(dates)
        /\ \A i \in 1..N + 1 : i \in 1..N \/ i = N + 1
    BY <1>4, <1>5
  <2>4. \A i \in 1..N + 1 : /\ day_wise_log'[i].date \in DOMAIN matrix
                            /\ \A x \in dates' : day_wise_log'[i].date < x
    BY <1>2, <2>1, <2>2, <2>3
  <2>5. ASSUME NEW i \in 1..N + 1, NEW j \in 1..N + 1, i < j
        PROVE  day_wise_log'[i].date < day_wise_log'[j].date
    <3>1. i \in 1..N
      BY <1>4, <2>5
    <3>2. CASE j \in 1..N
      BY <1>4, <1>5, <2>5, <3>1, <3>2 DEF PaidInv, LogInOrder
    <3>3. CASE j = N + 1
      BY <1>2, <2>2, <2>3, <3>1, <3>3
    <3> QED BY <2>3, <3>2, <3>3
  <2>6. \A x \in dates' : d < x
    BY <1>1 DEF PaidInv, LogInOrder
  <2> QED BY <1>1, <1>5, <2>4, <2>5, <2>6 DEF LogInOrder
<1>7. SkippedLast'
  <2>1. \A v \in OrderValues(margin) : v <= 0
    <3>1. PICK w \in OrderValues(margin) : w <= 0
      BY DEF SkipDay
    <3>2. OrderValues(margin) \in SUBSET Int
      BY <1>3, OrderValuesSign DEF Typed, InputSound
    <3>3. \A v \in OrderValues(margin) : v > 0 => w > 0
      BY <1>3, OrderValuesSign DEF Typed, InputSound
    <3>4. \A v \in OrderValues(margin) : v \in Int
      BY <3>2
    <3> QED BY <3>1, <3>3, <3>4
  <2>2. OrderValues(margin)' = OrderValues(margin)
    BY <1>1 DEF OrderValues
  <2>3. days_elapsed <= N
    BY DEF PaidInv, SkippedLast, N
  <2> QED BY <1>1, <1>3, <1>4, <1>5, <2>1, <2>2, <2>3 DEF SkippedLast
<1>8. days_elapsed <= N
  BY DEF PaidInv, SkippedLast, N
<1>9. \A i \in 1..days_elapsed : i \in 1..N
  BY <1>3, <1>4, <1>8
<1>10. TradesDated'
  BY <1>1, <1>5, <1>9 DEF PaidInv, TradesDated
<1>11. \A i \in 1..N + 1 : OpenedWith(i)' = OpenedWith(i)
  <2> SUFFICES ASSUME NEW i \in 1..N + 1 PROVE OpenedWith(i)' = OpenedWith(i)
    OBVIOUS
  <2>1. i # 1 => i - 1 \in 1..N
    BY <1>4
  <2> QED BY <1>1, <1>5, <2>1 DEF OpenedWith
<1>12. OpenedWith(N + 1) = margin
  BY DEF PaidInv, BooksKept, N
<1>13. BooksKept'
  <2>1. PICK M : M = N + 1 + 1 /\ M # 1 /\ M - 1 = N + 1
    BY <1>4
  <2>2. OpenedWith(M)' = margin
    BY <1>5, <2>1 DEF OpenedWith
  <2>3. OpenedWith(Len(day_wise_log) + 1)' = OpenedWith(M)'
    BY <1>5, <2>1 DEF OpenedWith
  <2> QED BY <1>1, <2>2, <2>3 DEF BooksKept
<1>14. OnSchedule'
  BY <1>1 DEF PaidInv, OnSchedule, FirstPayoutDay
<1>15. DaysPaid'
  <2>1. \A i : Due(i)' = Due(i)
    BY <1>1 DEF Due, FirstPayoutDay
  <2>2. \A balance : Payout(balance)' = Payout(balance)
    BY <1>1 DEF Payout
  <2>3. ASSUME NEW i \in 1..days_elapsed PROVE DayPaid(i)'
    <3>1. day_wise_log'[i] = day_wise_log[i] /\ i \in 1..N /\ i \in 1..N + 1
      BY <1>4, <1>5, <1>9
    <3>2. Earned(TradesOf(day_wise_log[i].date))' = Earned(TradesOf(day_wise_log[i].date))
      BY <1>1, <3>1 DEF Earned, SumOf, TradesOf
    <3>3. Earning(i)' = Earning(i)
      BY <1>11, <3>1, <3>2 DEF Earning
    <3> QED BY <2>1, <2>2, <3>1, <3>3 DEF DayPaid, DaysPaid, PaidInv
  <2>4. ASSUME NEW i \in days_elapsed + 1..N + 1
        PROVE  day_wise_log'[i].margin_available = OpenedWith(i)'
    <3>1. i \in 1..N + 1 /\ (i \in days_elapsed + 1..N \/ i = N + 1)
      BY <1>3, <1>4
    <3>2. CASE i = N + 1
      BY <1>5, <1>11, <1>12, <3>1, <3>2
    <3>3. CASE i \in days_elapsed + 1..N
      <4>1. day_wise_log[i].margin_available = OpenedWith(i)
        BY <3>3 DEF PaidInv, DaysPaid, N
      <4>2. i \in 1..N
        BY <1>3, <1>4, <3>3
      <4> QED BY <1>5, <1>11, <3>1, <4>1, <4>2
    <3> QED BY <3>1, <3>2, <3>3
  <2> QED BY <1>1, <1>5, <2>3, <2>4 DEF DaysPaid
<1>16. AllAccounted'
  <2>1. /\ Earned(DOMAIN trade_log)' = Earned(DOMAIN trade_log)
        /\ Earned(TradesOf(d))' = Earned(TradesOf(d))
    BY <1>1 DEF Earned, SumOf, TradesOf
  <2> QED BY <1>1, <2>1 DEF PaidInv, AllAccounted
<1> QED BY <1>6, <1>7, <1>10, <1>13, <1>14, <1>15, <1>16 DEF PaidInv

LEMMA TradeKeepsPaid ==
    ASSUME Typed, PaidInv, ChargesAreNumbers, Trade PROVE PaidInv'
<1> DEFINE row == RowOf(Head(selected), d, ov)
           N == Len(trade_log) + 1
<1>1. /\ d # NoDay /\ trade_log' = Append(trade_log, row) /\ daily_pnl' = daily_pnl + row.pnl
      /\ row \in TradeRow /\ row.trade_date = d /\ row.pnl \in Int
      /\ UNCHANGED <<config, matrix, dates, d, margin, days_elapsed, next_payout_day,
                     total_withdrawn, day_wise_log>>
  <2>1. selected # <<>>
    BY DEF Trade
  <2> QED BY <2>1, TradeIs, HeadIs DEF Trade, input, account, RowOf
<1> HIDE DEF row
<1>2. /\ DOMAIN trade_log' = DOMAIN trade_log \cup {N} /\ N \notin DOMAIN trade_log
      /\ \A n \in DOMAIN trade_log : trade_log'[n] = trade_log[n]
      /\ trade_log'[N] = row
  BY <1>1, AppendIs DEF Typed
<1> HIDE DEF N
<1>3. ASSUME NEW trades \in SUBSET DOMAIN trade_log
      PROVE  /\ Earned(trades)' = Earned(trades)
             /\ Total(trade_log', trades \cup {N}, "pnl") = row.pnl + Earned(trades)
  <2>1. Earned(trades)' = Total(trade_log', trades, "pnl")
    BY DEF Earned, SumOf, Total
  <2>2. /\ Total(trade_log', trades, "pnl") = Total(trade_log, trades, "pnl")
        /\ Total(trade_log', trades \cup {N}, "pnl")
              = row["pnl"] + Total(trade_log, trades, "pnl")
    BY <1>1, TotalGrows DEF Fields, N, Typed
  <2> QED BY <2>1, <2>2, EarnedIs
<1>4. TradesOf(d) \in SUBSET DOMAIN trade_log /\ TradesOf(d)' = TradesOf(d) \cup {N}
  BY <1>1, <1>2 DEF TradesOf
<1>5. Earned(TradesOf(d))' = row.pnl + Earned(TradesOf(d))
  <2>1. Earned(TradesOf(d))' = Total(trade_log', TradesOf(d)', "pnl")
    BY DEF Earned, SumOf, Total
  <2> QED BY <1>3, <1>4, <2>1
<1>6. Earned(DOMAIN trade_log)' = row.pnl + Earned(DOMAIN trade_log)
  <2>1. Earned(DOMAIN trade_log)' = Total(trade_log', DOMAIN trade_log', "pnl")
    BY DEF Earned, SumOf, Total
  <2> QED BY <1>2, <1>3, <2>1
<1>7. \A i \in 1..days_elapsed :
          Earned(TradesOf(day_wise_log[i].date))' = Earned(TradesOf(day_wise_log[i].date))
  <2> SUFFICES ASSUME NEW i \in 1..days_elapsed, NEW date, date = day_wise_log[i].date
               PROVE  Earned(TradesOf(date))' = Earned(TradesOf(date))
    BY <1>1 DEF Earned, SumOf, TradesOf
  <2>1. date \in Nat /\ d \in Nat /\ date < d
    <3>1. i \in DOMAIN day_wise_log
      BY DaysType DEF PaidInv, SkippedLast, Typed, AccountTyped
    <3>2. date < d /\ date \in DOMAIN matrix /\ d \in DOMAIN matrix
      BY <1>1, <3>1 DEF PaidInv, LogInOrder, Typed, DayTyped
    <3> QED BY <3>2 DEF Typed, InputSound, DaySound
  <2>2. TradesOf(date)' = TradesOf(date)
    BY <1>1, <1>2, <2>1 DEF TradesOf
  <2>3. TradesOf(date) \in SUBSET DOMAIN trade_log
    BY DEF TradesOf
  <2>4. Earned(TradesOf(date))' = Total(trade_log', TradesOf(date)', "pnl")
    BY DEF Earned, SumOf, Total
  <2>5. Total(trade_log', TradesOf(date), "pnl") = Total(trade_log, TradesOf(date), "pnl")
    BY <1>1, <2>3, TotalGrows DEF Fields, Typed
  <2> QED BY <2>2, <2>4, <2>5, EarnedIs
<1>8. LogInOrder' /\ OnSchedule'
  BY <1>1 DEF PaidInv, LogInOrder, OnSchedule, FirstPayoutDay
<1>9. SkippedLast'
  <2>1. OrderValues(margin)' = OrderValues(margin)
    BY <1>1 DEF OrderValues
  <2> QED BY <1>1, <2>1 DEF PaidInv, SkippedLast
<1>10. TradesDated'
  BY <1>1, <1>2 DEF PaidInv, TradesDated
<1>11. Earned(TradesOf(d)) \in Int /\ Earned(DOMAIN trade_log) \in Int
  BY <1>4, EarnedIs, TotalType DEF Typed, Fields
<1>12. /\ margin \in Int /\ daily_pnl \in Int /\ config.initial_capital \in Int
       /\ total_withdrawn \in Int
  BY DEF Typed, AccountTyped, DayTyped, InputSound, Config
<1>13. BooksKept'
  <2>1. OpenedWith(Len(day_wise_log) + 1)' = OpenedWith(Len(day_wise_log) + 1)
    BY <1>1 DEF OpenedWith
  <2> QED BY <1>1, <1>5, <1>11, <1>12, <2>1 DEF PaidInv, BooksKept
<1>14. DaysPaid'
  BY <1>1, <1>7, DaysRemain
<1>15. AllAccounted'
  <2>1. config.initial_capital + Earned(DOMAIN trade_log) - total_withdrawn
            = margin + Earned(TradesOf(d))
    BY DEF PaidInv, AllAccounted
  <2>2. config.initial_capital + (row.pnl + Earned(DOMAIN trade_log)) - total_withdrawn
            = margin + (row.pnl + Earned(TradesOf(d)))
    <3>1. PICK a, b, c, m, x, p \in Int :
             /\ a = config.initial_capital /\ b = Earned(DOMAIN trade_log)
             /\ c = total_withdrawn /\ m = margin /\ x = Earned(TradesOf(d)) /\ p = row.pnl
      BY <1>1, <1>11, <1>12
    <3>2. a + b - c = m + x
      BY <2>1, <3>1
    <3>3. a + (p + b) - c = m + (p + x)
      BY <3>2
    <3> QED BY <3>1, <3>3
  <2>3. AllAccounted' <=>
            config.initial_capital + Earned(DOMAIN trade_log)' - total_withdrawn
                = margin + Earned(TradesOf(d))'
    BY <1>1 DEF AllAccounted
  <2> QED BY <1>5, <1>6, <2>2, <2>3
<1> QED BY <1>8, <1>9, <1>10, <1>13, <1>14, <1>15 DEF PaidInv

LEMMA CloseKeepsPaid == ASSUME Typed, Typed', PaidInv, CloseDay PROVE PaidInv'
<1> DEFINE N == Len(day_wise_log)
           balance == margin + daily_pnl
           withdrawal == IF PayoutDue THEN Payout(balance) ELSE 0
           row == [date |-> d, margin_available |-> balance - withdrawal]
           first == FirstPayoutDay(config)
           interval == config.interval_days
<1>1. /\ d # NoDay /\ d' = NoDay /\ days_elapsed' = days_elapsed + 1
      /\ margin' = balance - withdrawal /\ total_withdrawn' = total_withdrawn + withdrawal
      /\ next_payout_day' = next_payout_day + IF PayoutDue THEN interval ELSE 0
      /\ day_wise_log' = Append(day_wise_log, row)
      /\ UNCHANGED <<config, matrix, dates, trade_log>>
  BY DEF CloseDay, Log, input
<1>2. /\ margin \in Int /\ daily_pnl \in Int /\ days_elapsed \in Nat /\ margin' \in Int
      /\ total_withdrawn \in Int /\ total_withdrawn' \in Int /\ next_payout_day \in Nat
      /\ config.initial_capital \in Int /\ config \in Config
  BY DEF Typed, AccountTyped, DayTyped, InputSound, Config
<1>3. d \in DOMAIN matrix /\ d \in Nat \ {0}
  BY <1>1 DEF Typed, DayTyped, InputSound, DaySound
<1>4. balance \in Int /\ withdrawal \in Int
  BY <1>2, PayoutType
<1>5. N \in Nat /\ DOMAIN day_wise_log = 1..N /\ row \in DayRow
  BY <1>3, <1>4, DaysType DEF Typed, DayRow
<1>6. /\ DOMAIN day_wise_log' = 1..N + 1 /\ Len(day_wise_log') = N + 1
      /\ \A i \in 1..N : day_wise_log'[i] = day_wise_log[i]
      /\ day_wise_log'[N + 1].date = d
      /\ day_wise_log'[N + 1].margin_available = margin'
  BY <1>1, <1>5, DaysAppend DEF Typed
<1>7. days_elapsed = N
  <2>1. days_elapsed <= N /\ ~(days_elapsed < N)
    BY <1>1 DEF PaidInv, SkippedLast
  <2> HIDE DEF N
  <2> QED BY <1>2, <1>5, <2>1
<1> HIDE DEF N
<1>8. PICK M : M = N + 1 /\ M \in Nat \ {0} /\ M - 1 = N /\ (\A i \in 1..M : i \in 1..N \/ i = M)
  BY <1>5
<1>9. LogInOrder'
  <2>1. \A i \in 1..N : /\ day_wise_log'[i].date \in DOMAIN matrix
                        /\ day_wise_log'[i].date < d
                        /\ \A x \in dates : day_wise_log'[i].date < x
    BY <1>1, <1>5, <1>6 DEF PaidInv, LogInOrder
  <2>2. \A x \in dates : d < x
    BY DEF PaidInv, LogInOrder
  <2>3. ASSUME NEW i \in 1..M, NEW j \in 1..M, i < j
        PROVE  day_wise_log'[i].date < day_wise_log'[j].date
    <3>1. i \in 1..N
      BY <1>5, <1>8, <2>3
    <3>2. CASE j \in 1..N
      BY <1>5, <1>6, <2>3, <3>1, <3>2 DEF PaidInv, LogInOrder
    <3>3. CASE j = M
      BY <1>6, <1>8, <2>1, <3>1, <3>3
    <3> QED BY <1>8, <3>2, <3>3
  <2>4. \A x \in dates' : NoDay < x
    BY <1>1 DEF Typed, DayTyped, InputSound, DaySound, NoDay
  <2>5. \A i \in 1..M : /\ day_wise_log'[i].date \in DOMAIN matrix
                        /\ \A x \in dates : day_wise_log'[i].date < x
    BY <1>3, <1>6, <1>8, <2>1, <2>2
  <2> QED BY <1>1, <1>6, <1>8, <2>3, <2>4, <2>5 DEF LogInOrder
<1>10. SkippedLast'
  BY <1>1, <1>2, <1>5, <1>6, <1>7 DEF SkippedLast
<1>11. TradesDated'
  <2> SUFFICES ASSUME NEW n \in DOMAIN trade_log
               PROVE  \E i \in 1..M : trade_log[n].trade_date = day_wise_log'[i].date
    BY <1>1, <1>7, <1>8 DEF TradesDated
  <2>1. CASE trade_log[n].trade_date = d
    BY <1>6, <1>8, <2>1
  <2>2. CASE \E i \in 1..days_elapsed : trade_log[n].trade_date = day_wise_log[i].date
    <3>1. PICK i \in 1..N : trade_log[n].trade_date = day_wise_log[i].date
      BY <1>7, <2>2
    <3> QED BY <1>5, <1>6, <1>8, <3>1
  <2> QED BY <2>1, <2>2 DEF PaidInv, TradesDated
<1>12. BooksKept'
  <2>1. PICK L : L = N + 1 + 1 /\ L # 1 /\ L - 1 = N + 1
    BY <1>5
  <2>2. OpenedWith(L)' = margin'
    BY <1>6, <2>1 DEF OpenedWith
  <2>3. OpenedWith(Len(day_wise_log) + 1)' = OpenedWith(L)'
    BY <1>6, <2>1 DEF OpenedWith
  <2> QED BY <1>1, <2>2, <2>3 DEF BooksKept
<1>13. \A i \in 1..M : OpenedWith(i)' = OpenedWith(i)
  <2> SUFFICES ASSUME NEW i \in 1..M PROVE OpenedWith(i)' = OpenedWith(i)
    OBVIOUS
  <2>1. i # 1 => i - 1 \in 1..N
    BY <1>5, <1>8
  <2> QED BY <1>1, <1>6, <2>1 DEF OpenedWith
<1>14. /\ \A i : Due(i)' = Due(i)
       /\ \A b : Payout(b)' = Payout(b)
       /\ \A date : Earned(TradesOf(date))' = Earned(TradesOf(date))
  BY <1>1 DEF Due, FirstPayoutDay, Payout, Earned, SumOf, TradesOf
<1>15. first \in Nat /\ interval \in Nat /\ (config.payout = "none" => first = 0)
  <2>1. config.lockup_days \in Nat /\ config.interval_days \in Nat
    BY <1>2 DEF Config
  <2> QED BY <2>1, LargerIs DEF FirstPayoutDay
<1>16. PayoutDue <=> next_payout_day # 0 /\ M >= next_payout_day
  BY <1>1, <1>7, <1>8 DEF PayoutDue
<1>17. Due(M) <=> first # 0 /\ M >= first /\ (interval = 0 \/ (M - first) % interval = 0)
  BY <1>15 DEF Due
<1>18. /\ first = 0 => next_payout_day = 0
       /\ first > 0 => /\ next_payout_day >= first
                       /\ interval = 0 => next_payout_day = first
                       /\ interval > 0 =>
                             /\ (next_payout_day - first) % interval = 0
                             /\ M <= next_payout_day
                             /\ next_payout_day > first => next_payout_day - interval < M
  <2>1. \A x \in Int : /\ (days_elapsed < x <=> M <= x)
                       /\ (x <= days_elapsed <=> x < M)
    BY <1>7, <1>8
  <2>2. next_payout_day \in Int /\ next_payout_day - interval \in Int
    BY <1>2, <1>15
  <2> HIDE DEF first, interval
  <2> QED BY <2>1, <2>2 DEF PaidInv, OnSchedule, first, interval
<1> HIDE DEF first, interval
<1>19. PayoutDue <=> Due(M)
  <2>1. CASE first = 0
    BY <1>16, <1>17, <1>18, <2>1
  <2>2. CASE first > 0 /\ interval = 0
    BY <1>15, <1>16, <1>17, <1>18, <2>2
  <2>3. CASE first > 0 /\ interval > 0
    <3>1. M >= next_payout_day <=> (M >= first /\ (M - first) % interval = 0)
      <4>1. first \in Nat \ {0} /\ interval \in Nat \ {0} /\ M \in Nat
        BY <1>8, <1>15, <2>3
      <4>2. /\ next_payout_day >= first /\ (next_payout_day - first) % interval = 0
            /\ M <= next_payout_day
            /\ next_payout_day > first => next_payout_day - interval < M
        BY <1>18, <2>3
      <4>3. Scheduled(first, interval, next_payout_day, M)
        BY <1>2, <4>1, <4>2 DEF Scheduled
      <4> QED BY <4>3, DueIs
    <3> QED BY <1>15, <1>16, <1>17, <1>18, <2>3, <3>1
  <2> QED BY <1>15, <2>1, <2>2, <2>3
<1>20. OnSchedule'
  <2>1. FirstPayoutDay(config)' = first /\ config'.interval_days = interval
    BY <1>1 DEF first, interval, FirstPayoutDay
  <2>2. CASE first = 0
    BY <1>1, <1>16, <1>18, <2>1, <2>2 DEF OnSchedule
  <2>3. CASE first > 0 /\ interval = 0
    BY <1>1, <1>2, <1>15, <1>18, <2>1, <2>3 DEF OnSchedule
  <2>4. CASE first > 0 /\ interval > 0 /\ ~PayoutDue
    <3>1. next_payout_day' = next_payout_day /\ M < next_payout_day
      BY <1>1, <1>2, <1>8, <1>16, <1>18, <2>4
    <3>2. days_elapsed' = M
      BY <1>1, <1>7, <1>8
    <3>3. next_payout_day > first => next_payout_day - interval <= M
      BY <1>2, <1>8, <1>15, <1>18, <2>4
    <3> QED BY <1>15, <1>18, <2>1, <2>4, <3>1, <3>2, <3>3 DEF OnSchedule
  <2>5. CASE first > 0 /\ interval > 0 /\ PayoutDue
    <3>1. next_payout_day' = next_payout_day + interval /\ M = next_payout_day
      BY <1>1, <1>2, <1>8, <1>16, <1>18, <2>5
    <3>2. days_elapsed' = M
      BY <1>1, <1>7, <1>8
    <3>3. PICK a \in Nat : a = next_payout_day - first /\ a % interval = 0
      BY <1>2, <1>15, <1>18, <2>5
    <3>4. (a + interval) % interval = 0
      BY <1>15, <2>5, <3>3, OneMore
    <3>5. next_payout_day' - first = a + interval
      BY <1>2, <1>15, <3>1, <3>3
    <3>6. /\ next_payout_day' >= first /\ M < next_payout_day'
          /\ next_payout_day' - interval <= M
      BY <1>2, <1>8, <1>15, <1>18, <2>5, <3>1
    <3> QED BY <1>15, <2>1, <2>5, <3>2, <3>4, <3>5, <3>6 DEF OnSchedule
  <2> QED BY <1>15, <2>2, <2>3, <2>4, <2>5
<1>21. DaysPaid'
  <2>1. ASSUME NEW i \in 1..N PROVE DayPaid(i)'
    <3>1. day_wise_log'[i] = day_wise_log[i] /\ i \in 1..M
      BY <1>5, <1>6, <1>8
    <3>2. Earned(TradesOf(day_wise_log[i].date))' = Earned(TradesOf(day_wise_log[i].date))
      BY <1>1, <3>1 DEF Earned, SumOf, TradesOf
    <3>3. Earning(i)' = Earning(i)
      BY <1>13, <3>1, <3>2 DEF Earning
    <3>4. DayPaid(i)
      BY <1>7 DEF PaidInv, DaysPaid
    <3> QED BY <1>14, <3>1, <3>3, <3>4 DEF DayPaid
  <2>2. DayPaid(M)'
    <3>1. Earning(M)' = balance
      <4>1. OpenedWith(M)' = margin
        BY <1>8, <1>13 DEF PaidInv, BooksKept, N
      <4>2. day_wise_log'[M].date = d
        BY <1>6, <1>8
      <4>3. Earned(TradesOf(day_wise_log[M].date))' = Earned(TradesOf(d))
        BY <1>1, <4>2 DEF Earned, SumOf, TradesOf
      <4>4. Earned(TradesOf(d)) = daily_pnl
        BY <1>1 DEF PaidInv, BooksKept
      <4> QED BY <4>1, <4>3, <4>4 DEF Earning
    <3>2. day_wise_log'[M].margin_available = balance - IF Due(M) THEN Payout(balance) ELSE 0
      BY <1>1, <1>6, <1>8, <1>19
    <3> HIDE DEF balance
    <3> QED BY <1>14, <3>1, <3>2 DEF DayPaid
  <2>3. days_elapsed' = M /\ Len(day_wise_log') = M /\ M + 1..M = {}
    BY <1>1, <1>6, <1>7, <1>8
  <2> QED BY <1>8, <2>1, <2>2, <2>3 DEF DaysPaid
<1>22. AllAccounted'
  <2>1. TradesOf(d)' = {}
    <3> SUFFICES ASSUME NEW n \in DOMAIN trade_log', trade_log'[n].trade_date = NoDay
                 PROVE  FALSE
      BY <1>1 DEF TradesOf
    <3>1. PICK i \in 1..M : trade_log'[n].trade_date = day_wise_log'[i].date
      BY <1>1, <1>7, <1>8, <1>11 DEF TradesDated
    <3>2. day_wise_log'[i].date \in DOMAIN matrix
      BY <1>1, <1>6, <1>8, <1>9 DEF LogInOrder
    <3> QED BY <3>1, <3>2 DEF Typed, InputSound, DaySound, NoDay
  <2>2. Earned(TradesOf(d))' = 0
    <3>1. Earned(TradesOf(d))' = Total(trade_log', TradesOf(d)', "pnl")
      BY DEF Earned, SumOf, Total
    <3> QED BY <2>1, <3>1, TotalOfNothing
  <2>3. Earned(DOMAIN trade_log)' = Earned(DOMAIN trade_log) /\ Earned(DOMAIN trade_log) \in Int
    BY <1>1, EarnedRemains, EarnedIs, TotalType DEF Typed, Fields
  <2>4. config.initial_capital + Earned(DOMAIN trade_log) - total_withdrawn = balance
    BY <1>1 DEF PaidInv, AllAccounted, BooksKept
  <2>5. AllAccounted' <=> config.initial_capital + Earned(DOMAIN trade_log)' - total_withdrawn'
                                = margin' + Earned(TradesOf(d))'
    BY <1>1 DEF AllAccounted
  <2> HIDE DEF balance, withdrawal
  <2>6. PICK a, b, c, x, w \in Int :
           /\ a = config.initial_capital /\ b = Earned(DOMAIN trade_log)
           /\ c = total_withdrawn /\ x = balance /\ w = withdrawal
    BY <1>2, <1>4, <2>3
  <2>7. a + b - (c + w) = x - w + 0
    <3>1. a + b - c = x
      BY <2>4, <2>6
    <3> QED BY <3>1
  <2> QED BY <1>1, <2>2, <2>3, <2>5, <2>6, <2>7
<1> QED BY <1>9, <1>10, <1>11, <1>12, <1>20, <1>21, <1>22 DEF PaidInv

LEMMA InitPaid == Init => PaidInv
<1> SUFFICES ASSUME Init PROVE PaidInv
  OBVIOUS
<1>1. /\ dates = DOMAIN matrix /\ d = NoDay /\ margin = config.initial_capital
      /\ days_elapsed = 0 /\ next_payout_day = FirstPayoutDay(config) /\ total_withdrawn = 0
      /\ trade_log = <<>> /\ day_wise_log = <<>> /\ Typed
  BY InitTyped DEF Init
<1>2. /\ Len(day_wise_log) = 0 /\ DOMAIN day_wise_log = {} /\ DOMAIN trade_log = {}
  BY <1>1
<1>3. \A x \in DOMAIN matrix : x \in Nat \ {0}
  BY <1>1 DEF Typed, InputSound, DaySound
<1>4. FirstPayoutDay(config) \in Nat /\ config.interval_days \in Nat
      /\ config.initial_capital \in Int
      /\ FirstPayoutDay(config) - FirstPayoutDay(config) = 0
  BY <1>1 DEF Typed, AccountTyped, InputSound, Config
<1>5. LogInOrder /\ SkippedLast /\ TradesDated /\ BooksKept
  BY <1>1, <1>2, <1>3 DEF LogInOrder, SkippedLast, TradesDated, BooksKept, OpenedWith, NoDay
<1>6. OnSchedule
  <2>1. ASSUME NEW b \in Nat, b > 0 PROVE 0 % b = 0
    BY <2>1
  <2> QED BY <1>1, <1>4, <2>1 DEF OnSchedule
<1>7. DaysPaid
  BY <1>1, <1>2 DEF DaysPaid
<1>8. AllAccounted
  <2>1. Earned(DOMAIN trade_log) = 0 /\ TradesOf(d) = {} /\ Earned(TradesOf(d)) = 0
    BY <1>2, EarnedIs, TotalOfNothing DEF TradesOf
  <2> QED BY <1>1, <1>4, <2>1 DEF AllAccounted
<1> QED BY <1>5, <1>6, <1>7, <1>8 DEF PaidInv

LEMMA StepKeepsPaid ==
    ASSUME Typed, Typed', PaidInv, ChargesAreNumbers, [Next]_vars PROVE PaidInv'
<1>1. CASE UNCHANGED vars
  <2>1. UNCHANGED <<config, matrix, dates, d, daily_pnl, margin, days_elapsed,
                    next_payout_day, total_withdrawn, trade_log, day_wise_log>>
    BY <1>1 DEF vars
  <2>2. /\ Earned(TradesOf(d))' = Earned(TradesOf(d))
        /\ Earned(DOMAIN trade_log)' = Earned(DOMAIN trade_log)
        /\ \A i : Earned(TradesOf(day_wise_log[i].date))' = Earned(TradesOf(day_wise_log[i].date))
    BY <2>1 DEF Earned, SumOf, TradesOf
  <2>3. OrderValues(margin)' = OrderValues(margin)
    BY <2>1 DEF OrderValues
  <2>4. DaysPaid'
    BY <2>1, <2>2, DaysRemain
  <2>5. AllAccounted' /\ BooksKept' /\ SkippedLast'
    BY <2>1, <2>2, <2>3 DEF PaidInv, AllAccounted, BooksKept, SkippedLast, OpenedWith
  <2> QED BY <2>1, <2>4, <2>5
          DEF PaidInv, LogInOrder, TradesDated, OnSchedule, FirstPayoutDay
<1> QED BY <1>1, SkipKeepsPaid, OpenKeepsPaid, PassKeepsPaid, TradeKeepsPaid, CloseKeepsPaid
        DEF Next

\* The account is what the trades and the payouts make of it, and the payouts come on
\* their days, however long the matrix and whatever the interval.
THEOREM AccountAddsUp == ASSUME ChargesAreNumbers PROVE Spec => []PaidOnSchedule
<1>1. Init => Typed /\ PaidInv
  BY InitTyped, InitPaid
<1>2. Typed /\ PaidInv /\ [Next]_vars => Typed' /\ PaidInv'
  BY StepKeepsTyped, StepKeepsPaid
<1>3. Typed /\ PaidInv => PaidOnSchedule
  BY PaidIs DEF PaidInv
<1> QED BY <1>1, <1>2, <1>3, PTL DEF Spec

----------------------------------------------------------------------------
(* What a day buys *)

\* The names of BuysTheBestItCanAfford: its ranks go by the trades of the days before.
PastTrades(symbol, date) ==
    {n \in DOMAIN trade_log :
        /\ trade_log[n].trade_date \in date - config.ranking_window_days + 1 .. date - 1
        /\ trade_log[n].symbol = symbol}
PastRank(date, j) ==
    Rank(matrix[date][j],
         Total(trade_log, PastTrades(matrix[date][j].symbol, date), "pnl_pct"))
PastAhead(date) ==
    Precede(DOMAIN matrix[date], [j \in DOMAIN matrix[date] |-> PastRank(date, j)])
BoughtOn(date) ==
    {j \in DOMAIN matrix[date] :
        \E n \in TradesOf(date) : trade_log[n].symbol = matrix[date][j].symbol}
SpentOn(date) == Total(trade_log, TradesOf(date), "order_value")

\* What the property says of a day with these entries, in this order, of which these
\* were bought for so much of the account it opened with.
WellBought(entries, ahead, bought, spent, opening) ==
    /\ spent <= Max({opening, 0})
    /\ \A j \in DOMAIN entries : entries[j].entry_price > 0 =>
          IF Cardinality(Before(ahead, DOMAIN entries, j)) >= config.max_positions
          THEN j \notin bought
          ELSE \/ j \in bought
               \/ config.max_positions_per_instrument = 0
               \/ /\ \A k \in DOMAIN entries : k \in bought => <<k, j>> \in ahead
                  /\ \E v \in OrderValues(opening) : opening - spent < v

DayIsGood(i) ==
    LET date == day_wise_log[i].date
    IN  WellBought(matrix[date], PastAhead(date), BoughtOn(date), SpentOn(date), OpenedWith(i))

\* The day being walked: o is the order of its entries, and the first p are looked at.
Position == Min({config.max_positions, Len(matrix[d])})
InDay(o, p) ==
    /\ \A i, j \in DOMAIN matrix[d] : i < j => <<o[i], o[j]>> \in PastAhead(d)
    /\ \A j \in BoughtOn(d) : \E k \in 1..p : j = o[k]
    /\ \A k \in 1..p : matrix[d][o[k]].entry_price > 0 =>
          o[k] \in BoughtOn(d) \/ config.max_positions_per_instrument = 0
    /\ \A s \in DOMAIN instrument_counts : \E k \in 1..p : s = matrix[d][o[k]].symbol
    /\ \/ /\ Len(selected) = Position - p
          /\ \A k \in DOMAIN selected : selected[k] = matrix[d][o[p + k]]
       \/ selected = <<>> /\ margin - margin_used < ov

DayGoesWell ==
    /\ ov \in OrderValues(margin)
    /\ margin_used = SpentOn(d) /\ margin_used <= Max({margin, 0})
    /\ \E o \in [DOMAIN matrix[d] -> DOMAIN matrix[d]], p \in 0..Position : InDay(o, p)

BoughtInv ==
    /\ \A i \in 1..days_elapsed : DayIsGood(i)
    /\ d # NoDay => DayGoesWell

LEMMA BestIs ==
    ASSUME \A i \in 1..days_elapsed : DayIsGood(i) PROVE BuysTheBestItCanAfford
<1> SUFFICES ASSUME NEW i \in 1..days_elapsed, NEW date, date = day_wise_log[i].date
             PROVE
        LET entries == matrix[date]
            trades == TradesOf(date)
            Past(t) == t.trade_date \in date - config.ranking_window_days + 1 .. date - 1
            Ranks(j) == Rank(entries[j],
                SumOf({n \in DOMAIN trade_log : /\ Past(trade_log[n])
                                                /\ trade_log[n].symbol = entries[j].symbol},
                      LAMBDA t : t.pnl_pct))
            Better(j) == {k \in DOMAIN entries :
                Higher(Ranks(k), Ranks(j)) \/ (Ranks(k) = Ranks(j) /\ k < j)}
            Bought(j) == \E n \in trades : trade_log[n].symbol = entries[j].symbol
            spent == SumOf(trades, LAMBDA t : t.order_value)
        IN  /\ spent <= Max({OpenedWith(i), 0})
            /\ \A j \in DOMAIN entries : entries[j].entry_price > 0 =>
                  IF Cardinality(Better(j)) >= config.max_positions THEN ~Bought(j)
                  ELSE \/ Bought(j)
                       \/ config.max_positions_per_instrument = 0
                       \/ /\ \A k \in DOMAIN entries : Bought(k) => k \in Better(j)
                          /\ \E v \in OrderValues(OpenedWith(i)) : OpenedWith(i) - spent < v
  BY DEF BuysTheBestItCanAfford
<1> DEFINE entries == matrix[date]
           D == DOMAIN entries
           Past(t) == t.trade_date \in date - config.ranking_window_days + 1 .. date - 1
           Ranks(j) == Rank(entries[j],
                SumOf({n \in DOMAIN trade_log : /\ Past(trade_log[n])
                                                /\ trade_log[n].symbol = entries[j].symbol},
                      LAMBDA t : t.pnl_pct))
           Better(j) == {k \in D :
                Higher(Ranks(k), Ranks(j)) \/ (Ranks(k) = Ranks(j) /\ k < j)}
           Bought(j) == \E n \in TradesOf(date) : trade_log[n].symbol = entries[j].symbol
           spent == SumOf(TradesOf(date), LAMBDA t : t.order_value)
<1>1. spent = SpentOn(date)
  BY DEF SpentOn, SumOf, Total
<1>2. \A j \in D : Ranks(j) = PastRank(date, j)
  BY DEF PastRank, PastTrades, SumOf, Total
<1>3. \A j \in D : j \in BoughtOn(date) <=> Bought(j)
  BY DEF BoughtOn
<1> HIDE DEF Ranks, Bought, spent
<1>4. \A j, k \in D : k \in Better(j) <=> <<k, j>> \in PastAhead(date)
  BY <1>2 DEF PastAhead, Precede
<1>5. \A j \in D : Better(j) = Before(PastAhead(date), D, j)
  BY <1>4 DEF Before
<1>6. WellBought(entries, PastAhead(date), BoughtOn(date), SpentOn(date), OpenedWith(i))
  BY DEF DayIsGood
<1> HIDE DEF Better
<1>7. /\ spent <= Max({OpenedWith(i), 0})
      /\ \A j \in D : entries[j].entry_price > 0 =>
            IF Cardinality(Better(j)) >= config.max_positions THEN ~Bought(j)
            ELSE \/ Bought(j)
                 \/ config.max_positions_per_instrument = 0
                 \/ /\ \A k \in D : Bought(k) => k \in Better(j)
                    /\ \E v \in OrderValues(OpenedWith(i)) : OpenedWith(i) - spent < v
  BY <1>1, <1>3, <1>4, <1>5, <1>6 DEF WellBought
<1> QED BY <1>7 DEF Ranks, Bought, spent, Better

\* A trade of a later day, or of the day itself, leaves the order of a day alone, and
\* a trade of another day leaves its purchases.
LEMMA DateRemains ==
    ASSUME LogsTyped, UNCHANGED <<config, matrix>>, NEW row \in TradeRow, NEW date \in Nat,
           trade_log' = Append(trade_log, row), config \in Config
    PROVE  /\ row.trade_date >= date => PastAhead(date)' = PastAhead(date)
           /\ row.trade_date # date => /\ BoughtOn(date)' = BoughtOn(date)
                                       /\ SpentOn(date)' = SpentOn(date)
<1> DEFINE N == Len(trade_log) + 1
<1>1. /\ DOMAIN trade_log' = DOMAIN trade_log \cup {N} /\ N \notin DOMAIN trade_log
      /\ \A n \in DOMAIN trade_log : trade_log'[n] = trade_log[n]
      /\ trade_log'[N] = row
  BY AppendIs
<1> HIDE DEF N
<1>2. ASSUME row.trade_date >= date PROVE PastAhead(date)' = PastAhead(date)
  <2>1. row.trade_date \notin date - config.ranking_window_days + 1 .. date - 1
    <3>1. row.trade_date \in Nat /\ config.ranking_window_days \in Nat
      BY DEF TradeRow, Config
    <3> QED BY <1>2, <3>1
  <2>2. ASSUME NEW symbol PROVE PastTrades(symbol, date)' = PastTrades(symbol, date)
    BY <1>1, <2>1 DEF PastTrades
  <2>3. ASSUME NEW symbol
        PROVE  Total(trade_log', PastTrades(symbol, date)', "pnl_pct")
                    = Total(trade_log, PastTrades(symbol, date), "pnl_pct")
    <3>1. PastTrades(symbol, date) \in SUBSET DOMAIN trade_log
      BY DEF PastTrades
    <3> QED BY <2>2, <3>1, TotalGrows DEF Fields
  <2>4. \A j : PastRank(date, j)' = PastRank(date, j)
    <3> SUFFICES ASSUME NEW j PROVE PastRank(date, j)' = PastRank(date, j)
      OBVIOUS
    <3>1. \A entry, score : Rank(entry, score)' = Rank(entry, score)
      BY DEF Rank
    <3>2. PICK symbol : symbol = matrix[date][j].symbol
      OBVIOUS
    <3>3. PastRank(date, j) = Rank(matrix[date][j],
                                   Total(trade_log, PastTrades(symbol, date), "pnl_pct"))
      BY <3>2 DEF PastRank
    <3>4. PastRank(date, j)' = Rank(matrix[date][j],
                                    Total(trade_log', PastTrades(symbol, date)', "pnl_pct"))
      BY <3>1, <3>2 DEF PastRank, PastTrades, Rank
    <3> QED BY <2>3, <3>3, <3>4
  <2> QED BY <2>4 DEF PastAhead, Precede
<1>3. ASSUME row.trade_date # date
      PROVE  BoughtOn(date)' = BoughtOn(date) /\ SpentOn(date)' = SpentOn(date)
  <2>1. TradesOf(date)' = TradesOf(date) /\ TradesOf(date) \in SUBSET DOMAIN trade_log
    BY <1>1, <1>3 DEF TradesOf
  <2>2. \A n \in TradesOf(date) : trade_log'[n] = trade_log[n]
    BY <1>1, <2>1
  <2>3. BoughtOn(date)' = BoughtOn(date)
    BY <2>1, <2>2 DEF BoughtOn
  <2>4. SpentOn(date)' = SpentOn(date)
    BY <2>1, TotalGrows DEF SpentOn, Fields
  <2> QED BY <2>3, <2>4
<1> QED BY <1>2, <1>3

LEMMA DateStays ==
    ASSUME UNCHANGED <<config, matrix, trade_log>>, NEW date
    PROVE  /\ PastAhead(date)' = PastAhead(date)
           /\ BoughtOn(date)' = BoughtOn(date) /\ SpentOn(date)' = SpentOn(date)
<1>1. \A j : PastRank(date, j)' = PastRank(date, j)
  BY DEF PastRank, PastTrades, Rank
<1> QED BY <1>1 DEF PastAhead, BoughtOn, SpentOn, TradesOf

\* What a day bought stays as good as it was while its rows of the logs do.
LEMMA GoodRemains ==
    ASSUME UNCHANGED <<config, matrix>>, NEW i, DayIsGood(i), NEW date,
           day_wise_log[i].date = date, day_wise_log'[i].date = date,
           OpenedWith(i)' = OpenedWith(i), PastAhead(date)' = PastAhead(date),
           BoughtOn(date)' = BoughtOn(date), SpentOn(date)' = SpentOn(date)
    PROVE  DayIsGood(i)'
<1>1. \A balance : OrderValues(balance)' = OrderValues(balance)
  BY DEF OrderValues
<1>2. PICK entries, ahead, bought, spent, opening :
         /\ entries = matrix[date] /\ ahead = PastAhead(date) /\ bought = BoughtOn(date)
         /\ spent = SpentOn(date) /\ opening = OpenedWith(i)
  OBVIOUS
<1>3. WellBought(entries, ahead, bought, spent, opening)
  BY <1>2 DEF DayIsGood
<1>4. WellBought(entries, ahead, bought, spent, opening)'
  BY <1>1, <1>3 DEF WellBought
<1>5. DayIsGood(i)' <=> WellBought(entries, ahead, bought, spent, opening)'
  BY <1>2 DEF DayIsGood, WellBought
<1> QED BY <1>4, <1>5

\* In such an order the k-th place has k - 1 before it.
Sorts(n, R, o) ==
    /\ n \in Nat /\ Orders(1..n, R) /\ o \in [1..n -> 1..n]
    /\ \A i, j \in 1..n : i < j => <<o[i], o[j]>> \in R

LEMMA PlaceIs ==
    ASSUME NEW n, NEW R, NEW o, Sorts(n, R, o)
    PROVE  /\ \A i, j \in 1..n : o[i] = o[j] => i = j
           /\ \A j \in 1..n : \E k \in 1..n : o[k] = j
           /\ \A k \in 1..n : Cardinality(Before(R, 1..n, o[k])) = k - 1
<1> USE DEF Sorts
<1> DEFINE D == 1..n
<1>1. \A i, j \in D : o[i] = o[j] => i = j
  <2> SUFFICES ASSUME NEW i \in D, NEW j \in D, o[i] = o[j], i # j PROVE FALSE
    OBVIOUS
  <2>1. i < j \/ j < i
    OBVIOUS
  <2>2. <<o[i], o[j]>> \in R \/ <<o[j], o[i]>> \in R
    BY <2>1
  <2> QED BY <2>2 DEF Orders
<1>2. \A j \in D : \E k \in D : o[k] = j
  <2>1. o \in Injection(D, D)
    BY <1>1 DEF Injection, IsInjective
  <2>2. IsFiniteSet(D)
    BY FS_Interval
  <2>3. o \in Surjection(D, D)
    <3> HIDE DEF D
    <3> QED BY <2>1, <2>2, FS_Injection
  <2> QED BY <2>3 DEF Surjection
<1>3. ASSUME NEW k \in D PROVE Cardinality(Before(R, D, o[k])) = k - 1
  <2> DEFINE B == Before(R, D, o[k])
             C == 1..(k - 1)
             f == [i \in C |-> o[i]]
  <2>1. \A i \in C : i \in D /\ i < k
    OBVIOUS
  <2>2. \A i \in C : o[i] \in B
    BY <2>1 DEF Before
  <2>3. \A j \in B : \E i \in C : o[i] = j
    <3> SUFFICES ASSUME NEW j \in B PROVE \E i \in C : o[i] = j
      OBVIOUS
    <3>1. j \in D /\ <<j, o[k]>> \in R
      BY DEF Before
    <3>2. PICK i \in D : o[i] = j
      BY <1>2, <3>1
    <3>3. i # k
      BY <3>1, <3>2 DEF Orders
    <3>4. ~(k < i)
      <4> SUFFICES ASSUME k < i PROVE FALSE
        OBVIOUS
      <4>1. <<o[k], o[i]>> \in R /\ o[k] \in D
        OBVIOUS
      <4>2. <<o[k], o[k]>> \in R
        BY <3>1, <3>2, <4>1 DEF Orders
      <4> QED BY <4>1, <4>2 DEF Orders
    <3>5. i \in C
      BY <3>3, <3>4
    <3> QED BY <3>2, <3>5
  <2>4. IsFiniteSet(C) /\ Cardinality(C) = k - 1
    <3>1. k - 1 \in Nat
      OBVIOUS
    <3> QED BY <3>1, FS_Interval
  <2> HIDE DEF C, B, D
  <2>5. f \in Bijection(C, B)
    <3>1. f \in [C -> B]
      BY <2>2
    <3>2. \A i, j \in C : f[i] = f[j] => i = j
      BY <1>1, <2>1
    <3>3. \A j \in B : \E i \in C : f[i] = j
      BY <2>3
    <3> QED BY <3>1, <3>2, <3>3 DEF Bijection, Injection, Surjection, IsInjective
  <2>6. Cardinality(C) = Cardinality(B)
    BY <2>4, <2>5, FS_Bijection DEF ExistsBijection
  <2> QED BY <2>4, <2>6 DEF B
<1> QED BY <1>1, <1>2, <1>3

\* The entries of the day, their places, and the order in which they are ranked.
LEMMA DayHas ==
    ASSUME Typed, d # NoDay
    PROVE  /\ Len(matrix[d]) \in Nat /\ DOMAIN matrix[d] = 1..Len(matrix[d])
           /\ \A j \in DOMAIN matrix[d] : matrix[d][j] \in Entry
           /\ OneEntryEach(matrix[d])
           /\ Position \in 0..Len(matrix[d]) /\ Position <= config.max_positions
           /\ Position \in {config.max_positions, Len(matrix[d])}
           /\ config.max_positions \in Nat /\ config.max_positions_per_instrument \in Nat
           /\ Orders(DOMAIN matrix[d], PastAhead(d))
<1>1. d \in DOMAIN matrix /\ InputSound /\ LogsTyped
  BY DEF Typed, DayTyped
<1>2. matrix[d] \in Seq(Entry) /\ OneEntryEach(matrix[d])
  BY <1>1 DEF InputSound, DaySound
<1>3. /\ Len(matrix[d]) \in Nat /\ DOMAIN matrix[d] = 1..Len(matrix[d])
      /\ \A j \in DOMAIN matrix[d] : matrix[d][j] \in Entry
  BY <1>2
<1>4. config.max_positions \in Nat /\ config.max_positions_per_instrument \in Nat
  BY <1>1 DEF InputSound, Config
<1>5. /\ Position \in 0..Len(matrix[d]) /\ Position <= config.max_positions
      /\ Position \in {config.max_positions, Len(matrix[d])}
  <2>1. Position = IF config.max_positions <= Len(matrix[d])
                   THEN config.max_positions ELSE Len(matrix[d])
    BY <1>3, <1>4, SmallerIs DEF Position
  <2> QED BY <1>3, <1>4, <2>1
<1>6. Orders(DOMAIN matrix[d], PastAhead(d))
  <2> DEFINE rank == [j \in DOMAIN matrix[d] |-> PastRank(d, j)]
  <2>1. \A symbol : Total(trade_log, PastTrades(symbol, d), "pnl_pct") \in Int
    <3> SUFFICES ASSUME NEW symbol
                 PROVE  Total(trade_log, PastTrades(symbol, d), "pnl_pct") \in Int
      OBVIOUS
    <3>1. PastTrades(symbol, d) \in SUBSET DOMAIN trade_log
      BY DEF PastTrades
    <3> QED BY <1>1, <3>1, TotalType DEF Fields
  <2>2. \A i \in DOMAIN matrix[d] : \E a, b \in Int : rank[i] = <<a, b>>
    BY <1>1, <2>1, RankType DEF PastRank
  <2>3. DOMAIN matrix[d] \in SUBSET Nat
    BY <1>3
  <2> HIDE DEF rank
  <2> QED BY <2>2, <2>3, RanksOrder DEF PastAhead, rank
<1> QED BY <1>2, <1>3, <1>4, <1>5, <1>6

\* The days that were good stay good, whatever the day walked does.
LEMMA DaysStayGood ==
    ASSUME Typed, PaidInv, BoughtInv, UNCHANGED <<config, matrix>>,
           \A i \in 1..Len(day_wise_log) : day_wise_log'[i] = day_wise_log[i],
           \/ UNCHANGED trade_log
           \/ /\ d # NoDay
              /\ \E row \in TradeRow : row.trade_date = d /\ trade_log' = Append(trade_log, row)
    PROVE  \A i \in 1..days_elapsed : DayIsGood(i)'
<1> SUFFICES ASSUME NEW i \in 1..days_elapsed, NEW date, date = day_wise_log[i].date
             PROVE  DayIsGood(i)'
  OBVIOUS
<1>1. Len(day_wise_log) \in Nat /\ DOMAIN day_wise_log = 1..Len(day_wise_log)
  BY DaysType DEF Typed
<1>2. i \in 1..Len(day_wise_log)
  BY <1>1 DEF PaidInv, SkippedLast, Typed, AccountTyped
<1>3. date \in DOMAIN matrix /\ date \in Nat /\ (d # NoDay => date < d)
  BY <1>1, <1>2 DEF PaidInv, LogInOrder, Typed, InputSound, DaySound
<1>4. day_wise_log'[i].date = date
  BY <1>2
<1>5. OpenedWith(i)' = OpenedWith(i)
  <2>1. i # 1 => i - 1 \in 1..Len(day_wise_log)
    BY <1>1, <1>2
  <2> QED BY <2>1 DEF OpenedWith
<1>6. /\ PastAhead(date)' = PastAhead(date)
      /\ BoughtOn(date)' = BoughtOn(date) /\ SpentOn(date)' = SpentOn(date)
  <2>1. CASE UNCHANGED trade_log
    BY <2>1, DateStays
  <2>2. CASE /\ d # NoDay
             /\ \E row \in TradeRow : row.trade_date = d /\ trade_log' = Append(trade_log, row)
    <3>1. PICK row \in TradeRow : row.trade_date = d /\ trade_log' = Append(trade_log, row)
      BY <2>2
    <3>2. d \in Nat
      BY <2>2 DEF Typed, DayTyped, InputSound, DaySound
    <3>3. row.trade_date >= date /\ row.trade_date # date
      BY <1>3, <2>2, <3>1, <3>2
    <3> QED BY <1>3, <3>1, <3>3, DateRemains DEF Typed, InputSound
  <2> QED BY <2>1, <2>2
<1>7. DayIsGood(i)
  BY DEF BoughtInv
<1> QED BY <1>4, <1>5, <1>6, <1>7, GoodRemains

LEMMA OpenKeepsGood == ASSUME Typed, PaidInv, BoughtInv, OpenDay PROVE BoughtInv'
<1>1. /\ d = NoDay /\ dates # {} /\ d' = Min(dates) /\ margin_used' = 0
      /\ instrument_counts' = NoCounts /\ selected' = Selected(d')
      /\ UNCHANGED <<config, matrix, margin, days_elapsed, day_wise_log, trade_log>>
      /\ ov' \in OrderValues(margin)
  BY DEF OpenDay, input, account
<1>2. d' \in dates /\ d' \in Nat \ {0} /\ d' \in DOMAIN matrix
  BY <1>1, NextDate DEF Typed, DayTyped
<1>3. \A i \in 1..days_elapsed : DayIsGood(i)'
  BY <1>1, DaysStayGood
<1>4. ov' \in OrderValues(margin)'
  BY <1>1 DEF OrderValues
<1>5. TradesOf(d') = {} /\ TradesOf(d)' = {}
  BY <1>1, <1>2, NoneYet DEF TradesOf
<1>6. SpentOn(d)' = 0 /\ BoughtOn(d)' = {}
  <2>1. SpentOn(d)' = Total(trade_log', TradesOf(d)', "order_value")
    BY DEF SpentOn
  <2> QED BY <1>5, <2>1, TotalOfNothing DEF BoughtOn
<1>7. 0 <= Max({margin', 0})
  <2>1. margin' \in Int
    BY <1>1 DEF Typed, AccountTyped
  <2> QED BY <2>1, LargerIs
<1>8. Ahead(d') = PastAhead(d)'
  <2>1. \A n \in DOMAIN trade_log : trade_log[n].trade_date \in Nat /\ trade_log[n].trade_date < d'
    <3> SUFFICES ASSUME NEW n \in DOMAIN trade_log
                 PROVE  trade_log[n].trade_date \in Nat /\ trade_log[n].trade_date < d'
      OBVIOUS
    <3>1. PICK i \in 1..days_elapsed : trade_log[n].trade_date = day_wise_log[i].date
      BY <1>1 DEF PaidInv, TradesDated
    <3>2. i \in DOMAIN day_wise_log
      BY DaysType DEF PaidInv, SkippedLast, Typed, AccountTyped
    <3>3. trade_log[n].trade_date \in Nat
      BY <3>1, <3>2, DaysType DEF Typed
    <3> QED BY <1>2, <3>1, <3>2, <3>3 DEF PaidInv, LogInOrder
  <2>2. config.ranking_window_days \in Nat
    BY DEF Typed, InputSound, Config
  <2>3. ASSUME NEW symbol
        PROVE  Score(symbol, d') = Total(trade_log, PastTrades(symbol, d'), "pnl_pct")
    <3> DEFINE trades == {n \in DOMAIN trade_log :
                            /\ trade_log[n].symbol = symbol
                            /\ trade_log[n].trade_date > d' - config.ranking_window_days}
    <3>1. Score(symbol, d') = Total(trade_log, trades, "pnl_pct")
      BY DEF Score, SumOf, Total
    <3>2. ASSUME NEW n \in DOMAIN trade_log
          PROVE  trade_log[n].trade_date > d' - config.ranking_window_days <=>
                    trade_log[n].trade_date \in d' - config.ranking_window_days + 1 .. d' - 1
      <4>1. trade_log[n].trade_date \in Nat /\ trade_log[n].trade_date < d'
        BY <2>1
      <4> QED BY <1>2, <2>2, <4>1
    <3>3. trades = PastTrades(symbol, d')
      BY <3>2 DEF PastTrades
    <3> HIDE DEF trades
    <3> QED BY <3>1, <3>3
  <2>4. \A j \in DOMAIN matrix[d'] : RankOf(d', j) = PastRank(d', j)
    BY <2>3 DEF RankOf, PastRank
  <2>5. Ahead(d') = PastAhead(d')
    BY <2>4 DEF Ahead, PastAhead
  <2>6. PastAhead(d)' = PastAhead(d')
    <3>1. \A j : PastRank(d, j)' = PastRank(d', j)
      BY <1>1 DEF PastRank, PastTrades, Rank
    <3> QED BY <1>1, <3>1 DEF PastAhead
  <2> QED BY <2>5, <2>6
<1>9. PICK o \in [DOMAIN matrix[d'] -> DOMAIN matrix[d']] :
         /\ \A i, j \in DOMAIN matrix[d'] : i < j => <<o[i], o[j]>> \in Ahead(d')
         /\ Len(Selected(d')) = Min({config.max_positions, Len(matrix[d'])})
         /\ Len(Selected(d')) \in Nat /\ DOMAIN Selected(d') \in SUBSET Nat
         /\ \A i \in DOMAIN Selected(d') : Selected(d')[i] = matrix[d'][o[i]]
  <2>1. InputSound /\ LogsTyped
    BY DEF Typed
  <2>2. Len(matrix[d']) \in Nat
    BY <1>2 DEF Typed, InputSound, DaySound
  <2>3. PICK o \in [DOMAIN matrix[d'] -> DOMAIN matrix[d']] :
           /\ \A i, j \in DOMAIN matrix[d'] : i < j => <<o[i], o[j]>> \in Ahead(d')
           /\ Selected(d') \in Seq(Entry)
           /\ Len(Selected(d')) = Min({config.max_positions, Len(matrix[d'])})
           /\ Len(Selected(d')) \in 0..Len(matrix[d'])
           /\ \A i \in DOMAIN Selected(d') : Selected(d')[i] = matrix[d'][o[i]]
    BY <1>2, <2>1, SelectedIs
  <2>4. Len(Selected(d')) \in Nat /\ DOMAIN Selected(d') \in SUBSET Nat
    BY <2>3
  <2> QED BY <2>3, <2>4
<1>10. Position' = Len(selected') /\ Position' \in Nat
  BY <1>1, <1>9 DEF Position
<1>11. InDay(o, 0)'
  <2>1. \A k \in DOMAIN selected' : 0 + k = k /\ selected'[k] = matrix'[d'][o[k]]
    <3> SUFFICES ASSUME NEW k \in DOMAIN Selected(d')
                 PROVE  0 + k = k /\ Selected(d')[k] = matrix[d'][o[k]]
      BY <1>1
    <3>1. k \in Nat
      BY <1>9
    <3>2. Selected(d')[k] = matrix[d'][o[k]]
      BY <1>9, Zenon
    <3> QED BY <3>1, <3>2
  <2>2. Len(selected') = Position' - 0
    BY <1>10
  <2>3. 1..0 = {} /\ DOMAIN instrument_counts' = {}
    BY <1>1 DEF NoCounts
  <2>4. \A i, j \in DOMAIN matrix'[d'] : i < j => <<o[i], o[j]>> \in PastAhead(d)'
    BY <1>1, <1>8, <1>9
  <2> QED BY <1>6, <2>1, <2>2, <2>3, <2>4 DEF InDay
<1>12. DayGoesWell'
  <2>1. 0 \in 0..Position'
    BY <1>10
  <2> QED BY <1>1, <1>4, <1>6, <1>7, <1>9, <1>11, <2>1 DEF DayGoesWell
<1> QED BY <1>1, <1>3, <1>12 DEF BoughtInv

\* The entry looked at next is the next in the order, of a symbol not seen before.
LEMMA NextIs ==
    ASSUME Typed, selected # <<>>, NEW o \in [DOMAIN matrix[d] -> DOMAIN matrix[d]],
           NEW p \in 0..Position, InDay(o, p)
    PROVE  /\ p \in Nat /\ p + 1 \in 0..Position /\ p + 1 \in 1..Len(matrix[d])
           /\ o[p + 1] \in DOMAIN matrix[d]
           /\ Head(selected) = matrix[d][o[p + 1]]
           /\ Len(Tail(selected)) = Position - (p + 1)
           /\ \A k \in DOMAIN Tail(selected) : Tail(selected)[k] = matrix[d][o[p + 1 + k]]
           /\ \A k \in 1..p : o[k] # o[p + 1] /\ o[k] \in DOMAIN matrix[d]
           /\ Count(Head(selected).symbol) = 0
           /\ \A k \in 1..p + 1 : k \in 1..p \/ k = p + 1
<1>1. d # NoDay /\ selected \in Seq(Entry)
  BY DEF Typed, DayTyped
<1>2. /\ Len(matrix[d]) \in Nat /\ DOMAIN matrix[d] = 1..Len(matrix[d])
      /\ Position \in 0..Len(matrix[d]) /\ OneEntryEach(matrix[d])
      /\ Orders(DOMAIN matrix[d], PastAhead(d))
  BY <1>1, DayHas
<1>3. /\ Len(selected) = Position - p
      /\ \A k \in DOMAIN selected : selected[k] = matrix[d][o[p + k]]
  BY DEF InDay
<1>4. Len(selected) \in Nat \ {0} /\ 1 \in DOMAIN selected /\ Head(selected) = selected[1]
  BY <1>1
<1>5. p \in Nat /\ Position \in Nat
  BY <1>2
<1>6. p + 1 \in 0..Position /\ p + 1 \in 1..Len(matrix[d])
  BY <1>2, <1>3, <1>4, <1>5
<1>7. o[p + 1] \in DOMAIN matrix[d] /\ Head(selected) = matrix[d][o[p + 1]]
  BY <1>2, <1>3, <1>4, <1>6
<1>8. /\ Len(Tail(selected)) = Position - (p + 1)
      /\ \A k \in DOMAIN Tail(selected) : Tail(selected)[k] = matrix[d][o[p + 1 + k]]
  <2>1. Len(Tail(selected)) = Len(selected) - 1
    BY <1>1
  <2>2. DOMAIN Tail(selected) = 1..(Len(selected) - 1)
    BY <1>1
  <2>3. ASSUME NEW k \in DOMAIN Tail(selected)
        PROVE  Tail(selected)[k] = matrix[d][o[p + 1 + k]]
    <3>1. k + 1 \in DOMAIN selected /\ Tail(selected)[k] = selected[k + 1]
      BY HeadIs
    <3>2. k \in Nat /\ p + (k + 1) = p + 1 + k
      BY <1>4, <1>5, <2>2
    <3> QED BY <1>3, <3>1, <3>2
  <2> QED BY <1>3, <1>4, <1>5, <2>1, <2>3
<1>9. ASSUME NEW k \in 1..p PROVE o[k] # o[p + 1] /\ o[k] \in DOMAIN matrix[d]
  <2>1. k \in 1..Len(matrix[d]) /\ k # p + 1
    BY <1>2, <1>5, <1>6
  <2>2. \A i, j \in 1..Len(matrix[d]) : i < j => <<o[i], o[j]>> \in PastAhead(d)
    BY <1>2 DEF InDay
  <2>3. \A i, j \in 1..Len(matrix[d]) : o[i] = o[j] => i = j
    <3>1. Sorts(Len(matrix[d]), PastAhead(d), o)
      BY <1>2, <2>2 DEF Sorts
    <3> QED BY <3>1, PlaceIs
  <2> QED BY <1>2, <1>6, <2>1, <2>3
<1>10. Count(Head(selected).symbol) = 0
  <2> SUFFICES ASSUME Head(selected).symbol \in DOMAIN instrument_counts PROVE FALSE
    BY DEF Count
  <2>1. PICK k \in 1..p : Head(selected).symbol = matrix[d][o[k]].symbol
    BY DEF InDay
  <2>2. o[k] # o[p + 1] /\ o[k] \in DOMAIN matrix[d]
    BY <1>9
  <2> QED BY <1>2, <1>7, <2>1, <2>2 DEF OneEntryEach
<1>11. \A k \in 1..p + 1 : k \in 1..p \/ k = p + 1
  BY <1>5
<1> QED BY <1>5, <1>6, <1>7, <1>8, <1>9, <1>10, <1>11

LEMMA PassKeepsGood == ASSUME Typed, PaidInv, BoughtInv, PassOver PROVE BoughtInv'
<1>1. /\ selected # <<>> /\ ~Tradable(Head(selected)) /\ selected' = Tail(selected)
      /\ UNCHANGED <<config, matrix, d, ov, margin_used, instrument_counts, margin,
                     days_elapsed, trade_log, day_wise_log>>
  BY DEF PassOver, input, day, account
<1>2. d # NoDay /\ DayGoesWell
  BY <1>1 DEF Typed, DayTyped, BoughtInv
<1>3. PICK o \in [DOMAIN matrix[d] -> DOMAIN matrix[d]], p \in 0..Position : InDay(o, p)
  BY <1>2 DEF DayGoesWell
<1>4. /\ p \in Nat /\ p + 1 \in 0..Position
      /\ o[p + 1] \in DOMAIN matrix[d]
      /\ Head(selected) = matrix[d][o[p + 1]]
      /\ Len(Tail(selected)) = Position - (p + 1)
      /\ \A k \in DOMAIN Tail(selected) : Tail(selected)[k] = matrix[d][o[p + 1 + k]]
      /\ Count(Head(selected).symbol) = 0
      /\ \A k \in 1..p + 1 : k \in 1..p \/ k = p + 1
  BY <1>1, <1>3, NextIs
<1>5. matrix[d][o[p + 1]].entry_price > 0 => config.max_positions_per_instrument = 0
  <2>1. config.max_positions_per_instrument \in Nat
    BY <1>2, DayHas
  <2> QED BY <1>1, <1>4, <2>1 DEF Tradable
<1>6. /\ PastAhead(d)' = PastAhead(d) /\ BoughtOn(d)' = BoughtOn(d) /\ SpentOn(d)' = SpentOn(d)
  <2>1. /\ PastAhead(d)' = PastAhead(d') /\ BoughtOn(d)' = BoughtOn(d')
        /\ SpentOn(d)' = SpentOn(d')
    <3>1. \A j : PastRank(d, j)' = PastRank(d', j)
      BY <1>1 DEF PastRank, PastTrades, Rank
    <3> QED BY <1>1, <3>1 DEF PastAhead, BoughtOn, SpentOn, TradesOf
  <2> QED BY <1>1, <2>1
<1>7. Position' = Position
  BY <1>1 DEF Position
<1>8. InDay(o, p + 1)'
  <2>1. \A k \in 1..p : k \in 1..p + 1
    BY <1>4
  <2>2. \A i, j \in DOMAIN matrix[d] : i < j => <<o[i], o[j]>> \in PastAhead(d)
    BY <1>3 DEF InDay
  <2>3. \A j \in BoughtOn(d) : \E k \in 1..p + 1 : j = o[k]
    BY <1>3, <2>1 DEF InDay
  <2>4. \A k \in 1..p + 1 : matrix[d][o[k]].entry_price > 0 =>
            o[k] \in BoughtOn(d) \/ config.max_positions_per_instrument = 0
    BY <1>3, <1>4, <1>5 DEF InDay
  <2>5. \A s \in DOMAIN instrument_counts : \E k \in 1..p + 1 : s = matrix[d][o[k]].symbol
    BY <1>3, <2>1 DEF InDay
  <2> QED BY <1>1, <1>4, <1>6, <1>7, <2>2, <2>3, <2>4, <2>5 DEF InDay
<1>9. DayGoesWell'
  <2>1. OrderValues(margin)' = OrderValues(margin)
    BY <1>1 DEF OrderValues
  <2> QED BY <1>1, <1>2, <1>4, <1>6, <1>7, <1>8, <2>1 DEF DayGoesWell
<1>10. \A i \in 1..days_elapsed : DayIsGood(i)'
  BY <1>1, DaysStayGood
<1> QED BY <1>1, <1>9, <1>10 DEF BoughtInv

LEMMA StopKeepsGood == ASSUME Typed, PaidInv, BoughtInv, StopBuying PROVE BoughtInv'
<1>1. /\ selected # <<>> /\ ~Affordable /\ selected' = <<>>
      /\ UNCHANGED <<config, matrix, d, ov, margin_used, instrument_counts, margin,
                     days_elapsed, trade_log, day_wise_log>>
  BY DEF StopBuying, input, day, account
<1>2. d # NoDay /\ DayGoesWell
  BY <1>1 DEF Typed, DayTyped, BoughtInv
<1>3. PICK o \in [DOMAIN matrix[d] -> DOMAIN matrix[d]], p \in 0..Position : InDay(o, p)
  BY <1>2 DEF DayGoesWell
<1>4. margin - margin_used < ov
  <2>1. margin \in Int /\ margin_used \in Int /\ ov \in Int
    BY DEF Typed, AccountTyped, DayTyped
  <2> QED BY <1>1, <2>1 DEF Affordable
<1>5. /\ PastAhead(d)' = PastAhead(d) /\ BoughtOn(d)' = BoughtOn(d) /\ SpentOn(d)' = SpentOn(d)
  <2>1. \A j : PastRank(d, j)' = PastRank(d, j)
    BY <1>1 DEF PastRank, PastTrades, Rank
  <2> QED BY <1>1, <2>1 DEF PastAhead, BoughtOn, SpentOn, TradesOf
<1>6. Position' = Position
  BY <1>1 DEF Position
<1>7. InDay(o, p)'
  <2>1. selected' = <<>> /\ margin' - margin_used' < ov'
    BY <1>1, <1>4
  <2> QED BY <1>1, <1>3, <1>5, <2>1 DEF InDay
<1>8. DayGoesWell'
  <2>1. OrderValues(margin)' = OrderValues(margin)
    BY <1>1 DEF OrderValues
  <2> QED BY <1>1, <1>2, <1>3, <1>5, <1>6, <1>7, <2>1 DEF DayGoesWell
<1>9. \A i \in 1..days_elapsed : DayIsGood(i)'
  BY <1>1, DaysStayGood
<1> QED BY <1>1, <1>8, <1>9 DEF BoughtInv

LEMMA TradeKeepsGood ==
    ASSUME Typed, PaidInv, BoughtInv, ChargesAreNumbers, Trade PROVE BoughtInv'
<1> DEFINE row == RowOf(Head(selected), d, ov)
           N == Len(trade_log) + 1
<1>1. /\ selected # <<>> /\ Affordable /\ selected' = Tail(selected)
      /\ margin_used' = margin_used + ov
      /\ UNCHANGED <<config, matrix, d, ov, margin, days_elapsed, day_wise_log>>
      /\ DOMAIN instrument_counts' = DOMAIN instrument_counts \cup {Head(selected).symbol}
  BY DEF Trade, input, account
<1>2. /\ trade_log' = Append(trade_log, row) /\ row \in TradeRow /\ row.trade_date = d
      /\ row.symbol = Head(selected).symbol /\ row["order_value"] = ov
  BY TradeIs DEF RowOf
<1> HIDE DEF row
<1>3. d # NoDay /\ DayGoesWell /\ d \in Nat
  BY <1>1, HeadIs DEF BoughtInv
<1>4. PICK o \in [DOMAIN matrix[d] -> DOMAIN matrix[d]], p \in 0..Position : InDay(o, p)
  BY <1>3 DEF DayGoesWell
<1>5. /\ p \in Nat /\ p + 1 \in 0..Position
      /\ o[p + 1] \in DOMAIN matrix[d]
      /\ Head(selected) = matrix[d][o[p + 1]]
      /\ Len(Tail(selected)) = Position - (p + 1)
      /\ \A k \in DOMAIN Tail(selected) : Tail(selected)[k] = matrix[d][o[p + 1 + k]]
      /\ \A k \in 1..p + 1 : k \in 1..p \/ k = p + 1
  BY <1>1, <1>4, NextIs
<1>6. p + 1 \in 1..p + 1 /\ \A k \in 1..p : k \in 1..p + 1
  BY <1>5
<1>7. /\ DOMAIN trade_log' = DOMAIN trade_log \cup {N} /\ N \notin DOMAIN trade_log
      /\ \A n \in DOMAIN trade_log : trade_log'[n] = trade_log[n]
      /\ trade_log'[N] = row
  BY <1>2, AppendIs DEF Typed
<1> HIDE DEF N
<1>8. TradesOf(d)' = TradesOf(d) \cup {N} /\ TradesOf(d) \in SUBSET DOMAIN trade_log
  BY <1>1, <1>2, <1>7 DEF TradesOf
<1>9. SpentOn(d)' = SpentOn(d) + ov /\ SpentOn(d) \in Int /\ ov \in Int
  <2>1. SpentOn(d)' = Total(trade_log', TradesOf(d)', "order_value")
    BY DEF SpentOn
  <2>2. Total(trade_log', TradesOf(d) \cup {N}, "order_value")
            = row["order_value"] + Total(trade_log, TradesOf(d), "order_value")
    BY <1>2, <1>8, TotalGrows DEF Fields, N, Typed
  <2>3. SpentOn(d) \in Int /\ ov \in Int
    BY <1>8, TotalType DEF SpentOn, Fields, Typed, DayTyped
  <2> QED BY <1>2, <1>8, <2>1, <2>2, <2>3 DEF SpentOn
<1>10. BoughtOn(d)' = BoughtOn(d) \cup {o[p + 1]}
  <2>1. OneEntryEach(matrix[d])
    BY <1>3, DayHas
  <2>2. \A j \in DOMAIN matrix[d] : matrix[d][j].symbol = row.symbol <=> j = o[p + 1]
    BY <1>2, <1>5, <2>1 DEF OneEntryEach
  <2>3. \A n \in TradesOf(d) : trade_log'[n] = trade_log[n]
    BY <1>7, <1>8
  <2>4. ASSUME NEW j \in DOMAIN matrix[d]
        PROVE  (\E n \in TradesOf(d)' : trade_log'[n].symbol = matrix[d][j].symbol)
                 <=> j \in BoughtOn(d) \/ j = o[p + 1]
    BY <1>7, <1>8, <2>2, <2>3 DEF BoughtOn
  <2>5. BoughtOn(d)' = {j \in DOMAIN matrix[d] :
            \E n \in TradesOf(d)' : trade_log'[n].symbol = matrix[d][j].symbol}
    BY <1>1 DEF BoughtOn
  <2>6. BoughtOn(d) \in SUBSET DOMAIN matrix[d]
    BY DEF BoughtOn
  <2> QED BY <1>5, <2>4, <2>5, <2>6
<1>11. PastAhead(d)' = PastAhead(d)
  <2>1. PICK date \in Nat : date = d
    BY <1>3
  <2>2. row.trade_date >= date
    BY <1>2, <2>1
  <2>3. PastAhead(date)' = PastAhead(date)
    BY <1>1, <1>2, <2>2, DateRemains DEF Typed, InputSound
  <2>4. PastAhead(d)' = PastAhead(date)'
    <3>1. \A j : PastRank(d, j)' = PastRank(date, j)'
      BY <1>1, <2>1 DEF PastRank, PastTrades, Rank
    <3> QED BY <1>1, <2>1, <3>1 DEF PastAhead
  <2> QED BY <2>1, <2>3, <2>4
<1>12. Position' = Position
  BY <1>1 DEF Position
<1>13. InDay(o, p + 1)'
  <2>1. \A i, j \in DOMAIN matrix[d] : i < j => <<o[i], o[j]>> \in PastAhead(d)'
    BY <1>4, <1>11 DEF InDay
  <2>2. \A j \in BoughtOn(d)' : \E k \in 1..p + 1 : j = o[k]
    BY <1>4, <1>6, <1>10 DEF InDay
  <2>3. \A k \in 1..p + 1 : matrix[d][o[k]].entry_price > 0 =>
            o[k] \in BoughtOn(d)' \/ config.max_positions_per_instrument = 0
    BY <1>4, <1>5, <1>10 DEF InDay
  <2>4. \A s \in DOMAIN instrument_counts' : \E k \in 1..p + 1 : s = matrix[d][o[k]].symbol
    BY <1>1, <1>4, <1>5, <1>6 DEF InDay
  <2>5. /\ Len(selected') = Position' - (p + 1)
        /\ \A k \in DOMAIN selected' : selected'[k] = matrix'[d'][o[p + 1 + k]]
    BY <1>1, <1>5, <1>12
  <2> QED BY <1>1, <2>1, <2>2, <2>3, <2>4, <2>5 DEF InDay
<1>14. margin_used' = SpentOn(d)' /\ margin_used' <= Max({margin', 0})
  <2>1. margin \in Int /\ margin_used = SpentOn(d)
    BY <1>3 DEF Typed, AccountTyped, DayGoesWell
  <2>2. margin_used + ov <= margin
    BY <1>1, <1>9, <2>1 DEF Affordable
  <2>3. margin <= Max({margin, 0}) /\ Max({margin, 0}) \in Int
    BY <2>1, LargerIs
  <2> QED BY <1>1, <1>9, <2>1, <2>2, <2>3
<1>15. DayGoesWell'
  <2>1. OrderValues(margin)' = OrderValues(margin)
    BY <1>1 DEF OrderValues
  <2>2. p + 1 \in 0..Position'
    BY <1>5, <1>12
  <2> QED BY <1>1, <1>3, <1>13, <1>14, <2>1, <2>2 DEF DayGoesWell
<1>16. \A i \in 1..days_elapsed : DayIsGood(i)'
  BY <1>1, <1>2, <1>3, DaysStayGood
<1> QED BY <1>1, <1>15, <1>16 DEF BoughtInv

\* A day that has been gone through is good.
LEMMA ClosedIsGood ==
    ASSUME Typed, d # NoDay, DayGoesWell, selected = <<>>
    PROVE  WellBought(matrix[d], PastAhead(d), BoughtOn(d), SpentOn(d), margin)
<1> DEFINE D == DOMAIN matrix[d]
           n == Len(matrix[d])
           R == PastAhead(d)
<1>1. PICK o \in [D -> D], p \in 0..Position : InDay(o, p)
  BY DEF DayGoesWell
<1>2. /\ n \in Nat /\ D = 1..n /\ Position \in 0..n /\ Position <= config.max_positions
      /\ Position \in {config.max_positions, n} /\ config.max_positions \in Nat
      /\ Orders(D, R)
  BY DayHas
<1>3. p \in Nat /\ p <= Position
  BY <1>2
<1>4. Sorts(n, R, o)
  BY <1>1, <1>2 DEF Sorts, InDay
<1>5. /\ \A i, j \in D : o[i] = o[j] => i = j
      /\ \A j \in D : \E k \in D : o[k] = j
      /\ \A k \in D : Cardinality(Before(R, D, o[k])) = k - 1
  <2> HIDE DEF D, n, R
  <2>1. \A i, j \in 1..n : o[i] = o[j] => i = j
    BY <1>4, PlaceIs
  <2>2. \A j \in 1..n : \E k \in 1..n : o[k] = j
    BY <1>4, PlaceIs
  <2>3. \A k \in 1..n : Cardinality(Before(R, 1..n, o[k])) = k - 1
    BY <1>4, PlaceIs
  <2>4. D = 1..n
    BY <1>2
  <2> QED BY <2>1, <2>2, <2>3, <2>4
<1>6. /\ \A j \in BoughtOn(d) : \E k \in 1..p : j = o[k]
      /\ \A k \in 1..p : matrix[d][o[k]].entry_price > 0 =>
            o[k] \in BoughtOn(d) \/ config.max_positions_per_instrument = 0
      /\ \A i, j \in D : i < j => <<o[i], o[j]>> \in R
  BY <1>1 DEF InDay
<1>7. p = Position \/ margin - margin_used < ov
  <2>1. Len(selected) = Position - p => p = Position
    BY <1>2, <1>3
  <2> QED BY <1>1, <2>1 DEF InDay
<1>8. /\ ov \in OrderValues(margin) /\ margin_used = SpentOn(d)
      /\ margin_used <= Max({margin, 0})
  BY DEF DayGoesWell
<1>9. ASSUME NEW k \in D, NEW i \in 1..p, k > p
      PROVE  i \in D /\ i < k
  BY <1>2, <1>3, <1>9
<1> HIDE DEF D, n, R
<1>10. ASSUME NEW j \in D, matrix[d][j].entry_price > 0
       PROVE  IF Cardinality(Before(R, D, j)) >= config.max_positions
              THEN j \notin BoughtOn(d)
              ELSE \/ j \in BoughtOn(d)
                   \/ config.max_positions_per_instrument = 0
                   \/ /\ \A i \in D : i \in BoughtOn(d) => <<i, j>> \in R
                      /\ \E v \in OrderValues(margin) : margin - SpentOn(d) < v
  <2>1. PICK k \in D : o[k] = j
    BY <1>5
  <2>2. k \in 1..n /\ k \in Nat /\ Cardinality(Before(R, D, j)) = k - 1
    BY <1>2, <1>5, <2>1
  <2>3. CASE k > p
    <3>1. j \notin BoughtOn(d)
      <4> SUFFICES ASSUME j \in BoughtOn(d) PROVE FALSE
        OBVIOUS
      <4>1. PICK i \in 1..p : j = o[i]
        BY <1>6
      <4>2. i \in D /\ i < k
        BY <1>9, <2>3
      <4>3. i = k
        BY <1>5, <2>1, <4>1, <4>2
      <4> QED BY <2>2, <4>2, <4>3
    <3>2. \A i \in D : i \in BoughtOn(d) => <<i, j>> \in R
      <4> SUFFICES ASSUME NEW i \in BoughtOn(d) PROVE <<i, j>> \in R
        OBVIOUS
      <4>1. PICK l \in 1..p : i = o[l]
        BY <1>6
      <4>2. l \in D /\ l < k
        BY <1>9, <2>3
      <4> QED BY <1>6, <2>1, <4>1, <4>2
    <3>3. CASE k - 1 >= config.max_positions
      BY <2>2, <3>1, <3>3
    <3>4. CASE ~(k - 1 >= config.max_positions)
      <4>1. k <= Position
        BY <1>2, <2>2, <3>4
      <4>2. p # Position
        BY <1>3, <2>2, <2>3, <4>1
      <4>3. margin - SpentOn(d) < ov
        BY <1>7, <1>8, <4>2
      <4> QED BY <1>8, <2>2, <3>2, <3>4, <4>3
    <3> QED BY <3>3, <3>4
  <2>4. CASE ~(k > p)
    <3>1. k \in 1..p /\ ~(k - 1 >= config.max_positions)
      BY <1>2, <1>3, <2>2, <2>4
    <3>2. j \in BoughtOn(d) \/ config.max_positions_per_instrument = 0
      BY <1>6, <1>10, <2>1, <3>1
    <3> QED BY <2>2, <3>1, <3>2
  <2> QED BY <2>3, <2>4
<1>11. SpentOn(d) <= Max({margin, 0})
  BY <1>8
<1> QED BY <1>10, <1>11 DEF WellBought, D, R

LEMMA CloseKeepsGood ==
    ASSUME Typed, Typed', PaidInv, PaidInv', BoughtInv, CloseDay PROVE BoughtInv'
<1> DEFINE N == Len(day_wise_log)
<1>1. /\ d # NoDay /\ selected = <<>> /\ d' = NoDay /\ days_elapsed' = days_elapsed + 1
      /\ UNCHANGED <<config, matrix, trade_log>>
      /\ day_wise_log' = Append(day_wise_log, [date |-> d, margin_available |-> margin'])
  BY DEF CloseDay, Log, input
<1>2. /\ N \in Nat /\ DOMAIN day_wise_log = 1..N
      /\ \A i \in 1..N : day_wise_log'[i] = day_wise_log[i]
      /\ day_wise_log'[N + 1].date = d
  <2>1. d \in Nat /\ margin' \in Int
    BY <1>1 DEF Typed, DayTyped, InputSound, DaySound, AccountTyped
  <2>2. [date |-> d, margin_available |-> margin'] \in DayRow
    BY <2>1 DEF DayRow
  <2> QED BY <1>1, <2>2, DaysType, DaysAppend DEF Typed
<1>3. days_elapsed = N
  <2>1. days_elapsed <= N /\ ~(days_elapsed < N)
    BY <1>1 DEF PaidInv, SkippedLast
  <2>2. days_elapsed \in Nat
    BY DEF Typed, AccountTyped
  <2> HIDE DEF N
  <2> QED BY <1>2, <2>1, <2>2
<1>4. \A i \in 1..days_elapsed : DayIsGood(i)'
  BY <1>1, <1>2, DaysStayGood
<1>5. ASSUME NEW i, i = N + 1 PROVE DayIsGood(i)'
  <2>1. WellBought(matrix[d], PastAhead(d), BoughtOn(d), SpentOn(d), margin)
    BY <1>1, ClosedIsGood DEF BoughtInv
  <2>2. PICK date : date = d
    OBVIOUS
  <2>3. OpenedWith(i)' = margin
    <3>1. OpenedWith(i) = margin
      BY <1>5 DEF PaidInv, BooksKept
    <3>2. i # 1 => i - 1 \in 1..N
      <4> HIDE DEF N
      <4> QED BY <1>2, <1>5
    <3> QED BY <1>1, <1>2, <3>1, <3>2 DEF OpenedWith
  <2>4. /\ PastAhead(date)' = PastAhead(d) /\ BoughtOn(date)' = BoughtOn(d)
        /\ SpentOn(date)' = SpentOn(d)
    BY <1>1, <2>2, DateStays
  <2>5. \A balance : OrderValues(balance)' = OrderValues(balance)
    BY <1>1 DEF OrderValues
  <2>6. PICK entries, ahead, bought, spent, opening :
           /\ entries = matrix[d] /\ ahead = PastAhead(d) /\ bought = BoughtOn(d)
           /\ spent = SpentOn(d) /\ opening = margin
    OBVIOUS
  <2>7. WellBought(entries, ahead, bought, spent, opening)'
    BY <1>1, <2>1, <2>5, <2>6 DEF WellBought
  <2>8. day_wise_log'[i].date = date
    BY <1>2, <1>5, <2>2
  <2>9. DayIsGood(i)' <=> WellBought(matrix[date], PastAhead(date), BoughtOn(date),
                                     SpentOn(date), OpenedWith(i))'
    BY <2>8 DEF DayIsGood, WellBought
  <2> QED BY <1>1, <2>2, <2>3, <2>4, <2>6, <2>7, <2>9 DEF WellBought
<1>6. \A i \in 1..days_elapsed' : i \in 1..days_elapsed \/ i = N + 1
  <2> HIDE DEF N
  <2> QED BY <1>1, <1>2, <1>3
<1> QED BY <1>1, <1>4, <1>5, <1>6 DEF BoughtInv

LEMMA InitGood == Init => BoughtInv
<1> SUFFICES ASSUME Init PROVE BoughtInv
  OBVIOUS
<1>1. days_elapsed = 0 /\ d = NoDay /\ 1..0 = {}
  BY DEF Init
<1> QED BY <1>1 DEF BoughtInv

LEMMA SkipKeepsGood == ASSUME Typed, PaidInv, BoughtInv, SkipDay PROVE BoughtInv'
<1>1. /\ d = NoDay /\ dates # {}
      /\ day_wise_log' = Append(day_wise_log, [date |-> Min(dates), margin_available |-> margin])
      /\ UNCHANGED <<config, matrix, d, days_elapsed, trade_log>>
  BY DEF SkipDay, Log, input
<1>2. \A i \in 1..Len(day_wise_log) : day_wise_log'[i] = day_wise_log[i]
  <2>1. Min(dates) \in Nat /\ margin \in Int
    BY <1>1, NextDate DEF Typed, DayTyped, AccountTyped
  <2>2. [date |-> Min(dates), margin_available |-> margin] \in DayRow
    BY <2>1 DEF DayRow
  <2> QED BY <1>1, <2>2, DaysType, DaysAppend DEF Typed
<1>3. \A i \in 1..days_elapsed : DayIsGood(i)'
  BY <1>1, <1>2, DaysStayGood
<1> QED BY <1>1, <1>3 DEF BoughtInv

LEMMA StepKeepsGood ==
    ASSUME Typed, Typed', PaidInv, PaidInv', BoughtInv, ChargesAreNumbers, [Next]_vars
    PROVE  BoughtInv'
<1>1. CASE UNCHANGED vars
  <2>1. UNCHANGED <<config, matrix, d, selected, ov, margin_used, instrument_counts, margin,
                    days_elapsed, trade_log, day_wise_log>>
    BY <1>1 DEF vars
  <2>2. \A i \in 1..days_elapsed : DayIsGood(i)'
    BY <2>1, DaysStayGood
  <2>3. ASSUME d # NoDay PROVE DayGoesWell'
    <3>1. DayGoesWell
      BY <2>3 DEF BoughtInv
    <3>2. PICK o \in [DOMAIN matrix[d] -> DOMAIN matrix[d]], p \in 0..Position : InDay(o, p)
      BY <3>1 DEF DayGoesWell
    <3>3. \A j : PastRank(d, j)' = PastRank(d, j)
      BY <2>1 DEF PastRank, PastTrades, Rank
    <3>4. /\ PastAhead(d)' = PastAhead(d) /\ BoughtOn(d)' = BoughtOn(d)
          /\ SpentOn(d)' = SpentOn(d)
      BY <2>1, <3>3 DEF PastAhead, BoughtOn, SpentOn, TradesOf
    <3>5. Position' = Position
      BY <2>1 DEF Position
    <3>6. InDay(o, p)'
      BY <2>1, <3>2, <3>4, <3>5 DEF InDay
    <3>7. OrderValues(margin)' = OrderValues(margin)
      BY <2>1 DEF OrderValues
    <3> QED BY <2>1, <3>1, <3>2, <3>4, <3>5, <3>6, <3>7 DEF DayGoesWell
  <2> QED BY <2>1, <2>2, <2>3 DEF BoughtInv
<1> QED BY <1>1, SkipKeepsGood, OpenKeepsGood, PassKeepsGood, StopKeepsGood, TradeKeepsGood,
           CloseKeepsGood DEF Next

\* Every day buys the best of what it can afford, whatever the entries, the ranking and
\* the sizing are.
THEOREM BestAreBought == ASSUME ChargesAreNumbers PROVE Spec => []BuysTheBestItCanAfford
<1>1. Init => Typed /\ PaidInv /\ BoughtInv
  BY InitTyped, InitPaid, InitGood
<1>2. Typed /\ PaidInv /\ BoughtInv /\ [Next]_vars => Typed' /\ PaidInv' /\ BoughtInv'
  BY StepKeepsTyped, StepKeepsPaid, StepKeepsGood
<1>3. BoughtInv => BuysTheBestItCanAfford
  BY BestIs DEF BoughtInv
<1> QED BY <1>1, <1>2, <1>3, PTL DEF Spec

==============================================================================
