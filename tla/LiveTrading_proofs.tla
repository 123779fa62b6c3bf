-------------------------- MODULE LiveTrading_proofs --------------------------
(***************************************************************************)
(* Proofs about a strategy traded by hand, for any symbols, market and     *)
(* configuration.                                                          *)
(***************************************************************************)
EXTENDS LiveTrading, SumLemmas

DayBar == [day : Nat, score : 0..100,
           close : UNION {[S -> Nat \ {0}] : S \in SUBSET Symbols}]

\* The market has a first day and goes on from there.
DaysTyped == days \in Seq(DayBar) /\ days # <<>>

\* The dates a file, or a run of the helper, has for its symbols: from the first
\* purchase on, none in the future, and none after the run that saved it first.
DatesOk(dates, buys, saved, now) ==
    \A s \in DOMAIN dates :
        /\ s \in DOMAIN buys /\ dates[s] \in Nat
        /\ buys[s] <= dates[s] /\ dates[s] <= now
        /\ s \in DOMAIN saved => dates[s] <= saved[s]

DatesOf(positions) == [s \in DOMAIN positions |-> positions[s].entry_date]

\* A symbol is bought before it is held, and not in the future.
BoughtBefore ==
    /\ DOMAIN account.held \subseteq DOMAIN first_buy
    /\ \A s \in DOMAIN first_buy : first_buy[s] \in Nat /\ first_buy[s] <= today

AllDatesOk ==
    /\ DatesOk(state_file.entry_dates, first_buy, first_saved, today)
    /\ DatesOk(helper.dates, first_buy, first_saved, today)
    /\ DatesOk(DatesOf(helper.portfolio.positions), first_buy, first_saved, today)
    /\ DatesOk(DatesOf(portfolio.positions), first_buy, first_saved, today)

\* What was ever saved is in the file, or with the run that is writing it, as
\* long as the file can be read.
NothingForgotten ==
    /\ state_file.whole => DOMAIN first_saved \subseteq DOMAIN state_file.entry_dates
    /\ helper.pc = "dump" => DOMAIN first_saved \subseteq DOMAIN helper.dates
    /\ \A s \in DOMAIN first_saved : first_saved[s] \in Nat

\* A run of the helper is over before the day is.
RunsToday == helper # Idle => helper.day = today

DatesInv == DaysTyped /\ BoughtBefore /\ AllDatesOk /\ NothingForgotten /\ RunsToday

----------------------------------------------------------------------------
(* Dates *)

\* What an idle helper and an empty account are.
LEMMA Constants ==
    /\ DOMAIN NoDates = {} /\ Empty.cash = 0 /\ DOMAIN Empty.positions = {}
    /\ Idle.pc = "idle" /\ Idle.dates = NoDates /\ Idle.portfolio = Empty /\ Idle.day = 0
  BY DEF NoDates, Empty, Idle

\* The day is that of the last bar.
LEMMA DayOfMarket ==
    ASSUME DaysTyped
    PROVE  /\ Len(days) \in Nat /\ Len(days) >= 1 /\ days[Len(days)] \in DayBar
           /\ today \in Nat
<1>1. Len(days) \in Nat /\ Len(days) >= 1 /\ DOMAIN days = 1..Len(days)
  BY DEF DaysTyped
<1>2. days[Len(days)] \in DayBar
  BY <1>1 DEF DaysTyped
<1> QED BY <1>1, <1>2 DEF today, DayBar

\* Dates that are right stay so when days pass, symbols are bought and dates are saved.
LEMMA DatesStayOk ==
    ASSUME NEW dates, NEW buys, NEW more, NEW saved, NEW all, NEW now \in Nat, NEW later \in Nat,
           DatesOk(dates, buys, saved, now), now <= later,
           \A s \in DOMAIN buys : s \in DOMAIN more /\ more[s] = buys[s],
           \A s \in DOMAIN all : /\ all[s] \in Nat
                                 /\ s \in DOMAIN saved => all[s] = saved[s]
                                 /\ s \notin DOMAIN saved => now <= all[s],
           \A s \in DOMAIN buys : buys[s] \in Nat
    PROVE  DatesOk(dates, more, all, later)
<1> SUFFICES ASSUME NEW s \in DOMAIN dates
             PROVE  /\ s \in DOMAIN more /\ dates[s] \in Nat
                    /\ more[s] <= dates[s] /\ dates[s] <= later
                    /\ s \in DOMAIN all => dates[s] <= all[s]
  BY DEF DatesOk
<1>1. /\ s \in DOMAIN buys /\ dates[s] \in Nat
      /\ buys[s] <= dates[s] /\ dates[s] <= now
      /\ s \in DOMAIN saved => dates[s] <= saved[s]
  BY DEF DatesOk
<1>2. dates[s] <= later
  BY <1>1
<1>3. s \in DOMAIN all => dates[s] <= all[s]
  <2>1. CASE s \in DOMAIN saved
    BY <1>1, <2>1
  <2>2. CASE s \notin DOMAIN saved
    BY <1>1, <2>2
  <2> QED BY <2>1, <2>2
<1> QED BY <1>1, <1>2, <1>3

\* The dates a run works out are right, and none is dropped.
LEMMA UpdatedDatesOk ==
    ASSUME DatesInv, state_file.whole, NEW bootstrap \in BOOLEAN, NEW dates,
           dates = update_entry_dates(state_file.entry_dates, DOMAIN account.held,
                                      BootstrapDates(bootstrap))
    PROVE  /\ DOMAIN dates = DOMAIN state_file.entry_dates \cup DOMAIN account.held
           /\ DatesOk(dates, first_buy, first_saved, today)
<1> DEFINE old == state_file.entry_dates
           held == DOMAIN account.held
           boot == BootstrapDates(bootstrap)
<1>1. today \in Nat
  BY DayOfMarket DEF DatesInv
<1>2. /\ DatesOk(old, first_buy, first_saved, today)
      /\ DOMAIN first_saved \subseteq DOMAIN old
      /\ held \subseteq DOMAIN first_buy
      /\ \A s \in DOMAIN first_buy : first_buy[s] \in Nat /\ first_buy[s] <= today
  BY DEF DatesInv, AllDatesOk, NothingForgotten, BoughtBefore
<1>3. DOMAIN boot \subseteq held /\ \A s \in DOMAIN boot : boot[s] = first_buy[s]
  <2>1. CASE bootstrap
    BY <2>1 DEF BootstrapDates
  <2>2. CASE ~bootstrap
    BY <2>2, Constants DEF BootstrapDates
  <2> QED BY <2>1, <2>2
<1>4. dates = [s \in DOMAIN old \cup held |->
                IF s \in DOMAIN old THEN old[s]
                ELSE IF s \in DOMAIN boot THEN boot[s] ELSE today]
  BY DEF update_entry_dates
<1> HIDE DEF old, held, boot
<1>5. ASSUME NEW s \in DOMAIN dates
      PROVE  /\ s \in DOMAIN first_buy /\ dates[s] \in Nat
             /\ first_buy[s] <= dates[s] /\ dates[s] <= today
             /\ s \in DOMAIN first_saved => dates[s] <= first_saved[s]
  <2>1. CASE s \in DOMAIN old
    BY <1>2, <1>4, <2>1 DEF DatesOk
  <2>2. CASE s \notin DOMAIN old
    <3>1. s \in held /\ (dates[s] = first_buy[s] \/ dates[s] = today)
      BY <1>3, <1>4, <2>2
    <3> QED BY <1>1, <1>2, <2>2, <3>1
  <2> QED BY <2>1, <2>2
<1> QED BY <1>4, <1>5 DEF DatesOk, old, held

LEMMA HelperReadsKeepsDates ==
    ASSUME DatesInv, NEW bootstrap \in BOOLEAN, NEW dry_run \in BOOLEAN,
           HelperReads(bootstrap, dry_run)
    PROVE  DatesInv'
<1>1. PICK dates : dates = update_entry_dates(state_file.entry_dates, DOMAIN account.held,
                                              BootstrapDates(bootstrap))
  OBVIOUS
<1>2. PICK positions : positions = [s \in DOMAIN account.held |-> Position(s, dates[s])]
  OBVIOUS
<1>3. /\ state_file.whole /\ UNCHANGED <<days, account, first_buy, portfolio, first_saved>>
      /\ helper' = [pc |-> IF dry_run THEN "write" ELSE "dump", dates |-> dates,
                    day |-> today, portfolio |-> [cash |-> account.cash,
                                                  positions |-> positions]]
      /\ state_file' = IF dry_run THEN state_file ELSE [whole |-> FALSE, entry_dates |-> NoDates]
  BY <1>1, <1>2 DEF HelperReads
<1>4. /\ DOMAIN dates = DOMAIN state_file.entry_dates \cup DOMAIN account.held
      /\ DatesOk(dates, first_buy, first_saved, today)
  BY <1>1, <1>3, UpdatedDatesOk
<1>5. /\ helper'.dates = dates /\ helper'.day = today
      /\ helper'.portfolio.positions = positions /\ helper'.pc \in {"write", "dump"}
      /\ today' = today
  BY <1>3 DEF today
<1>6. DatesOk(DatesOf(positions), first_buy, first_saved, today)
  <2>1. /\ DOMAIN DatesOf(positions) = DOMAIN account.held
        /\ \A s \in DOMAIN account.held : DatesOf(positions)[s] = dates[s]
    BY <1>2 DEF DatesOf, Position
  <2> QED BY <1>4, <2>1 DEF DatesOk
<1>7. DatesOk(state_file'.entry_dates, first_buy, first_saved, today)
  <2>1. CASE dry_run
    BY <1>3, <2>1 DEF DatesInv, AllDatesOk
  <2>2. CASE ~dry_run
    BY <1>3, <2>2, Constants DEF DatesOk
  <2> QED BY <2>1, <2>2
<1>8. AllDatesOk'
  BY <1>3, <1>4, <1>5, <1>6, <1>7 DEF DatesInv, AllDatesOk
<1>9. NothingForgotten'
  <2>1. state_file'.whole => state_file' = state_file
    BY <1>3
  <2> QED BY <1>3, <1>4, <1>5, <2>1 DEF DatesInv, NothingForgotten
<1> QED BY <1>3, <1>5, <1>8, <1>9 DEF DatesInv, DaysTyped, BoughtBefore, RunsToday

LEMMA HelperDumpsKeepsDates ==
    ASSUME DatesInv, HelperDumps PROVE DatesInv'
<1>1. /\ helper.pc = "dump" /\ UNCHANGED <<days, account, first_buy, portfolio>>
      /\ state_file' = [whole |-> TRUE, entry_dates |-> helper.dates]
      /\ helper' = [helper EXCEPT !.pc = "write"]
      /\ first_saved' = [s \in DOMAIN helper.dates |->
                         IF s \in DOMAIN first_saved THEN first_saved[s] ELSE helper.day]
  BY DEF HelperDumps
<1>2. /\ today' = today /\ today \in Nat /\ helper.day = today
      /\ state_file'.entry_dates = helper.dates
      /\ helper'.dates = helper.dates /\ helper'.day = helper.day
      /\ helper'.portfolio = helper.portfolio
  <2>1. helper # Idle
    BY <1>1, Constants
  <2> QED BY <1>1, <2>1, DayOfMarket DEF DatesInv, RunsToday, today
<1>3. /\ DOMAIN first_saved' = DOMAIN helper.dates
      /\ \A s \in DOMAIN first_saved' :
            /\ first_saved'[s] \in Nat
            /\ s \in DOMAIN first_saved => first_saved'[s] = first_saved[s]
            /\ s \notin DOMAIN first_saved => today <= first_saved'[s]
  BY <1>1, <1>2 DEF DatesInv, NothingForgotten
<1>4. ASSUME NEW dates, DatesOk(dates, first_buy, first_saved, today)
      PROVE  DatesOk(dates, first_buy, first_saved', today)
  <2>1. \A s \in DOMAIN first_buy : first_buy[s] \in Nat
    BY DEF DatesInv, BoughtBefore
  <2> QED BY <1>2, <1>3, <1>4, <2>1, DatesStayOk
<1>5. AllDatesOk'
  BY <1>1, <1>2, <1>4 DEF DatesInv, AllDatesOk
<1>6. NothingForgotten'
  BY <1>1, <1>2, <1>3 DEF NothingForgotten
<1> QED BY <1>1, <1>2, <1>5, <1>6 DEF DatesInv, DaysTyped, BoughtBefore, RunsToday

LEMMA NextDayKeepsDates ==
    ASSUME DatesInv, NEW b \in Bars, NEW sells, NEW buys, NextDay(b, sells, buys)
    PROVE  DatesInv' /\ today' = today + b.gap
<1>1. PICK next : next = today + b.gap
  OBVIOUS
<1>2. PICK day : day = [day |-> next, score |-> b.score, close |-> b.close]
  OBVIOUS
<1>3. /\ helper = Idle /\ UNCHANGED <<state_file, portfolio, helper, first_saved>>
      /\ account'.held = Bought(Sold(account.held, sells), buys)
      /\ first_buy' = [s \in DOMAIN first_buy \cup {o.symbol : o \in buys} |->
                                IF s \in DOMAIN first_buy THEN first_buy[s] ELSE next]
      /\ days' = Append(days, day)
  BY <1>1, <1>2 DEF NextDay
<1>4. today \in Nat /\ next \in Nat /\ today <= next
  BY <1>1, DayOfMarket, LiveAssumption DEF DatesInv
<1>5. day \in DayBar
  <2>1. /\ b.score \in 0..100 /\ DOMAIN b.close \subseteq Symbols
        /\ b.close \in [DOMAIN b.close -> Nat \ {0}]
    BY LiveAssumption DEF OfSymbols
  <2>2. b.close \in UNION {[S -> Nat \ {0}] : S \in SUBSET Symbols}
    BY <2>1
  <2> QED BY <1>2, <1>4, <2>1, <2>2 DEF DayBar
<1>6. DaysTyped' /\ today' = next
  <2>1. days' \in Seq(DayBar) /\ Len(days') = Len(days) + 1 /\ days'[Len(days) + 1] = day
    BY <1>3, <1>5 DEF DatesInv, DaysTyped
  <2>2. Len(days) \in Nat
    BY DayOfMarket DEF DatesInv
  <2>3. days' # <<>>
    BY <2>1, <2>2
  <2> QED BY <1>2, <2>1, <2>3 DEF DaysTyped, today
<1>7. BoughtBefore'
  <2>1. /\ DOMAIN account.held \subseteq DOMAIN first_buy
        /\ \A s \in DOMAIN first_buy : first_buy[s] \in Nat /\ first_buy[s] <= today
    BY DEF DatesInv, BoughtBefore
  <2>2. DOMAIN account'.held \subseteq DOMAIN account.held \cup {o.symbol : o \in buys}
    BY <1>3 DEF Bought, Sold
  <2>3. DOMAIN account'.held \subseteq DOMAIN first_buy'
    BY <1>3, <2>1, <2>2
  <2>4. \A s \in DOMAIN first_buy' : first_buy'[s] \in Nat /\ first_buy'[s] <= next
    BY <1>3, <1>4, <2>1
  <2> QED BY <1>6, <2>3, <2>4 DEF BoughtBefore
<1>8. ASSUME NEW dates, DatesOk(dates, first_buy, first_saved, today)
      PROVE  DatesOk(dates, first_buy', first_saved, next)
  <2>1. \A s \in DOMAIN first_buy : s \in DOMAIN first_buy' /\ first_buy'[s] = first_buy[s]
    BY <1>3
  <2>2. \A s \in DOMAIN first_saved : first_saved[s] \in Nat
    BY DEF DatesInv, NothingForgotten
  <2>3. \A s \in DOMAIN first_buy : first_buy[s] \in Nat
    BY DEF DatesInv, BoughtBefore
  <2> QED BY <1>4, <1>8, <2>1, <2>2, <2>3, DatesStayOk
<1>9. AllDatesOk'
  BY <1>3, <1>6, <1>8 DEF DatesInv, AllDatesOk
<1>10. NothingForgotten' /\ RunsToday'
  BY <1>3 DEF DatesInv, NothingForgotten, RunsToday
<1> QED BY <1>1, <1>6, <1>7, <1>9, <1>10 DEF DatesInv

LEMMA StepKeepsDates ==
    ASSUME DatesInv, [Next]_vars PROVE DatesInv'
<1>1. ASSUME NEW bootstrap \in BOOLEAN, NEW dry_run \in BOOLEAN, HelperReads(bootstrap, dry_run)
      PROVE  DatesInv'
  BY <1>1, HelperReadsKeepsDates
<1>2. CASE HelperDumps
  BY <1>2, HelperDumpsKeepsDates
<1>3. CASE HelperWrites
  <2>1. /\ portfolio' = helper.portfolio /\ helper' = Idle
        /\ UNCHANGED <<days, account, first_buy, state_file, first_saved>>
    BY <1>3 DEF HelperWrites
  <2> QED BY <2>1, Constants DEF DatesInv, DaysTyped, BoughtBefore, AllDatesOk,
             NothingForgotten, RunsToday, today, DatesOk, DatesOf
<1>4. CASE HelperDies
  <2>1. helper' = Idle /\ UNCHANGED <<days, account, first_buy, state_file, portfolio, first_saved>>
    BY <1>4 DEF HelperDies
  <2> QED BY <2>1, Constants DEF DatesInv, DaysTyped, BoughtBefore, AllDatesOk,
             NothingForgotten, RunsToday, today, DatesOk, DatesOf
<1>5. ASSUME NEW ranked, Runner(ranked) PROVE DatesInv'
  <2>1. UNCHANGED <<days, account, first_buy, state_file, portfolio, helper, first_saved>>
    BY <1>5 DEF Runner
  <2> QED BY <2>1 DEF DatesInv, DaysTyped, BoughtBefore, AllDatesOk,
             NothingForgotten, RunsToday, today
<1>6. ASSUME NEW b \in Bars, NEW sells, NEW buys, NextDay(b, sells, buys) PROVE DatesInv'
  BY <1>6, NextDayKeepsDates
<1>7. CASE UNCHANGED vars
  BY <1>7 DEF vars, DatesInv, DaysTyped, BoughtBefore, AllDatesOk,
             NothingForgotten, RunsToday, today
<1> QED BY <1>1, <1>2, <1>3, <1>4, <1>5, <1>6, <1>7 DEF Next

LEMMA AlwaysDated == Spec => []DatesInv
<1>1. Init => DatesInv
  <2> SUFFICES ASSUME Init PROVE DatesInv
    OBVIOUS
  <2>1. PICK o \in Opening :
            /\ days = <<[day |-> 1, score |-> o.first.score, close |-> o.first.close]>>
            /\ account = [cash |-> o.cash, held |-> o.held]
    BY DEF Init
  <2>2. /\ o.first.score \in 0..100 /\ DOMAIN o.first.close \subseteq Symbols
        /\ o.first.close \in [DOMAIN o.first.close -> Nat \ {0}]
    BY LiveAssumption DEF OfSymbols
  <2>3. o.first.close \in UNION {[S -> Nat \ {0}] : S \in SUBSET Symbols}
    BY <2>2
  <2>4. days \in Seq(DayBar) /\ Len(days) = 1 /\ days[1].day = 1
    BY <2>1, <2>2, <2>3 DEF DayBar
  <2>5. DaysTyped /\ today = 1
    <3>1. days # <<>>
      BY <2>1
    <3>2. today = 1
      BY <2>4 DEF today
    <3> QED BY <2>4, <3>1, <3>2 DEF DaysTyped
  <2>6. BoughtBefore
    BY <2>5 DEF Init, BoughtBefore
  <2>7. AllDatesOk /\ NothingForgotten /\ RunsToday
    BY Constants DEF Init, AllDatesOk, NothingForgotten, RunsToday, DatesOk, DatesOf
  <2> QED BY <2>5, <2>6, <2>7 DEF DatesInv
<1>2. DatesInv /\ [Next]_vars => DatesInv'
  BY StepKeepsDates
<1> QED BY <1>1, <1>2, PTL DEF Spec

\* The date of a position is not before the first purchase of its symbol, and not after the
\* first run that saved it, whatever was interrupted, dry or bootstrapped.
THEOREM PositionsDated == Spec => []DatedFromItsPurchase
<1>1. DatesInv => DatedFromItsPurchase
  <2> SUFFICES ASSUME DatesInv, NEW s \in DOMAIN portfolio.positions
               PROVE  LET date == portfolio.positions[s].entry_date
                      IN  /\ first_buy[s] <= date
                          /\ s \in DOMAIN first_saved => date <= first_saved[s]
    BY DEF DatedFromItsPurchase
  <2>1. s \in DOMAIN DatesOf(portfolio.positions)
        /\ DatesOf(portfolio.positions)[s] = portfolio.positions[s].entry_date
    BY DEF DatesOf
  <2> QED BY <2>1 DEF DatesInv, AllDatesOk, DatesOk
<1> QED BY <1>1, AlwaysDated, PTL

----------------------------------------------------------------------------
(* The helpers of the runner *)

\* How a sequence is gone through: h is what has been found on the way.
Finds(h, seq, places) ==
    /\ h[0] = <<>>
    /\ \A i \in 1..Len(seq) :
          h[i] = IF i \in places THEN Append(h[i - 1], seq[i]) ELSE h[i - 1]

LEMMA AtIs ==
    ASSUME NEW S, NEW seq \in Seq(S), NEW places
    PROVE  \E h : At(seq, places) = h[Len(seq)] /\ Finds(h, seq, places)
<1> DEFINE N == Len(seq)
           D == 0..N
           V == Seq({seq[i] : i \in DOMAIN seq \cap places})
           body(i, f) == IF i = 0 THEN <<>>
                         ELSE IF i \in places THEN Append(f[i - 1], seq[i]) ELSE f[i - 1]
           rank == [i \in D |-> i]
           prev == [i \in D \ {0} |-> i - 1]
           step == [p \in D \X V |-> IF p[1] \in DOMAIN seq \cap places
                                     THEN Append(p[2], seq[p[1]]) ELSE p[2]]
<1>1. N \in Nat /\ DOMAIN seq = 1..N
  OBVIOUS
<1>2. Descends(D, {0}, rank, prev)
  <2>1. \A i \in D \ {0} : i - 1 \in D /\ i - 1 < i /\ i - 1 \in Nat
    BY <1>1
  <2>2. rank \in [D -> Nat] /\ prev \in [D \ {0} -> D]
    BY <1>1, <2>1
  <2>3. \A i \in D \ {0} : rank[prev[i]] < rank[i]
    BY <2>1
  <2> HIDE DEF rank, prev, D
  <2> QED BY <2>2, <2>3 DEF Descends
<1>3. ASSUME NEW found \in V, NEW i \in DOMAIN seq \cap places
      PROVE  Append(found, seq[i]) \in V
  OBVIOUS
<1>4. <<>> \in V
  OBVIOUS
<1>5. step \in [D \X V -> V]
  <2>1. \A p \in D \X V : p[1] \in D /\ p[2] \in V
    OBVIOUS
  <2> HIDE DEF V, D
  <2> QED BY <1>3, <2>1
<1>6. \E g \in [D -> V] : Solution(g, D, {0}, prev, <<>>, step)
  <2> HIDE DEF V, D, rank, prev, step
  <2> QED BY <1>2, <1>4, <1>5, Recursion
<1>7. PICK g \in [D -> V] :
        \A i \in D : g[i] = IF i \in {0} THEN <<>> ELSE step[<<i, g[prev[i]]>>]
  BY <1>6 DEF Solution
<1>8. \A i \in D : g[i] = body(i, g)
  <2> SUFFICES ASSUME NEW i \in D, i # 0 PROVE g[i] = body(i, g)
    BY <1>7
  <2>1. /\ i - 1 \in D /\ prev[i] = i - 1 /\ g[i - 1] \in V
        /\ i \in DOMAIN seq /\ g[i] = step[<<i, g[i - 1]>>]
    <3>1. i - 1 \in D /\ prev[i] = i - 1 /\ i \in DOMAIN seq
      BY <1>1
    <3>2. g[i - 1] \in V
      BY <3>1
    <3> HIDE DEF prev, step
    <3> QED BY <1>7, <3>1, <3>2
  <2>2. step[<<i, g[i - 1]>>] = IF i \in DOMAIN seq \cap places
                                THEN Append(g[i - 1], seq[i]) ELSE g[i - 1]
    <3> HIDE DEF D, V
    <3> QED BY <2>1
  <2> QED BY <2>1, <2>2
<1>9. g = [i \in D |-> body(i, g)]
  <2> HIDE DEF body, D, V
  <2> QED BY <1>8
<1> DEFINE h == CHOOSE f : f = [i \in D |-> body(i, f)]
<1>10. At(seq, places) = h[N]
  BY DEF At
<1>11. h = [i \in D |-> body(i, h)]
  <2> HIDE DEF body, D, V
  <2> QED BY <1>9
<1> HIDE DEF h
<1>12. Finds(h, seq, places)
  <2>1. 0 \in D /\ \A i \in 1..N : i \in D /\ i # 0
    BY <1>1
  <2>2. \A i \in D : h[i] = body(i, h)
    <3> HIDE DEF body, D
    <3> QED BY <1>11
  <2>3. h[0] = <<>>
    BY <2>1, <2>2
  <2>4. \A i \in 1..N : h[i] = IF i \in places THEN Append(h[i - 1], seq[i]) ELSE h[i - 1]
    <3> HIDE DEF D
    <3> QED BY <2>1, <2>2
  <2> QED BY <2>3, <2>4 DEF Finds
<1> QED BY <1>10, <1>12

\* What is taken from a sequence is a sequence of elements at the places asked for.
LEMMA AtType ==
    ASSUME NEW S, NEW seq \in Seq(S), NEW places
    PROVE  At(seq, places) \in Seq({seq[i] : i \in DOMAIN seq \cap places})
<1> DEFINE N == Len(seq)
           V == Seq({seq[i] : i \in DOMAIN seq \cap places})
<1>1. N \in Nat /\ DOMAIN seq = 1..N
  OBVIOUS
<1>2. PICK h : At(seq, places) = h[N] /\ Finds(h, seq, places)
  BY AtIs
<1> DEFINE Good == {i \in 0..N : h[i] \in V}
<1>3. 0 \in Good
  <2>1. h[0] = <<>> /\ 0 \in 0..N
    BY <1>1, <1>2 DEF Finds
  <2>2. <<>> \in V
    OBVIOUS
  <2> HIDE DEF V
  <2> QED BY <2>1, <2>2
<1>4. ASSUME NEW i \in 1..N, i - 1 \in Good PROVE i \in Good
  <2>1. h[i - 1] \in V /\ i \in DOMAIN seq /\ i \in 0..N
    BY <1>1, <1>4
  <2>2. h[i] = IF i \in places THEN Append(h[i - 1], seq[i]) ELSE h[i - 1]
    BY <1>2 DEF Finds
  <2>3. i \in places => Append(h[i - 1], seq[i]) \in V
    BY <2>1
  <2> HIDE DEF V
  <2> QED BY <2>1, <2>2, <2>3
<1>5. N \in Good
  <2> HIDE DEF Good
  <2>1. \A i \in 0..N : i \in Good
    BY <1>1, <1>3, <1>4, FoundAll
  <2> QED BY <1>1, <2>1
<1> QED BY <1>2, <1>5

\* The subsets of some places, each without its last, lead down to the empty one.
LEMMA SubsetsDescend ==
    ASSUME NEW N \in Nat, NEW rank, NEW prev,
           rank = [S \in SUBSET (1..N) |-> Cardinality(S)],
           prev = [S \in (SUBSET (1..N)) \ {{}} |-> S \ {Max(S)}]
    PROVE  Descends(SUBSET (1..N), {{}}, rank, prev)
<1>1. IsFiniteSet(1..N)
  BY FS_Interval
<1>2. \A S \in SUBSET (1..N) : IsFiniteSet(S) /\ Cardinality(S) \in Nat
  BY <1>1, FS_Subset, FS_CardinalityType
<1>3. ASSUME NEW S \in SUBSET (1..N), S # {}
      PROVE  S \ {Max(S)} \in SUBSET (1..N) /\ Cardinality(S \ {Max(S)}) < Cardinality(S)
  <2>1. S \in SUBSET (0..N)
    OBVIOUS
  <2>2. Max(S) \in S
    BY <1>3, <2>1, MaxIs
  <2>3. Cardinality(S \ {Max(S)}) = Cardinality(S) - 1
    BY <1>2, <2>2, FS_RemoveElement
  <2>4. Cardinality(S) \in Nat
    BY <1>2
  <2>5. Cardinality(S \ {Max(S)}) < Cardinality(S)
    BY <2>3, <2>4
  <2>6. S \ {Max(S)} \in SUBSET (1..N)
    OBVIOUS
  <2> QED BY <2>5, <2>6
<1>4. rank \in [SUBSET (1..N) -> Nat]
  BY <1>2
<1>5. prev \in [(SUBSET (1..N)) \ {{}} -> SUBSET (1..N)]
  BY <1>3
<1>6. \A S \in (SUBSET (1..N)) \ {{}} : rank[prev[S]] < rank[S]
  BY <1>3
<1> QED BY <1>4, <1>5, <1>6 DEF Descends

\* What orders are worth.
Worth(orders) == SumFor(LAMBDA o : o.price * o.qty, orders)
Order == [symbol : Symbols, price : Nat, qty : Nat]
Worths(orders) == [o \in orders |-> o.price * o.qty]

LEMMA WorthType ==
    ASSUME NEW orders, IsFiniteSet(orders), \A o \in orders : o.price \in Nat /\ o.qty \in Nat
    PROVE  Worth(orders) \in Nat
<1>1. Worths(orders) \in [orders -> Nat]
  BY DEF Worths
<1>2. Worth(orders) = SumFunction(Worths(orders))
  BY DEF Worth, SumFor, Worths
<1> QED BY <1>1, <1>2, SumType

LEMMA NoWorth == Worth({}) = 0
<1>1. Worths({}) \in [{} -> Nat]
  BY DEF Worths
<1>2. Worth({}) = SumFunction(Worths({}))
  BY DEF Worth, SumFor, Worths
<1> QED BY <1>1, <1>2, SumEmpty

\* One order more adds its value, if it is not one of them.
LEMMA WorthOfOneMore ==
    ASSUME NEW orders, IsFiniteSet(orders), \A o \in orders : o.price \in Nat /\ o.qty \in Nat,
           NEW order, order.price \in Nat, order.qty \in Nat
    PROVE  Worth(orders \cup {order}) <= Worth(orders) + order.price * order.qty
<1>0. PICK D : D = orders \cup {order}
  OBVIOUS
<1>1. PICK value \in Nat : value = order.price * order.qty
  OBVIOUS
<1>2. Worth(orders) \in Nat
  BY WorthType
<1>3. CASE order \in orders
  <2>1. D = orders
    BY <1>0, <1>3
  <2>2. Worth(D) <= Worth(orders) + value
    BY <1>1, <1>2, <2>1
  <2> QED BY <1>0, <1>1, <2>2
<1>4. CASE order \notin orders
  <2>1. IsFiniteSet(D) /\ order \in D /\ D \ {order} = orders
    BY <1>0, <1>4, FS_AddElement
  <2>2. PICK f : f = Worths(D)
    OBVIOUS
  <2>3. PICK g : g = Worths(orders)
    OBVIOUS
  <2>4. /\ f \in [D -> Nat] /\ g \in [D \ {order} -> Nat]
        /\ \A o \in D \ {order} : g[o] = f[o]
        /\ f[order] = value
    BY <1>0, <1>1, <2>1, <2>2, <2>3 DEF Worths
  <2>5. SumFunction(f) = f[order] + SumFunction(g)
    BY <2>1, <2>4, SumWithout
  <2>6. Worth(D) = SumFunction(f) /\ Worth(orders) = SumFunction(g)
    BY <2>2, <2>3 DEF Worth, SumFor, Worths
  <2>7. Worth(D) = value + Worth(orders)
    BY <2>4, <2>5, <2>6
  <2>8. Worth(D) <= Worth(orders) + value
    BY <1>2, <2>7
  <2> QED BY <1>0, <1>1, <2>8
<1> QED BY <1>3, <1>4

\* What is left of the cash and the orders so far, on the way through the candidates.
Affordable(T, slots, cash) ==
    {b \in [cash : Nat, orders : SUBSET [symbol : T, price : Nat, qty : Nat]] :
        /\ IsFiniteSet(b.orders) /\ Cardinality(b.orders) <= slots
        /\ Worth(b.orders) + b.cash <= cash}

\* An amount buys no more than it is worth.
LEMMA Quotient ==
    ASSUME NEW target \in Nat, NEW price \in Nat \ {0}
    PROVE  target \div price \in Nat /\ (target \div price) * price <= target
<1>1. target = price * (target \div price) + (target % price)
      /\ target \div price \in Nat /\ target % price \in Nat
  OBVIOUS
<1> DEFINE q == target \div price
<1> HIDE DEF q
<1>2. price * q = q * price /\ q * price \in Nat
  BY <1>1 DEF q
<1> QED BY <1>1, <1>2 DEF q

LEMMA QuantityFits ==
    ASSUME NEW s \in Symbols, NEW left \in Nat, NEW base \in Nat,
           days[Len(days)].close[s] \in Nat \ {0}
    PROVE  /\ Quantity(s, left, base) \in Nat
           /\ Quantity(s, left, base) * days[Len(days)].close[s] <= left
<1>1. PICK price \in Nat \ {0} : price = days[Len(days)].close[s]
  OBVIOUS
<1>2. PICK target : target = Min({base, SC.cap[s], left})
  OBVIOUS
<1>3. target \in Nat /\ target <= left
  <2>1. {base, SC.cap[s], left} \in SUBSET Nat
    BY LiveAssumption
  <2>2. target \in {base, SC.cap[s], left} /\ target <= left
    BY <1>2, <2>1, MinIs
  <2> QED BY <2>1, <2>2
<1>4. Quantity(s, left, base) = IF target < SC.min_order_value THEN 0 ELSE target \div price
  BY <1>1, <1>2 DEF Quantity
<1>5. target \div price \in Nat /\ (target \div price) * price <= target
  BY <1>3, Quotient
<1>6. CASE target < SC.min_order_value
  BY <1>1, <1>4, <1>6
<1>7. CASE ~(target < SC.min_order_value)
  <2>1. PICK q : q = target \div price
    OBVIOUS
  <2>2. q \in Nat /\ q * price \in Nat /\ q * price <= left
    BY <1>3, <1>5, <2>1
  <2>3. Quantity(s, left, base) = q
    BY <1>4, <1>7, <2>1
  <2> QED BY <1>1, <2>2, <2>3
<1> QED BY <1>6, <1>7

\* Taking a candidate or passing it by stays within the slots and the cash.
LEMMA TakeAffords ==
    ASSUME NEW T \in SUBSET Symbols, NEW slots \in Nat, NEW cash \in Nat, NEW base \in Nat,
           NEW s \in T, days[Len(days)].close[s] \in Nat \ {0},
           NEW b \in Affordable(T, slots, cash)
    PROVE  Take(b, s, slots, base) \in Affordable(T, slots, cash)
<1>1. PICK price \in Nat \ {0} : price = days[Len(days)].close[s]
  OBVIOUS
<1>2. PICK qty : qty = Quantity(s, b.cash, base)
  OBVIOUS
<1>3. /\ b.cash \in Nat /\ b.orders \in SUBSET [symbol : T, price : Nat, qty : Nat]
      /\ IsFiniteSet(b.orders) /\ Cardinality(b.orders) <= slots
      /\ Worth(b.orders) + b.cash <= cash
  BY DEF Affordable
<1>4. qty \in Nat /\ qty * price <= b.cash
  BY <1>1, <1>2, <1>3, QuantityFits
<1>5. PICK order : order = [symbol |-> s, price |-> price, qty |-> qty]
  OBVIOUS
<1>6. PICK more : more = [cash |-> b.cash - qty * price, orders |-> b.orders \cup {order}]
  OBVIOUS
<1>7. \/ Take(b, s, slots, base) = b
      \/ Take(b, s, slots, base) = more /\ ~(Cardinality(b.orders) >= slots)
  BY <1>1, <1>2, <1>5, <1>6 DEF Take, Spend
<1>8. ASSUME ~(Cardinality(b.orders) >= slots) PROVE more \in Affordable(T, slots, cash)
  <2>1. PICK value : value = qty * price
    OBVIOUS
  <2>2. value \in Nat /\ value <= b.cash
    BY <1>4, <2>1
  <2>3. order.price = price /\ order.qty = qty /\ order \in [symbol : T, price : Nat, qty : Nat]
    BY <1>4, <1>5
  <2>4. order.price * order.qty = value
    BY <1>4, <2>1, <2>3
  <2>5. \A o \in b.orders : o.price \in Nat /\ o.qty \in Nat
    BY <1>3
  <2>6. Worth(b.orders \cup {order}) <= Worth(b.orders) + order.price * order.qty
    BY <1>3, <1>4, <2>3, <2>5, WorthOfOneMore
  <2>7. Worth(b.orders \cup {order}) <= Worth(b.orders) + value
    BY <2>4, <2>6
  <2>8. /\ IsFiniteSet(b.orders \cup {order})
        /\ Cardinality(b.orders \cup {order}) <= Cardinality(b.orders) + 1
        /\ Cardinality(b.orders) \in Nat
    <3>1. Cardinality(b.orders) \in Nat
      BY <1>3, FS_CardinalityType
    <3>2. /\ IsFiniteSet(b.orders \cup {order})
          /\ \/ Cardinality(b.orders \cup {order}) = Cardinality(b.orders)
             \/ Cardinality(b.orders \cup {order}) = Cardinality(b.orders) + 1
      BY <1>3, FS_AddElement
    <3> QED BY <3>1, <3>2
  <2>9. Worth(b.orders) \in Nat /\ Worth(b.orders \cup {order}) \in Nat
        /\ Cardinality(b.orders \cup {order}) \in Nat
    <3>1. \A o \in b.orders \cup {order} : o.price \in Nat /\ o.qty \in Nat
      BY <1>4, <2>3, <2>5
    <3> QED BY <1>3, <2>5, <2>8, <3>1, WorthType, FS_CardinalityType
  <2>10. Cardinality(b.orders \cup {order}) <= slots
    BY <1>3, <1>8, <2>8, <2>9
  <2>11. b.cash - value \in Nat /\ Worth(b.orders \cup {order}) + (b.cash - value) <= cash
    BY <1>3, <2>2, <2>7, <2>9
  <2>12. /\ more.cash = b.cash - value /\ more.orders = b.orders \cup {order}
         /\ more \in [cash : Nat, orders : SUBSET [symbol : T, price : Nat, qty : Nat]]
    BY <1>3, <1>6, <2>1, <2>3, <2>11
  <2> QED BY <2>8, <2>10, <2>11, <2>12 DEF Affordable
<1> QED BY <1>7, <1>8

\* The orders for the candidates fit the slots and the cash.
LEMMA EntriesAffordable ==
    ASSUME NEW T \in SUBSET Symbols, \A s \in T : days[Len(days)].close[s] \in Nat \ {0},
           NEW ranked \in Seq(T), NEW slots \in Nat, NEW cash \in Nat, NEW base \in Nat
    PROVE  \E left \in Nat :
              [cash |-> left, orders |-> Entries(ranked, slots, cash, base)]
                    \in Affordable(T, slots, cash)
<1> DEFINE N == Len(ranked)
           D == SUBSET (1..N)
           V == Affordable(T, slots, cash)
           start == [cash |-> cash, orders |-> {}]
           taken(b, i) == Take(b, ranked[i], slots, base)
           body(S, f) == IF S = {} THEN start ELSE taken(f[S \ {Max(S)}], Max(S))
           rank == [S \in D |-> Cardinality(S)]
           prev == [S \in D \ {{}} |-> S \ {Max(S)}]
           step == [p \in D \X V |-> IF p[1] = {} THEN start ELSE taken(p[2], Max(p[1]))]
<1>1. N \in Nat /\ DOMAIN ranked = 1..N /\ \A i \in 1..N : ranked[i] \in T
  OBVIOUS
<1>2. Descends(D, {{}}, rank, prev)
  BY <1>1, SubsetsDescend
<1>3. start \in V
  <2>1. start.cash = cash /\ start.orders = {}
    OBVIOUS
  <2>2. Worth({}) = 0 /\ IsFiniteSet({}) /\ Cardinality({}) = 0
    BY NoWorth, FS_EmptySet
  <2>3. Worth(start.orders) + start.cash <= cash /\ Cardinality(start.orders) <= slots
    BY <2>1, <2>2
  <2> QED BY <2>1, <2>2, <2>3 DEF Affordable
<1>4. ASSUME NEW S \in D, S # {} PROVE Max(S) \in S /\ Max(S) \in 1..N
  <2>1. S \in SUBSET (0..N)
    OBVIOUS
  <2>2. Max(S) \in S
    BY <1>1, <1>4, <2>1, MaxIs
  <2> QED BY <2>2
<1>5. ASSUME NEW b \in V, NEW i \in 1..N PROVE taken(b, i) \in V
  BY <1>1, TakeAffords
<1> HIDE DEF taken, start, V
<1>6. step \in [D \X V -> V]
  <2>1. ASSUME NEW p \in D \X V
        PROVE  (IF p[1] = {} THEN start ELSE taken(p[2], Max(p[1]))) \in V
    <3>1. p[1] \in D /\ p[2] \in V
      OBVIOUS
    <3>2. p[1] # {} => Max(p[1]) \in 1..N
      BY <1>4, <3>1
    <3>3. p[1] # {} => taken(p[2], Max(p[1])) \in V
      BY <1>5, <3>1, <3>2
    <3> QED BY <1>3, <3>3
  <2> HIDE DEF D
  <2> QED BY <2>1
<1>7. \E g \in [D -> V] : Solution(g, D, {{}}, prev, start, step)
  <2> HIDE DEF D, rank, prev, step
  <2> QED BY <1>2, <1>3, <1>6, Recursion
<1>8. PICK g \in [D -> V] :
        \A S \in D : g[S] = IF S \in {{}} THEN start ELSE step[<<S, g[prev[S]]>>]
  BY <1>7 DEF Solution
<1>9. \A S \in D : g[S] = body(S, g)
  <2> SUFFICES ASSUME NEW S \in D, S # {} PROVE g[S] = body(S, g)
    BY <1>8
  <2>1. S \ {Max(S)} \in D /\ prev[S] = S \ {Max(S)}
    OBVIOUS
  <2>2. g[S \ {Max(S)}] \in V
    BY <2>1
  <2> HIDE DEF prev
  <2>3. g[S] = step[<<S, g[S \ {Max(S)}]>>]
    <3> HIDE DEF step
    <3> QED BY <1>8, <2>1
  <2>4. step[<<S, g[S \ {Max(S)}]>>] = taken(g[S \ {Max(S)}], Max(S))
    <3> HIDE DEF D
    <3> QED BY <2>2
  <2> QED BY <2>3, <2>4
<1>10. g = [S \in D |-> body(S, g)]
  <2> HIDE DEF body, D
  <2> QED BY <1>9
<1> DEFINE h == CHOOSE f : f = [S \in D |-> body(S, f)]
<1>11. h = [S \in D |-> body(S, h)]
  <2> HIDE DEF body, D
  <2> QED BY <1>10
<1>12. Entries(ranked, slots, cash, base) = h[1..N].orders
  BY <1>1 DEF Entries, FoldLeft, MapThenFoldSet, taken, start
<1> HIDE DEF h
<1> DEFINE Good == {S \in D : h[S] \in V}
<1>13. PassedUp(D, {{}}, prev, Good)
  <2> SUFFICES ASSUME NEW S \in D, S \in {{}} \/ prev[S] \in Good PROVE S \in Good
    BY DEF PassedUp
  <2>1. h[S] = body(S, h)
    BY <1>11
  <2>2. CASE S = {}
    BY <1>3, <2>1, <2>2
  <2>3. CASE S # {}
    <3>1. prev[S] = S \ {Max(S)} /\ h[S \ {Max(S)}] \in V
      BY <2>3
    <3>2. taken(h[S \ {Max(S)}], Max(S)) \in V
      BY <1>4, <1>5, <2>3, <3>1
    <3> QED BY <2>1, <2>3, <3>2
  <2> QED BY <2>2, <2>3
<1>14. D \subseteq Good
  <2> HIDE DEF D, prev, rank, Good
  <2> QED BY <1>2, <1>13, Descent
<1>15. h[1..N] \in V
  BY <1>1, <1>14
<1>16. /\ h[1..N].cash \in Nat
       /\ h[1..N] = [cash |-> h[1..N].cash, orders |-> h[1..N].orders]
  BY <1>15 DEF V, Affordable
<1>17. [cash |-> h[1..N].cash, orders |-> h[1..N].orders] \in V
  BY <1>15, <1>16
<1> QED BY <1>12, <1>16, <1>17 DEF V

----------------------------------------------------------------------------
(* Sales *)

Row == [day : Nat, close : Nat \ {0}]

\* The rows of a symbol have days and prices.
LEMMA RowsType ==
    ASSUME DaysTyped, NEW s \in Symbols
    PROVE  RowsOf(s) \in Seq(Row)
<1> DEFINE places == {i \in DOMAIN days : s \in DOMAIN days[i].close
                                          /\ days[i].day >= today - Prefetch}
           window == At(days, places)
           W == {days[i] : i \in DOMAIN days \cap places}
           real == [i \in DOMAIN window |-> Bar(window[i].day, window[i].close[s])]
<1>1. window \in Seq(W)
  <2>1. days \in Seq(DayBar)
    BY DEF DaysTyped
  <2> HIDE DEF places
  <2> QED BY <2>1, AtType
<1>2. ASSUME NEW d \in DayBar, s \in DOMAIN d.close
      PROVE  d.day \in Nat /\ d.close[s] \in Nat \ {0} /\ Bar(d.day, d.close[s]) \in Row
  <2>1. PICK S \in SUBSET Symbols : d.close \in [S -> Nat \ {0}]
    BY DEF DayBar
  <2>2. d.close[s] \in Nat \ {0}
    BY <1>2, <2>1
  <2>3. d.day \in Nat
    BY DEF DayBar
  <2> QED BY <2>2, <2>3 DEF Bar, Row
<1>3. \A d \in W : d \in DayBar /\ s \in DOMAIN d.close
  BY DEF DaysTyped
<1> HIDE DEF window, W
<1>4. real \in Seq(Row)
  <2>1. \A i \in DOMAIN window : window[i] \in W
    BY <1>1
  <2>2. \A i \in DOMAIN window : Bar(window[i].day, window[i].close[s]) \in Row
    BY <1>2, <1>3, <2>1
  <2>3. Len(window) \in Nat /\ DOMAIN window = 1..Len(window)
    BY <1>1
  <2> QED BY <2>2, <2>3
<1>5. ASSUME s \in DOMAIN days[Len(days)].close
      PROVE  Bar(today + 1, days[Len(days)].close[s]) \in Row
  <2>1. days[Len(days)].close[s] \in Nat \ {0} /\ today + 1 \in Nat
    BY <1>2, <1>5, DayOfMarket
  <2> QED BY <2>1 DEF Bar, Row
<1>6. RowsOf(s) = IF s \in DOMAIN days[Len(days)].close
                  THEN Append(real, Bar(today + 1, days[Len(days)].close[s]))
                  ELSE IF real = <<>> THEN <<>> ELSE Front(real)
  BY DEF RowsOf, window
<1> HIDE DEF real
<1>7. real # <<>> => Front(real) \in Seq(Row)
  BY <1>4 DEF Front
<1>8. <<>> \in Seq(Row)
  OBVIOUS
<1>9. s \in DOMAIN days[Len(days)].close =>
        Append(real, Bar(today + 1, days[Len(days)].close[s])) \in Seq(Row)
  BY <1>4, <1>5
<1> QED BY <1>6, <1>7, <1>8, <1>9

\* The walk ends at a row, at a price.
LEMMA WalkType ==
    ASSUME NEW rows \in Seq(Row), NEW first \in 1..Len(rows), NEW avg_price, NEW bulls
    PROVE  Walk(rows, first, avg_price, bulls).price \in Nat
<1> DEFINE Max_price(j) == Max({rows[k].close : k \in first..j})
           Ripe(j) == rows[j].day - rows[first].day >= XC.min_hold_time_days
           Flips(j) == Ripe(j) /\ bulls # {} /\ EC.force_exit_on_regime_flip
                               /\ rows[j].day \notin bulls
           Stops(j) == Ripe(j) /\ 100 * (Max_price(j) - rows[j].close)
                                     > StopPct(Max_price(j), avg_price) * Max_price(j)
           T == {j \in first..Len(rows) : \/ j = Len(rows) \/ Dropped(rows, first, j)
                                          \/ Flips(j) \/ Stops(j)}
           end == Min(T)
           Exit(row, price, reason) == [day |-> rows[row].day, price |-> price, reason |-> reason]
<1>1. Walk(rows, first, avg_price, bulls) =
        IF Dropped(rows, first, end)
        THEN Exit(end, (80 * rows[end - 1].close) \div 100, "anomalous_drop")
        ELSE IF end = Len(rows) THEN Exit(end, rows[end].close, "end_of_data")
        ELSE Exit(end + 1, rows[end + 1].close,
                  IF Flips(end) THEN "regime_flip" ELSE "trailing_stop")
  BY DEF Walk
<1>2. Len(rows) \in Nat /\ \A i \in 1..Len(rows) : rows[i].close \in Nat
  <2>1. Len(rows) \in Nat /\ \A i \in 1..Len(rows) : rows[i] \in Row
    OBVIOUS
  <2> QED BY <2>1 DEF Row
<1> HIDE DEF Flips, Stops
<1>3. T \in SUBSET Nat /\ Len(rows) \in T
  BY <1>2
<1>4. end \in T
  <2> HIDE DEF T
  <2> QED BY <1>3, MinIs
<1>5. end \in first..Len(rows)
  BY <1>4
<1> HIDE DEF end, T
<1>6. CASE Dropped(rows, first, end)
  <2>1. end > first
    BY <1>6 DEF Dropped
  <2>2. end - 1 \in 1..Len(rows)
    BY <1>2, <1>5, <2>1
  <2>3. PICK c \in Nat : c = rows[end - 1].close
    BY <1>2, <2>2
  <2>4. (80 * c) \div 100 \in Nat
    OBVIOUS
  <2> QED BY <1>1, <1>6, <2>3, <2>4
<1>7. CASE ~Dropped(rows, first, end) /\ end = Len(rows)
  <2>1. rows[end].close \in Nat
    BY <1>2, <1>5
  <2> QED BY <1>1, <1>7, <2>1
<1>8. CASE ~Dropped(rows, first, end) /\ end # Len(rows)
  <2>1. end + 1 \in 1..Len(rows)
    BY <1>2, <1>5, <1>8
  <2>2. rows[end + 1].close \in Nat
    BY <1>2, <2>1
  <2> QED BY <1>1, <1>8, <2>2
<1> QED BY <1>6, <1>7, <1>8

PositionsTyped(positions) ==
    /\ DOMAIN positions \subseteq Symbols
    /\ \A s \in DOMAIN positions : positions[s].qty \in Nat /\ positions[s].avg_price \in Nat

\* The sales are of positions, at a price, and each position has one at most.
LEMMA SellsType ==
    ASSUME DaysTyped, NEW positions, PositionsTyped(positions)
    PROVE  /\ IsFiniteSet(Sells(positions))
           /\ \A e \in Sells(positions) : e.price \in Nat /\ e.qty \in Nat
<1> DEFINE Exits(s) ==
            LET rows == RowsOf(s)
                held == {i \in DOMAIN rows : rows[i].day >= positions[s].entry_date}
            IN  IF held = {} THEN {}
                ELSE {Walk(rows, Min(held), positions[s].avg_price, BullDays)}
           Due(s) == {e \in Exits(s) : e.day <= today + 1}
           sales(s) == {Sale(s, positions[s], exit) : exit \in Due(s)}
<1>1. Sells(positions) = UNION {sales(s) : s \in DOMAIN positions}
  BY DEF Sells
<1>2. ASSUME NEW s \in DOMAIN positions
      PROVE  /\ IsFiniteSet(Exits(s))
             /\ \A exit \in Exits(s) : exit.price \in Nat
  <2>1. PICK rows : rows = RowsOf(s)
    OBVIOUS
  <2>2. rows \in Seq(Row)
    BY <2>1, RowsType DEF PositionsTyped
  <2>3. PICK held : held = {i \in DOMAIN rows : rows[i].day >= positions[s].entry_date}
    OBVIOUS
  <2>4. Exits(s) = IF held = {} THEN {}
                   ELSE {Walk(rows, Min(held), positions[s].avg_price, BullDays)}
    BY <2>1, <2>3
  <2>5. held # {} => Min(held) \in 1..Len(rows)
    <3>1. held \in SUBSET Nat /\ held \subseteq 1..Len(rows)
      BY <2>2, <2>3
    <3> QED BY <3>1, MinIs
  <2>6. held # {} => Walk(rows, Min(held), positions[s].avg_price, BullDays).price \in Nat
    BY <2>2, <2>5, WalkType
  <2> HIDE DEF Exits
  <2> QED BY <2>4, <2>6, FS_EmptySet, FS_Singleton
<1> HIDE DEF Exits
<1>3. ASSUME NEW s \in DOMAIN positions
      PROVE  /\ IsFiniteSet(sales(s))
             /\ \A e \in sales(s) : e.price \in Nat /\ e.qty \in Nat
  <2>1. IsFiniteSet(Due(s))
    BY <1>2, FS_Subset
  <2>2. IsFiniteSet(sales(s))
    <3> DEFINE f == [exit \in Due(s) |-> Sale(s, positions[s], exit)]
    <3>1. f \in Surjection(Due(s), sales(s))
      BY DEF Surjection
    <3> HIDE DEF f, Due, sales
    <3> QED BY <2>1, <3>1, FS_Surjection
  <2>3. ASSUME NEW exit \in Due(s)
        PROVE  /\ Sale(s, positions[s], exit).price \in Nat
               /\ Sale(s, positions[s], exit).qty \in Nat
    <3>1. exit.price \in Nat
      BY <1>2
    <3>2. s \in DOMAIN days[Len(days)].close => days[Len(days)].close[s] \in Nat
      BY DayOfMarket DEF DayBar
    <3>3. positions[s].qty \in Nat
      BY DEF PositionsTyped
    <3> QED BY <3>1, <3>2, <3>3 DEF Sale
  <2> HIDE DEF Due
  <2> QED BY <2>2, <2>3
<1> HIDE DEF sales
<1>4. IsFiniteSet({sales(s) : s \in DOMAIN positions})
  <2> DEFINE all == {sales(s) : s \in DOMAIN positions}
             f == [s \in DOMAIN positions |-> sales(s)]
  <2>1. f \in Surjection(DOMAIN positions, all)
    BY DEF Surjection
  <2>2. IsFiniteSet(DOMAIN positions)
    BY LiveAssumption, FS_Subset DEF PositionsTyped
  <2> HIDE DEF f, all
  <2>3. IsFiniteSet(all)
    BY <2>1, <2>2, FS_Surjection
  <2> QED BY <2>3 DEF all
<1>5. IsFiniteSet(UNION {sales(s) : s \in DOMAIN positions})
  BY <1>3, <1>4, FS_UNION
<1> QED BY <1>1, <1>3, <1>5

----------------------------------------------------------------------------
(* Plans *)

PortfolioTyped(p) == p.cash \in Nat /\ PositionsTyped(p.positions)

PlanTyped ==
    /\ IsFiniteSet(plan.sells) /\ IsFiniteSet(plan.buys)
    /\ \A e \in plan.sells : e.price \in Nat /\ e.qty \in Nat
    /\ plan.buys \subseteq Order

\* The account, and the copies of it that the helper and the runner have.
AccountsTyped ==
    /\ account.cash \in Nat /\ PositionsTyped(account.held)
    /\ PortfolioTyped(portfolio) /\ PortfolioTyped(helper.portfolio)

\* The sales of a plan pay for its buys, and the buys fit into the positions.
PlanSound ==
    /\ Worth(plan.buys) <= plan.account.cash + Worth(plan.sells)
    /\ plan.buys # {} =>
          Cardinality((DOMAIN plan.account.positions \ {e.symbol : e \in plan.sells})
                        \cup {o.symbol : o \in plan.buys}) <= SC.max_positions

PlansInv == AccountsTyped /\ PlanTyped /\ PlanSound

\* The orders add no more positions than there are of them.
LEMMA PositionsFit ==
    ASSUME NEW kept, IsFiniteSet(kept), NEW orders, IsFiniteSet(orders), NEW slots \in Nat,
           slots = Max({0, SC.max_positions - Cardinality(kept)}),
           Cardinality(orders) <= slots, orders # {}
    PROVE  Cardinality(kept \cup {o.symbol : o \in orders}) <= SC.max_positions
<1> DEFINE symbols == {o.symbol : o \in orders}
<1>1. IsFiniteSet(symbols) /\ Cardinality(symbols) <= Cardinality(orders)
  <2> DEFINE f == [o \in orders |-> o.symbol]
  <2>1. f \in Surjection(orders, symbols)
    BY DEF Surjection
  <2> HIDE DEF f, symbols
  <2> QED BY <2>1, FS_Surjection
<1>2. Cardinality(orders) \in Nat /\ Cardinality(kept) \in Nat /\ Cardinality(symbols) \in Nat
  BY <1>1, FS_CardinalityType
<1>3. Cardinality(orders) # 0
  BY FS_EmptySet
<1>4. slots \in {0, SC.max_positions - Cardinality(kept)}
  <2> DEFINE T == {0, SC.max_positions - Cardinality(kept)}
             bigger == IF SC.max_positions - Cardinality(kept) > 0
                       THEN SC.max_positions - Cardinality(kept) ELSE 0
  <2>1. SC.max_positions \in Nat
    BY LiveAssumption
  <2>2. bigger \in T /\ \A x \in T : bigger >= x
    BY <1>2, <2>1
  <2> QED BY <2>2 DEF Max
<1>5. SC.max_positions \in Nat /\ slots = SC.max_positions - Cardinality(kept)
  BY <1>2, <1>3, <1>4, LiveAssumption
<1>6. Cardinality(kept \cup symbols) <= Cardinality(kept) + Cardinality(symbols)
      /\ IsFiniteSet(kept \cup symbols)
  <2>1. /\ IsFiniteSet(kept \cup symbols) /\ IsFiniteSet(kept \cap symbols)
        /\ Cardinality(kept \cup symbols) = Cardinality(kept) + Cardinality(symbols)
                                                - Cardinality(kept \cap symbols)
    BY <1>1, FS_Union, FS_Intersection
  <2>2. Cardinality(kept \cap symbols) \in Nat
    BY <2>1, FS_CardinalityType
  <2> QED BY <1>2, <2>1, <2>2
<1>7. Cardinality(kept \cup symbols) \in Nat
  BY <1>6, FS_CardinalityType
<1> HIDE DEF symbols
<1>8. Cardinality(kept \cup symbols) <= SC.max_positions
  BY <1>1, <1>2, <1>5, <1>6, <1>7
<1> QED BY <1>8 DEF symbols

LEMMA RunnerPlans ==
    ASSUME DaysTyped, PlansInv, NEW ranked \in Ranked, Runner(ranked)
    PROVE  PlansInv'
<1> DEFINE held == portfolio.positions
           sells == Sells(held)
           kept == DOMAIN held \ {e.symbol : e \in sells}
           LastClose(s) == IF s \in DOMAIN days[Len(days)].close
                           THEN days[Len(days)].close[s] ELSE held[s].avg_price
           cash == portfolio.cash + SumFor(LAMBDA e : e.price * e.qty, sells)
           value == SumFor(LAMBDA s : LastClose(s) * held[s].qty, kept)
           slots == Max({0, SC.max_positions - Cardinality(kept)})
           base == ((cash + value) * SC.multiplier) \div SC.max_positions
           candidates == At(ranked, {i \in DOMAIN ranked : ranked[i] \notin kept})
           buys == Entries(candidates, slots, cash, base)
<1>1. held = portfolio.positions
  OBVIOUS
<1>2. sells = Sells(held)
  OBVIOUS
<1>3. kept = DOMAIN held \ {e.symbol : e \in sells}
  OBVIOUS
<1>4. cash = portfolio.cash + Worth(sells)
  BY DEF Worth
<1>5. value = SumFunction([s \in kept |-> LastClose(s) * held[s].qty])
  BY DEF SumFor
<1>6. slots = Max({0, SC.max_positions - Cardinality(kept)})
  OBVIOUS
<1>7. base = ((cash + value) * SC.multiplier) \div SC.max_positions
  OBVIOUS
<1>8. candidates = At(ranked, {i \in DOMAIN ranked : ranked[i] \notin kept})
  OBVIOUS
<1>9. buys = Entries(candidates, slots, cash, base)
  OBVIOUS
<1>10. /\ plan' = [day |-> today, account |-> portfolio, sells |-> sells, buys |-> buys]
       /\ UNCHANGED <<account, portfolio, helper>>
  BY DEF Runner
<1> HIDE DEF held, sells, kept, cash, value, slots, base, candidates, buys
<1>11. PositionsTyped(held) /\ portfolio.cash \in Nat
  BY <1>1 DEF PlansInv, AccountsTyped, PortfolioTyped
<1>12. IsFiniteSet(sells) /\ \A e \in sells : e.price \in Nat /\ e.qty \in Nat
  BY <1>2, <1>11, SellsType
<1>13. IsFiniteSet(kept) /\ Cardinality(kept) \in Nat
  BY <1>3, <1>11, LiveAssumption, FS_Subset, FS_CardinalityType DEF PositionsTyped
<1>14. Worth(sells) \in Nat /\ cash = portfolio.cash + Worth(sells) /\ cash \in Nat
  <2>1. Worth(sells) \in Nat
    BY <1>12, WorthType
  <2>2. cash = portfolio.cash + Worth(sells)
    BY <1>4 DEF Worth
  <2> QED BY <1>11, <2>1, <2>2
<1>15. value \in Nat
  <2> DEFINE f == [s \in kept |-> LastClose(s) * held[s].qty]
  <2>1. ASSUME NEW s \in kept PROVE LastClose(s) * held[s].qty \in Nat
    <3>1. held[s].qty \in Nat /\ held[s].avg_price \in Nat
      BY <1>3, <1>11 DEF PositionsTyped
    <3>2. s \in DOMAIN days[Len(days)].close => days[Len(days)].close[s] \in Nat
      BY DayOfMarket DEF DayBar
    <3>3. LastClose(s) \in Nat
      BY <3>1, <3>2
    <3> HIDE DEF LastClose
    <3> QED BY <3>1, <3>3
  <2>2. f \in [kept -> Nat]
    BY <2>1
  <2>3. value = SumFunction(f)
    BY <1>5 DEF SumFor
  <2> HIDE DEF f
  <2> QED BY <1>13, <2>2, <2>3, SumType
<1>16. base \in Nat
  <2>1. SC.max_positions \in Nat \ {0} /\ SC.multiplier \in Nat
    BY LiveAssumption
  <2>2. PICK product \in Nat : product = (cash + value) * SC.multiplier
    BY <1>14, <1>15, <2>1
  <2>3. product \div SC.max_positions \in Nat
    BY <2>1, <2>2
  <2> QED BY <1>7, <2>2, <2>3
<1>17. slots \in Nat
  <2> DEFINE T == {0, SC.max_positions - Cardinality(kept)}
             bigger == IF SC.max_positions - Cardinality(kept) > 0
                       THEN SC.max_positions - Cardinality(kept) ELSE 0
  <2>1. SC.max_positions \in Nat
    BY LiveAssumption
  <2>2. bigger \in T /\ \A x \in T : bigger >= x
    BY <1>13, <2>1
  <2>3. slots \in T /\ \A x \in T : slots >= x
    BY <1>6, <2>2 DEF Max
  <2> QED BY <1>13, <2>1, <2>3
<1> DEFINE places == {i \in DOMAIN ranked : ranked[i] \notin kept}
           T == {ranked[i] : i \in DOMAIN ranked \cap places}
<1>18. /\ candidates \in Seq(T) /\ T \in SUBSET Symbols /\ T \cap kept = {}
       /\ \A s \in T : days[Len(days)].close[s] \in Nat \ {0}
  <2>1. ranked \in Seq(Symbols) /\ ToSet(ranked) \subseteq DOMAIN days[Len(days)].close
    BY LiveAssumption DEF Ranked
  <2>2. candidates \in Seq(T)
    <3> HIDE DEF places
    <3>1. At(ranked, places) \in Seq(T)
      BY <2>1, AtType
    <3> QED BY <1>8, <3>1 DEF places
  <2>3. T \in SUBSET Symbols /\ T \cap kept = {} /\ T \subseteq ToSet(ranked)
    BY <2>1 DEF ToSet
  <2>4. \A s \in DOMAIN days[Len(days)].close : days[Len(days)].close[s] \in Nat \ {0}
    BY DayOfMarket DEF DayBar
  <2> QED BY <2>1, <2>2, <2>3, <2>4
<1> HIDE DEF T
<1>19. PICK left \in Nat : [cash |-> left, orders |-> buys] \in Affordable(T, slots, cash)
  BY <1>9, <1>14, <1>16, <1>17, <1>18, EntriesAffordable
<1>20. /\ buys \subseteq [symbol : T, price : Nat, qty : Nat] /\ IsFiniteSet(buys)
       /\ Cardinality(buys) <= slots /\ Worth(buys) + left <= cash
  BY <1>19 DEF Affordable
<1>21. buys \subseteq Order /\ Worth(buys) \in Nat
  <2>1. buys \subseteq Order
    BY <1>18, <1>20 DEF Order
  <2>2. \A o \in buys : o.price \in Nat /\ o.qty \in Nat
    BY <1>20
  <2> QED BY <1>20, <2>1, <2>2, WorthType
<1>22. Worth(buys) <= portfolio.cash + Worth(sells)
  BY <1>14, <1>20, <1>21
<1>23. buys # {} => Cardinality(kept \cup {o.symbol : o \in buys}) <= SC.max_positions
  BY <1>6, <1>13, <1>17, <1>20, PositionsFit
<1>24. plan'.account = portfolio /\ plan'.sells = sells /\ plan'.buys = buys
  BY <1>10
<1>25. PlanTyped'
  BY <1>12, <1>20, <1>21, <1>24 DEF PlanTyped
<1>26. PlanSound'
  <2>1. Worth(plan'.buys) <= plan'.account.cash + Worth(plan'.sells)
    BY <1>22, <1>24
  <2>2. DOMAIN plan'.account.positions \ {e.symbol : e \in plan'.sells} = kept
    BY <1>1, <1>3, <1>24
  <2>3. plan'.buys # {} =>
          Cardinality((DOMAIN plan'.account.positions \ {e.symbol : e \in plan'.sells})
                        \cup {o.symbol : o \in plan'.buys}) <= SC.max_positions
    BY <1>23, <1>24, <2>2
  <2> QED BY <2>1, <2>3 DEF PlanSound, Worth, SumFor
<1>27. AccountsTyped'
  BY <1>10 DEF PlansInv, AccountsTyped
<1> QED BY <1>25, <1>26, <1>27 DEF PlansInv

LEMMA HelperPlans ==
    ASSUME PlansInv, NEW bootstrap \in BOOLEAN, NEW dry_run \in BOOLEAN,
           HelperReads(bootstrap, dry_run)
    PROVE  PlansInv'
<1> DEFINE held == DOMAIN account.held
           dates == update_entry_dates(state_file.entry_dates, held, BootstrapDates(bootstrap))
           positions == [s \in held |-> Position(s, dates[s])]
<1>1. /\ helper'.portfolio = [cash |-> account.cash, positions |-> positions]
      /\ UNCHANGED <<account, portfolio, plan>>
  BY DEF HelperReads
<1>2. account.cash \in Nat /\ PositionsTyped(account.held) /\ PortfolioTyped(portfolio)
  BY DEF PlansInv, AccountsTyped
<1> HIDE DEF dates
<1>3. PositionsTyped(positions)
  BY <1>2 DEF PositionsTyped, Position
<1> HIDE DEF positions
<1>4. PortfolioTyped(helper'.portfolio)
  BY <1>1, <1>2, <1>3 DEF PortfolioTyped
<1>5. AccountsTyped'
  BY <1>1, <1>2, <1>4 DEF AccountsTyped, PortfolioTyped
<1> QED BY <1>1, <1>5 DEF PlansInv, PlanTyped, PlanSound

LEMMA NextDayPlans ==
    ASSUME PlansInv, NEW b \in Bars, NEW sells \in {{}, plan.sells},
           NEW buys \in {{}, plan.buys}, NextDay(b, sells, buys)
    PROVE  PlansInv'
<1> DEFINE left == Sold(account.held, sells)
           income == SumFunction([e \in sells |-> e.price * account.held[e.symbol].qty])
           cash == account.cash + income - Worth(buys)
<1>1. /\ {e.symbol : e \in sells} \subseteq DOMAIN account.held
      /\ cash >= 0
      /\ account' = [cash |-> cash, held |-> Bought(left, buys)]
      /\ UNCHANGED <<portfolio, helper, plan>>
  BY DEF NextDay, SumFor, Worth
<1>2. account.cash \in Nat /\ PositionsTyped(account.held)
  BY DEF PlansInv, AccountsTyped
<1>3. /\ IsFiniteSet(sells) /\ \A e \in sells : e.price \in Nat
      /\ IsFiniteSet(buys) /\ buys \subseteq Order
  BY FS_EmptySet DEF PlansInv, PlanTyped
<1>4. income \in Nat
  <2> DEFINE f == [e \in sells |-> e.price * account.held[e.symbol].qty]
  <2>1. ASSUME NEW e \in sells PROVE e.price * account.held[e.symbol].qty \in Nat
    <3>1. e.symbol \in DOMAIN account.held
      BY <1>1
    <3>2. account.held[e.symbol].qty \in Nat /\ e.price \in Nat
      BY <1>2, <1>3, <3>1 DEF PositionsTyped
    <3> QED BY <3>2
  <2>2. f \in [sells -> Nat]
    BY <2>1
  <2> HIDE DEF f
  <2>3. SumFunction(f) \in Nat
    BY <1>3, <2>2, SumType
  <2> QED BY <2>3 DEF f
<1>5. Worth(buys) \in Nat
  BY <1>3, WorthType DEF Order
<1> HIDE DEF income
<1>6. cash \in Nat
  BY <1>1, <1>2, <1>4, <1>5
<1>7. PositionsTyped(left)
  BY <1>2 DEF PositionsTyped, Sold
<1> HIDE DEF cash, left
<1>8. PositionsTyped(Bought(left, buys))
  <2>1. DOMAIN Bought(left, buys) \subseteq Symbols
    BY <1>3, <1>7 DEF Bought, PositionsTyped, Order
  <2>2. ASSUME NEW s \in DOMAIN Bought(left, buys), s \notin DOMAIN left
        PROVE  /\ Bought(left, buys)[s].qty \in Nat
               /\ Bought(left, buys)[s].avg_price \in Nat
    <3>1. \E p \in buys : p.symbol = s
      BY <2>2 DEF Bought
    <3>2. PICK o \in buys : o = CHOOSE p \in buys : p.symbol = s
      BY <3>1
    <3>3. Bought(left, buys)[s] = [qty |-> o.qty, avg_price |-> o.price]
      BY <2>2, <3>2 DEF Bought
    <3>4. o.qty \in Nat /\ o.price \in Nat
      BY <1>3 DEF Order
    <3> QED BY <3>3, <3>4
  <2>3. ASSUME NEW s \in DOMAIN left PROVE Bought(left, buys)[s] = left[s]
    BY DEF Bought
  <2> QED BY <1>7, <2>1, <2>2, <2>3 DEF PositionsTyped
<1>9. account'.cash \in Nat /\ PositionsTyped(account'.held)
  BY <1>1, <1>6, <1>8
<1>10. AccountsTyped'
  BY <1>1, <1>9 DEF PlansInv, AccountsTyped, PortfolioTyped, PositionsTyped
<1> QED BY <1>1, <1>10 DEF PlansInv, PlanTyped, PlanSound

LEMMA AlwaysPlanned == Spec => []PlansInv
<1>1. Init => PlansInv
  <2> SUFFICES ASSUME Init PROVE PlansInv
    OBVIOUS
  <2>1. PICK o \in Opening : account = [cash |-> o.cash, held |-> o.held]
    BY DEF Init
  <2>2. o.cash \in Nat /\ OfSymbols(o.held, [qty : Nat, avg_price : Nat])
    BY LiveAssumption
  <2>3. PositionsTyped(o.held)
    BY <2>2 DEF PositionsTyped, OfSymbols
  <2>4. PortfolioTyped(Empty)
    BY DEF PortfolioTyped, PositionsTyped, Empty
  <2>5. portfolio = Empty /\ helper.portfolio = Empty
    BY DEF Init, Idle
  <2>6. account.cash = o.cash /\ account.held = o.held
    BY <2>1
  <2>7. AccountsTyped
    BY <2>2, <2>3, <2>4, <2>5, <2>6 DEF AccountsTyped
  <2>8. plan.sells = {} /\ plan.buys = {} /\ plan.account = Empty /\ Empty.cash = 0
    BY DEF Init, NoPlan, Empty
  <2>9. PlanTyped
    BY <2>8, FS_EmptySet DEF PlanTyped
  <2>10. PlanSound
    BY <2>8, NoWorth DEF PlanSound
  <2> QED BY <2>7, <2>9, <2>10 DEF PlansInv
<1>2. DaysTyped /\ PlansInv /\ [Next]_vars => PlansInv'
  <2> SUFFICES ASSUME DaysTyped, PlansInv, [Next]_vars PROVE PlansInv'
    OBVIOUS
  <2>1. ASSUME NEW bootstrap \in BOOLEAN, NEW dry_run \in BOOLEAN,
               HelperReads(bootstrap, dry_run)
        PROVE  PlansInv'
    BY <2>1, HelperPlans
  <2>2. CASE HelperDumps
    <3>1. helper'.portfolio = helper.portfolio /\ UNCHANGED <<account, portfolio, plan>>
      BY <2>2 DEF HelperDumps
    <3> QED BY <3>1 DEF PlansInv, AccountsTyped, PlanTyped, PlanSound, PortfolioTyped
  <2>3. CASE HelperWrites
    <3>1. helper'.portfolio = Empty /\ portfolio' = helper.portfolio /\ UNCHANGED <<account, plan>>
      BY <2>3 DEF HelperWrites, Idle
    <3>2. PortfolioTyped(Empty)
      BY DEF PortfolioTyped, PositionsTyped, Empty
    <3> QED BY <3>1, <3>2 DEF PlansInv, AccountsTyped, PlanTyped, PlanSound, PortfolioTyped
  <2>4. CASE HelperDies
    <3>1. helper'.portfolio = Empty /\ UNCHANGED <<account, portfolio, plan>>
      BY <2>4 DEF HelperDies, Idle
    <3>2. PortfolioTyped(Empty)
      BY DEF PortfolioTyped, PositionsTyped, Empty
    <3> QED BY <3>1, <3>2 DEF PlansInv, AccountsTyped, PlanTyped, PlanSound, PortfolioTyped
  <2>5. ASSUME NEW ranked \in Ranked, Runner(ranked) PROVE PlansInv'
    BY <2>5, RunnerPlans
  <2>6. ASSUME NEW b \in Bars, NEW sells \in {{}, plan.sells}, NEW buys \in {{}, plan.buys},
               NextDay(b, sells, buys)
        PROVE  PlansInv'
    BY <2>6, NextDayPlans
  <2>7. CASE UNCHANGED vars
    BY <2>7 DEF vars, PlansInv, AccountsTyped, PlanTyped, PlanSound, PortfolioTyped
  <2> QED BY <2>1, <2>2, <2>3, <2>4, <2>5, <2>6, <2>7 DEF Next
<1>3. DatesInv => DaysTyped
  BY DEF DatesInv
<1> QED BY <1>1, <1>2, <1>3, AlwaysDated, PTL DEF Spec

\* The plan of the last run, for an account that is still as the run's
\* portfolio file says: its sales pay for all its buys at the estimates, and
\* with its buys no more positions are held than max_positions, after any
\* number of days, runs and crashes between them.
THEOREM PlansCanBePaid == Spec => []PlanCanBeCarriedOut
<1>1. PlansInv => PlanCanBeCarriedOut
  <2> DEFINE held == {s \in DOMAIN account.held : \A e \in plan.sells : e.symbol # s}
  <2> SUFFICES ASSUME PlansInv, plan.account.cash = account.cash,
                      DOMAIN plan.account.positions = DOMAIN account.held
               PROVE  /\ account.cash + Worth(plan.sells) >= Worth(plan.buys)
                      /\ plan.buys # {} =>
                            Cardinality(held \cup {o.symbol : o \in plan.buys})
                                <= SC.max_positions
    BY DEF PlanCanBeCarriedOut, Worth, SumFor
  <2>1. held = DOMAIN plan.account.positions \ {e.symbol : e \in plan.sells}
    OBVIOUS
  <2>2. account.cash \in Nat /\ Worth(plan.sells) \in Nat /\ Worth(plan.buys) \in Nat
    BY WorthType DEF PlansInv, AccountsTyped, PlanTyped, Order
  <2> HIDE DEF held
  <2> QED BY <2>1, <2>2 DEF PlansInv, PlanSound
<1> QED BY <1>1, AlwaysPlanned, PTL

----------------------------------------------------------------------------
(* Rows and days in order *)

InOrderOfDays(w) == \A a, b \in DOMAIN w : a < b => w[a].day < w[b].day

\* The elements of a set by their days.
Lists(w, X) == InOrderOfDays(w) /\ \A x : x \in X <=> \E a \in DOMAIN w : w[a] = x

\* A set of things that have a day.
Dated(S) == \A x \in S : x.day \in Nat

LEMMA ListsOneMore ==
    ASSUME NEW S, Dated(S), NEW w \in Seq(S), NEW X, Lists(w, X), NEW y \in S,
           \A x \in X : x.day < y.day
    PROVE  Append(w, y) \in Seq(S) /\ Lists(Append(w, y), X \cup {y})
<1> DEFINE v == Append(w, y)
           n == Len(w)
<1>1. /\ v \in Seq(S) /\ n \in Nat /\ DOMAIN w = 1..n /\ DOMAIN v = 1..(n + 1)
      /\ v[n + 1] = y /\ \A a \in 1..n : v[a] = w[a]
  OBVIOUS
<1>2. \A a \in 1..n : w[a] \in X
  BY <1>1 DEF Lists
<1> HIDE DEF v
<1>3. ASSUME NEW a \in DOMAIN v, NEW b \in DOMAIN v, a < b PROVE v[a].day < v[b].day
  <2>1. a \in 1..n
    BY <1>1, <1>3
  <2>2. CASE b = n + 1
    BY <1>1, <1>2, <2>1, <2>2
  <2>3. CASE b # n + 1
    <3>1. b \in 1..n
      BY <1>1, <2>3
    <3>2. w[a].day < w[b].day
      BY <1>1, <1>3, <2>1, <3>1 DEF Lists, InOrderOfDays
    <3> QED BY <1>1, <2>1, <3>1, <3>2
  <2> QED BY <2>2, <2>3
<1>4. ASSUME NEW x PROVE x \in X \cup {y} <=> \E a \in DOMAIN v : v[a] = x
  <2>1. x \in X <=> \E a \in 1..n : v[a] = x
    BY <1>1 DEF Lists
  <2>2. \A a : a \in DOMAIN v <=> a \in 1..n \/ a = n + 1
    BY <1>1
  <2> QED BY <1>1, <2>1, <2>2
<1> QED BY <1>1, <1>3, <1>4 DEF Lists, InOrderOfDays, v

\* The last one is the latest, and Front drops it.
LEMMA FrontLists ==
    ASSUME NEW S, Dated(S), NEW w \in Seq(S), NEW X, Lists(w, X), w # <<>>
    PROVE  /\ w[Len(w)] \in X /\ \A x \in X : x = w[Len(w)] \/ x.day < w[Len(w)].day
           /\ Front(w) \in Seq(S) /\ Lists(Front(w), X \ {w[Len(w)]})
<1> DEFINE v == Front(w)
           n == Len(w)
<1>1. n \in Nat /\ n # 0 /\ DOMAIN w = 1..n /\ n \in 1..n
  OBVIOUS
<1>2. v \in Seq(S) /\ DOMAIN v = 1..(n - 1) /\ \A a \in 1..(n - 1) : v[a] = w[a]
  BY <1>1 DEF Front
<1>3. w[n] \in X
  BY <1>1 DEF Lists
<1>4. \A a \in 1..(n - 1) : a \in 1..n /\ a < n /\ w[a].day < w[n].day
  BY <1>1 DEF Lists, InOrderOfDays
<1>5. \A a \in 1..n : w[a] \in S
  BY <1>1
<1>6. \A a \in 1..n : a = n \/ a \in 1..(n - 1)
  <2>1. \A k \in Nat : \A a \in 1..k : a = k \/ a \in 1..(k - 1)
    OBVIOUS
  <2> HIDE DEF n
  <2> QED BY <1>1, <2>1
<1>7. \A x \in X : \E a \in 1..n : w[a] = x
  BY <1>1 DEF Lists
<1>8. \A x \in X : x = w[n] \/ x.day < w[n].day
  BY <1>4, <1>6, <1>7
<1>9. ASSUME NEW x PROVE x \in X \ {w[n]} <=> \E a \in DOMAIN v : v[a] = x
  <2>1. x \in X <=> \E a \in 1..n : w[a] = x
    BY <1>1 DEF Lists
  <2>2. \A a \in 1..(n - 1) : w[a] # w[n]
    <3>1. \A a \in 1..n : w[a].day \in Nat
      BY <1>5 DEF Dated
    <3>2. \A a \in 1..(n - 1) : ~(w[a].day = w[n].day)
      BY <1>1, <1>4, <3>1
    <3> QED BY <3>2
  <2>3. \A a \in 1..(n - 1) : a \in 1..n
    BY <1>1
  <2> HIDE DEF v
  <2> QED BY <1>2, <1>6, <2>1, <2>2, <2>3
<1> HIDE DEF v
<1>10. \A a, b \in DOMAIN v : a < b => v[a].day < v[b].day
  <2>1. \A a \in 1..(n - 1) : a \in 1..n
    BY <1>1
  <2> QED BY <1>1, <1>2, <2>1 DEF Lists, InOrderOfDays
<1> QED BY <1>2, <1>3, <1>8, <1>9, <1>10 DEF Lists, InOrderOfDays, v

\* What is taken from days in order is in order.
LEMMA AtLists ==
    ASSUME NEW S, Dated(S), NEW seq \in Seq(S), InOrderOfDays(seq), NEW places
    PROVE  /\ At(seq, places) \in Seq(S)
           /\ Lists(At(seq, places), {seq[i] : i \in DOMAIN seq \cap places})
<1> DEFINE N == Len(seq)
           X(i) == {seq[p] : p \in (1..i) \cap places}
<1>1. N \in Nat /\ DOMAIN seq = 1..N /\ \A i \in 1..N : seq[i] \in S
  OBVIOUS
<1>2. PICK h : At(seq, places) = h[N] /\ Finds(h, seq, places)
  BY AtIs
<1> DEFINE Good == {i \in 0..N : h[i] \in Seq(S) /\ Lists(h[i], X(i))}
<1>3. 0 \in Good
  <2>1. h[0] = <<>> /\ 0 \in 0..N
    BY <1>1, <1>2 DEF Finds
  <2>2. <<>> \in Seq(S) /\ DOMAIN <<>> = {}
    OBVIOUS
  <2>3. X(0) = {}
    OBVIOUS
  <2>4. Lists(<<>>, {})
    BY <2>2 DEF Lists, InOrderOfDays
  <2> QED BY <2>1, <2>2, <2>3, <2>4
<1>4. ASSUME NEW i \in 1..N, i - 1 \in Good PROVE i \in Good
  <2>1. h[i - 1] \in Seq(S) /\ Lists(h[i - 1], X(i - 1)) /\ seq[i] \in S /\ i \in 0..N
    BY <1>1, <1>4
  <2>2. h[i] = IF i \in places THEN Append(h[i - 1], seq[i]) ELSE h[i - 1]
    BY <1>2 DEF Finds
  <2>3. \A p : p \in 1..i <=> p \in 1..(i - 1) \/ p = i
    BY <1>1
  <2>4. CASE i \in places
    <3>1. X(i) = X(i - 1) \cup {seq[i]}
      BY <2>3, <2>4
    <3>2. \A x \in X(i - 1) : x.day < seq[i].day
      <4>1. \A p \in 1..(i - 1) : p \in 1..N /\ p < i
        BY <1>1
      <4> QED BY <1>1, <4>1 DEF InOrderOfDays
    <3> HIDE DEF X
    <3>3. Append(h[i - 1], seq[i]) \in Seq(S)
          /\ Lists(Append(h[i - 1], seq[i]), X(i - 1) \cup {seq[i]})
      BY <2>1, <3>2, ListsOneMore
    <3> QED BY <2>1, <2>2, <2>4, <3>1, <3>3
  <2>5. CASE i \notin places
    <3>1. X(i) = X(i - 1)
      BY <2>3, <2>5
    <3> HIDE DEF X
    <3> QED BY <2>1, <2>2, <2>5, <3>1
  <2> QED BY <2>4, <2>5
<1>5. N \in Good
  <2> HIDE DEF Good
  <2>1. \A i \in 0..N : i \in Good
    BY <1>1, <1>3, <1>4, FoundAll
  <2> QED BY <1>1, <2>1
<1> QED BY <1>1, <1>2, <1>5

\* Two lists of rows that agree from a first row to a last one agree place by place.
Between(r, from, to) == from <= r.day /\ r.day <= to
Matching(R, Q, from, to) ==
    /\ \A i \in DOMAIN R : Between(R[i], from, to) => \E j \in DOMAIN Q : Q[j] = R[i]
    /\ \A j \in DOMAIN Q : Between(Q[j], from, to) => \E i \in DOMAIN R : R[i] = Q[j]
SameFrom(R, Q, f, g, n) ==
    \A m \in 0..n : g + m \in DOMAIN Q /\ f + m \in DOMAIN R /\ Q[g + m] = R[f + m]

LEMMA Aligned ==
    ASSUME NEW S, Dated(S), NEW R \in Seq(S), NEW Q \in Seq(S),
           InOrderOfDays(R), InOrderOfDays(Q),
           NEW f \in DOMAIN R, NEW g \in DOMAIN Q, Q[g] = R[f],
           NEW n \in Nat, f + n \in DOMAIN R, Matching(R, Q, R[f].day, R[f + n].day)
    PROVE  SameFrom(R, Q, f, g, n)
<1>1. PICK N \in Nat : DOMAIN R = 1..N
  OBVIOUS
<1>2. PICK M \in Nat : DOMAIN Q = 1..M
  OBVIOUS
<1>3. /\ \A i \in 1..N : R[i].day \in Nat
      /\ \A j \in 1..M : Q[j].day \in Nat
  BY <1>1, <1>2 DEF Dated
<1>4. /\ \A a, b \in 1..N : a < b => R[a].day < R[b].day
      /\ \A a, b \in 1..M : a < b => Q[a].day < Q[b].day
  BY <1>1, <1>2 DEF InOrderOfDays
<1>5. /\ \A a, b \in 1..N : a <= b => R[a].day <= R[b].day
      /\ \A a, b \in 1..M : a <= b => Q[a].day <= Q[b].day
  <2>1. \A a, b \in Nat : a <= b => a < b \/ a = b
    OBVIOUS
  <2>2. \A x, y \in Nat : x < y \/ x = y => x <= y
    OBVIOUS
  <2>3. ASSUME NEW a \in 1..N, NEW b \in 1..N, a <= b PROVE R[a].day <= R[b].day
    <3>1. a < b \/ a = b
      BY <2>1, <2>3
    <3>2. R[a].day < R[b].day \/ R[a].day = R[b].day
      BY <1>4, <3>1
    <3> QED BY <1>3, <2>2, <3>2
  <2>4. ASSUME NEW a \in 1..M, NEW b \in 1..M, a <= b PROVE Q[a].day <= Q[b].day
    <3>1. a < b \/ a = b
      BY <2>1, <2>4
    <3>2. Q[a].day < Q[b].day \/ Q[a].day = Q[b].day
      BY <1>4, <3>1
    <3> QED BY <1>3, <2>2, <3>2
  <2> QED BY <2>3, <2>4
<1>6. f \in 1..N /\ g \in 1..M /\ f + n \in 1..N
  BY <1>1, <1>2
<1> DEFINE Good == {m \in 0..n : g + m \in 1..M /\ Q[g + m] = R[f + m]}
<1>7. 0 \in Good
  BY <1>6
<1>8. ASSUME NEW m \in 1..n, m - 1 \in Good PROVE m \in Good
  <2>1. PICK i : i = f + m
    OBVIOUS
  <2>2. PICK k : k = g + m
    OBVIOUS
  <2>3. /\ i \in 1..N /\ i - 1 \in 1..N /\ f <= i - 1 /\ f <= i /\ i <= f + n
        /\ k \in Nat /\ k - 1 = g + (m - 1) /\ i - 1 = f + (m - 1)
    <3>1. \A K, b \in Nat : \A a \in 1..K, x \in 1..b :
            a + b \in 1..K => /\ a + x \in 1..K /\ (a + x) - 1 \in 1..K
                              /\ a <= (a + x) - 1 /\ a <= a + x /\ a + x <= a + b
                              /\ (a + x) - 1 = a + (x - 1)
      OBVIOUS
    <3>2. \A a \in 1..M, x \in 1..n : a + x \in Nat /\ (a + x) - 1 = a + (x - 1)
      OBVIOUS
    <3>3. /\ f + m \in 1..N /\ (f + m) - 1 \in 1..N /\ f <= (f + m) - 1 /\ f <= f + m
          /\ f + m <= f + n /\ (f + m) - 1 = f + (m - 1)
      BY <1>6, <3>1
    <3>4. g + m \in Nat /\ (g + m) - 1 = g + (m - 1)
      BY <1>6, <3>2
    <3> QED BY <2>1, <2>2, <3>3, <3>4
  <2>4. k - 1 \in 1..M /\ Q[k - 1] = R[i - 1]
    BY <1>8, <2>3
  <2>5. R[f].day <= R[i].day /\ R[i].day <= R[f + n].day /\ R[f].day <= R[i - 1].day
    BY <1>5, <1>6, <2>3
  <2>6. R[i - 1].day < R[i].day
    BY <1>4, <2>3
  <2>7. PICK j \in 1..M : Q[j] = R[i]
    BY <1>1, <1>2, <2>3, <2>5 DEF Between, Matching
  <2>8. ~(j <= k - 1)
    <3> SUFFICES ASSUME j <= k - 1 PROVE FALSE
      OBVIOUS
    <3>1. Q[j].day <= Q[k - 1].day
      BY <1>5, <2>4
    <3>2. R[i].day <= R[i - 1].day
      BY <2>4, <2>7, <3>1
    <3>3. PICK a \in Nat, b \in Nat : a = R[i].day /\ b = R[i - 1].day
      BY <1>3, <2>3
    <3>4. a <= b /\ b < a
      BY <2>6, <3>2, <3>3
    <3> QED BY <3>4
  <2>9. k \in 1..M /\ k <= j
    BY <2>3, <2>4, <2>8
  <2>10. Q[k].day <= R[i].day
    BY <1>5, <2>7, <2>9
  <2>11. Q[k - 1].day < Q[k].day
    BY <1>4, <2>3, <2>4, <2>9
  <2>12. R[i - 1].day < Q[k].day
    BY <2>4, <2>11
  <2>13. Between(Q[k], R[f].day, R[f + n].day)
    <3>1. \A x, y, z \in Nat : (x <= y /\ y < z => x <= z) /\ (x <= y /\ y <= z => x <= z)
      OBVIOUS
    <3>2. /\ R[f].day \in Nat /\ R[i - 1].day \in Nat /\ Q[k].day \in Nat
          /\ R[i].day \in Nat /\ R[f + n].day \in Nat
      BY <1>3, <1>6, <2>3, <2>9
    <3>3. R[f].day <= Q[k].day
      BY <2>5, <2>12, <3>1, <3>2
    <3>4. Q[k].day <= R[f + n].day
      BY <2>5, <2>10, <3>1, <3>2
    <3> QED BY <3>3, <3>4 DEF Between
  <2>14. PICK l \in 1..N : R[l] = Q[k]
    BY <1>1, <1>2, <2>9, <2>13 DEF Matching
  <2>15. ~(l <= i - 1)
    <3> SUFFICES ASSUME l <= i - 1 PROVE FALSE
      OBVIOUS
    <3>1. R[l].day <= R[i - 1].day
      BY <1>5, <2>3
    <3>2. R[l].day \in Nat /\ R[i - 1].day \in Nat /\ R[i - 1].day < R[l].day
      BY <1>3, <2>3, <2>12, <2>14
    <3>3. \A x, y \in Nat : ~(x <= y /\ y < x)
      OBVIOUS
    <3> QED BY <3>1, <3>2, <3>3
  <2>16. ~(i < l)
    <3> SUFFICES ASSUME i < l PROVE FALSE
      OBVIOUS
    <3>1. R[i].day < R[l].day
      BY <1>4, <2>3
    <3>2. R[l].day \in Nat /\ R[i].day \in Nat /\ R[l].day <= R[i].day
      BY <1>3, <2>3, <2>10, <2>14
    <3>3. \A x, y \in Nat : ~(x <= y /\ y < x)
      OBVIOUS
    <3> QED BY <3>1, <3>2, <3>3
  <2>17. l = i
    BY <2>3, <2>15, <2>16
  <2> QED BY <1>8, <2>1, <2>2, <2>9, <2>14, <2>17
<1>9. \A m \in 0..n : m \in Good
  <2> HIDE DEF Good
  <2> QED BY <1>7, <1>8, FoundAll
<1>10. \A m \in 0..n : f + m \in 1..N
  BY <1>6
<1> QED BY <1>1, <1>2, <1>9, <1>10 DEF SameFrom

----------------------------------------------------------------------------
(* Walks over rows that agree *)

\* What can end a walk that began on row f.
HighOf(R, f, j) == Max({R[k].close : k \in f..j})
RipeOn(R, f, j) == R[j].day - R[f].day >= XC.min_hold_time_days
FlipsOn(R, f, j, bulls) ==
    RipeOn(R, f, j) /\ bulls # {} /\ EC.force_exit_on_regime_flip /\ R[j].day \notin bulls
StopsOn(R, f, j, avg_price) ==
    RipeOn(R, f, j) /\ 100 * (HighOf(R, f, j) - R[j].close)
                          > StopPct(HighOf(R, f, j), avg_price) * HighOf(R, f, j)
Triggers(R, f, j, avg_price, bulls) ==
    Dropped(R, f, j) \/ FlipsOn(R, f, j, bulls) \/ StopsOn(R, f, j, avg_price)

\* The row on which a walk ends, and what comes of it.
EndsOn(R, f, end, avg_price, bulls) ==
    /\ end \in f..Len(R) /\ (end = Len(R) \/ Triggers(R, f, end, avg_price, bulls))
    /\ \A j \in f..Len(R) : j = Len(R) \/ Triggers(R, f, j, avg_price, bulls) => end <= j

ExitsOn(x, R, f, end, bulls) ==
    /\ Dropped(R, f, end) => x.day = R[end].day
    /\ ~Dropped(R, f, end) /\ end = Len(R) => x.day = R[end].day /\ x.reason = "end_of_data"
    /\ ~Dropped(R, f, end) /\ end # Len(R) =>
          /\ x.day = R[end + 1].day
          /\ FlipsOn(R, f, end, bulls) => x.reason = "regime_flip"

LEMMA WalkEnds ==
    ASSUME NEW R \in Seq(Row), NEW f \in DOMAIN R, NEW avg_price, NEW bulls
    PROVE  \E end : /\ EndsOn(R, f, end, avg_price, bulls)
                    /\ ExitsOn(Walk(R, f, avg_price, bulls), R, f, end, bulls)
<1> DEFINE T == {j \in f..Len(R) : \/ j = Len(R) \/ Dropped(R, f, j)
                                   \/ FlipsOn(R, f, j, bulls) \/ StopsOn(R, f, j, avg_price)}
           end == Min(T)
           Exit(row, price, reason) == [day |-> R[row].day, price |-> price, reason |-> reason]
<1>1. Walk(R, f, avg_price, bulls) =
        IF Dropped(R, f, end)
        THEN Exit(end, (80 * R[end - 1].close) \div 100, "anomalous_drop")
        ELSE IF end = Len(R) THEN Exit(end, R[end].close, "end_of_data")
        ELSE Exit(end + 1, R[end + 1].close,
                  IF FlipsOn(R, f, end, bulls) THEN "regime_flip" ELSE "trailing_stop")
  BY DEF Walk, HighOf, RipeOn, FlipsOn, StopsOn
<1>2. T \in SUBSET Nat /\ Len(R) \in T
  OBVIOUS
<1>3. end \in T /\ \A j \in T : end <= j
  <2> HIDE DEF T
  <2> QED BY <1>2, MinIs
<1>4. EndsOn(R, f, end, avg_price, bulls)
  <2> HIDE DEF end
  <2> QED BY <1>3 DEF EndsOn, Triggers
<1> HIDE DEF end
<1>5. ExitsOn(Walk(R, f, avg_price, bulls), R, f, end, bulls)
  BY <1>1 DEF ExitsOn
<1> QED BY <1>4, <1>5

\* Places m after a and after b.
LEMMA Places ==
    ASSUME NEW a \in Nat, NEW b \in Nat, NEW n \in Nat, NEW m \in 0..n
    PROVE  /\ \A k \in a..(a + m) : k - a \in 0..n /\ k = a + (k - a) /\ b + (k - a) \in b..(b + m)
           /\ m # 0 => /\ m - 1 \in 0..n /\ (a + m) - 1 = a + (m - 1) /\ a + m > a
                       /\ m - 1 \in Nat
           /\ a + 0 = a /\ ~(a > a)
  OBVIOUS

\* Rows that agree place by place trigger the same, as long as the one regime
\* has no bull days that the other has not.
LEMMA TriggersAgree ==
    ASSUME NEW R \in Seq(Row), NEW Q \in Seq(Row), NEW f \in DOMAIN R, NEW g \in DOMAIN Q,
           NEW n \in Nat,
           SameFrom(R, Q, f, g, n),
           NEW m \in 0..n, NEW avg_price, NEW bulls, NEW more
    PROVE  /\ Dropped(Q, g, g + m) <=> Dropped(R, f, f + m)
           /\ StopsOn(Q, g, g + m, avg_price) <=> StopsOn(R, f, f + m, avg_price)
           /\ more # {} /\ (R[f + m].day \in more => R[f + m].day \in bulls)
                 /\ FlipsOn(R, f, f + m, bulls) => FlipsOn(Q, g, g + m, more)
<1> USE DEF SameFrom
<1>1. f \in Nat /\ g \in Nat
  OBVIOUS
<1>2. Q[g + m] = R[f + m] /\ Q[g] = R[f]
  <2>1. Q[g + 0] = R[f + 0] /\ g + 0 = g /\ f + 0 = f
    BY <1>1
  <2> QED BY <2>1
<1>3. {Q[k].close : k \in g..(g + m)} = {R[k].close : k \in f..(f + m)}
  <2>1. \A k \in g..(g + m) : k - g \in 0..n /\ k = g + (k - g) /\ f + (k - g) \in f..(f + m)
    BY <1>1, Places
  <2>2. \A k \in f..(f + m) : k - f \in 0..n /\ k = f + (k - f) /\ g + (k - f) \in g..(g + m)
    BY <1>1, Places
  <2>3. \A k \in g..(g + m) : Q[k] = R[f + (k - g)]
    BY <2>1
  <2>4. \A k \in f..(f + m) : R[k] = Q[g + (k - f)]
    BY <2>2
  <2>5. \A k \in g..(g + m) : Q[k].close \in {R[i].close : i \in f..(f + m)}
    BY <2>1, <2>3
  <2>6. \A k \in f..(f + m) : R[k].close \in {Q[i].close : i \in g..(g + m)}
    BY <2>2, <2>4
  <2> QED BY <2>5, <2>6
<1>4. HighOf(Q, g, g + m) = HighOf(R, f, f + m)
  BY <1>3 DEF HighOf
<1>5. RipeOn(Q, g, g + m) <=> RipeOn(R, f, f + m)
  BY <1>2 DEF RipeOn
<1>6. Dropped(Q, g, g + m) <=> Dropped(R, f, f + m)
  <2>1. CASE m = 0
    BY <1>1, <2>1 DEF Dropped
  <2>2. CASE m # 0
    <3>1. m - 1 \in 0..n /\ (g + m) - 1 = g + (m - 1) /\ (f + m) - 1 = f + (m - 1)
          /\ g + m > g /\ f + m > f
      <4>1. \A a, b \in Nat : /\ m - 1 \in 0..n /\ (a + m) - 1 = a + (m - 1) /\ a + m > a
        BY <2>2, Places
      <4> QED BY <1>1, <4>1
    <3>2. Q[(g + m) - 1] = R[(f + m) - 1]
      BY <3>1
    <3> QED BY <1>2, <3>1, <3>2 DEF Dropped
  <2> QED BY <2>1, <2>2
<1>7. StopsOn(Q, g, g + m, avg_price) <=> StopsOn(R, f, f + m, avg_price)
  BY <1>2, <1>4, <1>5 DEF StopsOn
<1>8. more # {} /\ (R[f + m].day \in more => R[f + m].day \in bulls)
         /\ FlipsOn(R, f, f + m, bulls) => FlipsOn(Q, g, g + m, more)
  BY <1>2, <1>5 DEF FlipsOn
<1> QED BY <1>6, <1>7, <1>8

\* Two lists of rows have the same rows from one day to another; or the second
\* has them up to the day before and ends there.
SameRows(R, Q, from, to) ==
    \A row : Between(row, from, to) =>
        ((\E i \in DOMAIN R : R[i] = row) <=> (\E j \in DOMAIN Q : Q[j] = row))
CutShort(R, Q, from, to) ==
    /\ \A row : from <= row.day /\ row.day < to =>
        ((\E i \in DOMAIN R : R[i] = row) <=> (\E j \in DOMAIN Q : Q[j] = row))
    /\ \A j \in DOMAIN Q : Q[j].day < to

\* The first row on or after a day.
FirstFrom(R, f, entry) ==
    /\ f \in DOMAIN R /\ R[f].day >= entry
    /\ \A i \in DOMAIN R : R[i].day >= entry => f <= i

\* A walk that ends by a rule, n rows on, goes the same way over the other rows, to an
\* exit no later.
RulesEnd(R, f, q, n, avg_price, bulls, more) ==
    /\ q \in 0..n /\ Triggers(R, f, f + q, avg_price, bulls)
    /\ Dropped(R, f, f + q)
       \/ /\ q # n
          /\ FlipsOn(R, f, f + q, bulls) =>
                more # {} /\ (R[f + q].day \in more => R[f + q].day \in bulls)
EarlierWalk(R, Q, f, g, n, q, avg_price, bulls, more) ==
    /\ SameFrom(R, Q, f, g, n)
    /\ RulesEnd(R, f, q, n, avg_price, bulls, more) \/ Len(Q) = g + n

LEMMA EndsEarlier ==
    ASSUME NEW R \in Seq(Row), NEW Q \in Seq(Row), InOrderOfDays(R), InOrderOfDays(Q),
           NEW f \in DOMAIN R, NEW g \in DOMAIN Q, NEW n \in Nat, NEW q, NEW avg_price,
           NEW bulls, NEW more, EarlierWalk(R, Q, f, g, n, q, avg_price, bulls, more),
           NEW last \in Nat, R[f + n].day <= last
    PROVE  Walk(Q, g, avg_price, more).day <= last
<1> DEFINE x == Walk(Q, g, avg_price, more)
<1>1. PICK end : EndsOn(Q, g, end, avg_price, more) /\ ExitsOn(x, Q, g, end, more)
  BY WalkEnds
<1> HIDE DEF x
<1>2. PICK N \in Nat : DOMAIN R = 1..N
  OBVIOUS
<1>3. PICK M \in Nat : DOMAIN Q = 1..M /\ Len(Q) = M
  OBVIOUS
<1>4. f \in 1..N /\ g \in 1..M /\ f \in Nat /\ g \in Nat
  BY <1>2, <1>3
<1>5. \A m \in 0..n : g + m \in 1..M /\ f + m \in 1..N /\ Q[g + m] = R[f + m]
  BY <1>2, <1>3 DEF EarlierWalk, SameFrom
<1>6. end \in g..M /\ \A j \in g..M : j = M \/ Triggers(Q, g, j, avg_price, more) => end <= j
  BY <1>1, <1>3 DEF EndsOn
<1>7. \A m \in 0..n : R[f + m].day \in Nat /\ R[f + m].day <= last
  <2>1. \A i \in 1..N : R[i].day \in Nat
    <3>1. \A i \in 1..N : R[i] \in Row
      BY <1>2
    <3> QED BY <3>1 DEF Row
  <2> SUFFICES ASSUME NEW m \in 0..n PROVE R[f + m].day \in Nat /\ R[f + m].day <= last
    OBVIOUS
  <2>2. n \in 0..n
    OBVIOUS
  <2>3. f + m \in 1..N /\ f + n \in 1..N
    BY <1>5, <2>2
  <2>4. m = n \/ f + m < f + n
    BY <1>4
  <2>5. f + m < f + n => R[f + m].day < R[f + n].day
    BY <1>2, <2>3 DEF InOrderOfDays
  <2>6. PICK a \in Nat, b \in Nat : a = R[f + m].day /\ b = R[f + n].day
    BY <2>1, <2>3
  <2>7. a = b \/ a < b
    BY <2>4, <2>5, <2>6
  <2>8. a <= last
    <3>1. b <= last
      BY <2>6
    <3> HIDE <2>6
    <3> QED BY <2>7, <3>1
  <2> QED BY <2>6, <2>8
<1>8. ASSUME NEW m \in 0..n, end = g + m, m # n \/ Dropped(Q, g, end) \/ end = M
      PROVE  x.day <= last
  <2>1. CASE Dropped(Q, g, end) \/ end = M
    <3>1. x.day = Q[end].day
      BY <1>1, <1>3, <2>1 DEF ExitsOn
    <3> QED BY <1>5, <1>7, <1>8, <3>1
  <2>2. CASE ~(Dropped(Q, g, end) \/ end = M)
    <3>1. x.day = Q[end + 1].day
      BY <1>1, <1>3, <2>2 DEF ExitsOn
    <3>2. m + 1 \in 0..n /\ end + 1 = g + (m + 1)
      BY <1>4, <1>8, <2>2
    <3>3. Q[end + 1] = R[f + (m + 1)]
      BY <1>5, <3>2
    <3> QED BY <1>7, <3>1, <3>2, <3>3
  <2> QED BY <2>1, <2>2
<1>9. \A a, b \in Nat : \A e \in a..b :
         /\ e = a + (e - a) /\ e - a \in Nat
         /\ \A k \in Nat : e <= a + k => e - a \in 0..k
         /\ \A k \in Nat : b = a + k /\ e - a = k => e = b
  OBVIOUS
<1>10. end = g + (end - g) /\ end - g \in Nat
       /\ \A k \in Nat : end <= g + k => end - g \in 0..k
  BY <1>4, <1>6, <1>9
<1>11. CASE Len(Q) = g + n
  <2>1. end <= M /\ M = g + n
    BY <1>3, <1>6, <1>11
  <2>2. end - g \in 0..n
    BY <1>10, <2>1
  <2>3. end - g # n \/ end = M
    BY <1>4, <1>6, <1>9, <2>1
  <2> QED BY <1>8, <1>10, <2>2, <2>3 DEF x
<1>12. CASE RulesEnd(R, f, q, n, avg_price, bulls, more)
  <2>1. \A m \in 0..n : Dropped(Q, g, g + m) <=> Dropped(R, f, f + m)
    BY TriggersAgree DEF EarlierWalk
  <2>2. q \in 0..n
    BY <1>12 DEF RulesEnd
  <2>3. StopsOn(Q, g, g + q, avg_price) <=> StopsOn(R, f, f + q, avg_price)
    BY <2>2, TriggersAgree DEF EarlierWalk
  <2>4. more # {} /\ (R[f + q].day \in more => R[f + q].day \in bulls)
           /\ FlipsOn(R, f, f + q, bulls) => FlipsOn(Q, g, g + q, more)
    BY <2>2, TriggersAgree DEF EarlierWalk
  <2>5. Triggers(Q, g, g + q, avg_price, more)
    BY <1>12, <2>1, <2>2, <2>3, <2>4 DEF Triggers, RulesEnd
  <2>6. g + q \in g..M
    <3>1. g + q \in 1..M
      BY <1>5, <2>2
    <3> QED BY <1>4, <2>2, <3>1
  <2>7. end <= g + q
    BY <1>6, <2>5, <2>6
  <2>8. end - g \in 0..q
    BY <1>10, <2>2, <2>7
  <2>9. end - g \in 0..n
    BY <2>2, <2>8
  <2>10. end - g # n \/ Dropped(Q, g, end)
    <3> SUFFICES ASSUME end - g = n PROVE Dropped(Q, g, end)
      OBVIOUS
    <3>1. q = n
      BY <2>2, <2>8
    <3>2. end = g + q /\ Dropped(R, f, f + q)
      BY <1>10, <1>12, <3>1 DEF RulesEnd
    <3> QED BY <2>1, <2>2, <3>2
  <2> QED BY <1>8, <1>10, <2>9, <2>10 DEF x
<1> QED BY <1>11, <1>12 DEF EarlierWalk

\* The order of places is that of the days.
LEMMA ByTheDay ==
    ASSUME NEW S, Dated(S), NEW w \in Seq(S), InOrderOfDays(w),
           NEW a \in DOMAIN w, NEW b \in DOMAIN w
    PROVE  /\ w[a].day \in Nat /\ a \in Nat /\ b \in Nat
           /\ a < b <=> w[a].day < w[b].day
           /\ a <= b <=> w[a].day <= w[b].day
<1>1. w[a] \in S /\ w[b] \in S /\ a \in Nat /\ b \in Nat
  OBVIOUS
<1>2. PICK i \in Nat, j \in Nat : i = a /\ j = b
  BY <1>1
<1>3. PICK c \in Nat, d \in Nat : c = w[a].day /\ d = w[b].day
  BY <1>1 DEF Dated
<1>4. (i < j => c < d) /\ (j < i => d < c) /\ (i = j => c = d)
  BY <1>2, <1>3 DEF InOrderOfDays
<1>5. (i < j <=> c < d) /\ (i <= j <=> c <= d)
  BY <1>4
<1> QED BY <1>2, <1>3, <1>5

LEMMA RowsDated == Dated(Row)
BY DEF Dated, Row

\* The first row on or after a day is the same in both lists, if it is before the last day.
LEMMA SameFirst ==
    ASSUME NEW R \in Seq(Row), NEW Q \in Seq(Row), InOrderOfDays(R), InOrderOfDays(Q),
           NEW entry \in Nat, NEW f, FirstFrom(R, f, entry), NEW last \in Nat, R[f].day < last,
           SameRows(R, Q, entry, last) \/ CutShort(R, Q, entry, last)
    PROVE  \E g : FirstFrom(Q, g, entry) /\ Q[g] = R[f]
<1>1. f \in DOMAIN R /\ R[f].day >= entry /\ \A i \in DOMAIN R : R[i].day >= entry => f <= i
  BY DEF FirstFrom
<1>2. \A i \in DOMAIN R : R[i].day \in Nat
  BY RowsDated, ByTheDay
<1>3. \A j \in DOMAIN Q : Q[j].day \in Nat
  BY RowsDated, ByTheDay
<1>4. \A row : row.day \in Nat /\ entry <= row.day /\ row.day < last =>
        ((\E i \in DOMAIN R : R[i] = row) <=> (\E j \in DOMAIN Q : Q[j] = row))
  BY DEF SameRows, CutShort, Between
<1>5. PICK g \in DOMAIN Q : Q[g] = R[f]
  BY <1>1, <1>2, <1>4
<1>6. ASSUME NEW j \in DOMAIN Q, Q[j].day >= entry PROVE g <= j
  <2> SUFFICES ASSUME j < g PROVE FALSE
    OBVIOUS
  <2>1. Q[j].day < R[f].day
    BY <1>5 DEF InOrderOfDays
  <2>2. PICK c \in Nat, d \in Nat : c = Q[j].day /\ d = R[f].day
    BY <1>1, <1>2, <1>3
  <2>3. c < d /\ d < last /\ entry <= c
    BY <1>6, <2>1, <2>2
  <2>4. c < last
    BY <2>3
  <2>5. PICK i \in DOMAIN R : R[i] = Q[j]
    BY <1>4, <2>2, <2>3, <2>4
  <2>6. f <= i
    BY <1>1, <1>6, <2>5
  <2>7. R[f].day <= R[i].day
    BY <1>1, <2>6, RowsDated, ByTheDay
  <2>8. d <= c
    BY <2>2, <2>5, <2>7
  <2> QED BY <2>3, <2>8
<1>7. Q[g].day >= entry
  BY <1>1, <1>5
<1>8. FirstFrom(Q, g, entry)
  BY <1>5, <1>6, <1>7 DEF FirstFrom
<1> QED BY <1>5, <1>8

\* Where a walk ends that a rule ended: n rows after the first.
LEMMA RuleOfWalk ==
    ASSUME NEW R \in Seq(Row), NEW f \in DOMAIN R, NEW avg_price, NEW bulls, NEW more,
           NEW x, x = Walk(R, f, avg_price, bulls),
           x.reason # "end_of_data", x.reason = "regime_flip" => more # {},
           InOrderOfDays(R), \A d \in more : d <= x.day => d \in bulls
    PROVE  \E n \in Nat \ {0}, q \in Nat : /\ f + n \in DOMAIN R /\ x.day = R[f + n].day
                                   /\ RulesEnd(R, f, q, n, avg_price, bulls, more)
<1>1. PICK end : EndsOn(R, f, end, avg_price, bulls) /\ ExitsOn(x, R, f, end, bulls)
  BY WalkEnds
<1>2. PICK N \in Nat : Len(R) = N /\ DOMAIN R = 1..N
  OBVIOUS
<1>3. f \in 1..N /\ end \in f..N /\ f \in Nat
  BY <1>1, <1>2 DEF EndsOn
<1>4. Dropped(R, f, end) \/ end # N
  BY <1>1, <1>2 DEF ExitsOn
<1>5. PICK q \in Nat : end = f + q /\ f + q \in 1..N /\ q = end - f
  <2>1. \A a \in Nat : \A b \in a..N : b - a \in Nat /\ b = a + (b - a)
    OBVIOUS
  <2>2. end \in 1..N
    BY <1>3
  <2> QED BY <1>3, <2>1, <2>2
<1>6. Dropped(R, f, f + q) \/ Triggers(R, f, f + q, avg_price, bulls)
  BY <1>1, <1>2, <1>4, <1>5 DEF EndsOn
<1>7. CASE Dropped(R, f, f + q)
  <2>1. q # 0
    BY <1>3, <1>7 DEF Dropped
  <2>2. x.day = R[f + q].day
    BY <1>1, <1>5, <1>7 DEF ExitsOn
  <2>3. RulesEnd(R, f, q, q, avg_price, bulls, more)
    BY <1>6, <1>7 DEF RulesEnd, Triggers
  <2>4. q \in Nat \ {0} /\ f + q \in DOMAIN R
    BY <1>2, <1>5, <2>1
  <2> QED BY <2>2, <2>3, <2>4
<1>8. CASE ~Dropped(R, f, f + q)
  <2>1. end # N
    BY <1>4, <1>5, <1>8
  <2>2. x.day = R[end + 1].day /\ (FlipsOn(R, f, end, bulls) => x.reason = "regime_flip")
    BY <1>1, <1>2, <1>5, <1>8, <2>1 DEF ExitsOn
  <2>3. end + 1 \in 1..N /\ end \in 1..N /\ end < end + 1
    BY <1>3, <2>1
  <2>4. end + 1 = f + (q + 1)
    BY <1>3, <1>5
  <2>5. R[end].day <= x.day
    <3>1. R[end].day < R[end + 1].day
      BY <1>2, <2>3 DEF InOrderOfDays
    <3>2. PICK a \in Nat, b \in Nat : a = R[end].day /\ b = R[end + 1].day
      BY <1>2, <2>3, RowsDated, ByTheDay
    <3>3. a < b
      BY <3>1, <3>2
    <3>4. a <= b
      BY <3>3
    <3> QED BY <2>2, <3>2, <3>4
  <2>6. FlipsOn(R, f, f + q, bulls) =>
            more # {} /\ (R[f + q].day \in more => R[f + q].day \in bulls)
    BY <1>5, <2>2, <2>5
  <2>7. q \in 0..(q + 1) /\ q # q + 1 /\ q + 1 \in Nat \ {0}
    OBVIOUS
  <2>8. RulesEnd(R, f, q, q + 1, avg_price, bulls, more)
    BY <1>6, <1>8, <2>6, <2>7 DEF RulesEnd
  <2>9. f + (q + 1) \in DOMAIN R /\ x.day = R[f + (q + 1)].day
    BY <1>2, <2>2, <2>3, <2>4
  <2> QED BY <2>7, <2>8, <2>9
<1> QED BY <1>7, <1>8

\* A list that is cut short ends with the row before.
LEMMA CutEnds ==
    ASSUME NEW R \in Seq(Row), NEW Q \in Seq(Row), InOrderOfDays(R), InOrderOfDays(Q),
           NEW entry \in Nat, NEW last \in Nat, CutShort(R, Q, entry, last),
           NEW i \in DOMAIN R, i + 1 \in DOMAIN R, R[i + 1].day = last, entry <= R[i].day,
           NEW j \in DOMAIN Q, Q[j] = R[i]
    PROVE  Len(Q) = j
<1> SUFFICES ASSUME Len(Q) # j PROVE FALSE
  OBVIOUS
<1>1. j + 1 \in DOMAIN Q /\ j < j + 1
  OBVIOUS
<1>2. Q[j].day < Q[j + 1].day /\ Q[j + 1].day < last
  BY <1>1 DEF InOrderOfDays, CutShort
<1>3. PICK a \in Nat, b \in Nat : a = Q[j].day /\ b = Q[j + 1].day
  BY <1>1, RowsDated, ByTheDay
<1>4. a < b /\ b < last /\ entry <= a
  BY <1>2, <1>3
<1>5. entry <= b
  BY <1>4
<1>6. PICK k \in DOMAIN R : R[k] = Q[j + 1]
  BY <1>1, <1>3, <1>4, <1>5 DEF CutShort
<1>7. R[i].day < R[k].day /\ R[k].day < R[i + 1].day
  BY <1>2, <1>6
<1>8. i < k /\ k < i + 1
  BY <1>7, RowsDated, ByTheDay
<1> QED BY <1>8

\* A walk that a rule ended ends no later over the same rows and fewer bull days.
LEMMA WalkStands ==
    ASSUME NEW R \in Seq(Row), NEW Q \in Seq(Row), InOrderOfDays(R), InOrderOfDays(Q),
           NEW entry \in Nat, NEW f, FirstFrom(R, f, entry), NEW avg_price, NEW bulls, NEW more,
           NEW x, x = Walk(R, f, avg_price, bulls),
           x.reason # "end_of_data", x.reason = "regime_flip" => more # {},
           \A d \in more : d <= x.day => d \in bulls,
           SameRows(R, Q, entry, x.day) \/ CutShort(R, Q, entry, x.day)
    PROVE  \E g : FirstFrom(Q, g, entry) /\ Walk(Q, g, avg_price, more).day <= x.day
<1>1. f \in DOMAIN R /\ R[f].day >= entry
  BY DEF FirstFrom
<1>2. PICK n \in Nat \ {0}, q \in Nat : /\ f + n \in DOMAIN R /\ x.day = R[f + n].day
                                        /\ RulesEnd(R, f, q, n, avg_price, bulls, more)
  <2> USE <1>1
  <2> QED BY RuleOfWalk
<1>3. PICK last \in Nat : last = x.day
  BY <1>2, RowsDated, ByTheDay
<1>4. f \in Nat /\ f < f + n
  BY <1>1, <1>2
<1>5. R[f].day < last
  BY <1>1, <1>2, <1>3, <1>4 DEF InOrderOfDays
<1>6. PICK g : FirstFrom(Q, g, entry) /\ Q[g] = R[f]
  <2>1. SameRows(R, Q, entry, last) \/ CutShort(R, Q, entry, last)
    BY <1>3
  <2> QED BY <1>5, <2>1, SameFirst
<1>7. g \in DOMAIN Q
  BY <1>6 DEF FirstFrom
<1>8. ASSUME NEW row, row.day \in Nat, R[f].day <= row.day PROVE entry <= row.day
  <2>1. PICK a \in Nat, b \in Nat : a = R[f].day /\ b = row.day
    BY <1>1, <1>8, RowsDated, ByTheDay
  <2>2. entry <= a /\ a <= b
    BY <1>1, <1>8, <2>1
  <2>3. entry <= b
    BY <2>2
  <2> QED BY <2>1, <2>3
<1>9. /\ \A i \in DOMAIN R : R[i].day \in Nat
      /\ \A j \in DOMAIN Q : Q[j].day \in Nat
  BY RowsDated, ByTheDay
<1>10. CASE SameRows(R, Q, entry, last)
  <2>1. \A i \in DOMAIN R : Between(R[i], R[f].day, R[f + n].day) => \E j \in DOMAIN Q : Q[j] = R[i]
    BY <1>2, <1>3, <1>8, <1>9, <1>10 DEF Between, SameRows
  <2>2. \A j \in DOMAIN Q : Between(Q[j], R[f].day, R[f + n].day) => \E i \in DOMAIN R : R[i] = Q[j]
    BY <1>2, <1>3, <1>8, <1>9, <1>10 DEF Between, SameRows
  <2>3. SameFrom(R, Q, f, g, n)
    <3>1. Matching(R, Q, R[f].day, R[f + n].day)
      BY <2>1, <2>2 DEF Matching
    <3> HIDE <2>1, <2>2
    <3>2. n \in Nat /\ f + n \in DOMAIN R
      BY <1>2
    <3> QED BY <1>1, <1>6, <1>7, <3>1, <3>2, RowsDated, Aligned
  <2>4. EarlierWalk(R, Q, f, g, n, q, avg_price, bulls, more)
    BY <1>2, <2>3 DEF EarlierWalk
  <2>5. R[f + n].day <= last
    BY <1>2, <1>3
  <2>6. Walk(Q, g, avg_price, more).day <= last
    BY <1>1, <1>7, <2>4, <2>5, EndsEarlier
  <2> QED BY <1>3, <1>6, <2>6
<1>11. CASE CutShort(R, Q, entry, last)
  <2>1. PICK k \in Nat : k = n - 1
    OBVIOUS
  <2>2. f + k \in DOMAIN R /\ f + n = (f + k) + 1 /\ f + k < f + n /\ f <= f + k
    BY <1>1, <1>2, <1>4, <2>1
  <2>3. R[f + k].day < last /\ R[f].day <= R[f + k].day
    BY <1>1, <1>2, <1>3, <2>2, RowsDated, ByTheDay
  <2>4. \A row : row.day \in Nat /\ Between(row, R[f].day, R[f + k].day)
                    => entry <= row.day /\ row.day < last
    <3> SUFFICES ASSUME NEW row, row.day \in Nat, Between(row, R[f].day, R[f + k].day)
                 PROVE  entry <= row.day /\ row.day < last
      OBVIOUS
    <3>1. PICK a \in Nat, b \in Nat : a = R[f + k].day /\ b = row.day
      BY <1>9, <2>2
    <3>2. a < last /\ b <= a
      BY <2>3, <3>1 DEF Between
    <3>3. b < last
      BY <3>2
    <3> QED BY <1>8, <3>1, <3>3 DEF Between
  <2>5. \A i \in DOMAIN R : Between(R[i], R[f].day, R[f + k].day) => \E j \in DOMAIN Q : Q[j] = R[i]
    BY <1>9, <1>11, <2>4 DEF CutShort
  <2>6. \A j \in DOMAIN Q : Between(Q[j], R[f].day, R[f + k].day) => \E i \in DOMAIN R : R[i] = Q[j]
    BY <1>9, <1>11, <2>4 DEF CutShort
  <2>7. SameFrom(R, Q, f, g, k)
    <3>1. Matching(R, Q, R[f].day, R[f + k].day)
      BY <2>5, <2>6 DEF Matching
    <3> HIDE <2>5, <2>6
    <3>2. k \in Nat /\ f + k \in DOMAIN R
      BY <1>2, <2>2
    <3> QED BY <1>1, <1>6, <1>7, <3>1, <3>2, RowsDated, Aligned
  <2>8. g + k \in DOMAIN Q /\ Q[g + k] = R[f + k]
    <3>1. k \in 0..k
      BY <2>1
    <3> QED BY <2>7, <3>1 DEF SameFrom
  <2>9. entry <= R[f + k].day
    BY <1>8, <1>9, <2>2, <2>3
  <2>10. Len(Q) = g + k
    BY <1>2, <1>3, <1>11, <2>2, <2>8, <2>9, CutEnds
  <2>11. EarlierWalk(R, Q, f, g, k, q, avg_price, bulls, more)
    BY <2>7, <2>10 DEF EarlierWalk
  <2>12. R[f + k].day <= last
    <3>1. PICK a \in Nat : a = R[f + k].day
      BY <1>9, <2>2
    <3>2. a < last
      BY <2>3, <3>1
    <3>3. a <= last
      BY <3>2
    <3> QED BY <3>1, <3>3
  <2>13. Walk(Q, g, avg_price, more).day <= last
    BY <1>1, <1>7, <2>11, <2>12, EndsEarlier
  <2> QED BY <1>3, <1>6, <2>13
<1> QED BY <1>3, <1>10, <1>11

----------------------------------------------------------------------------
(* A run on the market as it was then: D are the days up to it *)

DayOf(D) == D[Len(D)].day
Market(D) == D \in Seq(DayBar) /\ D # <<>> /\ InOrderOfDays(D)

RegimeWindow(D) == At(D, {i \in DOMAIN D : D[i].day >= DayOf(D) - Lookback})
BullsOn(D) ==
    LET window == RegimeWindow(D)
        is_bull[i \in 0..Len(window)] ==
            IF i = 0 THEN StartsBull
            ELSE IF is_bull[i - 1] THEN window[i].score >= EC.exit_threshold
            ELSE window[i].score > EC.entry_threshold
    IN  {window[i].day : i \in {k \in DOMAIN window : is_bull[k]}}

PriceWindow(D, s) == At(D, {i \in DOMAIN D : s \in DOMAIN D[i].close
                                             /\ D[i].day >= DayOf(D) - Prefetch})
RealOn(D, s) == [i \in DOMAIN PriceWindow(D, s) |->
                    Bar(PriceWindow(D, s)[i].day, PriceWindow(D, s)[i].close[s])]
RowsOn(D, s) ==
    IF s \in DOMAIN D[Len(D)].close
    THEN Append(RealOn(D, s), Bar(DayOf(D) + 1, D[Len(D)].close[s]))
    ELSE IF RealOn(D, s) = <<>> THEN <<>> ELSE Front(RealOn(D, s))

LEMMA OfToday ==
    /\ today = DayOf(days) /\ BullDays = BullsOn(days)
    /\ \A s : RowsOf(s) = RowsOn(days, s)
<1>1. today = DayOf(days)
  BY DEF today, DayOf
<1>2. BullDays = BullsOn(days)
  BY DEF BullDays, BullsOn, RegimeWindow, today, DayOf
<1>3. \A s : RowsOf(s) = RowsOn(days, s)
  BY DEF RowsOf, RowsOn, RealOn, PriceWindow, today, DayOf
<1> QED BY <1>1, <1>2, <1>3

\* How the regime turns from day to day.
Turns(b, w) ==
    /\ b[0] = FALSE
    /\ \A i \in 1..Len(w) :
          b[i] = IF b[i - 1] THEN w[i].score >= EC.exit_threshold
                 ELSE w[i].score > EC.entry_threshold

LEMMA BullsAre ==
    ASSUME NEW D \in Seq(DayBar)
    PROVE  \E b : /\ Turns(b, RegimeWindow(D))
                  /\ BullsOn(D) = {RegimeWindow(D)[i].day : i \in {k \in DOMAIN RegimeWindow(D) : b[k]}}
<1> DEFINE w == RegimeWindow(D)
           N == Len(w)
           Z == 0..N
           body(i, f) == IF i = 0 THEN StartsBull
                         ELSE IF f[i - 1] THEN w[i].score >= EC.exit_threshold
                         ELSE w[i].score > EC.entry_threshold
           rank == [i \in Z |-> i]
           prev == [i \in Z \ {0} |-> i - 1]
           step == [p \in Z \X BOOLEAN |-> IF p[2] THEN w[p[1]].score >= EC.exit_threshold
                                           ELSE w[p[1]].score > EC.entry_threshold]
<1>1. N \in Nat
  BY AtType DEF RegimeWindow
<1> HIDE DEF w, N
<1>2. Descends(Z, {0}, rank, prev)
  <2>1. \A i \in Z \ {0} : i - 1 \in Z /\ i - 1 < i /\ i - 1 \in Nat
    BY <1>1
  <2>2. rank \in [Z -> Nat] /\ prev \in [Z \ {0} -> Z]
    BY <1>1, <2>1
  <2>3. \A i \in Z \ {0} : rank[prev[i]] < rank[i]
    BY <2>1
  <2> HIDE DEF rank, prev, Z
  <2> QED BY <2>2, <2>3 DEF Descends
<1>3. step \in [Z \X BOOLEAN -> BOOLEAN]
  <2> DEFINE val(p) == IF p[2] THEN w[p[1]].score >= EC.exit_threshold
                       ELSE w[p[1]].score > EC.entry_threshold
  <2>1. ASSUME NEW p \in Z \X BOOLEAN PROVE val(p) \in BOOLEAN
    <3>1. (w[p[1]].score >= EC.exit_threshold) \in BOOLEAN
      OBVIOUS
    <3>2. (w[p[1]].score > EC.entry_threshold) \in BOOLEAN
      OBVIOUS
    <3>3. CASE p[2]
      BY <3>1, <3>3
    <3>4. CASE ~p[2]
      BY <3>2, <3>4
    <3> QED BY <3>3, <3>4
  <2> HIDE DEF val, Z
  <2>2. [p \in Z \X BOOLEAN |-> val(p)] \in [Z \X BOOLEAN -> BOOLEAN]
    BY <2>1
  <2> QED BY <2>2 DEF val
<1>4. \E g \in [Z -> BOOLEAN] : Solution(g, Z, {0}, prev, FALSE, step)
  <2> HIDE DEF Z, rank, prev, step
  <2> QED BY <1>2, <1>3, Recursion
<1>5. PICK g \in [Z -> BOOLEAN] :
        \A i \in Z : g[i] = IF i \in {0} THEN FALSE ELSE step[<<i, g[prev[i]]>>]
  BY <1>4 DEF Solution
<1>6. \A i \in Z : g[i] = body(i, g)
  <2> SUFFICES ASSUME NEW i \in Z, i # 0 PROVE g[i] = body(i, g)
    BY <1>5 DEF StartsBull
  <2>1. /\ i - 1 \in Z /\ prev[i] = i - 1 /\ g[i - 1] \in BOOLEAN
        /\ g[i] = step[<<i, g[i - 1]>>]
    <3>1. i - 1 \in Z /\ prev[i] = i - 1
      BY <1>1
    <3>2. g[i - 1] \in BOOLEAN
      BY <3>1
    <3> HIDE DEF prev, step
    <3> QED BY <1>5, <3>1, <3>2
  <2>2. step[<<i, g[i - 1]>>] = IF g[i - 1] THEN w[i].score >= EC.exit_threshold
                                ELSE w[i].score > EC.entry_threshold
    <3> HIDE DEF Z
    <3> QED BY <2>1
  <2> QED BY <2>1, <2>2
<1>7. g = [i \in Z |-> body(i, g)]
  <2> HIDE DEF body, Z
  <2> QED BY <1>6
<1> DEFINE h == CHOOSE f : f = [i \in Z |-> body(i, f)]
<1>8. BullsOn(D) = {w[i].day : i \in {k \in DOMAIN w : h[k]}}
  BY DEF BullsOn, w, N
<1>9. h = [i \in Z |-> body(i, h)]
  <2> HIDE DEF body, Z
  <2> QED BY <1>7
<1> HIDE DEF h
<1>10. Turns(h, w)
  <2>1. 0 \in Z /\ \A i \in 1..N : i \in Z /\ i # 0
    BY <1>1
  <2>2. \A i \in Z : h[i] = body(i, h)
    <3> HIDE DEF body, Z
    <3> QED BY <1>9
  <2>3. h[0] = FALSE
    BY <2>1, <2>2 DEF StartsBull
  <2>4. \A i \in 1..N : h[i] = IF h[i - 1] THEN w[i].score >= EC.exit_threshold
                               ELSE w[i].score > EC.entry_threshold
    <3> HIDE DEF Z
    <3> QED BY <2>1, <2>2
  <2> QED BY <2>3, <2>4 DEF Turns, N
<1> QED BY <1>8, <1>10 DEF w

LEMMA DaysDated == Dated(DayBar)
BY DEF Dated, DayBar

\* The market up to an earlier day.
UpTo(D, k, C) == k \in 1..Len(D) /\ C = SubSeq(D, 1, k)

LEMMA MarketThen ==
    ASSUME NEW D, Market(D), NEW k, NEW C, UpTo(D, k, C)
    PROVE  /\ Market(C) /\ Len(C) = k /\ DOMAIN C = 1..k /\ \A i \in 1..k : C[i] = D[i]
           /\ DayOf(C) = D[k].day /\ DayOf(C) \in Nat /\ DayOf(D) \in Nat
           /\ DayOf(C) <= DayOf(D)
           /\ \A i \in DOMAIN D : i \in 1..k <=> D[i].day <= DayOf(C)
           /\ \A i \in DOMAIN D : D[i].day <= DayOf(D)
<1>1. D \in Seq(DayBar) /\ InOrderOfDays(D) /\ D # <<>>
  BY DEF Market
<1>2. PICK N \in Nat : Len(D) = N /\ DOMAIN D = 1..N
  BY <1>1
<1>3. k \in 1..N /\ N \in 1..N /\ k <= N /\ k \in Nat /\ C = SubSeq(D, 1, k)
  BY <1>2 DEF UpTo
<1>4. /\ C \in Seq(DayBar) /\ Len(C) = k /\ DOMAIN C = 1..k /\ \A i \in 1..k : C[i] = D[i]
  BY <1>1, <1>2, <1>3
<1>5. C # <<>>
  <2> HIDE <1>3
  <2>1. k # 0
    BY <1>3
  <2> QED BY <1>4, <2>1
<1>6. InOrderOfDays(C)
  <2>1. \A i \in 1..k : i \in 1..N
    BY <1>3
  <2> QED BY <1>1, <1>2, <1>4, <2>1 DEF InOrderOfDays
<1>7. DayOf(C) = D[k].day /\ DayOf(D) = D[N].day
  BY <1>2, <1>3, <1>4 DEF DayOf
<1>8. \A i, j \in 1..N : /\ D[i].day \in Nat /\ (i <= j <=> D[i].day <= D[j].day)
  BY <1>1, <1>2, DaysDated, ByTheDay
<1>9. \A i \in 1..N : i \in 1..k <=> i <= k
  BY <1>3
<1>10. /\ DayOf(C) \in Nat /\ DayOf(D) \in Nat /\ DayOf(C) <= DayOf(D)
       /\ \A i \in 1..N : i \in 1..k <=> D[i].day <= DayOf(C)
       /\ \A i \in 1..N : D[i].day <= DayOf(D)
  BY <1>3, <1>7, <1>8, <1>9
<1> QED BY <1>1, <1>2, <1>4, <1>5, <1>6, <1>7, <1>10 DEF Market

\* A regime that is computed from a later day on has no bull days that one from an
\* earlier day on has not: it starts bearish, and turns at the same scores.
LEMMA FewerBulls ==
    ASSUME NEW D, Market(D), NEW k, NEW C, UpTo(D, k, C),
           NEW d \in BullsOn(D), d <= DayOf(C)
    PROVE  d \in BullsOn(C)
<1> DEFINE w == RegimeWindow(C)
           v == RegimeWindow(D)
           from == DayOf(C) - Lookback
           since == DayOf(D) - Lookback
           W == {i \in DOMAIN C : C[i].day >= from}
           V == {i \in DOMAIN D : D[i].day >= since}
<1>1. /\ Market(C) /\ DOMAIN C = 1..k /\ \A i \in 1..k : C[i] = D[i]
      /\ DayOf(C) \in Nat /\ DayOf(D) \in Nat /\ DayOf(C) <= DayOf(D)
      /\ \A i \in DOMAIN D : i \in 1..k <=> D[i].day <= DayOf(C)
      /\ \A i \in 1..k : i \in DOMAIN D
  <2>1. \A i \in 1..k : i \in DOMAIN D
    BY DEF UpTo, Market
  <2> QED BY <2>1, MarketThen
<1>2. /\ D \in Seq(DayBar) /\ InOrderOfDays(D) /\ C \in Seq(DayBar) /\ InOrderOfDays(C)
  BY <1>1 DEF Market
<1>3. from \in Int /\ since \in Int /\ from <= since
  BY <1>1, LiveAssumption
<1>4. w = At(C, W) /\ v = At(D, V)
  BY DEF RegimeWindow
<1> HIDE DEF w, v, from, since
<1>5. w \in Seq(DayBar) /\ Lists(w, {C[i] : i \in DOMAIN C \cap W})
  <2> HIDE DEF W
  <2> QED BY <1>2, <1>4, DaysDated, AtLists
<1>6. v \in Seq(DayBar) /\ Lists(v, {D[i] : i \in DOMAIN D \cap V})
  <2> HIDE DEF V
  <2> QED BY <1>2, <1>4, DaysDated, AtLists
<1>7. PICK a : Turns(a, w) /\ BullsOn(C) = {w[i].day : i \in {n \in DOMAIN w : a[n]}}
  BY <1>2, BullsAre DEF w
<1>8. PICK b : Turns(b, v) /\ BullsOn(D) = {v[i].day : i \in {n \in DOMAIN v : b[n]}}
  BY <1>2, BullsAre DEF v
<1>9. PICK N \in Nat : DOMAIN v = 1..N /\ Len(v) = N
  BY <1>6
<1>10. PICK M \in Nat : DOMAIN w = 1..M /\ Len(w) = M
  BY <1>5
\* The days of the later window up to the earlier run are in the earlier window.
<1>11. ASSUME NEW i \in 1..N, v[i].day <= DayOf(C)
       PROVE  \E j \in 1..M : w[j] = v[i]
  <2>1. PICK p \in DOMAIN D : D[p] = v[i] /\ D[p].day >= since
    BY <1>6, <1>9 DEF Lists
  <2>2. p \in 1..k /\ C[p] = D[p]
    BY <1>1, <1>11, <2>1
  <2>3. D[p].day \in Nat
    BY <1>2, <2>1, DaysDated, ByTheDay
  <2>4. C[p].day >= from
    BY <1>3, <2>1, <2>2, <2>3
  <2>5. C[p] \in {C[q] : q \in DOMAIN C \cap W}
    BY <1>1, <2>2, <2>4
  <2> QED BY <1>5, <1>10, <2>1, <2>2, <2>5 DEF Lists
\* And the other way round.
<1>12. ASSUME NEW j \in 1..M, w[j].day >= since
       PROVE  \E i \in 1..N : v[i] = w[j]
  <2>1. PICK p \in DOMAIN C : C[p] = w[j]
    BY <1>5, <1>10 DEF Lists
  <2>2. p \in DOMAIN D /\ D[p] = C[p]
    BY <1>1, <1>2, <2>1
  <2>3. D[p] \in {D[q] : q \in DOMAIN D \cap V}
    BY <1>12, <2>1, <2>2
  <2> QED BY <1>6, <1>9, <2>1, <2>2, <2>3 DEF Lists
<1>13. /\ \A i, j \in 1..N : v[i].day \in Nat /\ (i < j <=> v[i].day < v[j].day)
       /\ \A i, j \in 1..M : w[i].day \in Nat /\ (i < j <=> w[i].day < w[j].day)
  BY <1>5, <1>6, <1>9, <1>10, DaysDated, ByTheDay DEF Lists
<1>14. /\ \A i \in 1..N : v[i].score \in Int
       /\ EC.exit_threshold \in Int /\ EC.entry_threshold \in Int
       /\ EC.exit_threshold <= EC.entry_threshold
  <2>1. \A i \in 1..N : v[i] \in DayBar
    BY <1>6, <1>9
  <2>2. \A i \in 1..N : v[i].score \in Int
    BY <2>1 DEF DayBar
  <2>3. EC.exit_threshold \in Int /\ EC.entry_threshold \in Int
    BY LiveAssumption
  <2> QED BY <2>2, <2>3, LiveAssumption
<1>15. /\ \A i \in 1..N : b[i] = IF b[i - 1] THEN v[i].score >= EC.exit_threshold
                                 ELSE v[i].score > EC.entry_threshold
       /\ \A j \in 1..M : a[j] = IF a[j - 1] THEN w[j].score >= EC.exit_threshold
                                 ELSE w[j].score > EC.entry_threshold
       /\ b[0] = FALSE
  BY <1>7, <1>8, <1>9, <1>10 DEF Turns
<1> DEFINE Covered(i) == \E j \in 1..M : w[j] = v[i] /\ a[j]
           Good == {i \in 0..N : i = 0 \/ (b[i] /\ v[i].day <= DayOf(C) => Covered(i))}
<1>16. ASSUME NEW i \in 1..N, i - 1 \in Good PROVE i \in Good
  <2> SUFFICES ASSUME b[i], v[i].day <= DayOf(C) PROVE Covered(i)
    BY <1>9
  <2>1. PICK j \in 1..M : w[j] = v[i]
    BY <1>11
  <2>2. w[j].score \in Int /\ w[j].score = v[i].score
    BY <1>14, <2>1
  <2>3. CASE ~b[i - 1]
    <3>1. w[j].score > EC.entry_threshold
      BY <1>15, <2>2, <2>3
    <3>2. w[j].score >= EC.exit_threshold
      BY <1>14, <2>2, <3>1
    <3>3. a[j]
      BY <1>15, <3>1, <3>2
    <3> QED BY <2>1, <3>3
  <2>4. CASE b[i - 1]
    <3>1. w[j].score >= EC.exit_threshold
      BY <1>15, <2>2, <2>4
    <3>2. PICK h : h = i - 1
      OBVIOUS
    <3>3. h # 0
      BY <1>15, <2>4, <3>2
    <3>4. h \in 1..N /\ h < i /\ i = h + 1
      BY <1>9, <3>2, <3>3
    <3>5. v[h].day < v[i].day
      BY <1>13, <3>4
    <3>6. v[h].day <= DayOf(C)
      <4>1. PICK x \in Nat, y \in Nat : x = v[h].day /\ y = v[i].day
        BY <1>13, <3>4
      <4>2. x < y /\ y <= DayOf(C)
        BY <3>5, <4>1
      <4>3. x <= DayOf(C)
        BY <1>1, <4>2
      <4> QED BY <4>1, <4>3
    <3>7. PICK g \in 1..M : w[g] = v[h] /\ a[g]
      BY <1>16, <2>4, <3>2, <3>3, <3>6
    <3>8. g < j
      BY <1>13, <2>1, <3>5, <3>7
    \* Nothing is between them.
    <3>9. ~(g + 1 < j)
      <4> SUFFICES ASSUME g + 1 < j PROVE FALSE
        OBVIOUS
      <4>1. g + 1 \in 1..M /\ g < g + 1
        BY <1>10
      <4>2. w[g].day < w[g + 1].day /\ w[g + 1].day < w[j].day
        BY <1>13, <4>1
      <4>3. v[h].day >= since
        BY <1>6, <1>9, <3>4 DEF Lists
      <4>4. PICK x \in Nat, y \in Nat : x = v[h].day /\ y = w[g + 1].day
        BY <1>13, <3>4, <4>1
      <4>5. x < y /\ x >= since
        BY <3>7, <4>2, <4>3, <4>4
      <4>6. y >= since
        BY <1>3, <4>5
      <4>7. PICK m \in 1..N : v[m] = w[g + 1]
        BY <1>12, <4>1, <4>4, <4>6
      <4>8. v[h].day < v[m].day /\ v[m].day < v[i].day
        BY <2>1, <3>7, <4>2, <4>7
      <4>9. h < m /\ m < i
        BY <1>13, <3>4, <4>8
      <4> QED BY <3>4, <4>9
    <3>10. j - 1 = g
      BY <3>8, <3>9
    <3>11. a[j]
      BY <1>15, <3>1, <3>7, <3>10
    <3> QED BY <2>1, <3>11
  <2> QED BY <2>3, <2>4
<1>17. \A i \in 0..N : i \in Good
  <2>1. 0 \in Good
    OBVIOUS
  <2> HIDE DEF Good
  <2> QED BY <1>16, <2>1, FoundAll
<1>18. PICK i \in 1..N : b[i] /\ v[i].day = d
  BY <1>8, <1>9
<1>19. i \in 0..N /\ i # 0
  BY <1>9
<1>20. Covered(i)
  BY <1>17, <1>18, <1>19
<1> QED BY <1>7, <1>10, <1>18, <1>20

\* The bars of a symbol in the window of a run.
RealBars(D, s) ==
    {Bar(D[i].day, D[i].close[s]) :
        i \in {k \in DOMAIN D : s \in DOMAIN D[k].close /\ D[k].day >= DayOf(D) - Prefetch}}

LEMMA BarsAreRows ==
    ASSUME NEW D, Market(D), NEW i \in DOMAIN D, NEW s \in DOMAIN D[i].close
    PROVE  Bar(D[i].day, D[i].close[s]) \in Row /\ Bar(D[i].day, D[i].close[s]).day = D[i].day
<1>1. D[i] \in DayBar
  BY DEF Market
<1>2. PICK S \in SUBSET Symbols : D[i].close \in [S -> Nat \ {0}]
  BY <1>1 DEF DayBar
<1>3. D[i].close[s] \in Nat \ {0} /\ D[i].day \in Nat
  BY <1>1, <1>2 DEF DayBar
<1> QED BY <1>3 DEF Bar, Row

LEMMA RealListed ==
    ASSUME NEW D, Market(D), NEW s
    PROVE  RealOn(D, s) \in Seq(Row) /\ Lists(RealOn(D, s), RealBars(D, s))
<1> DEFINE P == {i \in DOMAIN D : s \in DOMAIN D[i].close /\ D[i].day >= DayOf(D) - Prefetch}
           w == PriceWindow(D, s)
           r == RealOn(D, s)
<1>1. D \in Seq(DayBar) /\ InOrderOfDays(D)
  BY DEF Market
<1>2. w = At(D, P)
  BY DEF PriceWindow
<1>3. w \in Seq(DayBar) /\ Lists(w, {D[i] : i \in DOMAIN D \cap P})
  <2> HIDE DEF P, w
  <2> QED BY <1>1, <1>2, DaysDated, AtLists
<1>4. r = [i \in DOMAIN w |-> Bar(w[i].day, w[i].close[s])]
  BY DEF RealOn
<1> HIDE DEF w, r
<1>5. PICK N \in Nat : DOMAIN w = 1..N /\ Len(w) = N
  BY <1>3
<1>6. \A i \in 1..N : \E p \in P : D[p] = w[i]
  BY <1>3, <1>5 DEF Lists
<1>7. \A p \in P : \E i \in 1..N : w[i] = D[p]
  <2>1. \A p \in P : D[p] \in {D[i] : i \in DOMAIN D \cap P}
    OBVIOUS
  <2> QED BY <1>3, <1>5, <2>1 DEF Lists
<1>8. \A i \in 1..N : r[i] = Bar(w[i].day, w[i].close[s]) /\ r[i] \in Row /\ r[i].day = w[i].day
  <2> SUFFICES ASSUME NEW i \in 1..N
               PROVE  r[i] = Bar(w[i].day, w[i].close[s]) /\ r[i] \in Row /\ r[i].day = w[i].day
    OBVIOUS
  <2>1. PICK p \in P : D[p] = w[i]
    BY <1>6
  <2>2. r[i] = Bar(w[i].day, w[i].close[s])
    BY <1>4, <1>5
  <2>3. p \in DOMAIN D /\ s \in DOMAIN D[p].close
    OBVIOUS
  <2>4. Bar(D[p].day, D[p].close[s]) \in Row /\ Bar(D[p].day, D[p].close[s]).day = D[p].day
    BY <2>3, BarsAreRows
  <2> QED BY <2>1, <2>2, <2>4
<1>9. r \in Seq(Row) /\ DOMAIN r = 1..N
  BY <1>4, <1>5, <1>8
<1>10. InOrderOfDays(r)
  BY <1>3, <1>5, <1>8, <1>9 DEF Lists, InOrderOfDays
<1>11. ASSUME NEW x PROVE x \in RealBars(D, s) <=> \E a \in DOMAIN r : r[a] = x
  <2>1. RealBars(D, s) = {Bar(D[i].day, D[i].close[s]) : i \in P}
    BY DEF RealBars
  <2>2. ASSUME x \in RealBars(D, s) PROVE \E a \in 1..N : r[a] = x
    <3>1. PICK p \in P : x = Bar(D[p].day, D[p].close[s])
      BY <2>1, <2>2
    <3>2. PICK i \in 1..N : w[i] = D[p]
      BY <1>7
    <3> QED BY <1>8, <3>1, <3>2
  <2>3. ASSUME NEW a \in 1..N, r[a] = x PROVE x \in RealBars(D, s)
    <3>1. PICK p \in P : D[p] = w[a]
      BY <1>6
    <3>2. x = Bar(D[p].day, D[p].close[s])
      BY <1>8, <2>3, <3>1
    <3> QED BY <2>1, <3>2
  <2> QED BY <1>9, <2>2, <2>3
<1> QED BY <1>9, <1>10, <1>11 DEF Lists, r

\* A run has the bars of its window and a row for the next day, or all but the last bar.
OneMoreOrLess(E, bars, next) ==
    \/ \E y : y.day = next /\ E = bars \cup {y}
    \/ E = {} /\ bars = {}
    \/ \E z \in bars : E = bars \ {z} /\ \A x \in bars : x = z \/ x.day < z.day

LEMMA RowsListed ==
    ASSUME NEW D, Market(D), NEW s
    PROVE  /\ RowsOn(D, s) \in Seq(Row)
           /\ \E E : Lists(RowsOn(D, s), E) /\ OneMoreOrLess(E, RealBars(D, s), DayOf(D) + 1)
<1> DEFINE r == RealOn(D, s)
           next == DayOf(D) + 1
           y == Bar(next, D[Len(D)].close[s])
           bars == RealBars(D, s)
<1>1. r \in Seq(Row) /\ Lists(r, bars)
  BY RealListed
<1>2. RowsOn(D, s) = IF s \in DOMAIN D[Len(D)].close THEN Append(r, y)
                     ELSE IF r = <<>> THEN <<>> ELSE Front(r)
  BY DEF RowsOn
<1>3. Len(D) \in DOMAIN D /\ D \in Seq(DayBar)
  BY DEF Market
<1>4. DayOf(D) \in Nat /\ \A i \in DOMAIN D : D[i].day <= DayOf(D) /\ D[i].day \in Nat
  <2>1. UpTo(D, Len(D), SubSeq(D, 1, Len(D)))
    BY <1>3 DEF UpTo
  <2>2. DayOf(D) \in Nat /\ \A i \in DOMAIN D : D[i].day <= DayOf(D)
    BY <2>1, MarketThen
  <2>3. InOrderOfDays(D)
    BY DEF Market
  <2> QED BY <1>3, <2>2, <2>3, DaysDated, ByTheDay
<1>5. ASSUME NEW x \in bars PROVE x.day \in Nat /\ x.day <= DayOf(D)
  <2>1. PICK i \in DOMAIN D : s \in DOMAIN D[i].close /\ x = Bar(D[i].day, D[i].close[s])
    BY DEF RealBars
  <2>2. x.day = D[i].day
    BY <2>1, BarsAreRows
  <2> QED BY <1>4, <2>2
<1> HIDE DEF r, bars
<1>6. CASE s \in DOMAIN D[Len(D)].close
  <2>1. y \in Row /\ y.day = next
    <3>1. D[Len(D)].close[s] \in Nat \ {0}
      <4>1. D[Len(D)] \in DayBar
        BY <1>3
      <4>2. PICK S \in SUBSET Symbols : D[Len(D)].close \in [S -> Nat \ {0}]
        BY <4>1 DEF DayBar
      <4> QED BY <1>6, <4>2
    <3>2. next \in Nat
      BY <1>4
    <3> QED BY <3>1, <3>2 DEF Bar, Row
  <2>2. \A x \in bars : x.day < y.day
    <3>1. \A x \in bars : x.day < next
      <4> SUFFICES ASSUME NEW x \in bars PROVE x.day < next
        OBVIOUS
      <4>1. PICK a \in Nat : a = x.day
        BY <1>5
      <4>2. a <= DayOf(D)
        BY <1>5, <4>1
      <4> QED BY <1>4, <4>1, <4>2
    <3> QED BY <2>1, <3>1
  <2> HIDE DEF y, next
  <2>3. Append(r, y) \in Seq(Row) /\ Lists(Append(r, y), bars \cup {y})
    BY <1>1, <2>1, <2>2, RowsDated, ListsOneMore
  <2>4. OneMoreOrLess(bars \cup {y}, bars, next)
    BY <2>1 DEF OneMoreOrLess
  <2> QED BY <1>2, <1>6, <2>3, <2>4 DEF next, bars
<1>7. CASE s \notin DOMAIN D[Len(D)].close /\ r = <<>>
  <2>1. RowsOn(D, s) = <<>> /\ <<>> \in Seq(Row) /\ DOMAIN <<>> = {}
    BY <1>2, <1>7
  <2>2. bars = {}
    BY <1>1, <1>7, <2>1 DEF Lists
  <2>3. Lists(RowsOn(D, s), {}) /\ OneMoreOrLess({}, bars, next)
    BY <1>1, <1>7, <2>1, <2>2 DEF OneMoreOrLess
  <2> QED BY <2>1, <2>3 DEF bars
<1>8. CASE s \notin DOMAIN D[Len(D)].close /\ r # <<>>
  <2>1. RowsOn(D, s) = Front(r)
    BY <1>2, <1>8
  <2>2. PICK z : z = r[Len(r)]
    OBVIOUS
  <2>3. /\ z \in bars /\ \A x \in bars : x = z \/ x.day < z.day
        /\ Front(r) \in Seq(Row) /\ Lists(Front(r), bars \ {z})
    BY <1>1, <1>8, <2>2, RowsDated, FrontLists
  <2>4. OneMoreOrLess(bars \ {z}, bars, next)
    BY <2>3 DEF OneMoreOrLess
  <2> QED BY <2>1, <2>3, <2>4 DEF bars
<1> QED BY <1>6, <1>7, <1>8

\* Two runs see the same bars of a symbol from a day in both windows to the earlier run.
LEMMA BarsStay ==
    ASSUME NEW D, Market(D), NEW k, NEW C, UpTo(D, k, C), NEW s, NEW entry \in Nat,
           entry >= DayOf(D) - Prefetch, NEW last \in Nat, last <= DayOf(C),
           NEW row, Between(row, entry, last)
    PROVE  /\ row \in RealBars(C, s) <=> row \in RealBars(D, s)
           /\ row \in RealBars(D, s) => row.day \in Nat
<1>1. /\ Market(C) /\ DOMAIN C = 1..k /\ \A i \in 1..k : C[i] = D[i]
      /\ DayOf(C) \in Nat /\ DayOf(D) \in Nat /\ DayOf(C) <= DayOf(D)
      /\ \A i \in DOMAIN D : i \in 1..k <=> D[i].day <= DayOf(C)
  BY MarketThen
<1>2. \A i \in 1..k : i \in DOMAIN D
  BY DEF UpTo, Market
<1>3. entry <= row.day /\ row.day <= last
  BY DEF Between
<1>4. Prefetch \in Nat
  BY LiveAssumption
<1>5. ASSUME row \in RealBars(C, s) PROVE row \in RealBars(D, s)
  <2>1. PICK i \in DOMAIN C : s \in DOMAIN C[i].close /\ row = Bar(C[i].day, C[i].close[s])
    BY <1>5 DEF RealBars
  <2>2. row.day = C[i].day /\ C[i] = D[i] /\ i \in DOMAIN D
    BY <1>1, <1>2, <2>1, BarsAreRows
  <2>3. D[i].day \in Nat
    BY <2>2, DaysDated, ByTheDay DEF Market
  <2>4. D[i].day >= DayOf(D) - Prefetch
    BY <1>1, <1>3, <1>4, <2>2, <2>3
  <2> QED BY <2>1, <2>2, <2>4 DEF RealBars
<1>6. ASSUME row \in RealBars(D, s) PROVE row \in RealBars(C, s) /\ row.day \in Nat
  <2>1. PICK i \in DOMAIN D : s \in DOMAIN D[i].close /\ row = Bar(D[i].day, D[i].close[s])
    BY <1>6 DEF RealBars
  <2>2. row.day = D[i].day
    BY <2>1, BarsAreRows
  <2>3. D[i].day \in Nat
    BY DaysDated, ByTheDay DEF Market
  <2>4. D[i].day <= DayOf(C) /\ D[i].day >= DayOf(C) - Prefetch
    BY <1>1, <1>3, <1>4, <2>2, <2>3
  <2>5. i \in DOMAIN C /\ C[i] = D[i]
    BY <1>1, <2>4
  <2> QED BY <2>1, <2>2, <2>3, <2>4, <2>5 DEF RealBars
<1> QED BY <1>5, <1>6

\* So do their rows, up to a day on which the earlier run had one; unless that is the last
\* bar of the later run.
LEMMA RowsStay ==
    ASSUME NEW D, Market(D), NEW k, NEW C, UpTo(D, k, C), NEW s, NEW entry \in Nat,
           entry >= DayOf(D) - Prefetch, NEW last \in Nat, last <= DayOf(C), entry <= last,
           NEW R, NEW Q, R = RowsOn(C, s), Q = RowsOn(D, s),
           NEW i \in DOMAIN R, R[i].day = last
    PROVE  SameRows(R, Q, entry, last) \/ CutShort(R, Q, entry, last)
<1>1. Market(C) /\ DayOf(C) \in Nat /\ DayOf(D) \in Nat /\ DayOf(C) <= DayOf(D)
  BY MarketThen
<1>2. PICK E : Lists(R, E) /\ OneMoreOrLess(E, RealBars(C, s), DayOf(C) + 1)
  BY <1>1, RowsListed
<1>3. PICK F : Lists(Q, F) /\ OneMoreOrLess(F, RealBars(D, s), DayOf(D) + 1)
  BY RowsListed
<1> DEFINE bars == RealBars(C, s)
           more == RealBars(D, s)
           Near(row) == Between(row, entry, last)
<1>4. \A row : Near(row) => (row \in bars <=> row \in more) /\ (row \in more => row.day \in Nat)
  BY BarsStay
<1>5. PICK r \in E : r.day = last /\ Near(r)
  <2>1. R[i] \in E
    BY <1>2 DEF Lists
  <2> QED BY <2>1 DEF Between
<1> HIDE DEF bars, more
<1>6. ASSUME NEW row, Near(row) PROVE row \in E <=> row \in bars
  <2>1. CASE \E y : y.day = DayOf(C) + 1 /\ E = bars \cup {y}
    <3>1. PICK y : y.day = DayOf(C) + 1 /\ E = bars \cup {y}
      BY <2>1
    <3>2. row # y
      <4> SUFFICES ASSUME row = y PROVE FALSE
        OBVIOUS
      <4>1. DayOf(C) + 1 <= last
        BY <1>6, <3>1 DEF Between
      <4> QED BY <1>1, <4>1
    <3> QED BY <3>1, <3>2
  <2>2. CASE E = {} /\ bars = {}
    BY <2>2
  <2>3. CASE \E z \in bars : E = bars \ {z} /\ \A x \in bars : x = z \/ x.day < z.day
    <3>1. PICK z \in bars : E = bars \ {z} /\ \A x \in bars : x = z \/ x.day < z.day
      BY <2>3
    <3>2. last < z.day
      BY <1>5, <3>1
    <3>3. row # z
      <4> SUFFICES ASSUME row = z PROVE FALSE
        OBVIOUS
      <4>1. z.day <= last /\ z.day \in Nat
        BY <1>4, <1>6, <3>1 DEF Between
      <4> QED BY <3>2, <4>1
    <3> QED BY <3>1, <3>3
  <2> QED BY <1>2, <2>1, <2>2, <2>3 DEF OneMoreOrLess, bars
<1>7. r \in more
  BY <1>4, <1>5, <1>6
<1>8. \A row : Near(row) => ((\E a \in DOMAIN R : R[a] = row) <=> row \in more)
  BY <1>2, <1>4, <1>6 DEF Lists
<1>9. \A row : (\E a \in DOMAIN Q : Q[a] = row) <=> row \in F
  BY <1>3 DEF Lists
<1>10. CASE \E y : y.day = DayOf(D) + 1 /\ F = more \cup {y}
  <2>1. PICK y : y.day = DayOf(D) + 1 /\ F = more \cup {y}
    BY <1>10
  <2>2. ASSUME NEW row, Near(row) PROVE row # y
    <3> SUFFICES ASSUME row = y PROVE FALSE
      OBVIOUS
    <3>1. DayOf(D) + 1 <= last
      BY <2>1, <2>2 DEF Between
    <3> QED BY <1>1, <3>1
  <2>3. \A row : Near(row) => (row \in F <=> row \in more)
    BY <2>1, <2>2
  <2> QED BY <1>8, <1>9, <2>3 DEF SameRows
<1>11. CASE \E z \in more : F = more \ {z} /\ \A x \in more : x = z \/ x.day < z.day
  <2>1. PICK z \in more : F = more \ {z} /\ \A x \in more : x = z \/ x.day < z.day
    BY <1>11
  <2>2. CASE last < z.day
    <3>1. ASSUME NEW row, Near(row) PROVE row # z
      <4> SUFFICES ASSUME row = z PROVE FALSE
        OBVIOUS
      <4>1. z.day <= last /\ z.day \in Nat
        BY <1>4, <3>1 DEF Between
      <4> QED BY <2>2, <4>1
    <3>2. \A row : Near(row) => (row \in F <=> row \in more)
      BY <2>1, <3>1
    <3> QED BY <1>8, <1>9, <3>2 DEF SameRows
  <2>3. CASE ~(last < z.day)
    <3>1. z = r /\ z.day = last
      BY <1>5, <1>7, <2>1, <2>3
    <3>2. \A a \in DOMAIN Q : Q[a].day < last
      BY <1>9, <2>1, <3>1
    <3>3. ASSUME NEW row, entry <= row.day, row.day < last
          PROVE  (\E a \in DOMAIN R : R[a] = row) <=> (\E a \in DOMAIN Q : Q[a] = row)
      <4>1. ASSUME row \in more \/ \E a \in DOMAIN R : R[a] = row PROVE Near(row)
        <5>1. row.day \in Nat
          <6>1. CASE row \in more
            <7>1. PICK d \in DOMAIN D : s \in DOMAIN D[d].close /\ row = Bar(D[d].day, D[d].close[s])
              BY <6>1 DEF RealBars, more
            <7>2. row \in Row
              BY <7>1, BarsAreRows
            <7> QED BY <7>2 DEF Row
          <6>2. CASE \E a \in DOMAIN R : R[a] = row
            <7>1. R \in Seq(Row)
              BY <1>1, RowsListed
            <7>2. row \in Row
              BY <6>2, <7>1
            <7> QED BY <7>2 DEF Row
          <6> QED BY <4>1, <6>1, <6>2
        <5>2. row.day <= last
          BY <3>3, <5>1
        <5> QED BY <3>3, <5>2 DEF Between
      <4>2. row # z
        <5> SUFFICES ASSUME row = z PROVE FALSE
          OBVIOUS
        <5>1. last < last
          BY <3>1, <3>3
        <5> QED BY <5>1
      <4>3. row \in F <=> row \in more
        BY <2>1, <4>2
      <4> QED BY <1>8, <1>9, <4>1, <4>3
    <3> QED BY <3>2, <3>3 DEF CutShort
  <2> QED BY <2>2, <2>3
<1>12. CASE F = {} /\ more = {}
  BY <1>7, <1>12
<1> QED BY <1>3, <1>10, <1>11, <1>12 DEF OneMoreOrLess, more

----------------------------------------------------------------------------
(* Sales that stand *)

\* How a run on the market up to a day comes to a sale.
ComesFrom(D, positions, e, s, f, x) ==
    /\ s \in DOMAIN positions /\ FirstFrom(RowsOn(D, s), f, positions[s].entry_date)
    /\ x = Walk(RowsOn(D, s), f, positions[s].avg_price, BullsOn(D))
    /\ x.day <= DayOf(D) + 1
    /\ e.symbol = s /\ e.entry_date = positions[s].entry_date
    /\ e.exit_day = x.day /\ e.reason = x.reason
    /\ e.status = "overdue" => x.day # DayOf(D) + 1
SaleOn(D, positions, e) == \E s, f, x : ComesFrom(D, positions, e, s, f, x)

ExitsOf(positions, s) ==
    LET rows == RowsOf(s)
        held == {i \in DOMAIN rows : rows[i].day >= positions[s].entry_date}
    IN  IF held = {} THEN {} ELSE {Walk(rows, Min(held), positions[s].avg_price, BullDays)}

LEMMA SellsAre ==
    ASSUME NEW positions
    PROVE  Sells(positions) =
              UNION {{Sale(s, positions[s], x) : x \in {e \in ExitsOf(positions, s) : e.day <= today + 1}} :
                        s \in DOMAIN positions}
BY DEF Sells, ExitsOf

\* The exits of a position are the walk from its first row.
LEMMA ExitsAre ==
    ASSUME Market(days), NEW positions, NEW s, NEW x
    PROVE  x \in ExitsOf(positions, s) <=>
              \E f : /\ FirstFrom(RowsOn(days, s), f, positions[s].entry_date)
                     /\ x = Walk(RowsOn(days, s), f, positions[s].avg_price, BullsOn(days))
<1> DEFINE rows == RowsOn(days, s)
           held == {i \in DOMAIN rows : rows[i].day >= positions[s].entry_date}
<1>1. rows \in Seq(Row)
  BY RowsListed
<1>2. ExitsOf(positions, s) =
        IF held = {} THEN {} ELSE {Walk(rows, Min(held), positions[s].avg_price, BullsOn(days))}
  BY OfToday DEF ExitsOf
<1> HIDE DEF rows
<1>3. held \in SUBSET Nat
  BY <1>1
<1>4. held # {} => Min(held) \in held /\ \A i \in held : Min(held) <= i
  <2> HIDE DEF held
  <2> QED BY <1>3, MinIs
<1>5. ASSUME held # {} PROVE FirstFrom(rows, Min(held), positions[s].entry_date)
  BY <1>4, <1>5 DEF FirstFrom
<1>6. ASSUME NEW f, FirstFrom(rows, f, positions[s].entry_date)
      PROVE  held # {} /\ f = Min(held)
  <2>1. f \in held /\ \A i \in held : f <= i
    BY <1>6 DEF FirstFrom
  <2>2. f <= Min(held) /\ Min(held) <= f /\ f \in Nat /\ Min(held) \in Nat
    BY <1>3, <1>4, <2>1
  <2>3. \A a, b \in Nat : a <= b /\ b <= a => a = b
    OBVIOUS
  <2> HIDE DEF held
  <2> QED BY <2>1, <2>2, <2>3
<1> HIDE DEF held
<1> QED BY <1>2, <1>5, <1>6 DEF rows

LEMMA SalesComeFrom ==
    ASSUME Market(days), NEW positions, NEW e \in Sells(positions)
    PROVE  SaleOn(days, positions, e)
<1>1. PICK s \in DOMAIN positions : \E x \in ExitsOf(positions, s) :
        x.day <= today + 1 /\ e = Sale(s, positions[s], x)
  BY SellsAre
<1>0. PICK x \in ExitsOf(positions, s) : x.day <= today + 1 /\ e = Sale(s, positions[s], x)
  BY <1>1
<1>2. PICK f : /\ FirstFrom(RowsOn(days, s), f, positions[s].entry_date)
               /\ x = Walk(RowsOn(days, s), f, positions[s].avg_price, BullsOn(days))
  BY ExitsAre
<1>3. /\ e.symbol = s /\ e.entry_date = positions[s].entry_date
      /\ e.exit_day = x.day /\ e.reason = x.reason
      /\ e.status = IF x.day = today + 1 THEN "fresh" ELSE "overdue"
  BY <1>0 DEF Sale
<1>4. e.status = "overdue" => x.day # today + 1
  BY <1>3
<1>5. ComesFrom(days, positions, e, s, f, x)
  BY <1>0, <1>2, <1>3, <1>4, OfToday DEF ComesFrom
<1> QED BY <1>5 DEF SaleOn

LEMMA ExitsAreSold ==
    ASSUME Market(days), NEW positions, NEW s \in DOMAIN positions, NEW f, NEW x,
           FirstFrom(RowsOn(days, s), f, positions[s].entry_date),
           x = Walk(RowsOn(days, s), f, positions[s].avg_price, BullsOn(days)),
           x.day <= today + 1
    PROVE  \E e \in Sells(positions) : e.symbol = s /\ e.exit_day = x.day
<1>1. x \in ExitsOf(positions, s)
  BY ExitsAre
<1>2. Sale(s, positions[s], x) \in Sells(positions)
  BY <1>1, SellsAre
<1>3. Sale(s, positions[s], x).symbol = s /\ Sale(s, positions[s], x).exit_day = x.day
  BY DEF Sale
<1> QED BY <1>2, <1>3

\* The day of a walk's end is that of a row after the first.
LEMMA WalkDay ==
    ASSUME NEW R \in Seq(Row), InOrderOfDays(R), NEW f \in DOMAIN R, NEW avg_price, NEW bulls
    PROVE  \E j \in DOMAIN R : f <= j /\ Walk(R, f, avg_price, bulls).day = R[j].day
<1>1. PICK end : /\ EndsOn(R, f, end, avg_price, bulls)
                 /\ ExitsOn(Walk(R, f, avg_price, bulls), R, f, end, bulls)
  BY WalkEnds
<1>2. end \in f..Len(R) /\ end \in DOMAIN R
  BY <1>1 DEF EndsOn
<1>3. CASE Dropped(R, f, end) \/ end = Len(R)
  <2>1. Walk(R, f, avg_price, bulls).day = R[end].day
    BY <1>1, <1>3 DEF ExitsOn
  <2> QED BY <1>2, <2>1
<1>4. CASE ~(Dropped(R, f, end) \/ end = Len(R))
  <2>1. Walk(R, f, avg_price, bulls).day = R[end + 1].day
    BY <1>1, <1>4 DEF ExitsOn
  <2>2. end + 1 \in DOMAIN R /\ f <= end + 1
    BY <1>2, <1>4
  <2> QED BY <2>1, <2>2
<1> QED BY <1>3, <1>4

\* An overdue sale of an earlier run is in a later one that has its position in its window.
LEMMA SaleStands ==
    ASSUME Market(days), NEW k, NEW C, UpTo(days, k, C),
           NEW then, NEW now, NEW e, SaleOn(C, then, e),
           e.status = "overdue", e.reason # "end_of_data",
           e.reason = "regime_flip" => BullDays # {},
           e.entry_date >= today - Prefetch, e.entry_date \in Nat,
           e.symbol \in DOMAIN now, now[e.symbol] = then[e.symbol]
    PROVE  StillDue(e, Sells(now))
<1>1. PICK s, f, x : ComesFrom(C, then, e, s, f, x)
  BY DEF SaleOn
<1>2. PICK entry \in Nat : entry = e.entry_date
  OBVIOUS
<1>3. PICK R, Q : R = RowsOn(C, s) /\ Q = RowsOn(days, s)
  OBVIOUS
<1>4. PICK avg : avg = then[s].avg_price
  OBVIOUS
<1>5. /\ FirstFrom(R, f, entry) /\ x = Walk(R, f, avg, BullsOn(C))
      /\ x.day <= DayOf(C) + 1 /\ x.day # DayOf(C) + 1
      /\ e.symbol = s /\ e.exit_day = x.day /\ e.reason = x.reason
      /\ s \in DOMAIN now /\ now[s].avg_price = avg /\ now[s].entry_date = entry
  BY <1>1, <1>2, <1>3, <1>4 DEF ComesFrom
<1>6. Market(C) /\ DayOf(C) \in Nat /\ DayOf(days) \in Nat /\ DayOf(C) <= DayOf(days)
  BY MarketThen
<1>7. R \in Seq(Row) /\ InOrderOfDays(R) /\ Q \in Seq(Row) /\ InOrderOfDays(Q)
  BY <1>3, <1>6, RowsListed DEF Lists
<1>8. f \in DOMAIN R /\ R[f].day >= entry
  BY <1>5 DEF FirstFrom
<1>9. PICK j \in DOMAIN R : f <= j /\ x.day = R[j].day
  BY <1>5, <1>7, <1>8, WalkDay
<1>10. PICK last \in Nat : last = x.day
  BY <1>7, <1>9, RowsDated, ByTheDay
<1>11. last <= DayOf(C) /\ last <= today + 1
  <2>1. last <= DayOf(C) + 1 /\ last # DayOf(C) + 1
    BY <1>5, <1>10
  <2>2. last <= DayOf(C)
    BY <1>6, <2>1
  <2>3. last <= DayOf(days) + 1
    BY <1>6, <2>2
  <2> QED BY <2>2, <2>3, OfToday
<1>12. entry <= last
  <2>1. R[f].day <= R[j].day /\ R[f].day \in Nat
    BY <1>7, <1>8, <1>9, RowsDated, ByTheDay
  <2>2. PICK a \in Nat : a = R[f].day
    BY <2>1
  <2>3. entry <= a /\ a <= last
    BY <1>8, <1>9, <1>10, <2>1, <2>2
  <2> QED BY <2>3
<1>13. SameRows(R, Q, entry, last) \/ CutShort(R, Q, entry, last)
  <2>1. entry >= DayOf(days) - Prefetch
    BY <1>2, OfToday
  <2>2. R[j].day = last
    BY <1>9, <1>10
  <2> QED BY <1>3, <1>11, <1>12, <2>1, <2>2, RowsStay
<1>14. \A d \in BullsOn(days) : d <= last => d \in BullsOn(C)
  <2> SUFFICES ASSUME NEW d \in BullsOn(days), d <= last PROVE d \in BullsOn(C)
    OBVIOUS
  <2>1. PICK i : i \in DOMAIN RegimeWindow(days) /\ d = RegimeWindow(days)[i].day
    <3>1. days \in Seq(DayBar)
      BY DEF Market
    <3> QED BY <3>1, BullsAre
  <2>2. d \in Nat
    <3>1. days \in Seq(DayBar) /\ InOrderOfDays(days)
      BY DEF Market
    <3>2. RegimeWindow(days) \in Seq(DayBar)
      BY <3>1, DaysDated, AtLists DEF RegimeWindow
    <3>3. RegimeWindow(days)[i] \in DayBar
      BY <2>1, <3>2
    <3> QED BY <2>1, <3>3 DEF DayBar
  <2>3. d <= DayOf(C)
    BY <1>6, <1>11, <2>2
  <2> QED BY <2>3, FewerBulls
<1>15. x.reason # "end_of_data" /\ (x.reason = "regime_flip" => BullsOn(days) # {})
  BY <1>5, OfToday
<1>16. PICK g : FirstFrom(Q, g, entry) /\ Walk(Q, g, avg, BullsOn(days)).day <= x.day
  <2>1. PICK bulls, more : bulls = BullsOn(C) /\ more = BullsOn(days)
    OBVIOUS
  <2>2. \A d \in more : d <= x.day => d \in bulls
    BY <1>10, <1>14, <2>1
  <2>3. SameRows(R, Q, entry, x.day) \/ CutShort(R, Q, entry, x.day)
    BY <1>10, <1>13
  <2>4. FirstFrom(R, f, entry) /\ x = Walk(R, f, avg, bulls)
    BY <1>5, <2>1
  <2>5. x.reason # "end_of_data" /\ (x.reason = "regime_flip" => more # {})
    BY <1>15, <2>1
  <2>6. \E g : FirstFrom(Q, g, entry) /\ Walk(Q, g, avg, more).day <= x.day
    BY <1>7, <2>2, <2>3, <2>4, <2>5, WalkStands
  <2> QED BY <2>1, <2>6
<1>17. PICK y : y = Walk(Q, g, avg, BullsOn(days))
  OBVIOUS
<1>18. y.day <= today + 1
  <2>1. g \in DOMAIN Q
    BY <1>16 DEF FirstFrom
  <2>2. PICK i \in DOMAIN Q : y.day = Q[i].day
    BY <1>7, <1>17, <2>1, WalkDay
  <2>3. PICK a \in Nat : a = y.day
    BY <1>7, <2>2, RowsDated, ByTheDay
  <2>4. a <= last
    BY <1>10, <1>16, <1>17, <2>3
  <2> QED BY <1>6, <1>11, <2>3, <2>4, OfToday
<1>19. \E u \in Sells(now) : u.symbol = s /\ u.exit_day = y.day
  BY <1>3, <1>5, <1>16, <1>17, <1>18, ExitsAreSold
<1> QED BY <1>5, <1>16, <1>17, <1>19 DEF StillDue

\* A plan was made on a day of the market, from the days up to it.
MadeThen(D, made, k) ==
    /\ k \in 1..Len(D) /\ D[k].day = made.day
    /\ \A e \in made.sells : SaleOn(SubSeq(D, 1, k), made.account.positions, e)
Made(D, made) == made.day \in Nat /\ (made.sells # {} => \E k : MadeThen(D, made, k))

RunsInv == InOrderOfDays(days) /\ Made(days, plan)

\* Days that are added change nothing before them.
LEMMA DaysAdded ==
    ASSUME NEW D \in Seq(DayBar), D # <<>>, InOrderOfDays(D), NEW d \in DayBar, DayOf(D) < d.day
    PROVE  /\ InOrderOfDays(Append(D, d))
           /\ \A k \in 1..Len(D) : /\ k \in 1..Len(Append(D, d)) /\ Append(D, d)[k] = D[k]
                                   /\ SubSeq(Append(D, d), 1, k) = SubSeq(D, 1, k)
<1>1. PICK N \in Nat : Len(D) = N /\ DOMAIN D = 1..N
  OBVIOUS
<1>2. Market(D)
  BY DEF Market
<1>3. \A i \in 1..N : D[i].day \in Nat /\ D[i].day < d.day
  <2> SUFFICES ASSUME NEW i \in 1..N PROVE D[i].day \in Nat /\ D[i].day < d.day
    OBVIOUS
  <2>1. UpTo(D, N, SubSeq(D, 1, N))
    <3>1. N # 0
      BY <1>1
    <3>2. N \in 1..N
      BY <3>1
    <3> QED BY <1>1, <3>2 DEF UpTo
  <2>2. D[i].day <= DayOf(D) /\ DayOf(D) \in Nat
    BY <1>1, <1>2, <2>1, MarketThen
  <2>3. PICK a \in Nat : a = D[i].day
    BY <1>1, DaysDated, ByTheDay
  <2>4. d.day \in Nat
    BY DEF DayBar
  <2>5. a < d.day
    BY <2>2, <2>3, <2>4
  <2> QED BY <2>3, <2>5
<1>4. Lists(D, {D[i] : i \in DOMAIN D})
  BY DEF Lists
<1>5. Lists(Append(D, d), {D[i] : i \in DOMAIN D} \cup {d})
  BY <1>1, <1>3, <1>4, DaysDated, ListsOneMore
<1>6. \A k \in 1..N : /\ k \in 1..Len(Append(D, d)) /\ Append(D, d)[k] = D[k]
                      /\ SubSeq(Append(D, d), 1, k) = SubSeq(D, 1, k)
  <2> SUFFICES ASSUME NEW k \in 1..N
               PROVE  /\ k \in 1..Len(Append(D, d)) /\ Append(D, d)[k] = D[k]
                      /\ SubSeq(Append(D, d), 1, k) = SubSeq(D, 1, k)
    OBVIOUS
  <2>1. Append(D, d) \in Seq(DayBar) /\ Len(Append(D, d)) = N + 1
    BY <1>1
  <2>2. \A i \in 1..N : Append(D, d)[i] = D[i] /\ i \in 1..(N + 1)
    BY <1>1
  <2>3. \A i \in 1..k : i \in 1..N
    BY <1>1
  <2> QED BY <1>1, <2>1, <2>2, <2>3
<1> QED BY <1>1, <1>5, <1>6 DEF Lists

LEMMA NextDayRuns ==
    ASSUME DatesInv, RunsInv, NEW b \in Bars, NEW sells, NEW buys, NextDay(b, sells, buys)
    PROVE  RunsInv'
<1>1. PICK d : /\ d = [day |-> today + b.gap, score |-> b.score, close |-> b.close]
               /\ days' = Append(days, d) /\ plan' = plan
  BY DEF NextDay
<1>2. days \in Seq(DayBar) /\ days # <<>> /\ InOrderOfDays(days) /\ today \in Nat
  BY DayOfMarket DEF DatesInv, DaysTyped, RunsInv
<1>3. b.gap \in Nat \ {0} /\ d.day = today + b.gap
  BY <1>1, LiveAssumption
<1>4. d \in DayBar
  <2>1. /\ b.score \in 0..100 /\ DOMAIN b.close \subseteq Symbols
        /\ b.close \in [DOMAIN b.close -> Nat \ {0}]
    BY LiveAssumption DEF OfSymbols
  <2>2. b.close \in UNION {[S -> Nat \ {0}] : S \in SUBSET Symbols}
    BY <2>1
  <2>3. today + b.gap \in Nat
    BY <1>2, <1>3
  <2> QED BY <1>1, <2>1, <2>2, <2>3 DEF DayBar
<1>5. DayOf(days) < d.day
  BY <1>2, <1>3, OfToday
<1>6. /\ InOrderOfDays(days')
      /\ \A k \in 1..Len(days) : /\ k \in 1..Len(days') /\ days'[k] = days[k]
                                 /\ SubSeq(days', 1, k) = SubSeq(days, 1, k)
  BY <1>1, <1>2, <1>4, <1>5, DaysAdded
<1>7. ASSUME NEW k, MadeThen(days, plan, k) PROVE MadeThen(days', plan, k)
  BY <1>6, <1>7 DEF MadeThen
<1>8. Made(days', plan)
  BY <1>7 DEF RunsInv, Made
<1> QED BY <1>1, <1>6, <1>8 DEF RunsInv

LEMMA RunnerRuns ==
    ASSUME DatesInv, RunsInv, NEW ranked, Runner(ranked)
    PROVE  RunsInv'
<1>1. /\ UNCHANGED days /\ plan'.day = today /\ plan'.account = portfolio
      /\ plan'.sells = Sells(portfolio.positions)
  BY DEF Runner
<1>2. Market(days)
  BY DEF DatesInv, DaysTyped, RunsInv, Market
<1>3. days \in Seq(DayBar) /\ Len(days) \in 1..Len(days) /\ SubSeq(days, 1, Len(days)) = days
  <2>1. days \in Seq(DayBar) /\ days # <<>>
    BY <1>2 DEF Market
  <2>2. Len(days) \in 1..Len(days)
    BY <2>1
  <2> QED BY <2>1, <2>2
<1>4. \A e \in Sells(portfolio.positions) : SaleOn(days, portfolio.positions, e)
  BY <1>2, SalesComeFrom
<1>5. days[Len(days)].day = today /\ today \in Nat
  BY DayOfMarket DEF today, DatesInv
<1>6. MadeThen(days, plan', Len(days))
  BY <1>1, <1>3, <1>4, <1>5 DEF MadeThen
<1>7. Made(days, plan')
  BY <1>1, <1>5, <1>6 DEF Made
<1> QED BY <1>1, <1>7 DEF RunsInv

LEMMA AlwaysMade == Spec => []RunsInv
<1>1. Init => RunsInv
  <2> SUFFICES ASSUME Init PROVE RunsInv
    OBVIOUS
  <2>1. PICK d : days = <<d>>
    BY DEF Init
  <2>2. InOrderOfDays(days)
    <3>1. DOMAIN days = {1}
      BY <2>1
    <3> QED BY <3>1 DEF InOrderOfDays
  <2>3. Made(days, plan)
    BY DEF Init, NoPlan, Made
  <2> QED BY <2>2, <2>3 DEF RunsInv
<1>2. DatesInv /\ RunsInv /\ [Next]_vars => RunsInv'
  <2> SUFFICES ASSUME DatesInv, RunsInv, [Next]_vars PROVE RunsInv'
    OBVIOUS
  <2>1. CASE UNCHANGED <<days, plan>>
    BY <2>1 DEF RunsInv
  <2>2. ASSUME NEW ranked \in Ranked, Runner(ranked) PROVE RunsInv'
    BY <2>2, RunnerRuns
  <2>3. ASSUME NEW b \in Bars, NEW sells \in {{}, plan.sells}, NEW buys \in {{}, plan.buys},
               NextDay(b, sells, buys)
        PROVE  RunsInv'
    BY <2>3, NextDayRuns
  <2> QED BY <2>1, <2>2, <2>3
        DEF Next, HelperReads, HelperDumps, HelperWrites, HelperDies, vars
<1> QED BY <1>1, <1>2, AlwaysDated, PTL DEF Spec

\* A sale that was overdue stays due, for the same day or an earlier one, in a
\* run on a later day, as long as the window reaches back to the purchase and the regime is
\* not switched off: new bars, a window that slides on and a regime computed from a
\* later day on take no exit back, whatever the prices, scores and thresholds are.
THEOREM SalesNotTakenBack == Spec => SalesStand
<1>1. ASSUME DatesInv, RunsInv, NEW ranked, Runner(ranked), plan'.day > plan.day,
             NEW e \in plan.sells, Comparable(e)
      PROVE  StillDue(e, plan'.sells)
  <2>1. plan'.day = today /\ plan'.sells = Sells(portfolio.positions)
    BY <1>1 DEF Runner
  <2>2. Market(days)
    BY <1>1 DEF DatesInv, DaysTyped, RunsInv, Market
  <2>3. PICK k : MadeThen(days, plan, k)
    BY <1>1 DEF RunsInv, Made
  <2>4. PICK C : UpTo(days, k, C) /\ SaleOn(C, plan.account.positions, e)
    BY <1>1, <2>3 DEF MadeThen, UpTo
  <2>5. /\ e.status = "overdue" /\ e.reason # "end_of_data"
        /\ e.reason = "regime_flip" => BullDays # {}
        /\ e.entry_date >= today - Prefetch
        /\ e.symbol \in DOMAIN portfolio.positions
        /\ portfolio.positions[e.symbol] = plan.account.positions[e.symbol]
    BY <1>1 DEF Comparable
  <2>6. e.entry_date \in Nat
    <3>1. PICK s, f, x : ComesFrom(C, plan.account.positions, e, s, f, x)
      BY <2>4 DEF SaleOn
    <3>2. e.entry_date = portfolio.positions[e.symbol].entry_date
      BY <2>5, <3>1 DEF ComesFrom
    <3>3. DatesOk(DatesOf(portfolio.positions), first_buy, first_saved, today)
      BY <1>1 DEF DatesInv, AllDatesOk
    <3> QED BY <2>5, <3>2, <3>3 DEF DatesOk, DatesOf
  <2> QED BY <2>1, <2>2, <2>4, <2>5, <2>6, SaleStands
<1>2. DatesInv /\ RunsInv /\ [Next]_vars =>
        [plan'.day > plan.day =>
            \A e \in plan.sells : Comparable(e) => StillDue(e, plan'.sells)]_vars
  <2> SUFFICES ASSUME DatesInv, RunsInv, [Next]_vars, plan'.day > plan.day,
                      NEW e \in plan.sells, Comparable(e)
               PROVE  StillDue(e, plan'.sells)
    OBVIOUS
  <2>1. plan' # plan
    BY DEF RunsInv, Made
  <2>2. \E ranked \in Ranked : Runner(ranked)
    BY <2>1 DEF Next, HelperReads, HelperDumps, HelperWrites, HelperDies, NextDay, vars
  <2> QED BY <1>1, <2>2
<1> QED BY <1>2, AlwaysDated, AlwaysMade, PTL DEF Spec, SalesStand

=============================================================================
