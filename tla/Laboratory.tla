----------------------------- MODULE Laboratory -----------------------------
(* The execution replay of the strategy laboratory: bar by bar, a signal    *)
(* decided on closed bars is filled on the next one or dropped, a position  *)
(* is stopped, reaches its target or is marked to the close, and the last   *)
(* bar closes what is open. What a signal says, and whether it can be       *)
(* sized, are choices. Prices are whole numbers; returns are kept as the    *)
(* price moves they are made of, costs as the number of times each is       *)
(* charged.                                                                 *)
EXTENDS Integers, Sequences

CONSTANTS
  Bars,      \* bars a series may consist of
  Signals,   \* side and distances of the levels from the last price
  Length,    \* bars in the series
  Warmup,    \* bars seen before the first decision (50 in the code)
  Cooldown,  \* cooldown_bars of the strategy
  Tick,      \* tick_size
  Linear,    \* the category: funding is paid on linear contracts
  NoValue

Sides == {"buy", "sell"}

OHLC      == [open : Int, high : Int, low : Int, close : Int]
Levels    == [side : Sides, entry : Int, stop : Int, target : Int]
Positions == [side : Sides, reference : Int, stop : Int, target : Int]

(* validate_bar.                                                           *)
Sound(b) ==
  /\ b.low <= b.open /\ b.low <= b.close
  /\ b.high >= b.open /\ b.high >= b.close

ASSUME LaboratoryAssumption ==
  /\ Tick \in Nat \ {0} /\ Length \in Nat /\ Warmup \in Nat /\ Cooldown \in Nat
  /\ Linear \in BOOLEAN
  /\ \A b \in Bars : b \in OHLC /\ Sound(b)
  /\ Signals \subseteq [side : Sides, risk : Int, reward : Int]
  /\ NoValue \notin Int \cup Signals \cup Positions

VARIABLES
  bars,           \* the bars replayed so far
  pending,        \* the signal decided on the last of them, if any
  position,       \* the open position, if any
  cooldownUntil,  \* no decision before this bar
  trades          \* history: every trade, with what it was charged

labVars == <<bars, pending, position, cooldownUntil, trades>>

-----------------------------------------------------------------------------
(* Levels, seen from the side of the position: against it is down for a    *)
(* buy and up for a sell.                                                  *)

(* x lies against the side from y, or equals it.                           *)
Against(side, x, y) == IF side = "buy" THEN x <= y ELSE x >= y

Further(side, x, y) == IF Against(side, x, y) THEN x ELSE y

Adverse(side, b) == IF side = "buy" THEN b.low ELSE b.high

Favourable(side, b) == IF side = "buy" THEN b.high ELSE b.low

Floor(x)   == (x \div Tick) * Tick
Ceiling(x) == ((x + Tick - 1) \div Tick) * Tick

(* The engine's terms: the levels around the last price.                   *)
SignalTerms(signal, last) ==
  LET away == IF signal.side = "buy" THEN 1 ELSE -1
  IN  [side |-> signal.side, entry |-> last,
       stop |-> last - away * signal.risk, target |-> last + away * signal.reward]

(* The same, rounded to the tick.                                          *)
RoundedLevels(terms) ==
  LET Round(x) == IF terms.side = "buy" THEN Floor(x) ELSE Ceiling(x)
  IN  [terms EXCEPT !.entry = Floor(@), !.stop = Round(@), !.target = Round(@)]

InOrder(l) ==
  IF l.side = "buy" THEN l.stop < l.entry /\ l.entry < l.target
  ELSE l.target < l.entry /\ l.entry < l.stop

-----------------------------------------------------------------------------
(* One bar.                                                                *)

Touches(l, b) == Against(l.side, Adverse(l.side, b), l.entry)

FillPrice(l, b) == Further(l.side, b.open, l.entry)

Stopped(p, b) == Against(p.side, Adverse(p.side, b), p.stop)
Reached(p, b) == Against(p.side, p.target, Favourable(p.side, b))

(* Mutant of ExitPrice: the target is looked at before the stop.           *)
TargetFirst(p, b) ==
  IF Reached(p, b) THEN p.target
  ELSE IF Stopped(p, b) THEN Further(p.side, b.open, p.stop) ELSE NoValue

ExitPrice(p, b) ==
  IF Stopped(p, b) THEN Further(p.side, b.open, p.stop)
  ELSE IF Reached(p, b) THEN p.target ELSE NoValue

Opened(l, b) ==
  [side |-> l.side, reference |-> FillPrice(l, b), stop |-> l.stop, target |-> l.target]

(* Mutant of Marked: the next move is counted from the fill again.         *)
Unmarked(p, b) == p

(* The next bar's move starts at this bar's close.                         *)
Marked(p, b) == [p EXCEPT !.reference = b.close]

NewTrade(l, b) ==
  [levels |-> l, opened |-> Len(bars) + 1, closed |-> 0,
   fill |-> FillPrice(l, b), exit |-> 0, moved |-> 0, charges |-> 1, funded |-> 0]

(* The bar's return and costs, in the record of the trade they fall to.    *)
Booked(trade, move, closing, exit) ==
  [trade EXCEPT !.moved = @ + move,
                !.funded = IF Linear THEN @ + 1 ELSE @,
                !.charges = IF closing THEN @ + 1 ELSE @,
                !.closed = IF closing THEN Len(bars) + 1 ELSE 0,
                !.exit = IF closing THEN exit ELSE 0]

LabInit ==
  /\ bars = <<>>
  /\ pending = NoValue
  /\ position = NoValue
  /\ cooldownUntil = 0
  /\ trades = <<>>

(* The body of the loop for bar b; bars count from zero in the code. A     *)
(* pending signal is dropped whether it was filled or not. Levels that are *)
(* not directed are refused by the sizing.                                 *)
Replay(b, sized, signal) ==
  LET index == Len(bars)
      opening == pending # NoValue /\ position = NoValue /\ sized /\ InOrder(pending) /\ Touches(pending, b)
      held == IF opening THEN Opened(pending, b) ELSE position
      open == IF opening THEN Append(trades, NewTrade(pending, b)) ELSE trades
      exit == ExitPrice(held, b)
      mark == IF exit # NoValue THEN exit ELSE b.close
      closing == held # NoValue /\ (exit # NoValue \/ index = Length - 1)
      until == IF closing THEN index + Cooldown + 1 ELSE cooldownUntil
      deciding == (held = NoValue \/ closing) /\ index >= until /\ index + 1 >= Warmup
  IN  /\ bars' = Append(bars, b)
      /\ position' = IF held = NoValue \/ closing THEN NoValue ELSE Marked(held, b)
      /\ cooldownUntil' = until
      /\ pending' = IF deciding /\ signal # NoValue THEN RoundedLevels(SignalTerms(signal, b.close)) ELSE NoValue
      /\ trades' = IF held = NoValue THEN open
                   ELSE [open EXCEPT ![Len(open)] =
                           Booked(@, mark - held.reference, closing, mark)]

NextBar ==
  /\ Len(bars) < Length
  /\ \E b \in Bars, sized \in BOOLEAN, signal \in Signals \cup {NoValue} : Replay(b, sized, signal)

LabNext == NextBar

LabSpec == LabInit /\ [][LabNext]_labVars

-----------------------------------------------------------------------------
(* Properties.                                                             *)

LabTypeOK ==
  /\ Len(bars) <= Length /\ \A i \in DOMAIN bars : bars[i] \in Bars
  /\ pending \in Levels \cup {NoValue}
  /\ position \in Positions \cup {NoValue}
  /\ cooldownUntil \in Nat
  /\ position # NoValue <=> \E i \in DOMAIN trades : trades[i].closed = 0

Touching(l, b) == {x \in {l.stop, l.target} : b.low <= x /\ x <= b.high}

(* A long is over when the market trades at its stop or lower, or at its   *)
(* target or higher.                                                       *)
Over(l, b) ==
  \/ Touching(l, b) # {}
  \/ b.high < IF l.side = "buy" THEN l.stop ELSE l.target
  \/ b.low > IF l.side = "buy" THEN l.target ELSE l.stop

Gain(side, from, to) == IF side = "buy" THEN to - from ELSE from - to

(* "Execution replay uses stop when stop and target share a bar", and so   *)
(* on for every way a series can move: a replayed trade is one that could  *)
(* have been had. It is opened at a price its first bar traded at, no      *)
(* worse than its limit; it is closed by the first bar that ends it, or by *)
(* the last; and its exit is never better than what that bar offers: the   *)
(* stop or a worse price traded if the stop was touched, else the target   *)
(* and not more.                                                           *)
TradesAttainable ==
  \A i \in DOMAIN trades :
    LET t == trades[i]
        l == t.levels
        first == bars[t.opened]
        lastBar == bars[t.closed]
    IN  /\ first.low <= t.fill /\ t.fill <= first.high
        /\ Gain(l.side, t.fill, l.entry) >= 0
        /\ \A n \in t.opened .. (IF t.closed = 0 THEN Len(bars) ELSE t.closed - 1) : ~Over(l, bars[n])
        /\ t.closed # 0 =>
             /\ Over(l, lastBar) \/ t.closed = Length
             /\ Gain(l.side, l.target, t.exit) <= 0
             /\ \E x \in {lastBar.low, lastBar.high} : Gain(l.side, t.exit, x) >= 0
             /\ (\E x \in {lastBar.low, lastBar.high} : Gain(l.side, l.stop, x) <= 0)
                  => Gain(l.side, l.stop, t.exit) <= 0

(* Nothing is counted twice or lost: whatever number of bars a trade is    *)
(* marked through, its moves add up to what lies between its fill and its  *)
(* exit; each side is charged once, and funding once per bar on a linear   *)
(* contract; a trade is decided on bars that were closed, at least         *)
(* Cooldown + 1 of them after the exit of the one before; and the series   *)
(* ends flat.                                                              *)
EveryMoveOnce ==
  /\ \A i \in DOMAIN trades :
       LET t == trades[i]
           end == IF t.closed = 0 THEN Len(bars) ELSE t.closed
       IN  /\ t.moved = (IF t.closed = 0 THEN bars[end].close ELSE t.exit) - t.fill
           /\ t.charges = IF t.closed = 0 THEN 1 ELSE 2
           /\ t.funded = IF Linear THEN end - t.opened + 1 ELSE 0
           /\ t.opened > Warmup
           /\ t.closed = 0 => i = Len(trades) /\ Len(bars) < Length
           /\ i > 1 => trades[i - 1].closed # 0 /\ t.opened - trades[i - 1].closed > Cooldown + 1

=============================================================================
