---------------------------- MODULE MicroEvents -----------------------------
(***************************************************************************)
(* MicroEventHandler: what a state says about trading, compared with the   *)
(* state before it.  The handler remembers whether a halt and a volatility *)
(* interruption (VI) are on.                                               *)
(***************************************************************************)
EXTENDS Integers, Sequences, SequencesExt

CONSTANTS SpreadMultiplier, DepthDivisor  \* VI_SPREAD_MULTIPLIER, 1 / VI_DEPTH_FRACTION

FreshHandler == [halt |-> FALSE, vi |-> FALSE]

Spread(s) == s.asks[1].price - s.bids[1].price
Depth(s)  == FoldLeft(LAMBDA sum, l : sum + l.volume, 0, s.bids \o s.asks)

SpreadSpike(prev, s)   == Spread(prev) > 0 /\ Spread(s) >= SpreadMultiplier * Spread(prev)
DepthCollapse(prev, s) == Depth(prev) > 0 /\ DepthDivisor * Depth(s) < Depth(prev)
Shaken(prev, s)        == SpreadSpike(prev, s) \/ DepthCollapse(prev, s)

HaltEvents(h, s) ==
  CASE ~h.halt /\ ~s.tradable -> {"halt"}
    [] h.halt /\ s.tradable   -> {"resume"}
    [] OTHER                  -> {}

SessionEvents(prev, s) == IF prev.session # s.session THEN {"session"} ELSE {}

ViEvents(h, prev, s) ==
  CASE ~h.vi /\ Shaken(prev, s) -> {"vi"}
    [] h.vi /\ ~Shaken(prev, s) -> {"lifted"}
    [] OTHER                    -> {}

\* process: interruptions are looked for in a tradable state only.
Events(h, prev, s) ==
  HaltEvents(h, s) \cup SessionEvents(prev, s) \cup IF s.tradable THEN ViEvents(h, prev, s) ELSE {}

After_ViAtNight(h, events) ==     \* mutant
  [halt |-> (h.halt \/ "halt" \in events) /\ "resume" \notin events,
   vi   |-> (h.vi \/ "vi" \in events) /\ events \cap {"lifted", "halt"} = {}]
\* The handler after process.
After(h, events) ==
  [halt |-> (h.halt \/ "halt" \in events) /\ "resume" \notin events,
   vi   |-> (h.vi \/ "vi" \in events) /\ "lifted" \notin events]

\* is_tradable
IsTradable(s, events) == s.tradable /\ events \cap {"halt", "vi"} = {}
=============================================================================
