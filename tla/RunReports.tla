----------------------------- MODULE RunReports -----------------------------
(***************************************************************************)
(* What is reported of a finished run: the execution report over the fills *)
(* and the child orders (ExecutionMetrics), and the counters the simulator *)
(* keeps for its queue and latency diagnostics.  A rate is the pair of its *)
(* numerator and denominator; prices are as in Matching.  The market VWAP, *)
(* the timing score and the participation rate are left out.               *)
(***************************************************************************)
EXTENDS Integers, FiniteSets, Sequences, SequencesExt

SumOver(F(_), s) == FoldLeft(+, 0, [i \in DOMAIN s |-> F(s[i])])
CountOf(P(_), s) == Cardinality({i \in DOMAIN s : P(s[i])})

\* compute_is: the signed difference from the arrival mid over the value at the
\* mid, both twice; parents that follow each other share the last arrival mid.
Shortfall(fills, arrival2) ==
  LET excess(f) == (IF f.side = "BUY" THEN 1 ELSE -1) * (2 * f.cost - f.qty * arrival2)
  IN IF arrival2 = 0 \/ fills = <<>> THEN << 0, 0 >>
     ELSE << SumOver(excess, fills), SumOver(LAMBDA f : f.qty * arrival2, fills) >>

\* compute_vwap
FillVwap(fills) == << SumOver(LAMBDA f : f.cost, fills), SumOver(LAMBDA f : f.qty, fills) >>

\* fill_rate_by_order
FillRate(total, fills) == << SumOver(LAMBDA f : f.qty, fills), total >>

\* _compute_partial_fill_rate: a child that was cancelled after a partial fill
\* counts here and as cancelled.
IsPartial(c) == c.status = "PARTIAL" \/ c.filled \in 1 .. c.qty - 1

\* compute, for the children and the fills of one parent.
ExecutionReport(children, fills, total, arrival2) ==
  [children  |-> Len(children),
   fillRate  |-> FillRate(total, fills),
   cancelled |-> CountOf(LAMBDA c : c.status = "CANCELLED", children),
   partial   |-> CountOf(IsPartial, children),
   shortfall |-> Shortfall(fills, arrival2),
   vwap      |-> FillVwap(fills),
   makers    |-> SumOver(LAMBDA f : IF f.maker THEN f.qty ELSE 0, fills),
   latency   |-> << SumOver(LAMBDA f : f.latency, fills), Len(fills) >>]

-----------------------------------------------------------------------------
(* The simulator's counters *)

Counters0 == [blocked |-> 0, ready |-> 0, unfilled |-> 0, wait |-> 0,
              early |-> 0, late |-> 0, latency |-> 0, cancels |-> 0, lag |-> 0]

\* finalize_cancel_if_due counts a cancel and how long it took; the counters
\* are in the simulator, not in the order.
CountCancel(diag, c, now) == [diag EXCEPT !.cancels = @ + 1, !.lag = @ + (now - c.cancelReq)]

\* The first time an order passes the gate, with _record_queue_wait.
CountReady(diag, c, now) ==
  IF c.readySeen THEN diag
  ELSE [diag EXCEPT !.ready = @ + 1, !.wait = @ + (now - c.entered)]

\* A fill, and whether it came while a cancel was on its way.
CountFill(diag, c, now) ==
  [diag EXCEPT !.latency = @ + (c.acked - c.requested),
               !.late = IF c.cancelPending /\ now < c.effective THEN @ + 1 ELSE @]

\* queue_diagnostics and latency_diagnostics: averages over their counts.
QueueDiagnostics(diag) ==
  [blocked |-> diag.blocked, ready |-> diag.ready, unfilled |-> diag.unfilled,
   wait |-> << diag.wait, diag.ready >>]
LatencyDiagnostics(diag, fills) ==
  [early |-> diag.early, late |-> diag.late, lag |-> << diag.lag, diag.cancels >>,
   fill |-> << diag.latency, fills >>]
=============================================================================
