----------------------------- MODULE Monitoring -----------------------------
(***************************************************************************)
(* The event bus and the verifiers that read it after a run: fees,         *)
(* slippage, the order of times, and the arithmetic of the queue gate.     *)
(* Fees are in millionths, queue quantities in Units per share.            *)
(***************************************************************************)
EXTENDS Integers, FiniteSets, Selections, SequencesExt

CONSTANTS
  Verbose,          \* EventBus._verbose
  FilterIds,        \* EventBus._filter_order_ids
  VerifyQueue,      \* run_all_verifiers' verify_queue
  VerifierFeeBps,   \* verify_fill_fee's commission_bps, in hundredths
  VerifierTaxBps,   \* verify_fill_fee's tax_bps_kospi, in hundredths (is_kospi is the default)
  FeeTolerance      \* _TOLERANCE_KRW, in millionths

ASSUME MonitoringAssumption ==
  /\ Verbose \in BOOLEAN /\ VerifyQueue \in BOOLEAN /\ IsFiniteSet(FilterIds)
  /\ VerifierFeeBps \in Nat /\ VerifierTaxBps \in Nat /\ FeeTolerance \in Nat

NoTime == -1

-----------------------------------------------------------------------------
(* EventBus *)

\* emit: only queue ticks are filtered, and only by a filter that is not empty.
Kept(id) == Verbose \/ FilterIds = {} \/ id \in FilterIds
Emit(bus, e) == IF e.kind = "tick" /\ ~Kept(e.id) THEN bus ELSE Append(bus, e)

\* query, by type and by child.
Query(bus, kind) == At(bus, {k \in DOMAIN bus : bus[k].kind = kind})
QueryChild(bus, kind, id) == At(bus, {k \in DOMAIN bus : bus[k].kind = kind /\ bus[k].id = id})
Ids(events) == {e.id : e \in ToSet(events)}

-----------------------------------------------------------------------------
(* Verifiers *)

\* verify_fill_fee
FeePassed(e) ==
  LET expected == e.cost * (VerifierFeeBps + (IF e.side = "SELL" THEN VerifierTaxBps ELSE 0))
      error    == e.fee - expected
  IN -FeeTolerance <= error /\ error <= FeeTolerance

\* verify_slippage: the expected value from the arrival mid and the price.
SlippagePassed(e) ==
  LET raw == 2 * e.cost - e.qty * e.arrival2
  IN e.arrival2 > 0 => e.slippage = (IF e.side = "BUY" THEN raw ELSE -raw)

\* verify_latency_ordering of one child: each list is empty or has the event.
LatencyViolation(submit, fill, cancel) ==
  IF submit # <<>> /\ submit[1].arrives < submit[1].requested THEN "submit_negative_latency"
  ELSE IF submit # <<>> /\ submit[1].acked < submit[1].arrives THEN "ack_negative_latency"
  ELSE IF submit # <<>> /\ fill # <<>> /\ fill[1].at < submit[1].requested THEN "fill_before_arrival"
  ELSE IF cancel # <<>> /\ cancel[1].effective < cancel[1].requested THEN "cancel_negative_latency"
  ELSE ""

\* verify_queue_arithmetic of one child's ticks: the first violation.
QueueViolation(ticks) ==
  LET expected(e)   == IF e.before - e.byTrade - e.byDepth < 0 THEN 0
                       ELSE e.before - e.byTrade - e.byDepth
      mismatch(k)   == ticks[k].after < 0 \/ ticks[k].after # expected(ticks[k])
      reverted(k)   == ~ticks[k].passed /\ \E j \in 1 .. k - 1 : ticks[j].passed
      bad           == {k \in DOMAIN ticks : mismatch(k) \/ reverted(k)}
  IN IF bad = {} THEN ""
     ELSE IF mismatch(CHOOSE k \in bad : \A j \in bad : k <= j) THEN "arithmetic_mismatch"
     ELSE "gate_reverted_after_pass"

\* run_all_verifiers: the last submit and the last cancel of a child count, and
\* its first fill.
Report(bus) ==
  LET fills    == Query(bus, "fill")
      last(kind, id) == LET of == QueryChild(bus, kind, id)
                        IN IF of = <<>> THEN <<>> ELSE << of[Len(of)] >>
      children == Ids(fills) \cup Ids(Query(bus, "submit")) \cup Ids(Query(bus, "cancel"))
  IN [fees      |-> {k \in DOMAIN fills : ~FeePassed(fills[k])},
      slippages |-> {k \in DOMAIN fills : ~SlippagePassed(fills[k])},
      latencies |-> {id \in children :
                       LatencyViolation(last("submit", id), QueryChild(bus, "fill", id),
                                        last("cancel", id)) # ""},
      queues    |-> IF VerifyQueue
                    THEN {id \in Ids(Query(bus, "tick")) :
                            QueueViolation(QueryChild(bus, "tick", id)) # ""}
                    ELSE {}]

-----------------------------------------------------------------------------
(* Reporters *)

\* build_queue_report: queued orders, and the ticks each took to pass the gate.
QueueReport(bus) ==
  LET inits == Query(bus, "init")
      ticks(id) == QueryChild(bus, "tick", id)
      passes(id) == {k \in DOMAIN ticks(id) : ticks(id)[k].passed}
      ready == {id \in Ids(Query(bus, "tick")) : passes(id) # {}}
  IN [queued  |-> Cardinality(Ids(inits)),
      initial |-> FoldLeft(LAMBDA sum, e : sum + e.ahead, 0, inits),   \* over Len(inits)
      toReady |-> [id \in ready |->
        LET first == CHOOSE k \in passes(id) : \A j \in passes(id) : k <= j
        IN ticks(id)[first].tick - ticks(id)[1].tick + 1]]

\* build_fill_report: fills by side and by maker.
FillReport(bus) ==
  LET fills == Query(bus, "fill")
      count(P(_)) == Cardinality({k \in DOMAIN fills : P(fills[k])})
  IN [buys   |-> count(LAMBDA e : e.side = "BUY"),
      sells  |-> count(LAMBDA e : e.side = "SELL"),
      makers |-> count(LAMBDA e : e.maker),
      fees   |-> FoldLeft(LAMBDA sum, e : sum + e.fee, 0, fills)]
=============================================================================
