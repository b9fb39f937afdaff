-------------------------- MODULE MCSignalPosition --------------------------
(***************************************************************************)
(* Constant values for checking SignalPosition with TLC, and the book and  *)
(* schedule algorithms on every small input, checked once, before the      *)
(* first state is read.                                                    *)
(***************************************************************************)
EXTENDS SignalPosition

\* Bounds of the inputs: books of two symbols, prices, portfolio values.
Pair == {"a", "b"}
Books == [Pair -> -4 .. 4]
PriceLists == [Pair -> {7, 20}]
Values == {-5, 60, 400}

Nothing == [s \in Pair |-> 0]

\* Applied once, in sequence, the caps shrink positions and flip none, and
\* leave every limit kept up to the rounding of a share, with one exception:
\* the net may be too large again when a later cap cut the other leg, or when
\* the account is worthless and only the first two caps run.  Throttling keeps
\* the trades within the turnover budget up to the same rounding and turns none
\* round; diluting a book by one factor never makes a concentrated single
\* position acceptable.
\* (RiskCaps.apply, TurnoverBudget.throttle, ExposureController.apply_constraints)
CapsLeaveOnlyNet ==
  seen = 0 => \A book \in Books, prices \in PriceLists :
    /\ \A value \in Values :
         /\ CapsHold(book, prices, value)
         /\ BudgetHolds(book, Nothing, prices, value)
         /\ BudgetHolds(Nothing, book, prices, value)
    /\ DilutionIsVain(book, prices, 30)

\* Parent orders to schedule: quantities, start times (the window is from the
\* start to the close) and numbers of slices.
ToSchedule == {[qty |-> q, filled |-> f, start |-> t, end |-> SessionClose] :
                 q \in 1 .. 7, f \in 0 .. 1, t \in {0, 3, 20, 49, 52}}

\* Splitting a schedule moves every remaining share into some slice, in time
\* order, and none strictly inside an avoided window.  Only an order that
\* starts too near the close for any slice gets one before its own start.
\* (OrderScheduler.split_schedule)
ScheduleIsComplete ==
  seen = 0 => \A p \in ToSchedule, n \in 1 .. 5 : ScheduleHolds(p, n)
=============================================================================
