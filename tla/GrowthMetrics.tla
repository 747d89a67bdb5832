---------------------------- MODULE GrowthMetrics ----------------------------
(***************************************************************************)
(* compute_growth_metrics beside the simulation it reports on: ten SELECTs *)
(* on the outbox, five for an arm and one arm after the other, each of     *)
(* which sees what is committed when it runs (READ COMMITTED), while the   *)
(* simulation commits its events one by one.                               *)
(***************************************************************************)
EXTENDS TrustLab

\* A behaviour in which the metrics are read, or one in which nobody asks.
ASSUME MetricsCasts == \A c \in Casts : c.reads \in BOOLEAN

VARIABLE report     \* a reading of the metrics: the statements done, and what they answered

\* Mutant: the total is read before the orders it is divided by.
TotalBeforeOrders == <<"sessions", "total", "orders", "offered", "accepted">>

\* The statements of _arm_metrics, in order.
_arm_metrics == <<"sessions", "orders", "offered", "accepted", "total">>

Figures == {"sessions", "orders", "offered", "accepted", "total"}
Queries == Arms \X Figures

\* compute_growth_metrics: the baseline, then the upsell arm.
Statement(i) ==
    IF i <= 5 THEN <<"baseline", _arm_metrics[i]>> ELSE <<"upsell", _arm_metrics[i - 5]>>

EventType(figure) ==
    CASE figure = "sessions" -> "session.started"
      [] figure = "offered" -> "upsell.offered"
      [] figure = "accepted" -> "upsell.accepted"
      [] OTHER -> "order.completed"

\* What a statement counts in an outbox.
Rows(box, q) == {e \in box : e.type = EventType(q[2]) /\ e.arm = q[1]}

count_by_event_type_and_arm(box, q) == Cardinality(Rows(box, q))
sum_order_total_minor(box, q) == MapThenSumSet(LAMBDA e : Total(e.item), Rows(box, q))

Answer(box, q) ==
    IF q[2] = "total" THEN sum_order_total_minor(box, q) ELSE count_by_event_type_and_arm(box, q)

\* since: the outbox at the first statement; still: and at the latest one.
NoReport == [at |-> 0, got |-> [q \in Queries |-> 0], since |-> {}, still |-> TRUE]

\* The next statement of a reading; after the tenth another reading begins.
Select ==
    /\ cast.reads
    /\ LET i == IF report.at = 10 THEN 1 ELSE report.at + 1
           r == IF i = 1 THEN [NoReport EXCEPT !.since = outbox] ELSE report
           q == Statement(i) IN
       report' = [r EXCEPT !.at = i, !.got[q] = Answer(outbox, q), !.still = (outbox = r.since)]

MetricsNext ==
    \/ Next /\ UNCHANGED report
    \/ Select /\ UNCHANGED vars

MetricsInit == Init /\ report = NoReport

MetricsSpec == MetricsInit /\ [][MetricsNext]_<<vars, report>> /\ Fairness

-----------------------------------------------------------------------------
Got(arm, figure) == report.got[<<arm, figure>>]

aov_minor(arm) ==
    IF Got(arm, "orders") = 0 THEN None ELSE Got(arm, "total") \div Got(arm, "orders")

\* Undefined where nothing was offered.
attach_rate(arm) == IF Got(arm, "offered") = 0 THEN None ELSE "rate"

\* The difference only: what it is divided by is positive.
revenue_uplift ==
    IF \E arm \in Arms : aov_minor(arm) = None THEN None
    ELSE aov_minor("upsell") - aov_minor("baseline")

ReportedBy(arm) == {<<e.session, e.item>> : e \in Events("order.completed", arm)}
SoldBy(arm) ==
    {o.by : o \in {p \in orders : /\ p.source = "growth_simulation"
                                  /\ p.status = "CAPTURED"
                                  /\ Arm(p.by[1]) = arm}}

\* What a reading may say that the simulation wrote no event under.
IsConsistent ==
    /\ \A arm \in Arms :
         Got(arm, "accepted") <= Got(arm, "offered") /\ Got(arm, "offered") <= Got(arm, "sessions")
    /\ revenue_uplift # None => revenue_uplift >= 0

\* What compute_growth_metrics reports was sold.  An order.completed stands
\* for each captured order of the arm but the one a killed session did not
\* report.  A reading counts nothing that did not happen, offers nothing in
\* the baseline, and never puts an average under the price of the base item,
\* however many events come in between its statements, as the total is read
\* after the orders.  That no more is accepted than offered, and that the
\* uplift is not negative, is true of a reading during which no event was
\* written; others may say otherwise.
MetricsAreTrue ==
    /\ \A arm \in Arms :
         /\ ReportedBy(arm) \subseteq SoldBy(arm)
         /\ Cardinality(SoldBy(arm) \ ReportedBy(arm)) <= 1
    /\ report.at = 10 =>
         /\ \A q \in Queries : q[2] # "total" => report.got[q] <= Answer(outbox, q)
         /\ \A arm \in Arms : aov_minor(arm) # None => aov_minor(arm) >= 750
         /\ attach_rate("baseline") = None
         /\ report.still => IsConsistent

-----------------------------------------------------------------------------
(* Why it holds, proved in TrustLabProofs.                                 *)

\* What any one state of the outbox says.
BoxIsTrue(box) ==
    \A arm \in Arms :
        LET said(figure) == Answer(box, <<arm, figure>>) IN
        /\ \A figure \in Figures : said(figure) \in Nat
        /\ said("accepted") <= said("offered") /\ said("offered") <= said("sessions")
        /\ said("total") >= 750 * said("orders")
        /\ arm = "baseline" => said("offered") = 0 /\ said("total") = 750 * said("orders")

\* A reading x so far, beside an outbox.
IsReading(x, box) ==
    /\ x.at \in 0..10 /\ x.got \in [Queries -> Nat] /\ x.still \in BOOLEAN
    /\ DOMAIN x = DOMAIN NoReport
    /\ x.since \subseteq box /\ (x.since = box => x.still)
    /\ x.at > 0 => BoxIsTrue(x.since)
    /\ \A i \in 1..x.at :
         LET q == Statement(i) IN
         /\ q[2] # "total" => x.got[q] <= Answer(box, q)
         /\ q[2] = "total" => x.got[q] >= 750 * x.got[<<q[1], "orders">>]
         /\ q = <<"baseline", "offered">> => x.got[q] = 0
         /\ x.still => x.got[q] = Answer(x.since, q)

ReportOK == IsReading(report, outbox)
=============================================================================
