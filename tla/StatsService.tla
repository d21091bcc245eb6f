---------------------------- MODULE StatsService ----------------------------
(***************************************************************************)
(* Analytics: a report is put together from several statements, each of    *)
(* which sees the rows of its own moment, while orders are created,        *)
(* matched and settled and grow older than the report's time range.  It is *)
(* cached for five minutes.  What the matching and the settlement decide   *)
(* is in Exchange; here they only add to the rows.  The report on a market *)
(* is left out: it shows prices and shares of other columns.               *)
(***************************************************************************)
EXTENDS Totals

CONSTANTS Tickets,      \* the orders of one market of the merchant
          TraderOf,     \* the user of an order
          CurrencyOf,   \* its currency
          Topics,       \* the reports that are asked for
          Shares,       \* bound: what an order asks for
          Viewers,      \* calls in progress at once
          NoReport

Traders == {TraderOf[t] : t \in Tickets}
Monies == {CurrencyOf[t] : t \in Tickets}

\* Reports on the merchant and the platform, over a time range or not, and on
\* every user.
Windowed == {"merchant 24h", "platform 24h"}
Unlimited == {"merchant", "platform"}

ASSUME StatsServiceAssumption ==
    /\ IsFiniteSet(Tickets)
    /\ Shares \in Nat
    /\ Topics \subseteq Windowed \cup Unlimited \cup Traders
    /\ Traders \cap (Windowed \cup Unlimited) = {}
    /\ NoReport \notin Topics

VARIABLES filled,    \* filled_amount of every created order
          made,      \* orders that were created
          old,       \* those of them that left the time range
          payouts,   \* settlement_payouts: "won" or "lost"
          reports,   \* the cached report under every key
          viewers    \* the call every slot is executing

statsVars == <<filled, made, old, payouts, reports, viewers>>

NoView == [at |-> "idle", on |-> NoReport, past |-> {}, volume |-> 0,
           byMoney |-> [c \in Monies |-> 0], settled |-> 0, wins |-> 0, paid |-> 0]

StatsInit == /\ filled = [t \in Tickets |-> 0]
             /\ made = {} /\ old = {}
             /\ payouts = [t \in Tickets |-> "none"]
             /\ reports = [k \in Topics |-> NoReport]
             /\ viewers = [v \in Viewers |-> NoView]

-----------------------------------------------------------------------------
(* The rows                                                                *)

unchangedViews == UNCHANGED <<reports, viewers>>

CreateTicket ==
    /\ \E t \in Tickets \ made : made' = made \cup {t}
    /\ UNCHANGED <<filled, old, payouts>> /\ unchangedViews

\* A trade fills both of its orders in one transaction.
Match ==
    /\ \E t, u \in made :
        /\ t # u /\ CurrencyOf[t] = CurrencyOf[u]
        /\ filled[t] < Shares /\ filled[u] < Shares
        /\ payouts[t] = "none" /\ payouts[u] = "none"
        /\ filled' = [filled EXCEPT ![t] = @ + 1, ![u] = @ + 1]
    /\ UNCHANGED <<made, old, payouts>> /\ unchangedViews

\* Settlement of the market: a payout row for every order that was filled.
PayOut ==
    /\ \A t \in Tickets : payouts[t] = "none"
    /\ \E winners \in SUBSET made :
        payouts' = [t \in Tickets |-> IF filled[t] = 0 THEN "none"
                                      ELSE IF t \in winners THEN "won" ELSE "lost"]
    /\ UNCHANGED <<filled, made, old>> /\ unchangedViews

TimeGoesBy ==
    /\ \E t \in made \ old : old' = old \cup {t}
    /\ UNCHANGED <<filled, made, payouts>> /\ unchangedViews

-----------------------------------------------------------------------------
(* A report                                                                *)

Views(v, view) == /\ viewers' = [viewers EXCEPT ![v] = view]
                  /\ UNCHANGED <<filled, made, old, payouts>>

\* The cutoff is computed once, when the call begins.
parseTimeRange(topic) == IF topic \in Windowed THEN old ELSE {}

Ask(v, topic) ==
    /\ viewers[v] = NoView
    /\ reports[topic] = NoReport
    /\ Views(v, [NoView EXCEPT !.at = "summary", !.on = topic,
                               !.past = parseTimeRange(topic)])
    /\ UNCHANGED reports

\* A mutant: the statements compare with the clock of their own moment.
AsOfNow(v) == {t \in made : /\ viewers[v].on \in Traders => TraderOf[t] = viewers[v].on
                            /\ viewers[v].on \in Windowed => t \notin old}

\* WHERE user_id = ... and created_at >= cutoff.
Concerned(v) == {t \in made : /\ viewers[v].on \in Traders => TraderOf[t] = viewers[v].on
                              /\ t \notin viewers[v].past}

Volume(S) == Total([t \in S |-> filled[t]])

\* Of both sides of every trade; the code halves what is not one user's.  The
\* count of active markets and the fees, of which there are none yet, come
\* from tables of their own.  A user with neither wallet nor order is unknown.
Summary(v) ==
    /\ viewers[v].at = "summary"
    /\ \/ Views(v, [viewers[v] EXCEPT !.at = "volumes",
                        !.volume = Volume(Concerned(v))])
       \/ /\ viewers[v].on \in Traders /\ Concerned(v) = {}
          /\ Views(v, NoView)
    /\ UNCHANGED reports

\* GROUP BY currency.
scanCurrencyAmounts(v) ==
    [c \in Monies |-> Volume({t \in Concerned(v) : CurrencyOf[t] = c})]

VolumesByCurrency(v) ==
    /\ viewers[v].at = "volumes"
    /\ Views(v, [viewers[v] EXCEPT !.byMoney = scanCurrencyAmounts(v),
                    !.at = IF viewers[v].on \in Traders THEN "results" ELSE "put"])
    /\ UNCHANGED reports

PaidTo(v) == {t \in Concerned(v) : payouts[t] # "none"}

WinRate(v) ==
    /\ viewers[v].at = "results"
    /\ Views(v, [viewers[v] EXCEPT !.at = "profit",
                    !.settled = Cardinality(PaidTo(v)),
                    !.wins = Cardinality({t \in PaidTo(v) : payouts[t] = "won"})])
    /\ UNCHANGED reports

\* The orders whose stake and payout make the profit.
Profit(v) ==
    /\ viewers[v].at = "profit"
    /\ Views(v, [viewers[v] EXCEPT !.at = "put", !.paid = Cardinality(PaidTo(v))])
    /\ UNCHANGED reports

\* A failed call of the cache is ignored.
putCached(v) ==
    /\ viewers[v].at = "put"
    /\ \/ reports' = [reports EXCEPT
                ![viewers[v].on] = [viewers[v] EXCEPT !.past = {}]]
       \/ UNCHANGED reports
    /\ Views(v, NoView)

ExpireReport(topic) ==
    /\ reports[topic] # NoReport
    /\ reports' = [reports EXCEPT ![topic] = NoReport]
    /\ UNCHANGED <<filled, made, old, payouts, viewers>>

StatsNext ==
    \/ CreateTicket \/ Match \/ PayOut \/ TimeGoesBy
    \/ \E v \in Viewers : \/ \E topic \in Topics : Ask(v, topic)
                          \/ Summary(v) \/ VolumesByCurrency(v)
                          \/ WinRate(v) \/ Profit(v) \/ putCached(v)
    \/ \E topic \in Topics : ExpireReport(topic)

StatsSpec == StatsInit /\ [][StatsNext]_statsVars

-----------------------------------------------------------------------------
AddsUp(report) ==
    /\ report.volume <= Total(report.byMoney)
    /\ report.wins <= report.settled /\ report.settled <= report.paid
    /\ report.on \in Unlimited
        => report.volume % 2 = 0 /\ \A c \in Monies : report.byMoney[c] % 2 = 0

\* The parts of a report are read at different moments.  Later parts still
\* never miss what earlier ones counted, and a report without a time range
\* never counts one side of a matched pair only.  (docs/API.md: matched
\* volume is counted once per matched pair; per-currency fields should be
\* used for financial reporting.)
ReportsAddUp == \A topic \in Topics : reports[topic] # NoReport => AddsUp(reports[topic])
=============================================================================
