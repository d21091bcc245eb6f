----------------------------- MODULE MCOrders ------------------------------
(***************************************************************************)
(* Calls that others come in between, for TLC: order, cancellation and     *)
(* settlement calls, listings read page by page, reports, and the replicas *)
(* that synchronize events with Polymarket.  A listing and a report only   *)
(* read, and only some columns of their rows, and a synchronization writes *)
(* to the event tables alone, so each is explored by itself, as the part   *)
(* says.                                                                   *)
(***************************************************************************)
EXTENDS OrderRequests, Listings, StatsService, EventSync, TLC

CONSTANTS u1, u2, m1, m2, k1, q1, t1, t2, e1, e2, s1, s2, p1, yes, no

VARIABLE part

mcVars == <<orderVars, listingVars, statsVars, syncVars, part>>

A(user, side, market) == [user |-> user, side |-> side, market |-> market]
An(user, side, market, status) ==
    [key |-> NoKey, wish |-> A(user, side, market), status |-> status]

\* Two markets whose orders name the same two users in opposite order: one
\* market has traded, the other has two open orders.  The first user also
\* cancelled an order of the market that has traded: once that is settled,
\* nothing is locked any more for the order the user has in the other one.
StandingOrders == << An(u1, "buy", m1, "filled"), An(u2, "sell", m1, "filled"),
                     An(u2, "sell", m2, "open"), An(u1, "sell", m2, "open"),
                     An(u1, "sell", m1, "cancelled") >>

\* What is sent under the key: the request, and another one by mistake.
KeyedWishes == (k1 :> {A(u1, "buy", m2), A(u1, "buy", m1)})

CreditedTo == (q1 :> u1)
ById == (u1 :> 1) @@ (u2 :> 2)

PlacedBy == (t1 :> u1) @@ (t2 :> u2)
InDollars == [t \in Tickets |-> "USD"]
Reported == {"merchant 24h", "platform", u2}

\* Two source events.  In the part "sync" both replicas follow the first from
\* its opening while the source does not list the second; in the part "page"
\* both are decided from the start and one replica finds them on its pages.
Opening == [active |-> TRUE, closed |-> FALSE,
            prices |-> [m \in SourceMarkets |-> [o \in Outcomes |-> Between]]]
Unlisted == [Opening EXCEPT !.active = FALSE]
Decided == [active |-> FALSE, closed |-> TRUE,
            prices |-> [m \in SourceMarkets |-> Final(yes)]]

MCInit == /\ part \in {"orders", "listings", "reports", "sync", "page"}
          /\ source = IF part = "page" THEN (e1 :> Decided) @@ (e2 :> Decided)
                      ELSE (e1 :> Opening) @@ (e2 :> Unlisted)
          /\ OrdersInit /\ ListingInit /\ StatsInit /\ NoEvents /\ SyncInit

\* The market that has traded is settled or not, but never closed, which would
\* refuse placements just as well.
OnlyOrders(step) == /\ part = "orders" /\ step
                    /\ markets'[m1] # "closed"
                    /\ UNCHANGED <<part, listingVars, statsVars, syncVars>>
\* Markets are listed exactly as orders are, by page.
OnlyListings(step) == /\ part = "listings" /\ step
                      /\ reader'.how # "markets"
                      /\ UNCHANGED <<part, orderVars, statsVars, syncVars>>
\* Nobody asks for a report on the first user, whose payout is in no other.
OnlyReports(step) == /\ part = "reports" /\ step
                     /\ payouts'[t1] # "won"
                     /\ UNCHANGED <<part, orderVars, listingVars, syncVars>>

\* A market that leads without being decided leads to "yes", and the first of
\* the two to move is the one named so.
OnlySync(step) ==
    /\ part \in {"sync", "page"} /\ step
    /\ UNCHANGED <<part, orderVars, listingVars, statsVars>>
    /\ \A m \in SourceMarkets : source'[e1].prices[m] # Leading(no)
    /\ source'[e1].prices[s2] # Opening.prices[s2]
        => source'[e1].prices[s1] # Opening.prices[s1]
    /\ part = "sync" => source'[e2] = Unlisted /\ events'[e2] = NoRow
    /\ part = "page" => /\ source'[e1] = Decided
                       /\ \A r \in Replicas \ {p1} : sync'[r] = NoRun

MCNext == \/ OnlyOrders(OrdersNext) \/ OnlyListings(ListingNext)
          \/ OnlyReports(StatsNext) \/ OnlySync(SyncNext)

\* The fairness of OrderRequests and of EventSync, for their parts.
MCFairness ==
    /\ \A c \in Calls : WF_mcVars(OnlyOrders(OrderStep(c)))
    /\ WF_mcVars(OnlyOrders(\E c \in Calls : DeadlockDetected(c)))
    /\ WF_mcVars(OnlySync(LeaseExpires))
    /\ WF_mcVars(OnlySync(\E r \in Replicas : Tick(r)))
    /\ \A r \in Replicas : WF_mcVars(OnlySync(SyncStep(r)))

MCSpec == MCInit /\ [][MCNext]_mcVars /\ MCFairness
=============================================================================
