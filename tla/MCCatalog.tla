----------------------------- MODULE MCCatalog ------------------------------
(***************************************************************************)
(* What the services show of what they read, for TLC: the event, sports    *)
(* and currency services, which cache it, and merchants with their         *)
(* markets.  Each is explored by itself, as the part says: what the others *)
(* do to an event is part of each module.                                  *)
(***************************************************************************)
EXTENDS EventService, SportsService, MarketService, RateService

VARIABLE part

mcVars == <<serviceVars, sports, business, rateVars, part>>

\* Line-ups are only names: any of them may be the first.
FirstLineup == CHOOSE l \in Lineups : TRUE

AnyMerchant == CHOOSE a \in Merchants : TRUE
AnyEvent == CHOOSE e \in Events : TRUE
OwnedBy == [m \in Markets |-> AnyMerchant]
About == [m \in Markets |-> AnyEvent]

\* Every call in a process of its own; a revised snapshot and a new one.
OwnProcess == [a \in Askers |-> a]
Snapshots == <<1, 1, 2>>

MCInit == /\ part \in {"events", "sports", "markets", "rates"}
          /\ NoEvents /\ ServiceInit /\ SportsInit /\ MarketInit /\ RateInit
          /\ \A g \in Games : listed[g].lineup = FirstLineup

OnlyEvents(step) == /\ part = "events" /\ step
                    /\ UNCHANGED <<part, sports, business, rateVars>>
OnlySports(step) == /\ part = "sports" /\ step
                    /\ UNCHANGED <<part, service, business, rateVars>>
OnlyMarkets(step) == /\ part = "markets" /\ step
                     /\ UNCHANGED <<part, service, sports, rateVars>>
OnlyRates(step) == /\ part = "rates" /\ step
                   /\ UNCHANGED <<part, serviceVars, sports, business>>

MCNext == \/ OnlyEvents(ServiceNext)
          \/ OnlySports(SportsNext)
          \/ OnlyMarkets(MarketNext)
          \/ OnlyRates(RateNext)

\* The fairness of each module, for its own part.
MCFairness ==
    /\ \A r \in Requests : WF_mcVars(OnlyEvents(Step(r)))
    /\ \A e \in Events : WF_mcVars(OnlyEvents(ExpireDetail(e)))
    /\ WF_mcVars(OnlySports(SyncGamesStep))
    /\ \A r \in Readers : WF_mcVars(OnlySports(ReaderStep(r)))
    /\ \A g \in Games : WF_mcVars(OnlySports(ExpireGame(g)))
    /\ WF_mcVars(OnlySports(ExpireScores))
    /\ \A a \in Askers : WF_mcVars(OnlyRates(AskerStep(a)))
    /\ \A p \in Pairs : WF_mcVars(OnlyRates(ExpireRate(p)))
    /\ WF_mcVars(OnlyRates(TimePasses))

MCSpec == MCInit /\ [][MCNext]_mcVars /\ MCFairness
=============================================================================
