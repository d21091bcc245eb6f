--------------------------- MODULE MarketService ----------------------------
(***************************************************************************)
(* Merchants and markets: the calls of the merchant and market services    *)
(* with their separate repository statements, the event the markets are    *)
(* about, which opens, closes and is resolved meanwhile, and settlement's  *)
(* visits to the markets of a resolved event: a visit may pass markets     *)
(* over or end early, and a retry, a redelivery or a replay visits again.  *)
(* Orders and money are in Exchange; messages in SettlementDelivery.       *)
(***************************************************************************)
EXTENDS EventStore

CONSTANTS Merchants, Markets,
          Calls,          \* calls in progress at once
          EventOf,        \* the event a market is about
          MerchantOf,     \* the merchant it belongs to
          MaxLiquidity,   \* bound: what a market is lent
          NoMarket        \* the market of a call that concerns none

ASSUME MarketServiceAssumption ==
    /\ EventOf \in [Markets -> Events]
    /\ MerchantOf \in [Markets -> Merchants]
    /\ MaxLiquidity \in Nat
    /\ NoMarket \notin Markets \cup Merchants

VARIABLES merchants,   \* the row of every merchant
          markets,     \* the row of every market
          calls,       \* the call every slot is executing
          passes,      \* per event: the last visit of its markets
          timely       \* history: markets inserted before their event was
                       \* resolved, or before a visit listed its markets

business == <<merchants, markets, calls, passes, timely>>
marketVars == <<tables, business>>

NotStarted == [state |-> "none", todo |-> {}, skipped |-> FALSE]

NoMerchant == [status |-> "none", currency |-> "USD"]
Currencies == {"USD", "EUR"}

NoMarketRow == [status |-> "none", pool |-> 0, options |-> {}]
OpenStatuses == {"active", "suspended", "closed"}

NoCall == [at |-> "idle", on |-> NoMarket, to |-> "none",
           seen |-> "none", row |-> NoMerchant]

MerchantsInit == merchants = [a \in Merchants |-> NoMerchant]

MarketInit ==
    /\ MerchantsInit
    /\ markets = [m \in Markets |-> NoMarketRow]
    /\ calls = [c \in Calls |-> NoCall]
    /\ passes = [e \in Events |-> NotStarted]
    /\ timely = {}

Continues(c, call) == calls' = [calls EXCEPT ![c] = call]
Answers(c) == Continues(c, NoCall)

-----------------------------------------------------------------------------
(* Merchants                                                               *)

\* The rows a valid registration makes.
validateRegisterRequest == [status : {"active"}, currency : Currencies]

\* INSERT; ids and API keys are random.
InsertMerchant(a) ==
    /\ merchants[a] = NoMerchant
    /\ \E row \in validateRegisterRequest : merchants' = [merchants EXCEPT ![a] = row]

Register(c, a) ==
    /\ calls[c] = NoCall
    /\ InsertMerchant(a)
    /\ UNCHANGED <<tables, markets, calls, passes, timely>>

\* A key of a merchant that is not active is refused.
ValidateAPIKey(a) == merchants[a].status = "active"

\* A slot is free, and the key that opens the call is valid; the key is not
\* looked at again while the call runs.
RequireMerchant(c, a) == calls[c] = NoCall /\ ValidateAPIKey(a)

\* The merchant's own key opens the call; then the row is read.
UpdateMerchant(c, a) ==
    /\ RequireMerchant(c, a)
    /\ Continues(c, [NoCall EXCEPT !.at = "get", !.on = a])
    /\ UNCHANGED <<tables, merchants, markets, passes, timely>>

\* The fields of the request, in the row that was read.
applyUpdate(row) == {[row EXCEPT !.currency = currency] : currency \in Currencies}

ReadMerchant(c) ==
    /\ calls[c].at = "get"
    /\ \E row \in applyUpdate(merchants[calls[c].on]) :
        Continues(c, [calls[c] EXCEPT !.at = "write", !.row = row])
    /\ UNCHANGED <<tables, merchants, markets, passes, timely>>

\* UPDATE writes every column back, the status that was read included.
WriteMerchant(c) ==
    /\ calls[c].at = "write"
    /\ merchants' = [merchants EXCEPT ![calls[c].on] = calls[c].row]
    /\ Answers(c)
    /\ UNCHANGED <<tables, markets, passes, timely>>

\* No call of the program does it; an operator does, in the database
\* (docs/RUNBOOK.md, key rotation).
Deactivate(a) ==
    /\ merchants[a].status = "active"
    /\ merchants' = [merchants EXCEPT ![a].status = "inactive"]
    /\ UNCHANGED <<tables, markets, calls, passes, timely>>

-----------------------------------------------------------------------------
(* Markets                                                                 *)

ValidateReferences(m) ==
    /\ merchants[MerchantOf[m]].status = "active"
    /\ events[EventOf[m]].status = "active"

CreateMarket(c, m) ==
    /\ calls[c] = NoCall
    /\ markets[m] = NoMarketRow
    /\ \A d \in Calls : calls[d].on # m
    /\ ValidateReferences(m)
    /\ Continues(c, [NoCall EXCEPT !.at = "insert", !.on = m])
    /\ UNCHANGED <<tables, merchants, markets, passes, timely>>

\* The rows a valid request makes: with or without a pool, and whatever
\* outcomes of the event are among the market's options.
NewMarkets == [status : {"active"}, pool : 0 .. MaxLiquidity, options : SUBSET Outcomes]

\* The foreign keys only ask that merchant and event exist.
InsertMarket(c) ==
    /\ calls[c].at = "insert"
    /\ LET m == calls[c].on IN
       /\ \E row \in NewMarkets : markets' = [markets EXCEPT ![m] = row]
       /\ timely' = IF events[EventOf[m]].status = "resolved" THEN timely
                    ELSE timely \cup {m}
    /\ Answers(c)
    /\ UNCHANGED <<tables, merchants, passes>>

CanMove(from, to) ==
    \/ from = "active" /\ to \in {"suspended", "closed"}
    \/ from = "suspended" /\ to \in {"active", "closed"}

UpdateMarketStatus(c, m, to) ==
    /\ calls[c] = NoCall
    /\ CanMove(markets[m].status, to)
    /\ Continues(c, [NoCall EXCEPT !.at = "move", !.on = m, !.to = to,
                                   !.seen = markets[m].status])
    /\ UNCHANGED <<tables, merchants, markets, passes, timely>>

MoveMarket(c) ==
    /\ calls[c].at = "move"
    /\ markets' = IF markets[calls[c].on].status = calls[c].seen
                  THEN [markets EXCEPT ![calls[c].on].status = calls[c].to]
                  ELSE markets
    /\ Answers(c)
    /\ UNCHANGED <<tables, merchants, passes, timely>>

AddLiquidity(c, m) ==
    /\ calls[c] = NoCall
    /\ markets[m].status = "active"
    /\ Continues(c, [NoCall EXCEPT !.at = "lend", !.on = m, !.seen = "active"])
    /\ UNCHANGED <<tables, merchants, markets, passes, timely>>

\* A mutant: UPDATE without the status that was read.
LendAnyway(c) ==
    /\ calls[c].at = "lend"
    /\ markets[calls[c].on].pool < MaxLiquidity
    /\ markets' = [markets EXCEPT ![calls[c].on].pool = @ + 1]
    /\ Answers(c)
    /\ UNCHANGED <<tables, merchants, passes, timely>>

LendMarket(c) ==
    /\ calls[c].at = "lend"
    /\ LET m == calls[c].on IN
       IF markets[m].status = calls[c].seen
       THEN /\ markets[m].pool < MaxLiquidity
            /\ markets' = [markets EXCEPT ![m].pool = @ + 1]
       ELSE UNCHANGED markets
    /\ Answers(c)
    /\ UNCHANGED <<tables, merchants, passes, timely>>

-----------------------------------------------------------------------------
(* The event and its settlement                                            *)

MoveEvent ==
    /\ \E e \in Events :
        \/ CreateRow(e)
        \/ \E to \in Statuses : /\ canTransition(events[e].status, to)
                                /\ SetStatus(e, events[e].status, to)
        \/ \E o \in Outcomes : ResolveRow(e, "closed", o, "manual")
    /\ UNCHANGED business

unsettledMarkets(e) == {m \in Markets : /\ EventOf[m] = e
                                        /\ markets[m].status \in OpenStatuses}

\* SettleEvent lists the markets once the event is resolved, and again when
\* the message is retried, redelivered or replayed, ...
ListMarkets(e) ==
    /\ events[e].status = "resolved"
    /\ passes[e].state # "running"
    /\ passes' = [passes EXCEPT ![e] = [state |-> "running", skipped |-> FALSE,
                                        todo |-> unsettledMarkets(e)]]
    /\ timely' = timely \cup unsettledMarkets(e)
    /\ UNCHANGED <<tables, merchants, markets, calls>>

Offers(m) == events[EventOf[m]].outcome \in markets[m].options

\* ... settles each of them in a transaction of its own, ...
SettleListed(e) ==
    /\ \E m \in passes[e].todo :
        /\ Offers(m)
        /\ markets' = [markets EXCEPT ![m].status = "settled"]
        /\ passes' = [passes EXCEPT ![e].todo = @ \ {m}]
    /\ UNCHANGED <<tables, merchants, calls, timely>>

\* ... passes over one that does not offer the outcome (ErrOutcomeNotOption)
\* or has an order without a wallet (ErrOrderWalletNotFound) ...
SkipListed(e) ==
    /\ \E m \in passes[e].todo :
        passes' = [passes EXCEPT ![e].todo = @ \ {m}, ![e].skipped = TRUE]
    /\ UNCHANGED <<tables, merchants, markets, calls, timely>>

\* ... and ends at any other error, the markets it has not reached as they are.
VisitFails(e) ==
    /\ passes[e].state = "running"
    /\ passes' = [passes EXCEPT ![e] = [NotStarted EXCEPT !.state = "failed"]]
    /\ UNCHANGED <<tables, merchants, markets, calls, timely>>

\* A mutant: the error of a market that was passed over is lost.
PassEndsSilently(e) ==
    /\ passes[e].state = "running"
    /\ passes[e].todo = {}
    /\ passes' = [passes EXCEPT ![e] = [NotStarted EXCEPT !.state = "done"]]
    /\ UNCHANGED <<tables, merchants, markets, calls, timely>>

\* The message is acknowledged as settled; with a market passed over it is a
\* dead letter.
PassEnds(e) ==
    /\ passes[e].state = "running"
    /\ passes[e].todo = {}
    /\ passes' = [passes EXCEPT ![e] = [NotStarted EXCEPT
                    !.state = IF passes[e].skipped THEN "failed" ELSE "done"]]
    /\ UNCHANGED <<tables, merchants, markets, calls, timely>>

MerchantCall(c) == \E a \in Merchants : Register(c, a) \/ UpdateMerchant(c, a)

MarketCall(c) ==
    \E m \in Markets :
        \/ CreateMarket(c, m) \/ AddLiquidity(c, m)
        \/ \E to \in OpenStatuses : UpdateMarketStatus(c, m, to)

MarketNext ==
    \/ \E c \in Calls :
        \/ MerchantCall(c) \/ ReadMerchant(c) \/ WriteMerchant(c)
        \/ MarketCall(c) \/ InsertMarket(c) \/ MoveMarket(c) \/ LendMarket(c)
    \/ \E a \in Merchants : Deactivate(a)
    \/ MoveEvent
    \/ \E e \in Events : \/ ListMarkets(e) \/ SettleListed(e) \/ SkipListed(e)
                         \/ VisitFails(e) \/ PassEnds(e)

MarketSpec == NoEvents /\ MarketInit /\ [][MarketNext]_marketVars

-----------------------------------------------------------------------------
\* Markets are created, suspended and closed while their event is resolved and
\* settlement visits them, skips some, fails and comes again.  When the last
\* visit ended without an error, every market that was inserted before the
\* resolution is settled, and every later one that a visit found.  A market
\* that was inserted after the last visit had listed the markets stays open:
\* ValidateReferences looked at the event before it closed, and no visit comes
\* for the market.
TimelyMarketsSettled ==
    \A m \in timely :
        passes[EventOf[m]].state = "done" => markets[m].status = "settled"

\* Status changes and liquidity are written by calls that read the market
\* earlier, perhaps before its settlement.  A settled market is final: no such
\* call reopens it or adds to its pool.
SettledMarketsFinal ==
    [][\A m \in Markets : markets[m].status = "settled"
            => markets'[m] = markets[m]]_marketVars

\* A merchant that was deactivated stays so and its API key is refused from
\* then on (docs/RUNBOOK.md: merchant API keys are invalidated by merchant
\* deactivation).  An update that read the row before writes the old status
\* back, and the key is valid again.
DeactivationHolds ==
    [][\A a \in Merchants :
        merchants[a].status = "inactive" => ~ ValidateAPIKey(a)']_marketVars
=============================================================================
