---------------------------- MODULE MCPublishing -----------------------------
(***************************************************************************)
(* The two services that publish a price, for TLC: the pricing engine's     *)
(* series and the attestor.  The attestor takes any candidate the engine    *)
(* may compute, whatever the series before it, so the two are checked side  *)
(* by side: `subject' is the one that moves, the other rests.               *)
(***************************************************************************)
EXTENDS Attestor, TLC

CONSTANTS gA, gB, c1, c2,          \* GPUs and cycles
          m1, m2, m3, h1, h2,      \* machines and hosts
          Steps, MaxRows

VARIABLES subject, now, rows, override, window

-----------------------------------------------------------------------------
(* Two GPUs.  The candidates of gA, which comes first in a cycle, are       *)
(* priceless or flagged, those of gB are good.                              *)
good == [gpuId |-> gA, computedAt |-> 0, price |-> 20, status |-> "healthy",
         methodologyVersion |-> "v1", providersContributing |-> 2, contributors |-> {"p"},
         dispersion |-> 1, bandWidth |-> 1]

MCGpus == <<gA, gB>>
MCTemplates == {[good EXCEPT !.gpuId = gB],
                [good EXCEPT !.price = Missing, !.status = "withheld"],
                [good EXCEPT !.price = 24, !.providersContributing = 0]}
MCConfig == [pinnedMethodologyVersion |-> "v1", minContributors |-> Missing, maxDispersion |-> 3,
             maxFreshness |-> 2, maxJumpPct |-> 25, maxBandWidthPct |-> Missing]
MCBreakers == {fetchBreakerMap({[provider |-> "p", breakerOpen |-> FALSE]})}
MCPanel == [minProviders |-> 1, maxDispersion |-> 4]
MCPosture == [chainId |-> 1, signer |-> 1, epochLength |-> EpochLength,
              maxObservationAge |-> MaxObservationAge]
MCOnchain == {MCPosture, [MCPosture EXCEPT !.signer = 2]}

-----------------------------------------------------------------------------
(* Three eligible providers, one an order book, and a watchdog.            *)
listing(m, h, price, gpus) ==
  [machineId |-> m, hostId |-> h, offerId |-> None, usdPerGpuHour |-> price,
   rawTotalUsdPerHour |-> None, pricingTier |-> "on_demand", gpuCount |-> gpus,
   isBid |-> FALSE, available |-> TRUE]
rate(price) == listing(None, None, price, None)

deep == <<listing(m1, h1, 100, 1), listing(m2, h2, 104, 4), listing(m1, h1, 90, 1)>>
thin == <<listing(m1, h1, 100, 2), [listing(m2, h2, 104, 2) EXCEPT !.isBid = TRUE],
          [listing(m3, h2, 104, 2) EXCEPT !.rawTotalUsdPerHour = 100]>>
anonymous == <<listing(m1, None, 120, 1), listing(m2, None, 130, 1), listing(m3, None, 990, 1)>>
card == <<rate(100), rate(111), [rate(50) EXCEPT !.pricingTier = "spot"]>>

MCRoles == 1 :> "SETTLEMENT_ELIGIBLE" @@ 2 :> "SETTLEMENT_ELIGIBLE"
             @@ 3 :> "SETTLEMENT_ELIGIBLE" @@ 4 :> "WATCHDOG_ONLY"
fair == <<rate(104)>>
high == <<rate(180)>>
MCWindows == {w \o <<<<rate(300)>>>> :
                w \in {<<deep, card, fair>>, <<anonymous, <<rate(150)>>, high>>, <<deep, card, high>>,
                       <<thin, card, fair>>, <<thin, <<>>, <<>>>>}}
none == [p \in 1 .. 4 |-> None]
zero == [p \in 1 .. 4 |-> 0]
MCStats == {[trailingMedian |-> none, sigma |-> zero, lastPriceAt |-> zero],
            [trailingMedian |-> [p \in 1 .. 4 |-> 104], sigma |-> [zero EXCEPT ![2] = 10],
             lastPriceAt |-> [zero EXCEPT ![3] = 3]]}
MCMethodology ==
  [screening |-> [minProvidersForScreen |-> 3, madScale |-> 148, sigmaLimit |-> 3, madZeroRatioBand |-> 3],
   aggregation |-> [minMachinesForBook |-> 2, minHostsForBook |-> 2, arithmeticTolerancePerGpu |-> 1,
                    gpuCountMin |-> 1, gpuCountMax |-> 4, eligibleTiers |-> {"on_demand"},
                    bandLo |-> 20, bandHi |-> 400],
   weights |-> [executable |-> 100, rateCard |-> 60], weightCap |-> 35,
   dispersion |-> [max |-> 45, warn |-> 25], voteSigmaFloor |-> 3,
   gates |-> [minProviders |-> 3, minObservations |-> 3, maxObservationAge |-> 2, requireExecutable |-> TRUE],
   carryForwardWindow |-> 2,
   jump |-> [maxProviderJumpPct |-> 25, minCorroborators |-> 2, minCorroboratorMovePct |-> 10],
   movement |-> [allowancePct |-> 5, reversion |-> 70, stepPct |-> 40]]
noPatch == [x \in {} |-> 0]
MCOverrides == {[gates |-> noPatch, dispersion |-> noPatch],
                [gates |-> [minProviders |-> 2], dispersion |-> [max |-> 60]]}
MCUnits == {-100}

Series == INSTANCE IndexSeries WITH
  Roles <- MCRoles, Executable <- {1, 2}, Windows <- MCWindows, Stats <- MCStats,
  Units <- MCUnits, Config <- MCMethodology, Overrides <- MCOverrides

(* The validator accepts the methodology with each override.                *)
ASSUME ConfigValid == \A o \in MCOverrides : Series!validateMethodologyConfig(MCMethodology, o)

-----------------------------------------------------------------------------
seriesVars == <<now, rows, override, window>>
mcVars == <<subject, vars, seriesVars>>

MCInit ==
  /\ subject \in {"attestor", "series"}
  /\ Init /\ Series!Init
  /\ subject = "attestor" => override = CHOOSE o \in MCOverrides : TRUE

MCNext ==
  /\ UNCHANGED subject
  /\ \/ subject = "attestor" /\ Next /\ UNCHANGED seriesVars
     \/ subject = "series" /\ Series!Next /\ UNCHANGED vars

(* The attestor's fairness; nothing is asked of the series, of which safety *)
(* alone is checked.                                                        *)
MCSpec == MCInit /\ [][MCNext]_mcVars /\ (subject = "attestor" => Fairness)

-----------------------------------------------------------------------------
(* The series' properties, where they are explained.                        *)
FloodingIsFutile == Series!FloodingIsFutile
AnchorHonest == Series!AnchorHonest
RowsHonest == Series!RowsHonest
=============================================================================
