----------------------------- MODULE IndexSeries -----------------------------
(***************************************************************************)
(* The pricing engine (packages/pricing-engine/src) and the index series   *)
(* of one GPU: the engine is a pure function from a window of offers to    *)
(* one row, and every computation reads the newest priced row as its prior *)
(* and stores its result (packages/db/src/repos.ts).                       *)
(*                                                                         *)
(* A price is an integer number of ticks, a tick being the fourth decimal  *)
(* of a dollar, and round4 rounds to a tick.  A fraction x of the          *)
(* configuration is the integer x * Percent.  Ratios are compared by cross *)
(* multiplication; weights are integers, and the cap's division rounds     *)
(* down where the code's rounds to a double.  Providers are numbered in    *)
(* the order of the input list.                                            *)
(*                                                                         *)
(* The runner that collects offers and calls the engine is not in the      *)
(* repository: a window is any choice of each provider's rows, statistics  *)
(* and hash sample, and computations may share a timestamp.                *)
(***************************************************************************)
EXTENDS Integers, Sequences, FiniteSets, FiniteSetsExt, Functions

CONSTANTS None,        \* null
          Percent,     \* the denominator of the configuration's fractions
          Roles,       \* provider -> role in the registry
          Executable,  \* the providers with real inventory
          Windows,     \* choices of [provider -> sequence of rows]
          Stats,       \* choices of trailing medians, sigmas and last prices' ages
          Units,       \* the hash's samples
          Config, Overrides,
          Steps, MaxRows

-----------------------------------------------------------------------------
(* The engine                                                              *)
distance(x, y) == IF x > y THEN x - y ELSE y - x

(* Math.round on a quotient: halves go up.                                 *)
rounded(num, den) == (2 * num + den) \div (2 * den)

-----------------------------------------------------------------------------
(* Mutants                                                                 *)

(* The last listing of a machine replaces the earlier ones.                *)
latestListing(rows, key) ==
  {i \in DOMAIN key : \A j \in DOMAIN key : key[j] = key[i] => j <= i}

(* One re-capping pass in place of the iteration.                          *)
cappedOnce(w, cap) ==
  LET top == Max(Range(w))
      i == Min({x \in DOMAIN w : w[x] = top})
  IN  IF top * Percent <= cap * SumFunction(w) THEN w
      ELSE [w EXCEPT ![i] = (cap * (SumFunction(w) - top)) \div (Percent - cap)]

-----------------------------------------------------------------------------
(* Order statistics, doubled so that the mean of two middle values stays   *)
(* an integer.                                                             *)
kth(vals, k) == Min({v \in Range(vals) : Cardinality({i \in DOMAIN vals : vals[i] <= v}) >= k})

median2(vals) ==
  LET n == Cardinality(DOMAIN vals)
  IN  IF n = 0 THEN None
      ELSE kth(vals, (n + 1) \div 2) + kth(vals, n \div 2 + 1)

(* Four times the median absolute deviation around half of center2.        *)
mad4(vals, center2) == median2([i \in DOMAIN vals |-> distance(2 * vals[i], center2)])

(* The smallest value at which the cumulative weight reaches half.         *)
weightedMedian(vals, w) ==
  LET total == SumFunction(w)
  IN  IF total <= 0 THEN None
      ELSE Min({v \in Range(vals) :
                  2 * SumFunctionOnSet(w, {i \in DOMAIN vals : vals[i] <= v}) >= total})

-----------------------------------------------------------------------------
(* One provider's rows, in order, to one price or none.                    *)

aggregationPath(rows) ==
  IF \E i \in DOMAIN rows : rows[i].machineId # None \/ rows[i].hostId # None
  THEN "order_book" ELSE "rate_card"

screenRow(o, path, cfg) ==
  /\ o.available # FALSE
  /\ path = "order_book" => /\ ~o.isBid
                            /\ o.gpuCount # None
                            /\ cfg.gpuCountMin <= o.gpuCount /\ o.gpuCount <= cfg.gpuCountMax
  /\ cfg.bandLo <= o.usdPerGpuHour /\ o.usdPerGpuHour <= cfg.bandHi
  /\ (path = "order_book" /\ o.rawTotalUsdPerHour # None) =>
       distance(o.usdPerGpuHour * o.gpuCount, o.rawTotalUsdPerHour)
         <= cfg.arithmeticTolerancePerGpu * o.gpuCount

(* What identifies a listing: the machine, else the host, else the offer,  *)
(* else the row.                                                           *)
dedupKey(rows, i) ==
  LET named == SelectSeq(<<rows[i].machineId, rows[i].hostId, rows[i].offerId>>, LAMBDA x : x # None)
  IN  IF named = <<>> THEN i ELSE Head(named)

(* The cheapest listing of each key, the first of equals.                  *)
cheapestListing(rows, key) ==
  {i \in DOMAIN key : \A j \in DOMAIN key : key[j] = key[i] =>
     \/ rows[i].usdPerGpuHour < rows[j].usdPerGpuHour
     \/ rows[i].usdPerGpuHour = rows[j].usdPerGpuHour /\ i <= j}

(* If no row names a host, every machine is its own host; if some do, only *)
(* named hosts count.                                                      *)
depthOk(rows, book, cfg) ==
  LET machines == {IF rows[i].machineId # None THEN rows[i].machineId ELSE i : i \in book}
      named == {rows[i].hostId : i \in book} \ {None}
  IN  /\ Cardinality(machines) >= cfg.minMachinesForBook
      /\ Cardinality(IF named = {} THEN machines ELSE named) >= cfg.minHostsForBook

aggregateProviderPrice(rows, cfg) ==
  LET path == aggregationPath(rows)
      screened == {i \in DOMAIN rows : screenRow(rows[i], path, cfg)}
      book == cheapestListing(rows, [i \in screened |-> dedupKey(rows, i)])
      listed == {i \in screened : rows[i].pricingTier \in cfg.eligibleTiers}
      priceOn(S) == [i \in S |-> rows[i].usdPerGpuHour]
      gpusOn(S) == [i \in S |-> Min({rows[i].gpuCount, cfg.gpuCountMax, 16})]
  IN  IF path = "order_book"
      THEN [price |-> IF book # {} /\ depthOk(rows, book, cfg)
                      THEN weightedMedian(priceOn(book), gpusOn(book)) ELSE None,
            sampleSize |-> Cardinality(book)]
      ELSE [price |-> IF listed # {} THEN rounded(median2(priceOn(listed)), 2) ELSE None,
            sampleSize |-> Cardinality(listed)]

-----------------------------------------------------------------------------
(* Screens across providers.  price is a function on the providers.        *)

(* A jump against a provider's own trailing median, uncorroborated.        *)
jumpScreen(price, trailing, cfg) ==
  LET comparable == {p \in DOMAIN price : trailing[p] # None}
      moved(p, pct) == distance(price[p], trailing[p]) * Percent >= pct * trailing[p]
  IN  IF Cardinality(comparable) < cfg.minCorroborators + 1 THEN {}
      ELSE {p \in comparable :
              /\ moved(p, cfg.maxProviderJumpPct)
              /\ Cardinality({o \in comparable \ {p} : moved(o, cfg.minCorroboratorMovePct)})
                   < cfg.minCorroborators}

(* madScale * MAD / median of the prices, as a ratio.                      *)
dispersionOf(price, cfg) ==
  LET m == median2(price)
  IN  <<cfg.madScale * mad4(price, m), 2 * m * Percent>>

madScreen(price, cfg) ==
  LET med == median2(price)
      spread == mad4(price, med)
      inBand(p) == /\ 2 * price[p] * cfg.madZeroRatioBand >= med
                   /\ 2 * price[p] <= med * cfg.madZeroRatioBand
      near(p) == 2 * distance(2 * price[p], med) * Percent <= cfg.sigmaLimit * cfg.madScale * spread
      keptIf(test(_)) == {p \in DOMAIN price : test(p)}
  IN  CASE DOMAIN price = {} -> [kept |-> {}, dispersion |-> <<0, 1>>]
        [] DOMAIN price # {} /\ Cardinality(DOMAIN price) < cfg.minProvidersForScreen ->
             [kept |-> DOMAIN price, dispersion |-> dispersionOf(price, cfg)]
        [] Cardinality(DOMAIN price) >= cfg.minProvidersForScreen /\ spread = 0 ->
             [kept |-> keptIf(inBand), dispersion |-> <<0, 1>>]
        [] OTHER -> [kept |-> keptIf(near),
                     dispersion |-> dispersionOf(Restrict(price, keptIf(near)), cfg)]

-----------------------------------------------------------------------------
(* At most the given number of passes, each giving the heaviest provider   *)
(* the cap's share of the others' weight.                                  *)
RECURSIVE passes(_, _, _)
passes(w, cap, left) ==
  LET total == SumFunction(w)
      top == Max(Range(w))
      first == Min({x \in DOMAIN w : w[x] = top})
  IN  IF left = 0 \/ total <= 0 \/ top * Percent <= cap * total THEN w
      ELSE passes([w EXCEPT ![first] = (cap * (total - top)) \div (Percent - cap)], cap, left - 1)

(* The weights are left alone when sixty passes fail to lower the largest  *)
(* share.                                                                  *)
capWeights(w, cap) ==
  LET final == passes(w, cap, 60)
  IN  IF /\ DOMAIN w # {} /\ SumFunction(final) > 0
         /\ Max(Range(final)) * SumFunction(w) < Max(Range(w)) * SumFunction(final)
      THEN final ELSE w

(* Three votes per provider, at p and p plus or minus its sigma; the       *)
(* central third gives the value, the quartiles the width.                 *)
confidenceBand(price, sigma, w) ==
  LET votes == (DOMAIN price) \X {-1, 0, 1}
      at == [x \in votes |-> price[x[1]] * (Percent + x[2] * sigma[x[1]])]
      upTo(v) == SumFunctionOnSet([x \in votes |-> w[x[1]]], {x \in votes : at[x] <= v})
      below(v) == SumFunctionOnSet([x \in votes |-> w[x[1]]], {x \in votes : at[x] < v})
      total == 3 * SumFunction(w)
      overlap(v) == Max({0, Min({3 * upTo(v), 2 * total}) - Max({3 * below(v), total})})
      mean == MapThenSumSet(LAMBDA v : v * overlap(v), Range(at))
      quantile(q) == Min({v \in Range(at) : 4 * upTo(v) >= q * total})
      half == Max({mean - quantile(1) * total, quantile(3) * total - mean, 0})
  IN  [low |-> rounded(mean - half, total * Percent), high |-> rounded(mean + half, total * Percent)]

-----------------------------------------------------------------------------
(* The gates a row fails.  lastPriceAt is None when unknown.               *)
failedGates(contributors, results, lastPriceAt, now, dispersion, cfg) ==
  LET g == cfg.gates
      unknown == {p \in contributors : lastPriceAt[p] = None}
      samples == [p \in contributors |-> results[p].sampleSize]
  IN  {name \in {"min_providers", "min_observations", "freshness", "require_executable",
                 "max_dispersion"} :
         CASE name = "min_providers" -> Cardinality(contributors) < g.minProviders
           [] name = "min_observations" -> SumFunction(samples) < g.minObservations
           [] name = "freshness" -> \/ contributors = {} \/ unknown # {}
                                    \/ \E p \in contributors : now - lastPriceAt[p] > g.maxObservationAge
           [] name = "require_executable" -> g.requireExecutable
                                               /\ \A p \in contributors : ~results[p].executable
           [] name = "max_dispersion" -> dispersion[1] * Percent > cfg.dispersion.max * dispersion[2]}

(* The global methodology with the panel's sparse patch.                   *)
effectiveConfigFor(config, override) ==
  [config EXCEPT !.gates = [k \in DOMAIN @ |-> IF k \in DOMAIN override.gates THEN override.gates[k] ELSE @[k]],
                 !.dispersion = [k \in DOMAIN @ |-> IF k \in DOMAIN override.dispersion
                                                    THEN override.dispersion[k] ELSE @[k]]]

(* Collection breadth is not settlement membership.                        *)
eligible(results, roles) == {p \in DOMAIN results : roles[p] = "SETTLEMENT_ELIGIBLE"}

(* The quorum a healthy row has to meet: the global one.                   *)
healthyQuorum(global, effective) == global.gates.minProviders

(* The offset of the published figure over the anchor, in 1/Percent^3 of a *)
(* tick; unit stands for the hash of the panel, slot and anchor.           *)
movementOffset(price, prior, unit, m) ==
  LET allowance == price * m.allowancePct * Percent * Percent
      raw == m.reversion * (prior - price) * Percent * Percent
               + m.stepPct * price * m.allowancePct * unit
  IN  Max({-allowance, Min({allowance, raw})})

baseWeights(results, kept, cfg) ==
  [p \in kept |-> IF results[p].executable THEN cfg.weights.executable ELSE cfg.weights.rateCard]

weightedMean(results, w) ==
  rounded(MapThenSumSet(LAMBDA p : results[p].price * w[p], DOMAIN w), SumFunction(w))

(* Steps 2 and 3: who survives the jump screen and then the MAD screen.    *)
screened(price, stats, cfg) ==
  madScreen(Restrict(price, DOMAIN price \ jumpScreen(price, stats.trailingMedian, cfg.jump)),
            cfg.screening)

statusOf(carried, failed, screen, global, cfg) ==
  CASE carried -> "stale"
    [] ~carried /\ failed # {} -> "withheld"
    [] failed = {} /\ (\/ screen.dispersion[1] * Percent > cfg.dispersion.warn * screen.dispersion[2]
                       \/ Cardinality(screen.kept) < healthyQuorum(global, cfg)) -> "degraded"
    [] OTHER -> "healthy"

(* A carried figure is the prior's; a fresh one is the anchor and, when    *)
(* there is a prior, its offset.                                           *)
finalPrice(anchor, carried, prior, unit, cfg) ==
  LET cube == Percent * Percent * Percent
      offset == IF prior = None THEN 0 ELSE movementOffset(anchor, prior.price, unit, cfg.movement)
  IN  CASE carried -> prior.price
        [] ~carried /\ anchor = None -> None
        [] OTHER -> rounded(anchor * cube + offset, cube)

(* Steps 6 to 10, from the screen's verdict, the capped weights and the    *)
(* failed gates.                                                           *)
indexRow(input, cfg, screen, w, failed) ==
  LET kept == screen.kept
      prior == input.prior
      anchor == IF kept = {} THEN None ELSE weightedMean(input.results, w)
      carried == /\ kept = {} \/ failed # {}
                 /\ prior # None
                 /\ input.now - prior.computedAt <= cfg.carryForwardWindow
  IN  [price |-> finalPrice(anchor, carried, prior, input.unit, cfg),
       anchor |-> anchor, gates |-> failed, contributors |-> kept,
       status |-> statusOf(carried, failed, screen, input.config, cfg),
       band |-> IF failed # {} THEN None
                ELSE confidenceBand([p \in kept |-> input.results[p].price],
                                    [p \in kept |-> Max({cfg.voteSigmaFloor, input.stats.sigma[p]})], w),
       prior |-> IF carried THEN prior.id ELSE None, computedAt |-> input.now]

weighed(input, cfg, screen) ==
  indexRow(input, cfg, screen, capWeights(baseWeights(input.results, screen.kept, cfg), cfg.weightCap),
           failedGates(screen.kept, input.results, input.stats.lastPriceAt, input.now,
                       screen.dispersion, cfg))

computeIndex(input) ==
  LET observed == {p \in eligible(input.results, input.roles) : input.results[p].price # None}
      cfg == effectiveConfigFor(input.config, input.override)
  IN  weighed(input, cfg, screened([p \in observed |-> input.results[p].price], input.stats, cfg))

-----------------------------------------------------------------------------
(* What the validator accepts of the numbers; overrides are sparse.        *)
validateMethodologyConfig(c, override) ==
  /\ c.screening.minProvidersForScreen >= 1 /\ c.screening.madScale > 0
  /\ c.screening.sigmaLimit > 0 /\ c.screening.madZeroRatioBand > 1
  /\ c.aggregation.minMachinesForBook >= 1 /\ c.aggregation.minHostsForBook >= 1
  /\ c.aggregation.arithmeticTolerancePerGpu >= 0
  /\ c.aggregation.gpuCountMin >= 1 /\ c.aggregation.gpuCountMax >= c.aggregation.gpuCountMin
  /\ c.aggregation.eligibleTiers # {}
  /\ c.weights.rateCard > 0 /\ c.weights.executable >= c.weights.rateCard
  /\ 0 < c.weightCap /\ c.weightCap < Percent
  /\ 0 < c.dispersion.warn /\ c.dispersion.warn < c.dispersion.max
  /\ 0 < c.voteSigmaFloor /\ c.voteSigmaFloor < Percent
  /\ c.gates.minProviders >= 1 /\ c.gates.minObservations >= 1 /\ c.gates.maxObservationAge > 0
  /\ c.carryForwardWindow > 0
  /\ c.jump.minCorroborators >= 1
  /\ 0 < c.jump.minCorroboratorMovePct /\ c.jump.minCorroboratorMovePct <= c.jump.maxProviderJumpPct
  /\ c.movement.allowancePct >= 0 /\ c.movement.allowancePct * 10 <= Percent
  /\ 0 <= c.movement.reversion /\ c.movement.reversion < Percent
  /\ 0 < c.movement.stepPct /\ c.movement.stepPct <= Percent
  /\ \A k \in DOMAIN override.gates \ {"requireExecutable"} : override.gates[k] >= 1
  /\ LET d == effectiveConfigFor(c, override).dispersion IN 0 < d.warn /\ d.warn < d.max

-----------------------------------------------------------------------------
(* The series                                                              *)
VARIABLES now, rows, override, window

vars == <<now, rows, override, window>>

Providers == DOMAIN Roles

-----------------------------------------------------------------------------
(* Mutant: the series is carried from its first row.                       *)
oldestPriced(rs) == {i \in DOMAIN rs : rs[i].price # None /\ \A j \in DOMAIN rs : i <= j}

(* The newest row with a price; rows that tie on computedAt come in any    *)
(* order.                                                                  *)
getLatestPricedCandidate(rs) ==
  LET priced == {i \in DOMAIN rs : rs[i].price # None}
  IN  {i \in priced : \A j \in priced : rs[j].computedAt <= rs[i].computedAt}

(* A byte-identical recomputation is the same fact, unless it is stale.    *)
insertIndexCandidate(rs, row) ==
  IF row.status # "stale" /\ \E i \in DOMAIN rs : rs[i] = row THEN rs ELSE Append(rs, row)

resultsOf(books) ==
  [p \in Providers |-> LET a == aggregateProviderPrice(books[p], Config.aggregation)
                       IN  [price |-> a.price, sampleSize |-> a.sampleSize,
                            executable |-> p \in Executable]]

statsAt(s, t) ==
  [s EXCEPT !.lastPriceAt = [p \in Providers |-> IF s.lastPriceAt[p] = None THEN None
                                                 ELSE t - s.lastPriceAt[p]]]

priorOf(rs, i) == [price |-> rs[i].price, computedAt |-> rs[i].computedAt, id |-> i]

(* The engine's input for a window, and its row.                           *)
index(w) ==
  computeIndex([results |-> resultsOf(w.books), roles |-> Roles, stats |-> statsAt(w.stats, now),
                prior |-> w.prior, now |-> now, unit |-> w.unit, config |-> Config,
                override |-> override])

-----------------------------------------------------------------------------
Init ==
  /\ now = 0 /\ rows = <<>> /\ override \in Overrides
  /\ window = None

compute(books, s, unit) ==
  /\ Len(rows) < MaxRows
  /\ LET bases == getLatestPricedCandidate(rows)
     IN  \E prior \in IF bases = {} THEN {None} ELSE {priorOf(rows, i) : i \in bases} :
           window' = [books |-> books, stats |-> s, unit |-> unit, prior |-> prior]
  /\ rows' = insertIndexCandidate(rows, index(window'))
  /\ UNCHANGED <<now, override>>

(* Time passes between computations.                                       *)
elapse(d) ==
  /\ window # None
  /\ now' = now + d
  /\ window' = None
  /\ UNCHANGED <<rows, override>>

Next ==
  \/ \E books \in Windows, s \in Stats, unit \in Units : compute(books, s, unit)
  \/ \E d \in Steps : elapse(d)

Spec == Init /\ [][Next]_vars

-----------------------------------------------------------------------------
fresh == {i \in DOMAIN rows : rows[i].status \in {"healthy", "degraded"}}

(* Watchdog data cannot leak: taking every provider that is not settlement *)
(* eligible out of the window changes nothing of the row (engine.ts, step  *)
(* 1, with every screen, weight and gate after it).                        *)
WatchdogsCannotLeak ==
  window # None =>
    LET books == [p \in Providers |-> IF Roles[p] = "SETTLEMENT_ELIGIBLE" THEN window.books[p]
                                      ELSE <<>>]
    IN  index(window) = index([window EXCEPT !.books = books])

(* What a provider offers in the window: the plausible rows of its book.   *)
offers(p) ==
  LET book == window.books[p]
      path == aggregationPath(book)
  IN  {book[i].usdPerGpuHour : i \in {j \in DOMAIN book :
         /\ screenRow(book[j], path, Config.aggregation)
         /\ path = "rate_card" => book[j].pricingTier \in Config.aggregation.eligibleTiers}}

(* The anchor is never a guess: it lies between the cheapest and the       *)
(* dearest plausible offer made by a contributing provider in its window,  *)
(* through aggregation, both screens, the weight cap and the mean.         *)
AnchorBetweenOffers ==
  window # None =>
    \E row \in {index(window)} :
      LET all == UNION {offers(p) : p \in row.contributors}
      IN  row.anchor # None => Min(all) <= row.anchor /\ row.anchor <= Max(all)

(* Flooding is futile: listing a machine of a provider's book once more,   *)
(* at no lower price, leaves the provider's price and sample unchanged     *)
(* (aggregate.ts, cheapest-per-machine dedup before the depth floors and   *)
(* the weighted median).                                                   *)
FloodingIsFutile ==
  window # None =>
    \A p \in Providers : LET book == window.books[p] IN
      \A i \in DOMAIN book :
        (book[i].machineId # None /\ screenRow(book[i], "order_book", Config.aggregation)) =>
          \A extra \in 0 .. 1 :
            LET again == Append(book, [book[i] EXCEPT !.usdPerGpuHour = @ + extra,
                                                      !.rawTotalUsdPerHour = None])
            IN  aggregateProviderPrice(again, Config.aggregation)
                  = aggregateProviderPrice(book, Config.aggregation)

(* No provider holds more than the cap's share of the weight once three    *)
(* contribute; with fewer the cap is infeasible and no weight is changed   *)
(* (weights.ts, the iteration and its infeasibility guard).                *)
NobodyAboveTheCap ==
  window # None =>
    \E base \in {baseWeights(resultsOf(window.books), index(window).contributors, Config)} :
      LET w == capWeights(base, Config.weightCap)
      IN  IF Cardinality(DOMAIN base) >= 3
          THEN \A p \in DOMAIN w : w[p] * Percent <= Config.weightCap * SumFunction(w)
          ELSE w = base

(* One computation is honest: only the offers of settlement providers move *)
(* the anchor, within their own range and with no one above the cap.       *)
AnchorHonest == WatchdogsCannotLeak /\ AnchorBetweenOffers /\ NobodyAboveTheCap

(* A healthy row met the full settlement quorum with no failed gate, also  *)
(* when its panel runs on a relaxed quorum: the honesty ceiling for thin   *)
(* SKUs (engine.ts, step 9).                                               *)
HealthyMeansQuorum ==
  \A r \in Range(rows) : r.status = "healthy" =>
    /\ r.gates = {}
    /\ Cardinality({p \in r.contributors : Roles[p] = "SETTLEMENT_ELIGIBLE"}) >= Config.gates.minProviders

(* The movement allowance never compounds: however many rows the offset is *)
(* fed back through, a computed figure stays within the allowance of its   *)
(* own anchor, to a rounding of one tick (engine.ts, step 10).             *)
PublishedNearAnchor ==
  \A r \in Range(rows) : (r.prior = None /\ r.price # None) =>
    Percent * distance(r.price, r.anchor) <= Config.movement.allowancePct * r.anchor + Percent

(* A stale row republishes a computed figure unchanged: following the      *)
(* priors of carried rows leads, at the same price, to a row that was not  *)
(* carried, and each link is within the carry-forward window.              *)
CarriedUnchanged ==
  \A i \in DOMAIN rows : rows[i].status = "stale" =>
    /\ \E j \in 1 .. i - 1 : rows[j].prior = None /\ rows[j].price = rows[i].price
    /\ LET k == rows[i].prior
       IN  /\ k < i /\ rows[k].price = rows[i].price
           /\ rows[i].computedAt - rows[k].computedAt <= Config.carryForwardWindow
           /\ ~ \E j \in k + 1 .. i - 1 : j \in fresh /\ rows[j].computedAt > rows[k].computedAt

(* The stored series is honest: what a status, an offset and a carried     *)
(* figure say holds however results are fed back as priors.                *)
RowsHonest == HealthyMeansQuorum /\ PublishedNearAnchor /\ CarriedUnchanged
=============================================================================
