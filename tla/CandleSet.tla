----------------------------- MODULE CandleSet ------------------------------
(***************************************************************************)
(* One candle set of the web client: feed.ts loads it over REST and folds   *)
(* the stream's prints into it (fold.ts), and the chart's datafeed          *)
(* (tv-feed.ts) follows it.  Times are bucket numbers.  The server's grid   *)
(* is external: fold.ts says what it is.                                    *)
(***************************************************************************)
EXTENDS FiniteSets, Integers, Sequences, SequencesExt

CONSTANTS
  Prices,
  Windows,        \* the <<from, to>> that are asked for; the last bucket asked is to - 1
  MaxTime,        \* bound on the clock
  MaxPrints,      \* bound on the prints the oracle publishes
  None

VARIABLES
  now,
  series,         \* the prints published, in order
  frame,          \* the print on its way to the stream's reader
  candles,        \* CandleSet, and in `seen' the prints its buckets stand for
  fetch,          \* per caller: the request in flight, with its answer once served
  watch           \* IntervalWatch of the subscribed chart

vars == <<now, series, frame, candles, fetch, watch>>

Callers == {"store", "chart"}

realBucket(p) ==
  [t |-> p.t, open |-> p.price, high |-> p.price, low |-> p.price, close |-> p.price,
   samples |-> 1]

carriedBucket(t, close) ==
  [t |-> t, open |-> close, high |-> close, low |-> close, close |-> close, samples |-> 0]

-----------------------------------------------------------------------------
(* The server: real buckets as computed, silent ones flat at the close      *)
(* before, up to the current one, and nothing before the first print.       *)
bucketOf(prints, t) ==
  LET mine   == SelectSeq(prints, LAMBDA p : p.t = t)
      before == SelectSeq(prints, LAMBDA p : p.t < t)
      levels == {mine[i].price : i \in DOMAIN mine}
  IN  IF mine = <<>>
      THEN carriedBucket(t, Last(before).price)
      ELSE [t |-> t, open |-> Head(mine).price, high |-> Max(levels), low |-> Min(levels),
            close |-> Last(mine).price, samples |-> Len(mine)]

grid(prints, from, end) ==
  LET inside == SelectSeq(prints, LAMBDA p : from <= p.t /\ p.t <= end)
  IN  IF inside = <<>>
      THEN <<>>
      ELSE [i \in 1..(end - Head(inside).t + 1) |-> bucketOf(inside, Head(inside).t + i - 1)]

-----------------------------------------------------------------------------
(* Mutant: a promoted bucket that keeps the carried open.                   *)
foldCarriesOpen(bucket, print) ==
  [bucket EXCEPT !.high = Max({@, print.price}), !.low = Min({@, print.price}),
                 !.close = print.price, !.samples = @ + 1]

-----------------------------------------------------------------------------
(* foldCandidateIntoBuckets.  Gaps stay below MAX_FILL_BUCKETS.             *)
foldInto(bucket, print) ==
  IF bucket.samples = 0
  THEN realBucket(print)
  ELSE [bucket EXCEPT !.high = Max({@, print.price}), !.low = Min({@, print.price}),
                      !.close = print.price, !.samples = @ + 1]

foldCandidateIntoBuckets(buckets, print, from) ==
  LET idx  == Max({0} \cup {i \in DOMAIN buckets : buckets[i].t <= print.t})
      fill == IF idx = 0
              THEN <<>>
              ELSE [i \in 1..(print.t - buckets[idx].t - 1) |->
                      carriedBucket(buckets[idx].t + i, buckets[idx].close)]
  IN  IF print.t < from
      THEN buckets
      ELSE IF idx # 0 /\ buckets[idx].t = print.t
      THEN [buckets EXCEPT ![idx] = foldInto(@, print)]
      ELSE SubSeq(buckets, 1, idx) \o fill \o <<realBucket(print)>>
             \o SubSeq(buckets, idx + 1, Len(buckets))

(* absorbCandleSet: the fetched set replaces an incumbent of the same or of *)
(* a lower floor, and is merged with one of a higher floor, whose floor it  *)
(* takes.  A server that has no rows yet has seen nothing of the window.    *)
absorbCandleSet(answer) ==
  LET seam   == IF answer.rows = <<>> THEN MaxTime + 1 ELSE Head(answer.rows).t
      older  == SelectSeq(candles.buckets, LAMBDA b : b.t < seam)
  IN  IF candles = None \/ candles.from <= answer.from
      THEN [from |-> answer.from, buckets |-> answer.rows, seen |-> answer.seen]
      ELSE [from    |-> candles.from,
            buckets |-> older \o answer.rows,
            seen    |-> IF answer.rows = <<>> THEN candles.seen ELSE answer.seen]

-----------------------------------------------------------------------------
(* createOracleDatafeed.fanOut, called on every commit of the store.        *)
fingerprintOf(b) == [t |-> b.t, open |-> b.open, high |-> b.high, low |-> b.low, close |-> b.close]

firstT(buckets) == IF buckets = <<>> THEN None ELSE Head(buckets).t

reshaped(w, buckets) ==
  /\ w.baseline # None
  /\ \/ buckets # <<>> /\ firstT(buckets) # w.seenFirstT
     \/ Len(buckets) < w.seenLength

(* The bars emitted are those from the baseline on, so that the last one    *)
(* that is emitted, or else the baseline, is the new baseline.              *)
ticked(baseline, buckets) ==
  LET later == SelectSeq(buckets, LAMBDA b : b.t >= baseline.t)
  IN  IF later = <<>> THEN baseline ELSE fingerprintOf(Last(later))

fanOut(w, buckets) ==
  IF w = None
  THEN None
  ELSE [seenFirstT |-> firstT(buckets),
        seenLength |-> Len(buckets),
        baseline   |-> IF buckets = <<>>
                       THEN IF reshaped(w, buckets) THEN None ELSE w.baseline
                       ELSE IF reshaped(w, buckets) \/ w.baseline = None
                            THEN fingerprintOf(Last(buckets))
                            ELSE ticked(w.baseline, buckets)]

commit(set) ==
  /\ candles' = set
  /\ watch' = fanOut(watch, set.buckets)

-----------------------------------------------------------------------------
(* The oracle: time passes, and a print is published and sent.  The stream  *)
(* is lossy.                                                                *)
tick ==
  /\ now < MaxTime
  /\ now' = now + 1
  /\ UNCHANGED <<series, frame, candles, fetch, watch>>

publish(price) ==
  /\ Len(series) < MaxPrints
  /\ frame = None
  /\ series' = Append(series, [t |-> now, price |-> price])
  /\ frame' = Last(series')
  /\ UNCHANGED <<now, candles, fetch, watch>>

lost ==
  /\ frame # None
  /\ frame' = None
  /\ UNCHANGED <<now, series, candles, fetch, watch>>

(* mergeCandidate and mergeIntoCandles.                                     *)
mergeCandidate ==
  /\ frame # None
  /\ frame' = None
  /\ IF candles = None
     THEN UNCHANGED <<candles, watch>>
     ELSE commit([candles EXCEPT !.buckets = foldCandidateIntoBuckets(@, frame, candles.from),
                                 !.seen = Append(@, frame)])
  /\ UNCHANGED <<now, series, fetch>>

-----------------------------------------------------------------------------
(* The store's requests: one at a time; a covered window is not asked for   *)
(* again unless it was empty.                                               *)
request(from, to) == [from |-> from, to |-> to, rows |-> None, seen |-> <<>>]

covered(from) == candles # None /\ candles.from <= from /\ candles.buckets # <<>>

ensured(from) ==
  IF covered(from) \/ fetch["store"] # None
  THEN fetch
  ELSE [fetch EXCEPT !["store"] = request(from, MaxTime + 1)]

ensureCandles(from) ==
  /\ ~covered(from) /\ fetch["store"] = None
  /\ fetch' = ensured(from)
  /\ UNCHANGED <<now, series, frame, candles, watch>>

refetchCandles ==
  /\ candles # None /\ fetch["store"] = None
  /\ fetch' = [fetch EXCEPT !["store"] = request(candles.from, MaxTime + 1)]
  /\ UNCHANGED <<now, series, frame, candles, watch>>

(* getBars: the chart asks for itself, whatever the store holds.            *)
getBars(from, to) ==
  /\ fetch["chart"] = None
  /\ fetch' = [fetch EXCEPT !["chart"] = request(from, to)]
  /\ UNCHANGED <<now, series, frame, candles, watch>>

served(c) ==
  /\ fetch[c] # None /\ fetch[c].rows = None
  /\ fetch' = [fetch EXCEPT ![c].rows = grid(series, fetch[c].from, Min({now, fetch[c].to - 1})),
                            ![c].seen = series]
  /\ UNCHANGED <<now, series, frame, candles, watch>>

fetchFails(c) ==
  /\ fetch[c] # None
  /\ fetch' = [fetch EXCEPT ![c] = None]
  /\ UNCHANGED <<now, series, frame, candles, watch>>

absorbed(c) ==
  /\ fetch[c] # None /\ fetch[c].rows # None
  /\ commit(absorbCandleSet(fetch[c]))
  /\ fetch' = [fetch EXCEPT ![c] = None]
  /\ UNCHANGED <<now, series, frame>>

(* subscribeBars warms the store; the watch waits for the next commit.      *)
subscribeBars(from) ==
  /\ watch = None
  /\ watch' = [baseline |-> None, seenFirstT |-> None, seenLength |-> 0]
  /\ fetch' = ensured(from)
  /\ UNCHANGED <<now, series, frame, candles>>

unsubscribeBars ==
  /\ watch # None
  /\ watch' = None
  /\ UNCHANGED <<now, series, frame, candles, fetch>>

Init ==
  /\ now = 0
  /\ series = <<>>
  /\ frame = None
  /\ candles = None
  /\ fetch = [c \in Callers |-> None]
  /\ watch = None

Next ==
  \/ tick \/ lost \/ mergeCandidate \/ refetchCandles \/ unsubscribeBars
  \/ \E price \in Prices : publish(price)
  \/ \E w \in Windows : ensureCandles(w[1]) \/ getBars(w[1], w[2]) \/ subscribeBars(w[1])
  \/ \E c \in Callers : served(c) \/ fetchFails(c) \/ absorbed(c)

Spec == Init /\ [][Next]_vars

-----------------------------------------------------------------------------
(* Properties                                                               *)

(* foldCandidateIntoBuckets, absorbCandleSet: while the prints that reached *)
(* the set are the server's first ones, each once, the folded buckets are   *)
(* the ones the server would answer, over silent intervals, promoted        *)
(* buckets, refetches that interleave with the stream and answers for other *)
(* windows.  The exception is a set that holds buckets below its floor: it  *)
(* refuses their prints.                                                    *)
FoldMatchesServer ==
  candles # None /\ IsPrefix(candles.seen, series) =>
    LET buckets == candles.buckets
    IN  buckets # <<>> /\ Head(buckets).t >= candles.from =>
          buckets = grid(candles.seen, candles.from, Last(buckets).t)

(* createOracleDatafeed.fanOut: the last bar the chart was given is the     *)
(* last bucket of the store, also after an answer that took buckets away.   *)
ChartFollowsTail ==
  watch # None /\ watch.baseline # None =>
    candles.buckets # <<>> /\ watch.baseline = fingerprintOf(Last(candles.buckets))
=============================================================================
