------------------------------ MODULE Histogram ------------------------------
(***************************************************************************)
(* The latency histograms of src/consumer/strategy/histogram.py and the    *)
(* score src/consumer/strategy/least_busy.py computes from one.            *)
(*                                                                         *)
(* A histogram maps bounds of latency to the number of requests that took  *)
(* no longer; its last bound, +Inf, is the greatest of Buckets.  A server  *)
(* that has served nothing exposes no histogram: that is the empty one.    *)
(***************************************************************************)
EXTENDS Integers, FiniteSets

CONSTANT Buckets

ASSUME BucketsAssumption == Buckets \subseteq Nat /\ IsFiniteSet(Buckets) /\ Buckets # {}

EmptyHistogram == [b \in {} |-> 0]
Histograms == {EmptyHistogram} \cup [Buckets -> Int]

Count(h, b) == IF b \in DOMAIN h THEN h[b] ELSE 0

Difference(h, g) ==
  [b \in DOMAIN h \cup DOMAIN g |-> Count(h, b) - Count(g, b)]

\* dict.update: the keys the new histogram has not are kept.
Update(h, new) ==
  [b \in DOMAIN h \cup DOMAIN new |-> IF b \in DOMAIN new THEN new[b] ELSE h[b]]

\* One more request, that took bound b.
Observe(h, b) == [a \in Buckets |-> Count(h, a) + IF a >= b THEN 1 ELSE 0]

Last(h) == CHOOSE b \in DOMAIN h : \A a \in DOMAIN h : a <= b

\* The bounds that 95% of the requests did not exceed.
Covering(h) == {b \in DOMAIN h : 100 * h[b] >= 95 * h[Last(h)]}

\* get_percentile raises when no bound is covering.
PercentileExists(h) == h = EmptyHistogram \/ Covering(h) # {}

Unmeasured == -1
Score(h) ==
  IF h = EmptyHistogram THEN Unmeasured
  ELSE CHOOSE b \in Covering(h) : \A a \in Covering(h) : b <= a
=============================================================================
