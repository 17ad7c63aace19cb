----------------------------- MODULE Calibration -----------------------------
(***************************************************************************)
(* Confidence calibration (calibration.py): histogram binning, and the     *)
(* isotonic regression that pools adjacent violators.  A confidence is a   *)
(* number of steps of 1 / Scale; what is computed from it is an exact      *)
(* fraction, where the code has floats.                                    *)
(***************************************************************************)
EXTENDS Integers, SequencesExt, FiniteSets

CONSTANTS Scale,   \* steps between the confidences 0 and 1
          NBins    \* n_bins

ASSUME CalibrationAssumption == Scale \in Nat \ {0} /\ NBins \in Nat \ {0}

Confidences == 0 .. Scale
Methods     == {"histogram", "isotonic"}

\* Fractions with a positive denominator.
Ratio(n, d) == [num |-> n, den |-> d]
Leq(p, q)   == p.num * q.den <= q.num * p.den
Below(p, q) == p.num * q.den < q.num * p.den
Same(p, q)  == p.num * q.den = q.num * p.den
One         == Ratio(1, 1)

\* A sample is a confidence and whether the prediction was right.
Samples == [conf : Confidences, right : BOOLEAN]
Hits(s) == Len(SelectSeq(s, LAMBDA x : x.right))
SumOf(s) == FoldLeft(LAMBDA n, x : n + x.conf, 0, s)

-----------------------------------------------------------------------------
\* Histogram binning.

\* _bucket_for: the last bucket holds the confidence 1 as well.
BucketFor(c) ==
    LET n == (c * NBins) \div Scale IN 1 + (IF n > NBins - 1 THEN NBins - 1 ELSE n)

Buckets(samples) ==
    [b \in 1 .. NBins |->
        LET here == SelectSeq(samples, LAMBDA x : BucketFor(x.conf) = b)
        IN  [total |-> Len(here), correct |-> Hits(here)]]

-----------------------------------------------------------------------------
\* Isotonic regression.

\* The samples by confidence, and the wrong ones first among equals.
Sorted(samples) ==
    FoldLeft(LAMBDA s, x :
                LET before(y) == \/ y.conf < x.conf
                                 \/ y.conf = x.conf /\ (y.right => x.right)
                IN  SelectSeq(s, before) \o <<x>> \o SelectSeq(s, LAMBDA y : ~before(y)),
             <<>>, samples)

\* A block of pooled samples: sums of confidences and of outcomes, and a count.
Block(x)     == [conf |-> x.conf, hits |-> IF x.right THEN 1 ELSE 0, count |-> 1]
Pooled(a, b) == [conf |-> a.conf + b.conf, hits |-> a.hits + b.hits,
                 count |-> a.count + b.count]
Average(b)   == Ratio(b.hits, b.count)
Place(b)     == Ratio(b.conf, b.count)

\* The loop that merges backward while the last two blocks are out of order.
Settle(blocks) ==
    LET settled[s \in Seq([conf : Nat, hits : Nat, count : Nat])] ==
            LET n == Len(s)
            IN  IF n >= 2 /\ Below(Average(s[n]), Average(s[n - 1]))
                THEN settled[Append(SubSeq(s, 1, n - 2), Pooled(s[n - 1], s[n]))]
                ELSE s
    IN  settled[blocks]

\* Fault: a new block is compared once with the one before it.
BlocksMergedOnce(samples) ==
    FoldLeft(LAMBDA blocks, x :
                LET n == Len(blocks)
                IN  IF n >= 1 /\ Below(Average(Block(x)), Average(blocks[n]))
                    THEN [blocks EXCEPT ![n] = Pooled(@, Block(x))]
                    ELSE Append(blocks, Block(x)),
             <<>>, Sorted(samples))

Blocks(samples) ==
    FoldLeft(LAMBDA blocks, x : Settle(Append(blocks, Block(x))), <<>>, Sorted(samples))

\* Blocks at the same confidence become one point.
Points(samples) ==
    LET join(s, b) == IF s # <<>> /\ Same(Place(Last(s)), Place(b))
                      THEN Append(Front(s), Pooled(Last(s), b)) ELSE Append(s, b)
        merged == FoldLeft(join, <<>>, Blocks(samples))
    IN  [k \in DOMAIN merged |-> [x |-> Place(merged[k]), y |-> Average(merged[k])]]

\* fit
Fitted(way, samples) ==
    [method |-> way, buckets |-> Buckets(samples),
     points |-> IF way = "isotonic" THEN Points(samples) ELSE <<>>]

\* y0 + t * (y1 - y0), with t = (c - x0) / (x1 - x0), over one denominator.
Between(p, q, c) ==
    LET up   == (c * p.x.den - p.x.num) * q.x.den
        run  == q.x.num * p.x.den - p.x.num * q.x.den
        rise == q.y.num * p.y.den - p.y.num * q.y.den
    IN  Ratio(p.y.num * q.y.den * run + up * rise, p.y.den * q.y.den * run)

Interpolated(points, c) ==
    LET raw == Ratio(c, 1)
        n   == Len(points)
    IN  IF n = 1 \/ Leq(raw, points[1].x) THEN points[1].y
        ELSE IF Leq(points[n].x, raw) THEN points[n].y
        ELSE LET k == CHOOSE k \in 1 .. n - 1 :
                         /\ Leq(points[k].x, raw) /\ Leq(raw, points[k + 1].x)
                         /\ \A j \in 1 .. k - 1 : ~Leq(raw, points[j + 1].x)
             IN  Between(points[k], points[k + 1], c)

\* calibrate, for a fitted model and a confidence within 0 and 1.
Calibrate(model, c) ==
    LET bucket == model.buckets[BucketFor(c)]
    IN  IF model.method = "isotonic" /\ model.points # <<>>
        THEN Interpolated(model.points, c)
        ELSE IF bucket.total = 0 THEN Ratio(c, Scale) ELSE Ratio(bucket.correct, bucket.total)

-----------------------------------------------------------------------------
\* What a calibration should be, by definitions that are not the algorithm.

\* The least-squares isotonic fit of the k-th sorted sample: the largest over
\* a <= k of the least over b >= k of the mean outcome of a .. b.
Mean(s, a, b) == Ratio(Hits(SubSeq(s, a, b)), b - a + 1)
LeastMean(s, a, k) ==
    CHOOSE m \in {Mean(s, a, b) : b \in k .. Len(s)} :
        \A b \in k .. Len(s) : Leq(m, Mean(s, a, b))
IsotonicFit(s, k) ==
    CHOOSE m \in {LeastMean(s, a, k) : a \in 1 .. k} :
        \A a \in 1 .. k : Leq(LeastMean(s, a, k), m)

Distinct(s) == \A j, k \in DOMAIN s : j # k => s[j].conf # s[k].conf

\* The points of pooled samples average them, and carry their fit.
PointsFit(model, samples) ==
    LET s == Sorted(samples)
    IN  Distinct(samples) =>
          \A p \in Range(model.points) :
            \E a, b \in DOMAIN s :
                /\ a <= b
                /\ Same(p.x, Ratio(SumOf(SubSeq(s, a, b)), b - a + 1))
                /\ \A k \in a .. b : Same(p.y, IsotonicFit(s, k))
==============================================================================
