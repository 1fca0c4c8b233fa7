------------------------------ MODULE Baselines ------------------------------
(***************************************************************************)
(* The bar a Definition has to pass: calibrate (metrics.py) measures scores *)
(* and their noise over repeated runs, save_baseline_from_report (eval.py)  *)
(* stores both, in two records, and promote_against_baseline reads them,    *)
(* decides, and stores the scores of what it promotes.  Calibrations share  *)
(* a budget and a token; every call may come between the records of another.*)
(* craw eval --set-baseline (cli.py) stores scores alone.  A metric scores a *)
(* run 0 or Unit; the band is kept as its variance.                         *)
(***************************************************************************)
EXTENDS Integers, FiniteSets, FiniteSetsExt

CONSTANTS Benchers,      \* calls under way
          Metrics, Primary,
          Measurements,  \* cases times runs of a calibration
          Unit,          \* a full score, divisible by every number of measurements
          RunPrice, CalibrationLimit,
          Candidates,    \* scores of what asks to be promoted
          FreshSamples,  \* what measuring it again may give: {} is no fresh sample
          BandFactor,    \* 100 times the square of k_from_alpha(alpha)
          MaxReports     \* bound of the model: calibrations begun

\* what was measured of some metrics
IsVector(v) == v \in [DOMAIN v -> Int]

ASSUME BaselinesAssumption ==
    /\ Primary \in Metrics
    /\ {Measurements, Unit, RunPrice, CalibrationLimit, BandFactor, MaxReports} \subseteq Nat
    /\ Measurements > 0 /\ RunPrice > 0
    /\ \A v \in Candidates \cup FreshSamples : IsVector(v)

VARIABLES scores,     \* eval_baseline: [of, from], if any; from 0 for no report
          band,       \* eval_baseline_std: [of, from], if any
          bench,      \* local variables of each call
          charged, made,  \* of the shared budget, and runs made for it
          stopped,    \* the shared token
          reports,    \* calibrations begun
          overtaken,      \* a call came between the two accesses of another, or one died there (history)
          fell        \* a promotion without a fresh sample lowered the primary score (history)

baselinesVars == <<scores, band, bench, charged, made, stopped, reports, overtaken, fell>>

Off == [at |-> "off"]

BaselinesInit ==
    /\ scores = {} /\ band = {} /\ bench = [b \in Benchers |-> Off]
    /\ charged = 0 /\ made = 0 /\ stopped = FALSE /\ reports = 0
    /\ overtaken = FALSE /\ fell = FALSE

\* whoever is between two accesses of the records, other than b
Between(b) == \E c \in Benchers \ {b} : bench[c].at \in {"band", "gate", "decide", "carry"}
Access(b) == overtaken' = (overtaken \/ Between(b))
----------------------------------------------------------------------------
(* calibrate                                                                *)

BeginCalibration(b) ==
    /\ bench[b] = Off /\ reports < MaxReports /\ reports' = reports + 1
    /\ bench' = [bench EXCEPT ![b] =
          [at |-> "measure", report |-> reports', done |-> 0, hits |-> [m \in Metrics |-> 0]]]
    /\ UNCHANGED <<scores, band, charged, made, stopped, overtaken, fell>>

\* the token, then the budget, and only then the run
StartMeasurement(b) ==
    /\ bench[b].at = "measure" /\ bench[b].done < Measurements
    /\ charged' = IF stopped THEN charged ELSE charged + RunPrice
    /\ LET breached == stopped \/ charged' > CalibrationLimit IN
          /\ made' = IF breached THEN made ELSE made + 1
          /\ bench' = [bench EXCEPT ![b].at = IF breached THEN "report" ELSE "running"]
    /\ UNCHANGED <<scores, band, stopped, reports, overtaken, fell>>

Measured(b, hit) ==
    /\ bench[b].at = "running"
    /\ bench' = [bench EXCEPT ![b].at = IF bench[b].done + 1 = Measurements THEN "report" ELSE "measure",
                              ![b].done = @ + 1,
                              ![b].hits = [m \in Metrics |-> @[m] + IF m \in hit THEN 1 ELSE 0]]
    /\ UNCHANGED <<scores, band, charged, made, stopped, reports, overtaken, fell>>

\* whatever the runtime raises, its own charge included, goes through
MeasurementRaises(b) ==
    /\ bench[b].at = "running" /\ bench' = [bench EXCEPT ![b] = Off]
    /\ UNCHANGED <<scores, band, charged, made, stopped, reports, overtaken, fell>>

StopAll ==
    /\ ~stopped /\ stopped' = TRUE
    /\ UNCHANGED <<scores, band, bench, charged, made, reports, overtaken, fell>>

\* mean and population variance of what was measured, nought of nothing
MeanOf(hits, n) == IF n = 0 THEN 0 ELSE hits * (Unit \div n)
VarianceOf(hits, n) == IF n < 2 THEN 0 ELSE hits * (n - hits) * (Unit \div n) * (Unit \div n)

ReportScores(measured) == [m \in Metrics |-> MeanOf(measured.hits[m], measured.done)]
ReportBand(measured) == [m \in Metrics |-> VarianceOf(measured.hits[m], measured.done)]

SaveReportAlone(b) ==   \* mutated: the band of the report is not handed over
    /\ bench[b].at = "report" /\ Access(b)
    /\ scores' = {[of |-> ReportScores(bench[b]), from |-> bench[b].report]}
    /\ bench' = [bench EXCEPT ![b] = Off]
    /\ UNCHANGED <<band, charged, made, stopped, reports, fell>>

\* save_baseline_from_report: the scores first, then the band
SaveReport(b) ==
    /\ bench[b].at = "report" /\ Access(b)
    /\ scores' = {[of |-> ReportScores(bench[b]), from |-> bench[b].report]}
    /\ bench' = [bench EXCEPT ![b] =
          [at |-> "band", band |-> {[of |-> ReportBand(@), from |-> @.report]}]]
    /\ UNCHANGED <<band, charged, made, stopped, reports, fell>>

SaveBand(b) ==
    /\ bench[b].at = "band" /\ Access(b)
    /\ band' = bench[b].band /\ bench' = [bench EXCEPT ![b] = Off]
    /\ UNCHANGED <<scores, charged, made, stopped, reports, fell>>

\* without a band of its own, scores leave the one that is there
SetBaseline(b, vector) ==
    /\ bench[b] = Off /\ Access(b)
    /\ scores' = {[of |-> vector, from |-> 0]}
    /\ UNCHANGED <<band, bench, charged, made, stopped, reports, fell>>
DiscardReport(b) ==
    /\ bench[b].at = "report" /\ bench' = [bench EXCEPT ![b] = Off]
    /\ UNCHANGED <<scores, band, charged, made, stopped, reports, overtaken, fell>>
----------------------------------------------------------------------------
(* promote_against_baseline                                                 *)

BeginPromotion(b, candidate, fresh) ==
    /\ bench[b] = Off /\ Access(b)
    /\ bench' = [bench EXCEPT ![b] =
          [at |-> "gate", candidate |-> candidate, fresh |-> fresh, scores |-> scores]]
    /\ UNCHANGED <<scores, band, charged, made, stopped, reports, fell>>

ReadBand(b) ==
    /\ bench[b].at = "gate" /\ Access(b)
    /\ bench' = [bench EXCEPT ![b] =
          [at |-> "decide", candidate |-> @.candidate, fresh |-> @.fresh, scores |-> @.scores,
           band |-> band]]
    /\ UNCHANGED <<scores, band, charged, made, stopped, reports, fell>>

ScoreOf(vector, m) == IF m \in DOMAIN vector THEN vector[m] ELSE 0

\* the variance of a metric, nought without a record of it
NoiseOf(noise, m) == MapThenSumSet(LAMBDA r : ScoreOf(r.of, m), noise)

\* further than k times the deviation from nought
Clears(gain, variance) == gain > 0 /\ 100 * gain * gain > BandFactor * variance

Regresses(old, new, noise) ==
    \E m \in DOMAIN old \cup DOMAIN new :
        Clears(ScoreOf(old, m) - ScoreOf(new, m), NoiseOf(noise, m))

\* the primary metric is in both, nothing regresses, and the gain is not noise
Promoted(old, new, noise) ==
    /\ Primary \in DOMAIN old \cap DOMAIN new
    /\ ~Regresses(old, new, noise)
    /\ Clears(new[Primary] - old[Primary], NoiseOf(noise, Primary))

\* winners_curse_shrink with all its weight: what was measured again counts
Shrunk(candidate, fresh) ==
    [m \in DOMAIN candidate |-> IF m \in DOMAIN fresh THEN fresh[m] ELSE candidate[m]]

\* no baseline: promoted, and nothing written; no primary metric: it raises
DecideAgainst(b) ==
    /\ bench[b].at = "decide"
    /\ \/ /\ ~\E s \in bench[b].scores : Promoted(s.of, bench[b].candidate, bench[b].band)
          /\ bench' = [bench EXCEPT ![b] = Off]
          /\ UNCHANGED <<scores, overtaken, fell>>
       \/ \E s \in bench[b].scores :
             /\ Promoted(s.of, bench[b].candidate, bench[b].band) /\ Access(b)
             /\ scores' = {[of |-> Shrunk(bench[b].candidate, bench[b].fresh), from |-> s.from]}
             /\ fell' = (fell \/ /\ DOMAIN bench[b].fresh = {}
                                 /\ \E old \in scores, new \in scores' :
                                        new.of[Primary] <= ScoreOf(old.of, Primary))
             /\ bench' = [bench EXCEPT ![b] =
                   IF bench[b].band = {} THEN Off ELSE [at |-> "carry", band |-> bench[b].band]]
    /\ UNCHANGED <<band, charged, made, stopped, reports>>

\* the band that was read is written back as it was
CarryBand(b) ==
    /\ bench[b].at = "carry" /\ Access(b)
    /\ band' = bench[b].band /\ bench' = [bench EXCEPT ![b] = Off]
    /\ UNCHANGED <<scores, charged, made, stopped, reports, fell>>

BencherDies(b) ==
    /\ bench[b].at \in {"band", "carry"} /\ bench' = [bench EXCEPT ![b] = Off]
    /\ overtaken' = TRUE
    /\ UNCHANGED <<scores, band, charged, made, stopped, reports, fell>>

BaselinesNext ==
    \/ StopAll
    \/ \E b \in Benchers :
          \/ BeginCalibration(b) \/ StartMeasurement(b) \/ MeasurementRaises(b)
          \/ \E hit \in SUBSET Metrics : Measured(b, hit)
          \/ SaveReport(b) \/ DiscardReport(b) \/ SaveBand(b)
          \/ \E vector \in Candidates : SetBaseline(b, vector)
          \/ \E candidate \in Candidates, fresh \in FreshSamples : BeginPromotion(b, candidate, fresh)
          \/ ReadBand(b) \/ DecideAgainst(b) \/ CarryBand(b) \/ BencherDies(b)

BaselinesSpec == BaselinesInit /\ [][BaselinesNext]_baselinesVars
----------------------------------------------------------------------------
(* Properties                                                               *)

\* Every run of a calibration was within the ceiling, however many calibrations share it
\* (calibrate: checked BEFORE the run so we never spend past the ceiling).
RunsArePaid == made * RunPrice <= CalibrationLimit

\* As long as calls come one after the other and none dies halfway, scores that go back to
\* a report stand beside the band of that report, promotions in between included.
BandBelongs ==
    (~overtaken /\ \A b \in Benchers : bench[b].at \notin {"band", "carry"}) =>
        \A s \in scores : s.from # 0 => \E n \in band : n.from = s.from

\* ... and a promotion that was not measured again raises the primary score.
BarRises == ~overtaken => ~fell

BaselinesAreSound == RunsArePaid /\ BandBelongs /\ BarRises
----------------------------------------------------------------------------
(* What the documentation says and the code does not do.                    *)

\* "no baseline - seeded" is the verdict where there is no baseline: it writes none.
SeedIsStored ==
    [][\A b \in Benchers :
          bench[b].at = "decide" /\ bench'[b] = Off /\ bench[b].scores = {} => scores' # {}]_baselinesVars
=============================================================================
