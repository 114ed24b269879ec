-------------------------- MODULE RankerBenchmark --------------------------
(* The offline ranker jobs over one output directory: the benchmark, which  *)
(* skips folds that have a report, the refit of persisted folds and the     *)
(* fusion calibration.  One job runs at a time; it may be killed between    *)
(* two writes and started again, over another CSV.                          *)
EXTENDS OfflineRanking

CONSTANTS
    Csvs,            \* contents of the CSV, in the order they replace each other
    Plans,           \* what a job is asked to run: sequences of <<seed, fold>>
    Seeds,           \* RANKER_SEEDS
    AblationNames,   \* what --ablations may ask for: sequences of model names
    Leftovers,       \* which folds an earlier version of the benchmark left: sets of cells
    MaxJobs, MaxCrashes,
    None             \* no such file, no such job

(* Rows of a CSV have numeric user ids and ratings; no run is over no folds. *)
ASSUME JobAssumption ==
    /\ MaxJobs \in Nat /\ MaxCrashes \in Nat
    /\ Csvs \in Seq(Seq([user : Nat, slug : STRING, rating : Int])) \ {<< >>}
    /\ Seeds \subseteq Nat /\ Seeds # {} /\ IsFiniteSet(Seeds)
    /\ Plans \subseteq Seq(Seeds \X (0 .. FoldCount - 1)) \ {<< >>}
    /\ \A old \in Leftovers : old \subseteq Seeds \X (0 .. FoldCount - 1)
    /\ AblationNames \subseteq Seq(DOMAIN Prediction)
    /\ None \notin DOMAIN Csvs /\ None \notin {"benchmark", "refit", "calibrate"}

VARIABLES
    csv,          \* the current content of the CSV
    disk,         \* the files of every seed=s/fold=k directory: what each was last
                  \* written whole from, and the models some job opened and did not finish
    manifest,     \* manifest.json
    summary,      \* benchmark_summary.json
    calibration,  \* the calibration report
    job,          \* the job that runs
    jobs, crashes

vars == <<csv, disk, manifest, summary, calibration, job, jobs, crashes>>

-----------------------------------------------------------------------------
(* What the jobs compute from a CSV, a seed and a fold; file contents are   *)
(* named by the CSV they were computed from.                                *)

Cells == Seeds \X (0 .. FoldCount - 1)

Sound == {c \in DOMAIN Csvs : Loadable(Csvs[c])}

(* The seed's splits and folds, then the fold's users and holdouts.         *)
SetupOver(seed, films, splits, users) ==
    [films |-> films, splits |-> splits, users |-> users,
     holdouts |-> [u \in users.train |-> Holdouts(seed, u, splits[u])]]

SetupOf(cell, films, splits) ==
    SetupOver(cell[1], films, splits, Partition(Folds(cell[1], splits, films), cell[2]))

Setup(data, cell) == SetupOf(cell, Vocabulary(data), Splits(cell[1], data))

Setups == Table([c \in Sound |-> Table([cell \in Cells |-> Setup(Loaded(Csvs[c]), cell)])])

ContextsOf(setup) == Contexts(setup.splits, setup.holdouts, setup.users.train)

(* build_fold_artifacts refuses a fold without training ratings.            *)
FittableCells(c) == {cell \in Cells : Fittable(ContextsOf(Setups[c][cell]))}

WorkOver(setup, seed, art, quart) ==
    [art |-> art,
     queries |-> Table([part \in Parts |-> Table([u \in setup.users[part] |->
         Query(seed, part, u, setup.splits[u],
               IF part = "train" THEN setup.holdouts[u] ELSE << >>, art, quart)])])]

WorkFor(setup, seed, contexts) ==
    WorkOver(setup, seed, Artifacts(contexts, setup.films),
             Quartiles([u \in DOMAIN contexts |-> Cardinality(DOMAIN contexts[u])]))

Work(setup, seed) == WorkFor(setup, seed, ContextsOf(setup))

Works == Table([c \in Sound |->
             Table([cell \in FittableCells(c) |-> Work(Setups[c][cell], cell[1])])])

ModelReport(work, part, name) ==
    StrategyReport(Ranks(work.queries[part], LAMBDA u, f : Fraction(Prediction[name][f], 1)))

BaselineReport(work, part, name) ==
    StrategyReport(Ranks(work.queries[part],
        LAMBDA u, f : BaselineScore(name, work.queries[part][u], work.art, f)))

GridReport(work, part, conf) ==
    StrategyReport(Ranks(work.queries[part],
        LAMBDA u, f : Fused(work.queries[part][u].found, conf, f)))

TestReports == Table([c \in Sound |-> Table([cell \in FittableCells(c) |->
                   Table([name \in DOMAIN Prediction |-> ModelReport(Works[c][cell], "test", name)])])])

BaselineReports == Table([c \in Sound |-> Table([cell \in FittableCells(c) |->
                   Table([name \in Baselines |-> BaselineReport(Works[c][cell], "test", name)])])])

GridReports == Table([c \in Sound |-> Table([cell \in FittableCells(c) |->
                   Table([part \in {"validation", "test"} |->
                       Table([conf \in Configurations |-> GridReport(Works[c][cell], part, conf)])])])])

Rows(c, cell, part) == Groups(part, Works[c][cell].queries[part])

Targets(c, cell, part) ==
    LET queries == Works[c][cell].queries[part] IN
    {<<c, cell[1], u, queries[u].example.target>> : u \in Eligible(queries)}

-----------------------------------------------------------------------------

EmptyFold == [arrays |-> [part \in Parts |-> None], metadata |-> [part \in Parts |-> None],
              models |-> [name \in DOMAIN Prediction |-> None], torn |-> {}, metrics |-> None]

(* A fold an earlier version of the benchmark left behind, which refused the *)
(* folds it could not fit as well.                                           *)
ASSUME LeftoverAssumption ==
    \A old \in Leftovers : old # {} => 1 \in Sound /\ old \subseteq FittableCells(1)

OldFold ==
    [arrays |-> [part \in Parts |-> 1], metadata |-> [part \in Parts |-> 1],
     models |-> [name \in DOMAIN Prediction |-> [part \in Parts |-> 1]], torn |-> {},
     metrics |-> [protocol |-> "sampled", data |-> 1,
                  models |-> [name \in DOMAIN Prediction |-> [part \in Parts |-> 1]]]]

Idle == [kind |-> None]

Init ==
    /\ csv = 1
    /\ \E old \in Leftovers :
           disk = [cell \in Cells |-> IF cell \in old THEN OldFold ELSE EmptyFold]
    /\ manifest = None /\ summary = None /\ calibration = None
    /\ job = Idle
    /\ jobs = 0 /\ crashes = 0

Finish == job' = Idle /\ UNCHANGED <<csv, jobs, crashes>>
Advance(changed) == job' = changed /\ UNCHANGED <<csv, jobs, crashes>>

Cell == job.plan[job.at]
Here == disk[Cell]
At(kinds, pc) == job.kind \in kinds /\ job.pc = pc

Keep == UNCHANGED <<disk, manifest, summary, calibration>>

(* An exception ends the job and leaves the files as they are.              *)
Fail == Finish /\ Keep

Begin(new) ==
    /\ job = Idle /\ jobs < MaxJobs
    /\ jobs' = jobs + 1
    /\ job' = new
    /\ UNCHANGED <<csv, crashes>>

Job(kind, pc, plan, names) ==
    [kind |-> kind, pc |-> pc, plan |-> plan, at |-> 1, names |-> names, data |-> csv,
     part |-> "train", loaded |-> [part \in Parts |-> csv], saved |-> 0,
     reports |-> << >>, fitted |-> {}, tuned |-> {}, tested |-> {}, chosen |-> << >>]

-----------------------------------------------------------------------------
(* run_benchmark                                                             *)

(* The CSV is loaded and the manifest written before any fold.               *)
StartBenchmark ==
    \E plan \in Plans, names \in AblationNames :
        /\ csv \in Sound
        /\ Begin(Job("benchmark", "fold", plan, names))
        /\ manifest' = [data |-> csv, plan |-> plan, source_summary |-> Summary(Csvs[csv])]
        /\ UNCHANGED <<disk, summary, calibration>>

RefuseCsv ==
    /\ csv \notin Sound
    /\ job = Idle /\ jobs < MaxJobs
    /\ jobs' = jobs + 1
    /\ UNCHANGED <<csv, job, crashes>> /\ Keep

BeginAnyFold ==   \* mutant of ReuseFold
    /\ At({"benchmark"}, "fold") /\ Here.metrics # None
    /\ Cell \in FittableCells(job.data)
    /\ Advance([job EXCEPT !.pc = "arrays", !.part = "train"]) /\ Keep

(* A fold with a report is not run again.                                    *)
ReuseFold ==
    /\ At({"benchmark"}, "fold") /\ Here.metrics # None
    /\ IF Here.metrics.protocol = "full_pool"
       THEN Advance([job EXCEPT !.reports = Append(@, [cell |-> Cell, metrics |-> Here.metrics]),
                                !.pc = "summary"]) /\ Keep
       ELSE Fail

(* Holdouts, artifacts and examples: everything before the first write.      *)
BeginFold ==
    /\ At({"benchmark"}, "fold") /\ Here.metrics = None
    /\ IF Cell \in FittableCells(job.data)
       THEN Advance([job EXCEPT !.pc = "arrays", !.part = "train",
                                !.fitted = Works[job.data][Cell].art.fitted]) /\ Keep
       ELSE Fail

(* write_partition_dataset: the arrays, then their metadata.                 *)
WriteArrays ==
    /\ At({"benchmark"}, "arrays")
    /\ IF Valid(job.part, Works[job.data][Cell].queries[job.part])
       THEN /\ disk' = [disk EXCEPT ![Cell].arrays[job.part] = job.data]
            /\ Advance([job EXCEPT !.pc = "metadata"])
            /\ UNCHANGED <<manifest, summary, calibration>>
       ELSE Fail

WriteMetadata ==
    /\ At({"benchmark"}, "metadata")
    /\ disk' = [disk EXCEPT ![Cell].metadata[job.part] = job.data]
    /\ Advance(CASE job.part = "train"      -> [job EXCEPT !.pc = "arrays", !.part = "validation"]
                 [] job.part = "validation" -> [job EXCEPT !.pc = "arrays", !.part = "test"]
                 [] job.part = "test"       -> [job EXCEPT !.pc = "train"])
    /\ UNCHANGED <<manifest, summary, calibration>>

(* train_ranker_ablations and build_fold_report, in memory: no fit over no   *)
(* training or validation rows, no prediction for no test rows.              *)
Train ==
    /\ At({"benchmark"}, "train")
    /\ IF \A part \in Parts : Rows(job.data, Cell, part) # {}
       THEN Advance([job EXCEPT !.pc = "models", !.saved = 0,
                                !.loaded = [part \in Parts |-> job.data],
                                !.tuned = @ \cup Targets(job.data, Cell, "validation"),
                                !.tested = @ \cup Targets(job.data, Cell, "test")]) /\ Keep
       ELSE Fail

(* save_model writes in place: the old file is gone when it is opened, and a *)
(* kill before it is written out leaves part of one.                         *)
OpenModel ==
    /\ At({"benchmark", "refit"}, "models") /\ job.saved < Len(job.names)
    /\ disk' = [disk EXCEPT ![Cell].torn = @ \cup {<<job.names[job.saved + 1], job.kind>>}]
    /\ Advance([job EXCEPT !.pc = "save"])
    /\ UNCHANGED <<manifest, summary, calibration>>

SaveModel ==
    /\ At({"benchmark", "refit"}, "save")
    /\ LET name == job.names[job.saved + 1] IN
       disk' = [disk EXCEPT ![Cell].models[name] = job.loaded,
                            ![Cell].torn = {opened \in @ : opened[1] # name}]
    /\ Advance([job EXCEPT !.pc = "models", !.saved = @ + 1])
    /\ UNCHANGED <<manifest, summary, calibration>>

Trained == [name \in {job.names[i] : i \in DOMAIN job.names} |-> job.loaded]

(* persist_models_and_report: the report comes last.                         *)
WriteReport ==
    /\ At({"benchmark"}, "models") /\ job.saved = Len(job.names)
    /\ LET metrics == [protocol |-> "full_pool", data |-> job.data, models |-> Trained] IN
       /\ disk' = [disk EXCEPT ![Cell].metrics = metrics]
       /\ Advance([job EXCEPT !.reports = Append(@, [cell |-> Cell, metrics |-> metrics]),
                              !.fitted = {}, !.pc = "summary"])
    /\ UNCHANGED <<manifest, summary, calibration>>

(* _aggregate_reports needs every model of the first report in all of them.  *)
Comparable(reports) ==
    \A i \in DOMAIN reports :
        DOMAIN reports[1].metrics.models \subseteq DOMAIN reports[i].metrics.models

(* A summary averages the models of the first report over the reports.       *)
SummaryOf(reports) ==
    [folds  |-> [cell \in {reports[i].cell : i \in DOMAIN reports} |->
                    reports[CHOOSE i \in DOMAIN reports : reports[i].cell = cell].metrics.data],
     models |-> DOMAIN reports[1].metrics.models]

(* The benchmark summarizes after every fold, the refit once at the end.     *)
Summarize ==
    /\ At({"benchmark", "refit"}, "summary")
    /\ IF Comparable(job.reports)
       THEN /\ summary' = SummaryOf(job.reports)
            /\ IF job.kind = "benchmark" /\ job.at < Len(job.plan)
               THEN Advance([job EXCEPT !.at = @ + 1, !.pc = "fold"])
               ELSE Finish
            /\ UNCHANGED <<disk, manifest, calibration>>
       ELSE Fail

-----------------------------------------------------------------------------
(* rerun_persisted_ablations                                                 *)

StartRefit ==
    \E plan \in Plans, names \in AblationNames :
        Begin(Job("refit", "load", plan, names)) /\ Keep

(* load_partition_dataset takes arrays and metadata with as many groups.     *)
Loads(fold, cell, part) ==
    /\ fold.arrays[part] # None /\ fold.metadata[part] # None
    /\ Cardinality(Rows(fold.arrays[part], cell, part))
           = Cardinality(Rows(fold.metadata[part], cell, part))

RefitFold ==
    /\ At({"refit"}, "load")
    /\ IF /\ \A part \in Parts : /\ Loads(Here, Cell, part)
                                 /\ Rows(Here.arrays[part], Cell, part) # {}
          /\ Here.metrics # None
       THEN Advance([job EXCEPT !.pc = "models", !.saved = 0, !.loaded = Here.arrays]) /\ Keep
       ELSE Fail

UpdateReport ==
    /\ At({"refit"}, "models") /\ job.saved = Len(job.names)
    /\ LET metrics == [Here.metrics EXCEPT !.models =
                          [name \in DOMAIN @ \cup DOMAIN Trained |->
                              IF name \in DOMAIN Trained THEN Trained[name] ELSE @[name]]] IN
       /\ disk' = [disk EXCEPT ![Cell].metrics = metrics]
       /\ LET done == [job EXCEPT !.reports = Append(@, [cell |-> Cell, metrics |-> metrics])] IN
          Advance(IF job.at < Len(job.plan) THEN [done EXCEPT !.at = @ + 1, !.pc = "load"]
                                            ELSE [done EXCEPT !.pc = "summary"])
    /\ UNCHANGED <<manifest, summary, calibration>>

-----------------------------------------------------------------------------
(* run_rrf_calibration: every fold is validated, then a fixed choice is made, *)
(* then every fold is tested.                                                 *)

Grid == CHOOSE plan \in [1 .. Cardinality(Cells) -> Cells] :
            \A i, j \in DOMAIN plan : i < j => Lower(plan[i], plan[j])

StartCalibration ==
    /\ csv \in Sound
    /\ Begin(Job("calibrate", "fit", Grid, << >>)) /\ Keep

OneMore == job.at <= Len(job.plan)   \* mutant of More

More == job.at < Len(job.plan)

FitFold ==
    /\ At({"calibrate"}, "fit")
    /\ IF Cell \in FittableCells(job.data)
       THEN Advance([job EXCEPT !.fitted = Works[job.data][Cell].art.fitted, !.pc = "validate"])
            /\ Keep
       ELSE Fail

ValidateFold ==
    /\ At({"calibrate"}, "validate")
    /\ Advance([job EXCEPT !.tuned = @ \cup Targets(job.data, Cell, "validation"), !.fitted = {},
                           !.at = IF More THEN @ + 1 ELSE 1,
                           !.pc = IF More THEN "fit" ELSE "choose"])
    /\ Keep

Choose ==
    /\ At({"calibrate"}, "choose")
    /\ Advance([job EXCEPT !.pc = "test", !.chosen =
           Recommended([cell \in Cells |-> GridReports[job.data][cell]["validation"]])])
    /\ Keep

TestFold ==
    /\ At({"calibrate"}, "test")
    /\ Advance([job EXCEPT !.tested = @ \cup Targets(job.data, Cell, "test"),
                           !.at = IF More THEN @ + 1 ELSE 1,
                           !.pc = IF More THEN "test" ELSE "write"])
    /\ Keep

StrategiesOf(c, cell, chosen) ==
    LET grid == GridReports[c][cell] IN
    [validation_selected_rrf |-> grid["test"][Selected(grid["validation"])],
     recommended_fixed_rrf   |-> grid["test"][chosen],
     conventional_rrf        |-> grid["test"][DefaultConfiguration],
     positive_weighted_svd   |-> BaselineReports[c][cell]["positive_weighted_svd"],
     popularity              |-> BaselineReports[c][cell]["popularity"],
     svd_mean_pooling        |-> BaselineReports[c][cell]["svd_mean_pooling"]]

WriteCalibration ==
    /\ At({"calibrate"}, "write")
    /\ calibration' = [data |-> job.data, chosen |-> job.chosen,
                       tests |-> [cell \in Cells |-> StrategiesOf(job.data, cell, job.chosen)]]
    /\ Finish
    /\ UNCHANGED <<disk, manifest, summary>>

-----------------------------------------------------------------------------

Crash ==
    /\ job # Idle /\ crashes < MaxCrashes
    /\ job' = Idle /\ crashes' = crashes + 1
    /\ UNCHANGED <<csv, jobs>> /\ Keep

ReplaceCsv ==
    /\ job = Idle /\ csv < Len(Csvs)
    /\ csv' = csv + 1
    /\ UNCHANGED <<job, jobs, crashes>> /\ Keep

Next ==
    \/ StartBenchmark \/ RefuseCsv \/ ReuseFold \/ BeginFold \/ WriteArrays \/ WriteMetadata
    \/ Train \/ OpenModel \/ SaveModel \/ WriteReport \/ Summarize
    \/ StartRefit \/ RefitFold \/ UpdateReport
    \/ StartCalibration \/ FitFold \/ ValidateFold \/ Choose \/ TestFold \/ WriteCalibration
    \/ Crash \/ ReplaceCsv

Spec == Init /\ [][Next]_vars

-----------------------------------------------------------------------------
(* Properties.                                                               *)

Stamps == {None} \cup DOMAIN Csvs

(* Every file is absent or the product of one of the CSVs, and a running job *)
(* is at one of its cells.                                                   *)
TypeOK ==
    /\ csv \in DOMAIN Csvs /\ jobs \in 0 .. MaxJobs /\ crashes \in 0 .. MaxCrashes
    /\ \A cell \in Cells : /\ disk[cell].arrays \in [Parts -> Stamps]
                           /\ disk[cell].metadata \in [Parts -> Stamps]
    /\ job # Idle => /\ job.at \in DOMAIN job.plan
                     /\ job.saved \in 0 .. Len(job.names)
                     /\ job.loaded \in [Parts -> Stamps]

CurrentSetup == Setups[job.data][Cell]

(* None a fold is fitted on is a training user's own label or a canonical *)
(* target; no context shows a target of its user; and a (user, target) pair  *)
(* that stopped the training early or chose a configuration is never tested  *)
(* under the same seed, whatever the order of folds, restarts and CSVs       *)
(* (run_fold, _assert_canonical_targets_untouched, run_rrf_calibration).     *)
NoLeak ==
    /\ job # Idle => /\ job.tuned \cap job.tested = {}
                     /\ \A t \in job.tuned \cup job.tested :   \* <<csv, seed, user, target>>
                            /\ t[4] # NoTarget
                            /\ t[4] \notin DOMAIN Setups[t[1]][<<t[2], 0>>].splits[t[3]].context
    /\ job # Idle /\ job.fitted # {} =>
           \A rated \in job.fitted :                            \* <<user, film>>
               LET u == rated[1]
                   f == rated[2]
               IN  /\ u \notin CurrentSetup.users.validation \cup CurrentSetup.users.test
                   /\ f \notin Canonical(CurrentSetup.splits[u])
                   /\ f \notin DOMAIN CurrentSetup.holdouts[u].label

(* A group holds every retrieved positive of its user and no film the user   *)
(* has in context or that is a target of another partition, is as full as    *)
(* the cap and the candidates allow, and the shuffled control never borrows  *)
(* the user's own profile (sampling.py, dataset.py).                         *)
HonestGroup(part, query) ==
    LET group   == DOMAIN query.group
        allowed == query.found.films \ query.example.forbidden
    IN  /\ group \subseteq allowed
        /\ group \cap DOMAIN query.example.context = {}
        /\ query.found.films \cap DOMAIN query.example.labels \subseteq group
        /\ \A f \in group : query.group[f] = "positive" <=> f \in DOMAIN query.example.labels
        /\ Cardinality(group) = IF part = "train" THEN Min({GroupCap, Cardinality(allowed)})
                                                 ELSE Cardinality(allowed)

GroupsHonest ==
    job # Idle /\ job.kind = "benchmark" /\ job.pc = "metadata" =>
        LET queries == Works[job.data][Cell].queries[job.part] IN
        /\ \A u \in DOMAIN queries : HonestGroup(job.part, queries[u])
        /\ LET donor == Donors(Cell[1], Cell[2], DOMAIN queries) IN
           /\ \A u \in DOMAIN queries : donor[u] = u => Cardinality(DOMAIN queries) = 1
           /\ {donor[u] : u \in DOMAIN queries} = DOMAIN queries

HasTarget(c, seed, u) == Canonical(Setups[c][<<seed, 0>>].splits[u]) # {}

Users(c) == DOMAIN Loaded(Csvs[c])

(* Over the folds of a seed a report per fold ranks every user with targets  *)
(* once, and no other user.                                                  *)
RankedOnce(c, seed, report) ==
    \A u \in Users(c) :
        Cardinality({k \in 0 .. FoldCount - 1 : u \in DOMAIN report[k].ranks})
            = IF HasTarget(c, seed, u) THEN 1 ELSE 0

(* A miss stays in the global denominators, the segments of a report add up  *)
(* to it, and the value that stopped the training is the one reported.       *)
Accounted(c, cell, name) ==
    LET work   == Works[c][cell]
        report == TestReports[c][cell][name]
        score(u, f) == Fraction(Prediction[name][f], 1)
        parts  == Segments(work.queries["test"], report.ranks)
    IN  /\ \A u \in DOMAIN report.ranks : report.ranks[u] = 0 <=> work.queries["test"][u].source = "missed"
        /\ \A d \in DOMAIN parts :
               MapThenSumSet(LAMBDA n : parts[d][n].eligible, DOMAIN parts[d]) = report.global.users
        /\ Checkpoint(work.queries["validation"], score)
               = ModelReport(work, "validation", name).global.ndcg

(* A summary over all folds of a seed whose reports are of one CSV, and a    *)
(* calibration report, count every eligible target once per seed, under      *)
(* every strategy alike (metrics.py, uncertainty.py, rrf_calibration.py).    *)
EveryTargetCountedOnce ==
    /\ summary # None =>
         \A seed \in Seeds, c \in Sound :
           (\A k \in 0 .. FoldCount - 1 : <<seed, k>> \in DOMAIN summary.folds
                                         /\ summary.folds[<<seed, k>>] = c) =>
             \A name \in summary.models :
               /\ RankedOnce(c, seed, [k \in 0 .. FoldCount - 1 |-> TestReports[c][<<seed, k>>][name]])
               /\ \A k \in 0 .. FoldCount - 1 : Accounted(c, <<seed, k>>, name)
    /\ calibration # None =>
         LET c == calibration.data
             rows(name) == [cell \in Cells |-> calibration.tests[cell][name].ranks]
             strategies == DOMAIN calibration.tests[CHOOSE cell \in Cells : TRUE]
             paired == Clustered(rows("recommended_fixed_rrf"), rows("conventional_rrf"))
         IN  /\ \A seed \in Seeds, name \in strategies :
                   RankedOnce(c, seed, [k \in 0 .. FoldCount - 1 |-> calibration.tests[<<seed, k>>][name]])
             /\ \A u \in DOMAIN paired : paired[u].observations = Cardinality(Seeds)

(* A fold's report stands on arrays and metadata of one CSV and on models    *)
(* fitted on exactly those, also after a crash, a new CSV or a refit         *)
(* (run_benchmark skips a fold with metrics.json and the refit reads it).    *)
(* A model it names is whole, unless a refit is writing that model over it   *)
(* or was killed while it did: the one write that is not a replacement.      *)
Rewriting(cell, name) ==
    /\ job # Idle /\ job.kind = "refit" /\ job.pc = "save"
    /\ Cell = cell /\ job.names[job.saved + 1] = name

ReportOverOwnFiles ==
    \A cell \in Cells : disk[cell].metrics # None =>
        LET metrics == disk[cell].metrics
            own     == [part \in Parts |-> metrics.data]
        IN  /\ disk[cell].arrays = own /\ disk[cell].metadata = own
            /\ \A name \in DOMAIN metrics.models :
                   metrics.models[name] = own /\ disk[cell].models[name] = own
            /\ \A opened \in disk[cell].torn : opened[1] \in DOMAIN metrics.models =>
                   opened[2] = "refit" /\ (crashes > 0 \/ Rewriting(cell, opened[1]))
=============================================================================
