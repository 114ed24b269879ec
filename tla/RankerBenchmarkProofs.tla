----------------------- MODULE RankerBenchmarkProofs -----------------------
(* The offline jobs, for every CSV, plan, seed, grid and number of folds:    *)
(* what no order of jobs, crashes and new CSVs can break.                    *)
EXTENDS RankerBenchmark, FiniteLemmas, SequenceTheorems

-----------------------------------------------------------------------------
(* Types                                                                     *)

Models     == DOMAIN Prediction
Files      == [Parts -> Stamps]
ReportType == [protocol : {"sampled", "full_pool"}, data : Stamps,
               models : UNION {[N -> Files] : N \in SUBSET Models}]
Opened     == Models \X {"benchmark", "refit"}
FoldType   == [arrays : Files, metadata : Files, models : [Models -> Files \cup {None}],
               torn : SUBSET Opened, metrics : ReportType \cup {None}]

Fields == {"kind", "pc", "plan", "at", "names", "data", "part", "loaded", "saved",
           "reports", "fitted", "tuned", "tested", "chosen"}

(* A job that runs; what it has computed has no type of interest here.       *)
IsJob(j) ==
    /\ DOMAIN j = Fields
    /\ j.kind \in {"benchmark", "refit", "calibrate"}
    /\ j.plan \in Seq(Cells) /\ j.at \in 1 .. Len(j.plan)
    /\ j.names \in Seq(Models) /\ j.saved \in 0 .. Len(j.names)
    /\ j.data \in DOMAIN Csvs /\ j.part \in Parts /\ j.loaded \in Files

Running == job # Idle

Types ==
    /\ csv \in DOMAIN Csvs /\ jobs \in 0 .. MaxJobs /\ crashes \in 0 .. MaxCrashes
    /\ disk \in [Cells -> FoldType]
    /\ Running => IsJob(job)

-----------------------------------------------------------------------------
(* The invariant.                                                            *)

Writing == job.kind = "benchmark" /\ job.pc \in {"arrays", "metadata", "train", "models", "save"}
AtModels(kinds) == job.kind \in kinds /\ job.pc \in {"models", "save"}

Earlier == [train |-> {}, validation |-> {"train"}, test |-> {"train", "validation"}]

(* The partitions whose arrays, and whose metadata, the fold's job has written. *)
ArraysDone   == IF job.pc \in {"train", "models", "save"} THEN Parts
                ELSE Earlier[job.part] \cup (IF job.pc = "metadata" THEN {job.part} ELSE {})
MetadataDone == IF job.pc \in {"train", "models", "save"} THEN Parts ELSE Earlier[job.part]

OwnReport(fold) ==
    fold.metrics # None =>
        LET own == [part \in Parts |-> fold.metrics.data] IN
        /\ fold.arrays = own /\ fold.metadata = own
        /\ \A name \in DOMAIN fold.metrics.models :
               fold.metrics.models[name] = own /\ fold.models[name] = own

(* What the running job has read and written so far.                         *)
Progress ==
    /\ job.kind # "refit" => job.data \in Sound
    /\ Writing => /\ Cell \in FittableCells(job.data) /\ Here.metrics = None
                  /\ \A part \in ArraysDone : Here.arrays[part] = job.data
                  /\ \A part \in MetadataDone : Here.metadata[part] = job.data
    /\ AtModels({"benchmark"}) => job.loaded = [part \in Parts |-> job.data]
    /\ AtModels({"refit"}) => Here.metrics # None /\ job.loaded = Here.arrays
    /\ job.pc = "save" => job.saved < Len(job.names)
    /\ AtModels({"benchmark", "refit"}) =>
           \A i \in 1 .. job.saved : Here.models[job.names[i]] = job.loaded

(* A calibration has fitted every fold of the grid it has come to.           *)
Calibrating ==
    job.kind = "calibrate" =>
        /\ job.plan = Grid
        /\ job.pc = "fit" => \A i \in 1 .. job.at - 1 : Grid[i] \in FittableCells(job.data)
        /\ job.pc = "validate" => \A i \in 1 .. job.at : Grid[i] \in FittableCells(job.data)
        /\ job.pc \notin {"fit", "validate"} => Cells \subseteq FittableCells(job.data)

TargetsOf(part) == UNION {Targets(job.data, cell, part) : cell \in FittableCells(job.data)}

(* What it has fitted, chosen with and tested on.                            *)
Learning ==
    /\ job.fitted # {} => /\ Writing \/ At({"calibrate"}, "validate")
                          /\ job.fitted = Works[job.data][Cell].art.fitted
    /\ job.tuned \cup job.tested # {} =>
           /\ job.kind # "refit"
           /\ job.tuned \subseteq TargetsOf("validation") /\ job.tested \subseteq TargetsOf("test")

IInv ==
    /\ Types
    /\ \A cell \in Cells : OwnReport(disk[cell])
    /\ Running => Progress /\ Calibrating /\ Learning

-----------------------------------------------------------------------------
(* Lemmas on what the jobs are made of.                                      *)

LEMMA IsCalm ==
    ASSUME NEW kinds, kinds \subseteq {"benchmark", "refit", "calibrate"}, NEW pc, At(kinds, pc)
    PROVE  Running
<1>1. None \notin {"benchmark", "refit", "calibrate"} /\ job.kind \in kinds
  BY JobAssumption DEF At
<1>2. Idle.kind = None
  BY DEF Idle
<1> QED BY <1>1, <1>2 DEF Running

LEMMA TableIs ==
    ASSUME NEW f
    PROVE  Table(f) = f
BY DEF Table

LEMMA CsvsAre ==
    /\ Len(Csvs) \in Nat /\ 1 \in DOMAIN Csvs /\ DOMAIN Csvs = 1 .. Len(Csvs)
    /\ None \notin DOMAIN Csvs
BY JobAssumption, EmptySeq, LenProperties

LEMMA CellsAre ==
    /\ IsFiniteSet(Cells) /\ Cells # {} /\ Cardinality(Cells) \in Nat \ {0}
    /\ \A c \in Cells : c[1] \in Nat /\ c[2] \in Nat /\ c = <<c[1], c[2]>>
<1>1. FoldCount \in Nat \ {0}
  BY SplitAssumption
<1>2. IsFiniteSet(0 .. FoldCount - 1) /\ 0 \in 0 .. FoldCount - 1
  BY <1>1, FS_Interval
<1>3. IsFiniteSet(Seeds) /\ Seeds # {} /\ Seeds \subseteq Nat
  BY JobAssumption
<1>4. IsFiniteSet(Cells)
  BY <1>2, <1>3, FS_Product DEF Cells
<1>5. PICK s \in Seeds : TRUE
  BY <1>3
<1>6. <<s, 0>> \in Cells
  BY <1>2, <1>5 DEF Cells
<1>7. Cardinality(Cells) \in Nat \ {0}
  BY <1>4, <1>6, FS_CardinalityType, FS_EmptySet
<1>8. 0 .. FoldCount - 1 \subseteq Nat
  BY <1>1
<1>9. ASSUME NEW c \in Cells PROVE c[1] \in Nat /\ c[2] \in Nat /\ c = <<c[1], c[2]>>
  <2>1. PICK seed \in Seeds, k \in 0 .. FoldCount - 1 : c = <<seed, k>>
    BY DEF Cells
  <2> QED BY <2>1, <1>3, <1>8
<1> QED BY <1>4, <1>6, <1>7, <1>9

LEMMA LowerPair ==
    ASSUME NEW x, NEW y, x \in Cells, y \in Cells
    PROVE  Lower(x, y) <=> x[1] < y[1] \/ (x[1] = y[1] /\ x[2] < y[2])
<1>1. /\ x[1] \in Nat /\ x[2] \in Nat /\ y[1] \in Nat /\ y[2] \in Nat
      /\ DOMAIN x = 1 .. 2
  BY CellsAre
<1>2. /\ \A j \in 1 .. 1 - 1 : x[j] = y[j]
      /\ (\A j \in 1 .. 2 - 1 : x[j] = y[j]) <=> x[1] = y[1]
  OBVIOUS
<1>3. \A i \in 1 .. 2 : i = 1 \/ i = 2
  OBVIOUS
<1> QED BY <1>1, <1>2, <1>3 DEF Lower

(* The grid of a calibration: every cell once, in order.                     *)
LEMMA GridIs ==
    /\ Grid \in Seq(Cells) /\ Len(Grid) = Cardinality(Cells)
    /\ \A cell \in Cells : \E i \in 1 .. Len(Grid) : Grid[i] = cell
<1> DEFINE n == Cardinality(Cells)
           R == {xy \in Cells \X Cells : Lower(xy[1], xy[2])}
           r == [x \in Cells |-> 1 + Cardinality(Before(Cells, R, x))]
           IsGrid(plan) == \A i, j \in DOMAIN plan : i < j => Lower(plan[i], plan[j])
<1>1. \A x, y \in Cells : <<x, y>> \in R <=> Lower(x, y)
  OBVIOUS
<1>2. StrictOrder(Cells, R)
  <2>1. \A x \in Cells : ~Lower(x, x)
    BY LowerPair, CellsAre
  <2>2. ASSUME NEW x \in Cells, NEW y \in Cells, NEW z \in Cells, Lower(x, y), Lower(y, z)
        PROVE  Lower(x, z)
    BY <2>2, LowerPair, CellsAre
  <2>3. ASSUME NEW x \in Cells, NEW y \in Cells, x # y PROVE Lower(x, y) \/ Lower(y, x)
    BY <2>3, LowerPair, CellsAre
  <2> QED BY <1>1, <2>1, <2>2, <2>3 DEF StrictOrder
<1>3. /\ r \in [Cells -> 1 .. n]
      /\ \A x, y \in Cells : <<x, y>> \in R <=> r[x] < r[y]
      /\ \A i \in 1 .. n : \E x \in Cells : r[x] = i
  <2>1. IsFiniteSet(Cells)
    BY CellsAre
  <2>2. r = [x \in Cells |-> 1 + Cardinality(Before(Cells, R, x))]
    OBVIOUS
  <2> HIDE DEF R, r
  <2> QED BY <1>2, <2>1, <2>2, PlaceOrders
<1> HIDE DEF r, R
<1>4. \E plan \in [1 .. n -> Cells] : IsGrid(plan)
  <2> DEFINE plan == [i \in 1 .. n |-> CHOOSE x \in Cells : r[x] = i]
  <2>1. \A i \in 1 .. n : plan[i] \in Cells /\ r[plan[i]] = i
    BY <1>3
  <2>2. plan \in [1 .. n -> Cells]
    BY <2>1
  <2>3. ASSUME NEW i \in 1 .. n, NEW j \in 1 .. n, i < j PROVE Lower(plan[i], plan[j])
    <3>1. r[plan[i]] < r[plan[j]]
      BY <2>1, <2>3
    <3> QED BY <1>1, <1>3, <2>1, <3>1
  <2>4. IsGrid(plan)
    BY <2>2, <2>3
  <2> QED BY <2>2, <2>4
<1>5. Grid \in [1 .. n -> Cells] /\ IsGrid(Grid)
  BY <1>4 DEF Grid
<1>6. n \in Nat
  BY CellsAre
<1> HIDE DEF n
<1>7. Grid \in Seq(Cells) /\ Len(Grid) = n
  BY <1>5, <1>6
<1>8. Grid \in Injection(1 .. n, Cells)
  <2>1. ASSUME NEW i \in 1 .. n, NEW j \in 1 .. n, Grid[i] = Grid[j], i # j PROVE FALSE
    <3>1. Lower(Grid[i], Grid[i])
      <4>1. i \in Int /\ j \in Int /\ i \in DOMAIN Grid /\ j \in DOMAIN Grid
        BY <1>5, <1>6
      <4>2. i < j \/ j < i
        BY <2>1, <4>1
      <4> QED BY <1>5, <2>1, <4>1, <4>2
    <3>2. Grid[i] \in Cells
      BY <1>5
    <3> QED BY <3>1, <3>2, LowerPair, CellsAre
  <2> QED BY <1>5, <2>1 DEF Injection, IsInjective
<1>9. Grid \in Surjection(1 .. n, Cells)
  <2>1. IsFiniteSet(1 .. n) /\ Cardinality(1 .. n) = n
    BY <1>6, FS_Interval
  <2>2. IsFiniteSet(Cells) /\ Cardinality(Cells) = n
    BY CellsAre DEF n
  <2> QED BY <1>8, <2>1, <2>2, FS_Injection
<1>10. \A cell \in Cells : \E i \in 1 .. n : Grid[i] = cell
  BY <1>9 DEF Surjection
<1> QED BY <1>7, <1>10 DEF n

LEMMA PlansAre ==
    ASSUME NEW plan \in Plans \cup {Grid}
    PROVE  plan \in Seq(Cells) /\ 1 \in 1 .. Len(plan)
<1>1. CASE plan \in Plans
  <2>1. plan \in Seq(Cells) /\ plan # << >>
    BY <1>1, JobAssumption DEF Cells
  <2> QED BY <2>1, EmptySeq, LenProperties
<1>2. CASE plan = Grid
  BY <1>2, GridIs, CellsAre
<1> QED BY <1>1, <1>2


-----------------------------------------------------------------------------
(* One lemma per action: the invariant is kept.                              *)

LEMMA Stops ==
    ASSUME IInv, Finish, disk' \in [Cells -> FoldType], \A cell \in Cells : OwnReport(disk'[cell])
    PROVE  IInv'
BY DEF IInv, Types, Finish, Running

LEMMA Fails ==
    ASSUME IInv, Fail PROVE IInv'
BY Stops DEF IInv, Types, Fail, Keep

(* A job's fold is one of the cells, and a write changes no other.           *)
LEMMA HereIs ==
    ASSUME IInv, Running
    PROVE  /\ IsJob(job) /\ Cell \in Cells /\ Here \in FoldType /\ OwnReport(Here)
           /\ Progress /\ Calibrating /\ Learning
<1>1. IsJob(job) /\ Progress /\ Calibrating /\ Learning
  BY DEF IInv, Types
<1>2. Cell \in Cells
  BY <1>1, ElementOfSeq DEF IsJob, Cell
<1> QED BY <1>1, <1>2 DEF IInv, Types, Here

LEMMA WriteFold ==
    ASSUME IInv, Running, NEW fold \in FoldType, OwnReport(fold),
           disk' = [disk EXCEPT ![Cell] = fold]
    PROVE  /\ disk' \in [Cells -> FoldType] /\ disk'[Cell] = fold
           /\ \A cell \in Cells : OwnReport(disk'[cell])
BY HereIs DEF IInv, Types

(* A job that goes on.                                                       *)
LEMMA GoesOn ==
    ASSUME IInv, csv' = csv, jobs' = jobs, crashes' = crashes,
           disk' \in [Cells -> FoldType], \A cell \in Cells : OwnReport(disk'[cell]),
           IsJob(job'), Progress', Calibrating', Learning'
    PROVE  IInv'
BY DEF IInv, Types

LEMMA ReuseFoldStep ==
    ASSUME IInv, ReuseFold PROVE IInv'
<1>1. CASE Fail
  BY <1>1, Fails
<1>2. CASE Advance([job EXCEPT !.reports = Append(@, [cell |-> Cell, metrics |-> Here.metrics]),
                               !.pc = "summary"]) /\ Keep
  <2>1. Running /\ At({"benchmark"}, "fold")
    BY IsCalm DEF ReuseFold
  <2>2. IsJob(job) /\ Progress /\ Calibrating /\ Learning
    BY <2>1, HereIs
  <2>3. /\ DOMAIN job' = Fields /\ job'.pc = "summary"
        /\ \A field \in Fields \ {"pc", "reports"} : job'[field] = job[field]
    BY <1>2, <2>2 DEF Advance, IsJob, Fields
  <2>4. IsJob(job')
    BY <2>2, <2>3 DEF IsJob, Fields
  <2>5. Progress'
    BY <2>1, <2>2, <2>3 DEF Progress, At, AtModels, Writing, Fields
  <2>6. Calibrating'
    BY <2>1, <2>3 DEF Calibrating, At, Fields
  <2>7. Learning'
    BY <2>1, <2>2, <2>3 DEF Learning, At, Writing, Fields, TargetsOf
  <2> QED BY <1>2, <2>4, <2>5, <2>6, <2>7, GoesOn DEF Advance, Keep, IInv, Types
<1> QED BY <1>1, <1>2 DEF ReuseFold

LEMMA BeginFoldStep ==
    ASSUME IInv, BeginFold PROVE IInv'
<1>1. CASE Fail
  BY <1>1, Fails
<1>2. CASE /\ Cell \in FittableCells(job.data)
           /\ Advance([job EXCEPT !.pc = "arrays", !.part = "train",
                                  !.fitted = Works[job.data][Cell].art.fitted]) /\ Keep
  <2>1. Running /\ At({"benchmark"}, "fold")
    BY IsCalm DEF BeginFold
  <2>2. IsJob(job) /\ Progress /\ Calibrating /\ Learning
    BY <2>1, HereIs
  <2>3. /\ DOMAIN job' = Fields /\ job'.pc = "arrays" /\ job'.part = "train"
        /\ job'.fitted = Works[job.data][Cell].art.fitted
        /\ \A field \in Fields \ {"pc", "part", "fitted"} : job'[field] = job[field]
    BY <1>2, <2>2 DEF Advance, IsJob, Fields
  <2>4. IsJob(job')
    BY <2>2, <2>3 DEF IsJob, Fields, Parts
  <2>5. Cell' = Cell /\ Here' = Here
    BY <1>2, <2>3 DEF Cell, Here, Keep, Fields
  <2>6. Progress'
    <3>1. ArraysDone' = {} /\ MetadataDone' = {}
      BY <2>3 DEF ArraysDone, MetadataDone, Earlier
    <3> QED BY <1>2, <2>1, <2>2, <2>3, <2>5, <3>1 DEF Progress, At, AtModels, Writing, Fields, BeginFold
  <2>7. Calibrating'
    BY <2>1, <2>3 DEF Calibrating, At, Fields
  <2>8. Learning'
    <3>1. Writing' /\ job'.data = job.data
      BY <2>1, <2>3 DEF Writing, At, Fields
    <3> QED BY <2>1, <2>2, <2>3, <2>5, <3>1 DEF Learning, At, Fields, TargetsOf
  <2> QED BY <1>2, <2>4, <2>6, <2>7, <2>8, GoesOn DEF Advance, Keep, IInv, Types
<1> QED BY <1>1, <1>2 DEF BeginFold

LEMMA WriteArraysStep ==
    ASSUME IInv, WriteArrays PROVE IInv'
<1>1. CASE Fail
  BY <1>1, Fails
<1>2. CASE /\ disk' = [disk EXCEPT ![Cell].arrays[job.part] = job.data]
           /\ Advance([job EXCEPT !.pc = "metadata"])
  <2> DEFINE fold == [Here EXCEPT !.arrays = [Here.arrays EXCEPT ![job.part] = job.data]]
  <2>1. Running /\ At({"benchmark"}, "arrays")
    BY IsCalm DEF WriteArrays
  <2>2. /\ IsJob(job) /\ Progress /\ Calibrating /\ Learning
        /\ Cell \in Cells /\ Here \in FoldType /\ Writing
    BY <2>1, HereIs DEF Writing, At
  <2>3. /\ DOMAIN job' = Fields /\ job'.pc = "metadata"
        /\ \A field \in Fields \ {"pc"} : job'[field] = job[field]
    BY <1>2, <2>2 DEF Advance, IsJob, Fields
  <2>4. IsJob(job')
    BY <2>2, <2>3 DEF IsJob, Fields
  <2>5. /\ fold \in FoldType /\ fold.arrays = [Here.arrays EXCEPT ![job.part] = job.data]
        /\ fold.metadata = Here.metadata /\ fold.metrics = None /\ OwnReport(fold)
    <3>1. job.part \in Parts /\ job.data \in Stamps /\ Here.metrics = None
      BY <2>2 DEF IsJob, Stamps, Progress
    <3> QED BY <2>2, <3>1 DEF FoldType, Files, OwnReport
  <2>6. /\ disk' \in [Cells -> FoldType] /\ disk'[Cell] = fold
        /\ \A cell \in Cells : OwnReport(disk'[cell])
    <3>1. disk' = [disk EXCEPT ![Cell] = fold]
      BY <1>2, <2>2 DEF Here
    <3> HIDE DEF fold
    <3> QED BY <2>1, <2>5, <3>1, WriteFold
  <2>7. Cell' = Cell /\ Here' = fold
    BY <2>3, <2>6 DEF Cell, Here, Fields
  <2>8. Progress'
    <3>1. ArraysDone' = ArraysDone \cup {job.part} /\ MetadataDone' = MetadataDone
      BY <2>1, <2>3 DEF ArraysDone, MetadataDone, Fields, At
    <3>2. Here'.arrays = [Here.arrays EXCEPT ![job.part] = job.data] /\ Here.arrays \in Files
      BY <2>2, <2>5, <2>7 DEF FoldType
    <3>3. ASSUME NEW part \in ArraysDone' PROVE Here'.arrays[part] = job.data
      <4>1. part \in Parts
        <5>1. job.part \in Parts /\ ArraysDone = Earlier[job.part]
          BY <2>1, <2>2 DEF ArraysDone, IsJob, At
        <5>2. Earlier[job.part] \subseteq Parts
          BY <5>1 DEF Earlier, Parts
        <5> QED BY <3>1, <3>3, <5>1, <5>2
      <4> QED BY <2>2, <3>1, <3>2, <3>3, <4>1 DEF Progress, Files
    <3>4. \A part \in MetadataDone' : Here'.metadata[part] = job.data
      BY <2>2, <2>5, <2>7, <3>1 DEF Progress
    <3>5. job'.kind = job.kind /\ job'.data = job.data /\ Cell' \in FittableCells(job.data)
      BY <2>2, <2>3, <2>7 DEF Progress, Fields
    <3> HIDE DEF fold
    <3> QED BY <2>1, <2>2, <2>3, <2>5, <2>7, <3>3, <3>4, <3>5 DEF Progress, At, AtModels, Writing
  <2>9. Calibrating'
    BY <2>1, <2>3 DEF Calibrating, At, Fields
  <2>10. Learning'
    <3>1. Writing' /\ job'.data = job.data
      BY <2>1, <2>3 DEF Writing, At, Fields
    <3> QED BY <2>1, <2>2, <2>3, <2>7, <3>1 DEF Learning, At, Fields, TargetsOf
  <2> QED BY <1>2, <2>4, <2>6, <2>8, <2>9, <2>10, GoesOn DEF Advance
<1> QED BY <1>1, <1>2 DEF WriteArrays

LEMMA WriteMetadataStep ==
    ASSUME IInv, WriteMetadata PROVE IInv'
<1> DEFINE fold == [Here EXCEPT !.metadata = [Here.metadata EXCEPT ![job.part] = job.data]]
           next == CASE job.part = "train"      -> [job EXCEPT !.pc = "arrays", !.part = "validation"]
                     [] job.part = "validation" -> [job EXCEPT !.pc = "arrays", !.part = "test"]
                     [] job.part = "test"       -> [job EXCEPT !.pc = "train"]
<1>1. Running /\ At({"benchmark"}, "metadata")
  BY IsCalm DEF WriteMetadata
<1>2. /\ IsJob(job) /\ Progress /\ Calibrating /\ Learning
      /\ Cell \in Cells /\ Here \in FoldType /\ Writing
  BY <1>1, HereIs DEF Writing, At
<1>3. /\ DOMAIN job' = Fields /\ job'.part \in Parts
      /\ job'.pc = IF job.part = "test" THEN "train" ELSE "arrays"
      /\ job'.part = CASE job.part = "train" -> "validation" [] OTHER -> "test"
      /\ \A field \in Fields \ {"pc", "part"} : job'[field] = job[field]
  <2>1. job' = next
    BY DEF WriteMetadata, Advance
  <2>2. job.part \in Parts
    BY <1>2 DEF IsJob
  <2>3. CASE job.part = "train"
    BY <1>2, <2>1, <2>3 DEF Parts, IsJob, Fields
  <2>4. CASE job.part = "validation"
    BY <1>2, <2>1, <2>4 DEF Parts, IsJob, Fields
  <2>5. CASE job.part = "test"
    BY <1>2, <2>1, <2>5 DEF Parts, IsJob, Fields
  <2> QED BY <2>2, <2>3, <2>4, <2>5 DEF Parts
<1>4. IsJob(job')
  BY <1>2, <1>3 DEF IsJob, Fields
<1>5. /\ fold \in FoldType /\ fold.metadata = [Here.metadata EXCEPT ![job.part] = job.data]
      /\ fold.arrays = Here.arrays /\ fold.metrics = None /\ OwnReport(fold)
  <2>1. job.part \in Parts /\ job.data \in Stamps /\ Here.metrics = None
    BY <1>2 DEF IsJob, Stamps, Progress
  <2> QED BY <1>2, <2>1 DEF FoldType, Files, OwnReport
<1>6. /\ disk' \in [Cells -> FoldType] /\ disk'[Cell] = fold
      /\ \A cell \in Cells : OwnReport(disk'[cell])
  <2>1. disk' = [disk EXCEPT ![Cell] = fold]
    BY <1>2 DEF Here, WriteMetadata
  <2> HIDE DEF fold
  <2> QED BY <1>1, <1>5, <2>1, WriteFold
<1>7. Cell' = Cell /\ Here' = fold
  BY <1>3, <1>6 DEF Cell, Here, Fields
<1>8. Progress'
  <2>1. ArraysDone' = ArraysDone /\ MetadataDone' = MetadataDone \cup {job.part}
    <3>1. job.part \in Parts
      BY <1>2 DEF IsJob
    <3>2. CASE job.part = "train"
      BY <1>1, <1>3, <3>2 DEF ArraysDone, MetadataDone, At, Earlier, Parts
    <3>3. CASE job.part = "validation"
      BY <1>1, <1>3, <3>3 DEF ArraysDone, MetadataDone, At, Earlier, Parts
    <3>4. CASE job.part = "test"
      BY <1>1, <1>3, <3>4 DEF ArraysDone, MetadataDone, At, Earlier, Parts
    <3> QED BY <3>1, <3>2, <3>3, <3>4 DEF Parts
  <2>2. Here'.metadata = [Here.metadata EXCEPT ![job.part] = job.data] /\ Here.metadata \in Files
    BY <1>2, <1>5, <1>7 DEF FoldType
  <2>3. ASSUME NEW part \in MetadataDone' PROVE Here'.metadata[part] = job.data
    <3>1. part \in Parts
      BY <1>1, <1>2, <2>1, <2>3 DEF MetadataDone, Earlier, Parts, IsJob, At
    <3> QED BY <1>2, <2>1, <2>2, <2>3, <3>1 DEF Progress, Files
  <2>4. \A part \in ArraysDone' : Here'.arrays[part] = job.data
    BY <1>2, <1>5, <1>7, <2>1 DEF Progress
  <2>5. job'.kind = job.kind /\ job'.data = job.data /\ Cell' \in FittableCells(job.data)
    BY <1>2, <1>3, <1>7 DEF Progress, Fields
  <2> HIDE DEF fold
  <2> QED BY <1>1, <1>2, <1>3, <1>5, <1>7, <2>3, <2>4, <2>5 DEF Progress, At, AtModels, Writing
<1>9. Calibrating'
  BY <1>1, <1>3 DEF Calibrating, At, Fields
<1>10. Learning'
  <2>1. Writing' /\ job'.data = job.data
    BY <1>1, <1>3 DEF Writing, At, Fields
  <2> QED BY <1>1, <1>2, <1>3, <1>7, <2>1 DEF Learning, At, Fields, TargetsOf
<1> QED BY <1>4, <1>6, <1>8, <1>9, <1>10, GoesOn DEF Advance, WriteMetadata

LEMMA TrainStep ==
    ASSUME IInv, Train PROVE IInv'
<1>1. CASE Fail
  BY <1>1, Fails
<1>2. CASE Advance([job EXCEPT !.pc = "models", !.saved = 0,
                               !.loaded = [part \in Parts |-> job.data],
                               !.tuned = @ \cup Targets(job.data, Cell, "validation"),
                               !.tested = @ \cup Targets(job.data, Cell, "test")]) /\ Keep
  <2>1. Running /\ At({"benchmark"}, "train")
    BY IsCalm DEF Train
  <2>2. /\ IsJob(job) /\ Progress /\ Calibrating /\ Learning /\ Writing
    BY <2>1, HereIs DEF Writing, At
  <2>3. /\ DOMAIN job' = Fields /\ job'.pc = "models" /\ job'.saved = 0
        /\ job'.loaded = [part \in Parts |-> job.data]
        /\ job'.tuned = job.tuned \cup Targets(job.data, Cell, "validation")
        /\ job'.tested = job.tested \cup Targets(job.data, Cell, "test")
        /\ \A field \in Fields \ {"pc", "saved", "loaded", "tuned", "tested"} :
               job'[field] = job[field]
    BY <1>2, <2>2 DEF Advance, IsJob, Fields
  <2>4. IsJob(job')
    <3>1. job.names \in Seq(Models) /\ [part \in Parts |-> job.data] \in Files
      BY <2>2 DEF IsJob, Files, Stamps
    <3>2. 0 \in 0 .. Len(job.names)
      BY <3>1, LenProperties
    <3> QED BY <2>2, <2>3, <3>1, <3>2 DEF IsJob, Fields
  <2>5. Cell' = Cell /\ Here' = Here
    BY <1>2, <2>3 DEF Cell, Here, Keep, Fields
  <2>6. Progress'
    <3>1. ArraysDone' = ArraysDone /\ MetadataDone' = MetadataDone
      BY <2>1, <2>3 DEF ArraysDone, MetadataDone, At
    <3>2. \A i \in 1 .. job'.saved : FALSE
      BY <2>3
    <3> QED BY <2>1, <2>2, <2>3, <2>5, <3>1, <3>2 DEF Progress, At, AtModels, Writing, Fields
  <2>7. Calibrating'
    BY <2>1, <2>3 DEF Calibrating, At, Fields
  <2>8. Learning'
    <3>1. Writing' /\ job'.data = job.data /\ job'.kind = "benchmark"
      BY <2>1, <2>3 DEF Writing, At, Fields
    <3>2. Cell \in FittableCells(job.data)
      BY <2>2 DEF Progress
    <3>3. job'.tuned \subseteq TargetsOf("validation") /\ job'.tested \subseteq TargetsOf("test")
      BY <2>2, <2>3, <3>2 DEF Learning, TargetsOf
    <3> QED BY <2>1, <2>2, <2>3, <2>5, <3>1, <3>3 DEF Learning, At, Fields, TargetsOf
  <2> QED BY <1>2, <2>4, <2>6, <2>7, <2>8, GoesOn DEF Advance, Keep, IInv, Types
<1> QED BY <1>1, <1>2 DEF Train

LEMMA OpenModelStep ==
    ASSUME IInv, OpenModel PROVE IInv'
<1> DEFINE torn == Here.torn \cup {<<job.names[job.saved + 1], job.kind>>}
           fold == [Here EXCEPT !.torn = torn]
<1>1. /\ Running /\ AtModels({"benchmark", "refit"}) /\ At({"benchmark", "refit"}, "models")
      /\ job.saved < Len(job.names)
  BY IsCalm DEF OpenModel, At, AtModels
<1>2. /\ IsJob(job) /\ Progress /\ Calibrating /\ Learning
      /\ Cell \in Cells /\ Here \in FoldType /\ OwnReport(Here)
  BY <1>1, HereIs
<1>3. /\ DOMAIN job' = Fields /\ job'.pc = "save"
      /\ \A field \in Fields \ {"pc"} : job'[field] = job[field]
  BY <1>2 DEF OpenModel, Advance, IsJob, Fields
<1>4. IsJob(job')
  BY <1>2, <1>3 DEF IsJob, Fields
<1>5. /\ fold \in FoldType /\ OwnReport(fold) /\ fold.metadata = Here.metadata
      /\ fold.arrays = Here.arrays /\ fold.metrics = Here.metrics /\ fold.models = Here.models
  <2>1. job.names[job.saved + 1] \in Models /\ job.kind \in {"benchmark", "refit"}
    <3>1. job.saved + 1 \in 1 .. Len(job.names)
      BY <1>1, <1>2, LenProperties DEF IsJob
    <3> QED BY <1>1, <1>2, <3>1, ElementOfSeq DEF IsJob, At
  <2>2. torn \in SUBSET Opened
    BY <1>2, <2>1 DEF FoldType, Opened
  <2> HIDE DEF torn
  <2> QED BY <1>2, <2>2 DEF FoldType, OwnReport
<1>6. /\ disk' \in [Cells -> FoldType] /\ disk'[Cell] = fold
      /\ \A cell \in Cells : OwnReport(disk'[cell])
  <2>1. disk' = [disk EXCEPT ![Cell] = fold]
    BY <1>2 DEF Here, OpenModel
  <2> HIDE DEF fold
  <2> QED BY <1>1, <1>5, <2>1, WriteFold
<1> HIDE DEF fold
<1>7. Cell' = Cell /\ Here' = fold
  BY <1>3, <1>6 DEF Cell, Here, Fields
<1>8. Progress'
  <2>1. ArraysDone' = ArraysDone /\ MetadataDone' = MetadataDone
    BY <1>1, <1>3 DEF ArraysDone, MetadataDone, At
  <2> QED BY <1>1, <1>2, <1>3, <1>5, <1>7, <2>1 DEF Progress, At, AtModels, Writing, Fields
<1>9. Calibrating'
  BY <1>1, <1>3 DEF Calibrating, At, Fields
<1>10. Learning'
  BY <1>1, <1>2, <1>3, <1>7 DEF Learning, At, Writing, TargetsOf, Fields
<1> QED BY <1>4, <1>6, <1>8, <1>9, <1>10, GoesOn DEF Advance, OpenModel

LEMMA SaveModelStep ==
    ASSUME IInv, SaveModel PROVE IInv'
<1> DEFINE name == job.names[job.saved + 1]
           torn == {opened \in Here.torn : opened[1] # name}
           fold == [Here EXCEPT !.models = [Here.models EXCEPT ![name] = job.loaded], !.torn = torn]
<1>1. Running /\ AtModels({"benchmark", "refit"}) /\ At({"benchmark", "refit"}, "save")
  BY IsCalm DEF SaveModel, At, AtModels
<1>2. /\ IsJob(job) /\ Progress /\ Calibrating /\ Learning
      /\ Cell \in Cells /\ Here \in FoldType /\ OwnReport(Here)
  BY <1>1, HereIs
<1>3. /\ DOMAIN job' = Fields /\ job'.saved = job.saved + 1 /\ job'.pc = "models"
      /\ \A field \in Fields \ {"pc", "saved"} : job'[field] = job[field]
  BY <1>2 DEF SaveModel, Advance, IsJob, Fields
<1>4. Len(job.names) \in Nat /\ job.saved \in Nat /\ job.saved + 1 \in 1 .. Len(job.names)
  BY <1>1, <1>2, LenProperties DEF IsJob, Progress, At
<1>5. name \in Models
  BY <1>2, <1>4, ElementOfSeq DEF IsJob
<1>6. IsJob(job')
  <2>1. job'.saved \in 0 .. Len(job'.names)
    BY <1>3, <1>4 DEF Fields
  <2> QED BY <1>2, <1>3, <2>1 DEF IsJob, Fields
<1>7. /\ fold \in FoldType /\ fold.metadata = Here.metadata /\ fold.arrays = Here.arrays
      /\ fold.metrics = Here.metrics /\ fold.models = [Here.models EXCEPT ![name] = job.loaded]
  <2>1. job.loaded \in Files
    BY <1>2 DEF IsJob
  <2>2. torn \in SUBSET Opened
    BY <1>2 DEF FoldType
  <2> HIDE DEF torn
  <2> QED BY <1>2, <1>5, <2>1, <2>2 DEF FoldType
<1> HIDE DEF fold, name
<1>8. Here.models \in [Models -> Files \cup {None}]
  BY <1>2 DEF FoldType
<1>9. OwnReport(fold)
  <2>1. CASE Here.metrics = None
    BY <1>7, <2>1 DEF OwnReport
  <2>2. CASE Here.metrics # None
    <3> DEFINE own == [part \in Parts |-> Here.metrics.data]
    <3>1. AtModels({"refit"})
      BY <1>1, <1>2, <2>2 DEF Progress, Writing, AtModels
    <3>2. Here.arrays = own /\ Here.metadata = own /\ job.loaded = own
      BY <1>2, <2>2, <3>1 DEF OwnReport, Progress
    <3>3. ASSUME NEW other \in DOMAIN Here.metrics.models
          PROVE  Here.metrics.models[other] = own /\ fold.models[other] = own
      <4>1. Here.metrics.models[other] = own /\ Here.models[other] = own
        BY <1>2, <2>2 DEF OwnReport
      <4>2. Here.metrics \in ReportType
        BY <1>2, <2>2 DEF FoldType
      <4>3. other \in Models
        BY <4>2, <3>3 DEF ReportType
      <4> QED BY <1>7, <1>8, <3>2, <4>1, <4>3
    <3> QED BY <1>7, <3>2, <3>3 DEF OwnReport
  <2> QED BY <2>1, <2>2
<1>10. /\ disk' \in [Cells -> FoldType] /\ disk'[Cell] = fold
      /\ \A cell \in Cells : OwnReport(disk'[cell])
  <2>1. disk' = [disk EXCEPT ![Cell] = fold]
    BY <1>2 DEF Here, SaveModel, fold, name
  <2> QED BY <1>1, <1>7, <1>9, <2>1, WriteFold
<1>11. Cell' = Cell /\ Here' = fold
  BY <1>3, <1>10 DEF Cell, Here, Fields
<1>12. job'.kind = job.kind /\ job'.data = job.data /\ job'.part = job.part
  BY <1>3 DEF Fields
<1>13. Progress'
  <2>1. ASSUME Writing'
        PROVE  /\ Cell' \in FittableCells(job'.data) /\ Here'.metrics = None
               /\ \A part \in ArraysDone' : Here'.arrays[part] = job'.data
               /\ \A part \in MetadataDone' : Here'.metadata[part] = job'.data
    <3>1. Writing /\ ArraysDone' = ArraysDone /\ MetadataDone' = MetadataDone
      BY <1>1, <1>3, <1>12, <2>1 DEF Writing, ArraysDone, MetadataDone, At
    <3> QED BY <1>2, <1>7, <1>11, <1>12, <3>1 DEF Progress
  <2>2. job'.loaded = job.loaded /\ job'.names = job.names
    BY <1>3 DEF Fields
  <2>3. ASSUME NEW i \in 1 .. job'.saved PROVE Here'.models[job'.names[i]] = job'.loaded
    <3>1. CASE i = job.saved + 1
      BY <1>5, <1>7, <1>8, <1>11, <2>2, <3>1 DEF name
    <3>2. CASE i # job.saved + 1
      <4>1. i \in 1 .. job.saved /\ i \in 1 .. Len(job.names)
        BY <1>3, <1>4, <3>2, <2>3
      <4>2. Here.models[job.names[i]] = job.loaded
        BY <1>1, <1>2, <4>1 DEF Progress
      <4>3. job.names[i] \in Models
        BY <1>2, <4>1, ElementOfSeq DEF IsJob
      <4> QED BY <1>7, <1>8, <1>11, <2>2, <4>2, <4>3
    <3> QED BY <3>1, <3>2
  <2>4. job.kind # "refit" => job.data \in Sound
    BY <1>2 DEF Progress
  <2>5. AtModels({"benchmark"}) => job.loaded = [part \in Parts |-> job.data]
    BY <1>2 DEF Progress
  <2>6. AtModels({"refit"}) => Here.metrics # None /\ job.loaded = Here.arrays
    BY <1>2 DEF Progress
  <2> QED BY <1>1, <1>3, <1>7, <1>11, <1>12, <2>1, <2>2, <2>3, <2>4, <2>5, <2>6 DEF Progress, At, AtModels
<1>14. Calibrating'
  BY <1>1, <1>12 DEF Calibrating, At
<1>15. Learning'
  <2>1. job'.fitted = job.fitted /\ job'.tuned = job.tuned /\ job'.tested = job.tested
    BY <1>3 DEF Fields
  <2> QED BY <1>1, <1>2, <1>3, <1>11, <1>12, <2>1 DEF Learning, At, Writing, TargetsOf
<1> QED BY <1>6, <1>10, <1>13, <1>14, <1>15, GoesOn DEF Advance, SaveModel

(* The report stands on what the fold wrote before it.                       *)
LEMMA WriteReportStep ==
    ASSUME IInv, WriteReport PROVE IInv'
<1> DEFINE own == [part \in Parts |-> job.data]
           metrics == [protocol |-> "full_pool", data |-> job.data, models |-> Trained]
           fold == [Here EXCEPT !.metrics = metrics]
<1>1. Running /\ At({"benchmark"}, "models") /\ job.saved = Len(job.names)
  BY IsCalm DEF WriteReport
<1>2. /\ IsJob(job) /\ Progress /\ Calibrating /\ Learning /\ Writing
      /\ Cell \in Cells /\ Here \in FoldType
  BY <1>1, HereIs DEF Writing, At
<1>3. /\ DOMAIN job' = Fields /\ job'.pc = "summary" /\ job'.fitted = {}
      /\ \A field \in Fields \ {"pc", "fitted", "reports"} : job'[field] = job[field]
  BY <1>2 DEF WriteReport, Advance, IsJob, Fields
<1>4. IsJob(job')
  BY <1>2, <1>3 DEF IsJob, Fields
<1>5. job.names \in Seq(Models) /\ DOMAIN job.names = 1 .. Len(job.names)
  BY <1>2, LenProperties DEF IsJob
<1>6. /\ DOMAIN Trained = {job.names[i] : i \in DOMAIN job.names} /\ DOMAIN Trained \subseteq Models
      /\ \A name \in DOMAIN Trained : Trained[name] = own
  <2>1. job.loaded = own
    BY <1>1, <1>2 DEF Progress, At, AtModels
  <2>2. \A i \in DOMAIN job.names : job.names[i] \in Models
    BY <1>5, ElementOfSeq
  <2> QED BY <2>1, <2>2 DEF Trained
<1>7. own \in Files
  BY <1>2 DEF IsJob, Files, Stamps
<1>8. metrics \in ReportType
  <2>1. Trained \in [DOMAIN Trained -> Files]
    BY <1>6, <1>7 DEF Trained
  <2>2. Trained \in UNION {[N -> Files] : N \in SUBSET Models}
    BY <1>6, <2>1
  <2>3. job.data \in Stamps
    BY <1>2 DEF IsJob, Stamps
  <2> QED BY <2>2, <2>3 DEF ReportType
<1>9. /\ fold \in FoldType /\ fold.arrays = Here.arrays /\ fold.metadata = Here.metadata
      /\ fold.models = Here.models /\ fold.metrics = metrics
  BY <1>2, <1>8 DEF FoldType
<1>10. Here.arrays = own /\ Here.metadata = own
  <2>1. \A part \in Parts : Here.arrays[part] = job.data /\ Here.metadata[part] = job.data
    BY <1>1, <1>2 DEF Progress, ArraysDone, MetadataDone, At, AtModels
  <2>2. Here.arrays \in [Parts -> Stamps] /\ Here.metadata \in [Parts -> Stamps]
    BY <1>2 DEF FoldType, Files
  <2> QED BY <2>1, <2>2
<1>11. ASSUME NEW name \in DOMAIN Trained PROVE Here.models[name] = own
  <2>1. PICK i \in 1 .. Len(job.names) : name = job.names[i]
    BY <1>5, <1>6
  <2> QED BY <1>1, <1>2, <2>1 DEF Progress, At, AtModels
<1>12. OwnReport(fold)
  <2>1. metrics.data = job.data /\ metrics.models = Trained
    OBVIOUS
  <2> HIDE DEF metrics, fold
  <2> QED BY <1>6, <1>9, <1>10, <1>11, <2>1 DEF OwnReport
<1>13. disk' = [disk EXCEPT ![Cell] = fold]
  BY <1>2 DEF Here, WriteReport
<1> HIDE DEF fold, metrics
<1>14. /\ disk' \in [Cells -> FoldType] /\ \A cell \in Cells : OwnReport(disk'[cell])
  BY <1>1, <1>9, <1>12, <1>13, WriteFold
<1>15. Progress' /\ Calibrating' /\ Learning'
  BY <1>1, <1>2, <1>3 DEF Progress, Calibrating, Learning, At, AtModels, Writing, Fields, TargetsOf
<1> QED BY <1>4, <1>14, <1>15, GoesOn DEF Advance, WriteReport

LEMMA SummarizeStep ==
    ASSUME IInv, Summarize PROVE IInv'
<1>1. CASE Fail
  BY <1>1, Fails
<1>2. CASE Finish /\ disk' = disk
  BY <1>2, Stops DEF IInv, Types
<1>3. CASE /\ job.kind = "benchmark" /\ job.at < Len(job.plan) /\ disk' = disk
           /\ Advance([job EXCEPT !.at = @ + 1, !.pc = "fold"])
  <2>1. Running /\ At({"benchmark"}, "summary")
    BY <1>3, IsCalm DEF Summarize, At
  <2>2. IsJob(job) /\ Progress /\ Calibrating /\ Learning
    BY <2>1, HereIs
  <2>3. /\ DOMAIN job' = Fields /\ job'.pc = "fold" /\ job'.at = job.at + 1
        /\ \A field \in Fields \ {"pc", "at"} : job'[field] = job[field]
    BY <1>3, <2>2 DEF Advance, IsJob, Fields
  <2>4. IsJob(job')
    <3>1. job.at + 1 \in 1 .. Len(job.plan)
      BY <1>3, <2>2, LenProperties DEF IsJob
    <3> QED BY <2>2, <2>3, <3>1 DEF IsJob, Fields
  <2>5. Progress' /\ Calibrating' /\ Learning'
    BY <2>1, <2>2, <2>3 DEF Progress, Calibrating, Learning, At, AtModels, Writing, Fields, TargetsOf
  <2> QED BY <1>3, <2>4, <2>5, GoesOn DEF Advance, IInv, Types
<1> QED BY <1>1, <1>2, <1>3 DEF Summarize

(* A job that starts: it has fitted, chosen and tested nothing.              *)
LEMMA StartsStep ==
    ASSUME IInv, Idle = job, NEW kind \in {"benchmark", "refit", "calibrate"},
           NEW pc \in {"fold", "load", "fit"}, NEW plan \in Seq(Cells), 1 \in 1 .. Len(plan),
           NEW names \in Seq(Models), kind # "refit" => csv \in Sound,
           kind = "calibrate" => plan = Grid /\ pc = "fit",
           Begin(Job(kind, pc, plan, names)), disk' = disk, jobs < MaxJobs
    PROVE  IInv'
<1>1. job' = Job(kind, pc, plan, names) /\ csv' = csv /\ csv \in DOMAIN Csvs
  BY DEF Begin, IInv, Types
<1>2. /\ DOMAIN job' = Fields /\ job'.kind = kind /\ job'.pc = pc /\ job'.plan = plan
      /\ job'.at = 1 /\ job'.names = names /\ job'.data = csv /\ job'.part = "train"
      /\ job'.loaded = [part \in Parts |-> csv] /\ job'.saved = 0
      /\ job'.fitted = {} /\ job'.tuned = {} /\ job'.tested = {}
  BY <1>1 DEF Job, Fields
<1>3. IsJob(job')
  <2>1. 0 \in 0 .. Len(names)
    BY LenProperties
  <2>2. [part \in Parts |-> csv] \in Files
    BY <1>1 DEF Files, Stamps
  <2> QED BY <1>1, <1>2, <2>1, <2>2 DEF IsJob, Parts
<1>4. Progress'
  BY <1>2 DEF Progress, At, AtModels, Writing
<1>5. Calibrating'
  <2>1. \A i \in 1 .. 1 - 1 : FALSE
    OBVIOUS
  <2> QED BY <1>2, <2>1 DEF Calibrating
<1>6. Learning'
  BY <1>2 DEF Learning
<1>7. jobs' \in 0 .. MaxJobs /\ crashes' = crashes
  BY JobAssumption DEF Begin, IInv, Types
<1> QED BY <1>1, <1>3, <1>4, <1>5, <1>6, <1>7 DEF IInv, Types

LEMMA StartStep ==
    ASSUME IInv, StartBenchmark \/ StartRefit \/ StartCalibration PROVE IInv'
<1>1. ASSUME NEW plan \in Plans, NEW names \in AblationNames
      PROVE  plan \in Seq(Cells) /\ 1 \in 1 .. Len(plan) /\ names \in Seq(Models)
  BY PlansAre, JobAssumption DEF Models
<1>2. CASE StartBenchmark
  <2>1. PICK plan \in Plans, names \in AblationNames :
            csv \in Sound /\ Begin(Job("benchmark", "fold", plan, names)) /\ disk' = disk
    BY <1>2 DEF StartBenchmark
  <2>2. job = Idle /\ jobs < MaxJobs
    BY <2>1 DEF Begin
  <2> QED BY <1>1, <2>1, <2>2, StartsStep
<1>3. CASE StartRefit
  <2>1. PICK plan \in Plans, names \in AblationNames :
            Begin(Job("refit", "load", plan, names)) /\ disk' = disk
    BY <1>3 DEF StartRefit, Keep
  <2>2. job = Idle /\ jobs < MaxJobs
    BY <2>1 DEF Begin
  <2> QED BY <1>1, <2>1, <2>2, StartsStep
<1>4. CASE StartCalibration
  <2>1. csv \in Sound /\ Begin(Job("calibrate", "fit", Grid, << >>)) /\ disk' = disk
    BY <1>4 DEF StartCalibration, Keep
  <2>2. job = Idle /\ jobs < MaxJobs
    BY <2>1 DEF Begin
  <2>3. Grid \in Seq(Cells) /\ 1 \in 1 .. Len(Grid) /\ << >> \in Seq(Models)
    BY PlansAre
  <2> QED BY <2>1, <2>2, <2>3, StartsStep
<1> QED BY <1>2, <1>3, <1>4

LEMMA RefitFoldStep ==
    ASSUME IInv, RefitFold PROVE IInv'
<1>1. CASE Fail
  BY <1>1, Fails
<1>2. CASE /\ Here.metrics # None
           /\ Advance([job EXCEPT !.pc = "models", !.saved = 0, !.loaded = Here.arrays]) /\ Keep
  <2>1. Running /\ At({"refit"}, "load")
    BY IsCalm DEF RefitFold
  <2>2. IsJob(job) /\ Progress /\ Calibrating /\ Learning /\ Here \in FoldType
    BY <2>1, HereIs
  <2>3. /\ DOMAIN job' = Fields /\ job'.pc = "models" /\ job'.saved = 0
        /\ job'.loaded = Here.arrays
        /\ \A field \in Fields \ {"pc", "saved", "loaded"} : job'[field] = job[field]
    BY <1>2, <2>2 DEF Advance, IsJob, Fields
  <2>4. IsJob(job')
    <3>1. Here.arrays \in Files /\ 0 \in 0 .. Len(job.names)
      BY <2>2, LenProperties DEF IsJob, FoldType
    <3> QED BY <2>2, <2>3, <3>1 DEF IsJob, Fields
  <2>5. Cell' = Cell /\ Here' = Here
    BY <1>2, <2>3 DEF Cell, Here, Keep, Fields
  <2>6. Progress'
    <3>1. \A i \in 1 .. job'.saved : FALSE
      BY <2>3
    <3> QED BY <1>2, <2>1, <2>2, <2>3, <2>5, <3>1 DEF Progress, At, AtModels, Writing, Fields
  <2>7. Calibrating' /\ Learning'
    BY <2>1, <2>2, <2>3 DEF Calibrating, Learning, At, Writing, Fields
  <2> QED BY <1>2, <2>4, <2>6, <2>7, GoesOn DEF Advance, Keep, IInv, Types
<1> QED BY <1>1, <1>2 DEF RefitFold

(* The refit replaces models of the report by models of the same files.      *)
LEMMA UpdateReportStep ==
    ASSUME IInv, UpdateReport PROVE IInv'
<1> DEFINE old     == Here.metrics
           own     == [part \in Parts |-> old.data]
           models  == [name \in DOMAIN old.models \cup DOMAIN Trained |->
                           IF name \in DOMAIN Trained THEN Trained[name] ELSE old.models[name]]
           metrics == [old EXCEPT !.models = models]
           fold    == [Here EXCEPT !.metrics = metrics]
           done    == [job EXCEPT !.reports = Append(@, [cell |-> Cell, metrics |-> metrics])]
<1>1. Running /\ At({"refit"}, "models") /\ job.saved = Len(job.names)
  BY IsCalm DEF UpdateReport
<1>2. /\ IsJob(job) /\ Progress /\ Calibrating /\ Learning
      /\ Cell \in Cells /\ Here \in FoldType /\ OwnReport(Here)
  BY <1>1, HereIs
<1>3. old # None /\ old \in ReportType /\ Here.arrays = own /\ Here.metadata = own /\ job.loaded = own
  BY <1>1, <1>2 DEF Progress, At, AtModels, FoldType, OwnReport
<1>4. job.names \in Seq(Models) /\ DOMAIN job.names = 1 .. Len(job.names)
  BY <1>2, LenProperties DEF IsJob
<1>5. /\ DOMAIN Trained = {job.names[i] : i \in DOMAIN job.names} /\ DOMAIN Trained \subseteq Models
      /\ \A name \in DOMAIN Trained : Trained[name] = own
  <2>1. \A i \in DOMAIN job.names : job.names[i] \in Models
    BY <1>4, ElementOfSeq
  <2> QED BY <1>3, <2>1 DEF Trained
<1>6. ASSUME NEW name \in DOMAIN Trained PROVE Here.models[name] = own
  <2>1. PICK i \in 1 .. Len(job.names) : name = job.names[i]
    BY <1>4, <1>5
  <2> QED BY <1>1, <1>2, <1>3, <2>1 DEF Progress, At, AtModels
<1>7. own \in Files /\ old.data \in Stamps /\ DOMAIN old.models \subseteq Models
  BY <1>3 DEF ReportType, Files
<1>8. \A name \in DOMAIN old.models : old.models[name] = own /\ Here.models[name] = own
  BY <1>2, <1>3 DEF OwnReport
<1>9. /\ DOMAIN models \subseteq Models
      /\ \A name \in DOMAIN models : models[name] = own /\ Here.models[name] = own
  BY <1>5, <1>6, <1>7, <1>8
<1>10. /\ metrics \in ReportType /\ metrics.data = old.data /\ metrics.models = models
  <2>1. models \in [DOMAIN models -> Files]
    BY <1>7, <1>9
  <2>2. models \in UNION {[N -> Files] : N \in SUBSET Models}
    BY <1>9, <2>1
  <2> HIDE DEF models
  <2> QED BY <1>3, <2>2 DEF ReportType
<1>11. /\ fold \in FoldType /\ fold.arrays = Here.arrays /\ fold.metadata = Here.metadata
       /\ fold.models = Here.models /\ fold.metrics = metrics
  <2> HIDE DEF metrics
  <2> QED BY <1>2, <1>10 DEF FoldType
<1>12. OwnReport(fold)
  <2> HIDE DEF metrics, fold, models
  <2> QED BY <1>3, <1>9, <1>10, <1>11 DEF OwnReport
<1>13. disk' = [disk EXCEPT ![Cell] = fold]
  BY <1>2 DEF Here, UpdateReport
<1>14. /\ disk' \in [Cells -> FoldType] /\ \A cell \in Cells : OwnReport(disk'[cell])
  <2> HIDE DEF fold
  <2> QED BY <1>1, <1>11, <1>12, <1>13, WriteFold
<1>15. job' = IF job.at < Len(job.plan) THEN [done EXCEPT !.at = @ + 1, !.pc = "load"]
                                       ELSE [done EXCEPT !.pc = "summary"]
  BY DEF UpdateReport, Advance
<1>16. DOMAIN done = Fields /\ \A field \in Fields \ {"reports"} : done[field] = job[field]
  BY <1>2 DEF IsJob, Fields
<1> HIDE DEF done
<1>17. /\ DOMAIN job' = Fields /\ job'.pc \in {"load", "summary"}
       /\ job'.at = IF job.at < Len(job.plan) THEN job.at + 1 ELSE job.at
       /\ \A field \in Fields \ {"pc", "at", "reports"} : job'[field] = job[field]
  BY <1>15, <1>16 DEF Fields
<1>18. IsJob(job')
  <2>1. job'.at \in 1 .. Len(job.plan)
    BY <1>2, <1>17, LenProperties DEF IsJob
  <2> QED BY <1>2, <1>17, <2>1 DEF IsJob, Fields
<1>19. Progress' /\ Calibrating' /\ Learning'
  BY <1>1, <1>2, <1>17 DEF Progress, Calibrating, Learning, At, AtModels, Writing, Fields
<1> QED BY <1>14, <1>18, <1>19, GoesOn DEF Advance, UpdateReport

LEMMA FitFoldStep ==
    ASSUME IInv, FitFold PROVE IInv'
<1>1. CASE Fail
  BY <1>1, Fails
<1>2. CASE /\ Cell \in FittableCells(job.data)
           /\ Advance([job EXCEPT !.fitted = Works[job.data][Cell].art.fitted, !.pc = "validate"])
           /\ Keep
  <2>1. Running /\ At({"calibrate"}, "fit")
    BY IsCalm DEF FitFold
  <2>2. IsJob(job) /\ Progress /\ Calibrating /\ Learning
    BY <2>1, HereIs
  <2>3. /\ DOMAIN job' = Fields /\ job'.pc = "validate"
        /\ job'.fitted = Works[job.data][Cell].art.fitted
        /\ \A field \in Fields \ {"pc", "fitted"} : job'[field] = job[field]
    BY <1>2, <2>2 DEF Advance, IsJob, Fields
  <2>4. IsJob(job')
    BY <2>2, <2>3 DEF IsJob, Fields
  <2>5. Cell' = Cell
    BY <2>3 DEF Cell, Fields
  <2>6. Calibrating'
    <3>1. job.plan = Grid /\ \A i \in 1 .. job.at - 1 : Grid[i] \in FittableCells(job.data)
      BY <2>1, <2>2 DEF Calibrating, At
    <3>2. ASSUME NEW i \in 1 .. job.at PROVE Grid[i] \in FittableCells(job.data)
      <4>1. i = job.at \/ i \in 1 .. job.at - 1
        BY <2>2 DEF IsJob
      <4> QED BY <1>2, <3>1, <4>1 DEF Cell
    <3> QED BY <2>3, <3>1, <3>2 DEF Calibrating, Fields
  <2>7. Progress' /\ Learning'
    BY <2>1, <2>2, <2>3, <2>5 DEF Progress, Learning, At, AtModels, Writing, Fields, TargetsOf
  <2> QED BY <1>2, <2>4, <2>6, <2>7, GoesOn DEF Advance, Keep, IInv, Types
<1> QED BY <1>1, <1>2 DEF FitFold

LEMMA ValidateFoldStep ==
    ASSUME IInv, ValidateFold PROVE IInv'
<1>1. Running /\ At({"calibrate"}, "validate")
  BY IsCalm DEF ValidateFold
<1>2. IsJob(job) /\ Progress /\ Calibrating /\ Learning
  BY <1>1, HereIs
<1>3. /\ DOMAIN job' = Fields /\ job'.fitted = {}
      /\ job'.at = IF More THEN job.at + 1 ELSE 1
      /\ job'.pc = IF More THEN "fit" ELSE "choose"
      /\ job'.tuned = job.tuned \cup Targets(job.data, Cell, "validation")
      /\ \A field \in Fields \ {"pc", "at", "fitted", "tuned"} : job'[field] = job[field]
  BY <1>2 DEF ValidateFold, Advance, IsJob, Fields
<1>4. job.at \in Nat \ {0} /\ Len(job.plan) \in Nat /\ job.at <= Len(job.plan)
  BY <1>2, LenProperties DEF IsJob
<1>5. IsJob(job')
  <2>1. job'.at \in 1 .. Len(job.plan)
    BY <1>3, <1>4 DEF More
  <2> QED BY <1>2, <1>3, <2>1 DEF IsJob, Fields
<1>6. job.plan = Grid /\ \A i \in 1 .. job.at : Grid[i] \in FittableCells(job.data)
  BY <1>1, <1>2 DEF Calibrating, At
<1>7. Calibrating'
  <2>1. CASE More
    <3>1. job'.at - 1 = job.at
      BY <1>3, <1>4, <2>1
    <3> QED BY <1>3, <1>6, <2>1, <3>1 DEF Calibrating, Fields
  <2>2. CASE ~More
    <3>1. job.at = Len(Grid)
      BY <1>4, <1>6, <2>2 DEF More
    <3>2. Cells \subseteq FittableCells(job.data)
      <4> SUFFICES ASSUME NEW cell \in Cells PROVE cell \in FittableCells(job.data)
        OBVIOUS
      <4>1. PICK i \in 1 .. Len(Grid) : Grid[i] = cell
        BY GridIs
      <4> QED BY <1>6, <3>1, <4>1
    <3> QED BY <1>3, <1>6, <2>2, <3>2 DEF Calibrating, Fields
  <2> QED BY <2>1, <2>2
<1>8. Progress'
  BY <1>1, <1>2, <1>3 DEF Progress, At, AtModels, Writing, Fields
<1>9. Learning'
  <2>1. Cell \in FittableCells(job.data)
    BY <1>4, <1>6 DEF Cell
  <2>2. job'.tuned \subseteq TargetsOf("validation") /\ job.tested \subseteq TargetsOf("test")
    BY <1>2, <1>3, <2>1 DEF Learning, TargetsOf
  <2>3. job'.data = job.data /\ job'.kind = "calibrate" /\ job'.tested = job.tested
    BY <1>1, <1>3 DEF Fields, At
  <2> QED BY <1>3, <2>2, <2>3 DEF Learning, TargetsOf
<1> QED BY <1>5, <1>7, <1>8, <1>9, GoesOn DEF ValidateFold, Advance, Keep, IInv, Types

LEMMA ChooseStep ==
    ASSUME IInv, Choose PROVE IInv'
<1>1. Running /\ At({"calibrate"}, "choose")
  BY IsCalm DEF Choose
<1>2. IsJob(job) /\ Progress /\ Calibrating /\ Learning
  BY <1>1, HereIs
<1>3. /\ DOMAIN job' = Fields /\ job'.pc = "test"
      /\ \A field \in Fields \ {"pc", "chosen"} : job'[field] = job[field]
  BY <1>2 DEF Choose, Advance, IsJob, Fields
<1>4. IsJob(job')
  BY <1>2, <1>3 DEF IsJob, Fields
<1>5. Progress' /\ Calibrating' /\ Learning'
  BY <1>1, <1>2, <1>3 DEF Progress, Calibrating, Learning, At, AtModels, Writing, Fields, TargetsOf
<1> QED BY <1>4, <1>5, GoesOn DEF Choose, Advance, Keep, IInv, Types

LEMMA TestFoldStep ==
    ASSUME IInv, TestFold PROVE IInv'
<1>1. Running /\ At({"calibrate"}, "test")
  BY IsCalm DEF TestFold
<1>2. IsJob(job) /\ Progress /\ Calibrating /\ Learning /\ Cell \in Cells
  BY <1>1, HereIs
<1>3. /\ DOMAIN job' = Fields
      /\ job'.at = IF More THEN job.at + 1 ELSE 1
      /\ job'.pc = IF More THEN "test" ELSE "write"
      /\ job'.tested = job.tested \cup Targets(job.data, Cell, "test")
      /\ \A field \in Fields \ {"pc", "at", "tested"} : job'[field] = job[field]
  BY <1>2 DEF TestFold, Advance, IsJob, Fields
<1>4. IsJob(job')
  <2>1. job.at \in Nat \ {0} /\ Len(job.plan) \in Nat /\ job.at <= Len(job.plan)
    BY <1>2, LenProperties DEF IsJob
  <2>2. job'.at \in 1 .. Len(job.plan)
    BY <1>3, <2>1 DEF More
  <2> QED BY <1>2, <1>3, <2>2 DEF IsJob, Fields
<1>5. job.plan = Grid /\ Cells \subseteq FittableCells(job.data)
  BY <1>1, <1>2 DEF Calibrating, At
<1>6. Calibrating' /\ Progress'
  BY <1>1, <1>2, <1>3, <1>5 DEF Calibrating, Progress, At, AtModels, Writing, Fields
<1>7. Learning'
  <2>1. job.tuned \subseteq TargetsOf("validation") /\ job'.tested \subseteq TargetsOf("test")
    BY <1>2, <1>3, <1>5 DEF Learning, TargetsOf
  <2>2. job'.data = job.data /\ job'.kind = "calibrate" /\ job'.tuned = job.tuned
    BY <1>1, <1>3 DEF Fields, At
  <2>3. job'.fitted = {}
    BY <1>1, <1>2, <1>3 DEF Learning, Fields, At, Writing
  <2> QED BY <2>1, <2>2, <2>3 DEF Learning, TargetsOf
<1> QED BY <1>4, <1>6, <1>7, GoesOn DEF TestFold, Advance, Keep, IInv, Types

(* The steps of no fold.                                                     *)
LEMMA OtherStep ==
    ASSUME IInv, WriteCalibration \/ RefuseCsv \/ Crash \/ ReplaceCsv \/ UNCHANGED vars
    PROVE  IInv'
<1>1. CASE WriteCalibration
  BY <1>1, Stops DEF WriteCalibration, IInv, Types
<1>2. CASE RefuseCsv
  <2>1. jobs' \in 0 .. MaxJobs
    BY <1>2, JobAssumption DEF RefuseCsv, IInv, Types
  <2>2. csv' = csv /\ job' = job /\ crashes' = crashes /\ disk' = disk /\ job = Idle
    BY <1>2 DEF RefuseCsv, Keep
  <2> QED BY <2>1, <2>2 DEF IInv, Types, Running
<1>3. CASE Crash
  <2>1. crashes' \in 0 .. MaxCrashes
    BY <1>3, JobAssumption DEF Crash, IInv, Types
  <2>2. csv' = csv /\ jobs' = jobs /\ disk' = disk /\ job' = Idle
    BY <1>3 DEF Crash, Keep
  <2> QED BY <2>1, <2>2 DEF IInv, Types, Running
<1>4. CASE ReplaceCsv
  <2>1. csv' \in DOMAIN Csvs
    BY <1>4, CsvsAre DEF ReplaceCsv, IInv, Types
  <2>2. job' = job /\ jobs' = jobs /\ crashes' = crashes /\ disk' = disk /\ job = Idle
    BY <1>4 DEF ReplaceCsv, Keep
  <2> QED BY <2>1, <2>2 DEF IInv, Types, Running
<1>5. CASE UNCHANGED vars
  BY <1>5 DEF vars, IInv, Types, Running, Progress, Calibrating, Learning, At, AtModels, Writing, TargetsOf,
     Cell, Here, ArraysDone, MetadataDone
<1> QED BY <1>1, <1>2, <1>3, <1>4, <1>5

LEMMA Starts == Init => IInv
<1> SUFFICES ASSUME Init PROVE IInv
  OBVIOUS
<1>1. PICK old \in Leftovers : disk = [cell \in Cells |-> IF cell \in old THEN OldFold ELSE EmptyFold]
  BY DEF Init
<1>2. [part \in Parts |-> 1] \in Files /\ [part \in Parts |-> None] \in Files /\ 1 \in Stamps
  BY CsvsAre DEF Files, Stamps
<1>3. OldFold \in FoldType /\ OwnReport(OldFold)
  <2> DEFINE every == [name \in Models |-> [part \in Parts |-> 1]]
             metrics == [protocol |-> "sampled", data |-> 1, models |-> every]
  <2>1. every \in [Models -> Files] /\ DOMAIN every = Models
    BY <1>2
  <2>2. metrics \in ReportType
    <3>1. every \in UNION {[N -> Files] : N \in SUBSET Models}
      BY <2>1
    <3> HIDE DEF every
    <3> QED BY <1>2, <3>1 DEF ReportType
  <2>3. /\ OldFold.arrays = [part \in Parts |-> 1] /\ OldFold.metadata = [part \in Parts |-> 1]
        /\ OldFold.models = every /\ OldFold.torn = {} /\ OldFold.metrics = metrics
        /\ OldFold = [arrays |-> [part \in Parts |-> 1], metadata |-> [part \in Parts |-> 1],
                      models |-> every, torn |-> {}, metrics |-> metrics]
    BY DEF OldFold, Models
  <2>4. metrics.data = 1 /\ metrics.models = every
    OBVIOUS
  <2>5. \A name \in Models : every[name] = [part \in Parts |-> 1]
    OBVIOUS
  <2> HIDE DEF every, metrics
  <2>6. OldFold \in FoldType
    BY <1>2, <2>1, <2>2, <2>3 DEF FoldType
  <2> QED BY <2>1, <2>3, <2>4, <2>5, <2>6 DEF OwnReport
<1>4. EmptyFold \in FoldType /\ OwnReport(EmptyFold)
  BY <1>2 DEF EmptyFold, FoldType, OwnReport, Models
<1>5. csv \in DOMAIN Csvs /\ jobs \in 0 .. MaxJobs /\ crashes \in 0 .. MaxCrashes /\ ~Running
  BY JobAssumption, CsvsAre DEF Init, Running
<1>6. disk \in [Cells -> FoldType] /\ \A cell \in Cells : OwnReport(disk[cell])
  BY <1>1, <1>3, <1>4
<1> QED BY <1>5, <1>6 DEF IInv, Types

LEMMA Inductive == IInv /\ [Next]_vars => IInv'
<1> SUFFICES ASSUME IInv, [Next]_vars PROVE IInv'
  OBVIOUS
<1> QED BY ReuseFoldStep, BeginFoldStep, WriteArraysStep, WriteMetadataStep, TrainStep,
           OpenModelStep, SaveModelStep, WriteReportStep, SummarizeStep, StartStep, RefitFoldStep,
           UpdateReportStep, FitFoldStep, ValidateFoldStep, ChooseStep, TestFoldStep, OtherStep
        DEF Next

THEOREM Invariant == Spec => []IInv
BY Starts, Inductive, PTL DEF Spec

-----------------------------------------------------------------------------

(* Every file is absent or the product of one of the CSVs, and a running job *)
(* is at one of its cells.                                                   *)
THEOREM TypeCorrect == Spec => []TypeOK
<1>1. IInv => TypeOK
  <2> SUFFICES ASSUME IInv PROVE TypeOK
    OBVIOUS
  <2>1. \A cell \in Cells : disk[cell].arrays \in Files /\ disk[cell].metadata \in Files
    BY DEF IInv, Types, FoldType
  <2>2. job # Idle => /\ job.at \in DOMAIN job.plan /\ job.saved \in 0 .. Len(job.names)
                      /\ job.loaded \in Files
    BY LenProperties DEF IInv, Types, Running, IsJob
  <2> QED BY <2>1, <2>2 DEF IInv, Types, TypeOK, Files
<1> QED BY <1>1, Invariant, PTL

(* The models: what a report names is whole, unless a refit is or was at it, *)
(* and what the running job has saved is whole until it is saved again.      *)
Whole(cell) ==
    disk[cell].metrics # None =>
        \A opened \in disk[cell].torn : opened[1] \in DOMAIN disk[cell].metrics.models =>
            opened[2] = "refit" /\ (crashes > 0 \/ Rewriting(cell, opened[1]))

SavedWhole ==
    AtModels({"benchmark", "refit"}) =>
        \A i \in 1 .. job.saved : \A opened \in Here.torn : opened[1] = job.names[i] =>
            job.pc = "save" /\ job.names[job.saved + 1] = opened[1]

WInv == (\A cell \in Cells : Whole(cell)) /\ (Running => SavedWhole)

(* A step that leaves models and reports alone and is not in a save.         *)
LEMMA WholeQuiet ==
    ASSUME IInv, WInv,
           \A cell \in Cells : /\ disk'[cell].torn = disk[cell].torn
                               /\ disk'[cell].metrics = disk[cell].metrics,
           crashes > 0 => crashes' > 0,
           Running /\ job.pc = "save" => crashes' > 0,
           Running' => job'.pc \notin {"models", "save"} \/ job'.saved = 0
    PROVE  WInv'
<1>1. ASSUME NEW cell \in Cells PROVE Whole(cell)'
  BY DEF WInv, Whole, Rewriting, Running
<1>2. Running' => SavedWhole'
  <2> SUFFICES ASSUME Running', AtModels({"benchmark", "refit"})' PROVE SavedWhole'
    BY DEF SavedWhole
  <2>1. job'.saved = 0
    BY DEF AtModels
  <2>2. \A i \in 1 .. job'.saved : FALSE
    BY <2>1
  <2> QED BY <2>2 DEF SavedWhole
<1> QED BY <1>1, <1>2 DEF WInv

LEMMA WholeStops ==
    ASSUME IInv, WInv, job' = Idle, disk' = disk, crashes' = crashes,
           Running => job.pc # "save"
    PROVE  WInv'
<1>1. ~Running'
  BY DEF Running
<1> QED BY <1>1, WholeQuiet

LEMMA WholeReadSteps ==
    ASSUME IInv, WInv,
           \/ ReuseFold \/ BeginFold \/ Train \/ RefitFold \/ FitFold \/ ValidateFold
           \/ Choose \/ TestFold
    PROVE  WInv'
<1>1. Running /\ job.pc # "save"
  BY IsCalm DEF ReuseFold, BeginFold, Train, RefitFold, FitFold, ValidateFold, Choose, TestFold, At
<1>2. DOMAIN job = Fields
  BY <1>1, HereIs DEF IsJob
<1>3. disk' = disk /\ crashes' = crashes
  BY DEF ReuseFold, BeginFold, Train, RefitFold, FitFold, ValidateFold, Choose, TestFold,
         Fail, Finish, Keep, Advance
<1> SUFFICES ASSUME job' # Idle PROVE job'.pc \notin {"models", "save"} \/ job'.saved = 0
  BY <1>1, <1>3, WholeQuiet DEF Running
<1>4. CASE ReuseFold \/ BeginFold
  BY <1>2, <1>4 DEF ReuseFold, BeginFold, Fail, Finish, Advance, Fields
<1>5. CASE Train \/ RefitFold
  BY <1>2, <1>5 DEF Train, RefitFold, Fail, Finish, Advance, Fields
<1>6. CASE FitFold \/ ValidateFold
  BY <1>2, <1>6 DEF FitFold, ValidateFold, Fail, Finish, Advance, Fields
<1>7. CASE Choose \/ TestFold
  BY <1>2, <1>7 DEF Choose, TestFold, Fail, Finish, Advance, Fields
<1> QED BY <1>4, <1>5, <1>6, <1>7

LEMMA WholeWriteSteps ==
    ASSUME IInv, WInv, WriteArrays \/ WriteMetadata
    PROVE  WInv'
<1>1. Running /\ job.pc # "save"
  BY IsCalm DEF WriteArrays, WriteMetadata, At
<1>2. DOMAIN job = Fields /\ disk \in [Cells -> FoldType] /\ Cell \in Cells /\ job.part \in Parts
  BY <1>1, HereIs DEF IsJob, IInv, Types
<1>3. /\ \A cell \in Cells : /\ disk'[cell].torn = disk[cell].torn
                             /\ disk'[cell].metrics = disk[cell].metrics
      /\ crashes' = crashes
  BY <1>2 DEF WriteArrays, WriteMetadata, Fail, Finish, Keep, Advance, FoldType
<1>4. job' = Idle \/ job'.pc \in {"arrays", "metadata", "train"}
  <2>1. CASE WriteArrays
    BY <1>2, <2>1 DEF WriteArrays, Fail, Finish, Advance, Fields
  <2>2. CASE WriteMetadata
    BY <1>2, <2>2 DEF WriteMetadata, Advance, Fields, Parts
  <2> QED BY <2>1, <2>2
<1> QED BY <1>1, <1>3, <1>4, WholeQuiet DEF Running

LEMMA WholeOtherSteps ==
    ASSUME IInv, WInv,
           \/ Summarize \/ StartBenchmark \/ StartRefit \/ StartCalibration
           \/ WriteCalibration \/ RefuseCsv \/ Crash \/ ReplaceCsv
    PROVE  WInv'
<1>1. CASE Summarize
  <2>1. Running /\ job.pc # "save" /\ disk' = disk /\ crashes' = crashes
    BY <1>1, IsCalm DEF Summarize, At, Fail, Finish, Keep, Advance
  <2>2. DOMAIN job = Fields
    BY <2>1, HereIs DEF IsJob
  <2>3. job' = Idle \/ job'.pc = "fold"
    BY <1>1, <2>2 DEF Summarize, Fail, Finish, Advance, Fields
  <2> QED BY <2>1, <2>3, WholeQuiet DEF Running
<1>2. CASE StartBenchmark \/ StartRefit \/ StartCalibration
  <2>1. PICK kind, pc, plan, names :
           /\ pc \in {"fold", "load", "fit"} /\ job' = Job(kind, pc, plan, names)
           /\ UNCHANGED <<disk, crashes>> /\ ~Running
    BY <1>2 DEF StartBenchmark, StartRefit, StartCalibration, Begin, Keep, Running
  <2>2. job'.pc = pc
    BY <2>1 DEF Job
  <2> QED BY <2>1, <2>2, WholeQuiet
<1>3. CASE WriteCalibration
  BY <1>3, WholeStops, IsCalm DEF WriteCalibration, At, Finish
<1>4. CASE RefuseCsv \/ ReplaceCsv
  BY <1>4, WholeStops DEF RefuseCsv, ReplaceCsv, Keep, Running
<1>5. CASE Crash
  <2>1. crashes' > 0 /\ job' = Idle /\ disk' = disk
    BY <1>5 DEF Crash, Keep, IInv, Types
  <2> QED BY <2>1, WholeQuiet DEF Running
<1> QED BY <1>1, <1>2, <1>3, <1>4, <1>5

LEMMA WholeOpenStep ==
    ASSUME IInv, WInv, OpenModel PROVE WInv'
<1> DEFINE new == <<job.names[job.saved + 1], job.kind>>
<1>1. /\ Running /\ AtModels({"benchmark", "refit"}) /\ At({"benchmark", "refit"}, "models")
  BY IsCalm DEF OpenModel, At, AtModels
<1>2. IsJob(job) /\ Progress /\ Cell \in Cells /\ disk \in [Cells -> FoldType]
  BY <1>1, HereIs DEF IInv, Types
<1>3. /\ DOMAIN job' = Fields /\ job'.pc = "save" /\ crashes' = crashes
      /\ \A field \in Fields \ {"pc"} : job'[field] = job[field]
  BY <1>2 DEF OpenModel, Advance, IsJob, Fields
<1>4. \A cell \in Cells : /\ disk'[cell].metrics = disk[cell].metrics
                          /\ disk'[cell].torn = IF cell = Cell THEN disk[cell].torn \cup {new}
                                                 ELSE disk[cell].torn
  BY <1>2 DEF OpenModel, FoldType
<1>5. Cell' = Cell /\ job' # Idle
  BY <1>1, <1>3, JobAssumption DEF Cell, Fields, Idle, At
<1>6. ASSUME NEW cell \in Cells PROVE Whole(cell)'
  <2> SUFFICES ASSUME disk[cell].metrics # None, NEW opened \in disk'[cell].torn,
                      opened[1] \in DOMAIN disk[cell].metrics.models
               PROVE  opened[2] = "refit" /\ (crashes > 0 \/ Rewriting(cell, opened[1])')
    BY <1>3, <1>4 DEF Whole
  <2>1. CASE opened \in disk[cell].torn
    <3>1. opened[2] = "refit" /\ (crashes > 0 \/ Rewriting(cell, opened[1]))
      BY <2>1 DEF WInv, Whole
    <3> QED BY <1>1, <3>1 DEF Rewriting, At
  <2>2. CASE opened \notin disk[cell].torn
    <3>1. cell = Cell /\ opened = new
      BY <1>4, <2>2
    <3>2. job.kind = "refit"
      BY <1>1, <1>2, <3>1 DEF Progress, Writing, At, Here
    <3> QED BY <1>3, <1>5, <3>1, <3>2 DEF Rewriting, Fields
  <2> QED BY <2>1, <2>2
<1>7. SavedWhole'
  <2> SUFFICES ASSUME NEW i \in 1 .. job.saved, NEW o \in Here'.torn, o[1] = job.names[i]
               PROVE  job.names[job.saved + 1] = o[1]
    BY <1>3 DEF SavedWhole, Fields
  <2>1. Here'.torn = Here.torn \cup {new}
    BY <1>2, <1>4, <1>5 DEF Here
  <2>2. o \notin Here.torn
    BY <1>1 DEF WInv, SavedWhole, At
  <2> QED BY <2>1, <2>2
<1> QED BY <1>6, <1>7 DEF WInv

LEMMA WholeSaveStep ==
    ASSUME IInv, WInv, SaveModel PROVE WInv'
<1> DEFINE name == job.names[job.saved + 1]
<1>1. Running /\ AtModels({"benchmark", "refit"}) /\ At({"benchmark", "refit"}, "save")
  BY IsCalm DEF SaveModel, At, AtModels
<1>2. IsJob(job) /\ Progress /\ Cell \in Cells /\ disk \in [Cells -> FoldType]
  BY <1>1, HereIs DEF IInv, Types
<1>3. /\ DOMAIN job' = Fields /\ job'.pc = "models" /\ job'.saved = job.saved + 1
      /\ crashes' = crashes
      /\ \A field \in Fields \ {"pc", "saved"} : job'[field] = job[field]
  BY <1>2 DEF SaveModel, Advance, IsJob, Fields
<1>4. \A cell \in Cells :
          /\ disk'[cell].metrics = disk[cell].metrics
          /\ disk'[cell].torn = IF cell = Cell THEN {o \in disk[cell].torn : o[1] # name}
                                ELSE disk[cell].torn
  BY <1>2 DEF SaveModel, FoldType
<1>5. Cell' = Cell
  BY <1>3 DEF Cell, Fields
<1>6. ASSUME NEW cell \in Cells PROVE Whole(cell)'
  <2> SUFFICES ASSUME disk[cell].metrics # None, NEW opened \in disk'[cell].torn,
                      opened[1] \in DOMAIN disk[cell].metrics.models
               PROVE  opened[2] = "refit" /\ crashes > 0
    BY <1>3, <1>4 DEF Whole
  <2>1. opened[2] = "refit" /\ (crashes > 0 \/ Rewriting(cell, opened[1]))
    BY <1>4 DEF WInv, Whole
  <2>2. ~Rewriting(cell, opened[1])
    BY <1>4 DEF Rewriting
  <2> QED BY <2>1, <2>2
<1>7. SavedWhole'
  <2> SUFFICES ASSUME NEW i \in 1 .. job.saved + 1, NEW o \in Here'.torn, o[1] = job.names[i]
               PROVE  FALSE
    BY <1>3 DEF SavedWhole, Fields
  <2>1. o \in Here.torn /\ o[1] # name
    BY <1>2, <1>4, <1>5 DEF Here
  <2>2. i \in 1 .. job.saved
    BY <1>2, <2>1, LenProperties DEF IsJob
  <2> QED BY <1>1, <2>1, <2>2 DEF WInv, SavedWhole
<1> QED BY <1>6, <1>7 DEF WInv

(* A report names what its job has saved, and what it named before.          *)
LEMMA WholeReportStep ==
    ASSUME IInv, WInv, WriteReport \/ UpdateReport PROVE WInv'
<1>1. /\ Running /\ AtModels({"benchmark", "refit"}) /\ job.pc = "models"
      /\ job.saved = Len(job.names)
  BY IsCalm DEF WriteReport, UpdateReport, At, AtModels
<1>2. /\ IsJob(job) /\ Progress /\ Cell \in Cells /\ Here \in FoldType
      /\ disk \in [Cells -> FoldType]
  BY <1>1, HereIs DEF IInv, Types
<1>3. ASSUME NEW o \in Here.torn PROVE o[1] \notin DOMAIN Trained
  <2>1. DOMAIN job.names = 1 .. job.saved
    BY <1>1, <1>2, LenProperties DEF IsJob
  <2>2. \A i \in 1 .. job.saved : o[1] # job.names[i]
    BY <1>1 DEF WInv, SavedWhole
  <2> QED BY <2>1, <2>2 DEF Trained
<1>4. /\ crashes' = crashes
      /\ \A cell \in Cells :
             /\ disk'[cell].torn = disk[cell].torn
             /\ \/ disk'[cell].metrics = disk[cell].metrics
                \/ /\ cell = Cell
                   /\ \A n \in DOMAIN disk'[cell].metrics.models :
                         \/ n \in DOMAIN Trained
                         \/ disk[cell].metrics # None /\ n \in DOMAIN disk[cell].metrics.models
  <2>1. CASE WriteReport
    <3> DEFINE metrics == [protocol |-> "full_pool", data |-> job.data, models |-> Trained]
    <3>1. disk' = [disk EXCEPT ![Cell].metrics = metrics] /\ crashes' = crashes
      BY <2>1 DEF WriteReport, Advance
    <3>2. metrics.models = Trained
      OBVIOUS
    <3> HIDE DEF metrics
    <3> QED BY <1>2, <3>1, <3>2 DEF FoldType
  <2>2. CASE UpdateReport
    <3> DEFINE old     == Here.metrics
               models  == [name \in DOMAIN old.models \cup DOMAIN Trained |->
                              IF name \in DOMAIN Trained THEN Trained[name] ELSE old.models[name]]
               metrics == [old EXCEPT !.models = models]
    <3>1. disk' = [disk EXCEPT ![Cell].metrics = metrics] /\ crashes' = crashes
      BY <2>2 DEF UpdateReport, Advance
    <3>2. old # None /\ old \in ReportType
      BY <1>1, <1>2, <2>2 DEF Progress, UpdateReport, At, AtModels, FoldType
    <3>3. metrics.models = models /\ DOMAIN models = DOMAIN old.models \cup DOMAIN Trained
      BY <3>2 DEF ReportType
    <3> HIDE DEF metrics, models
    <3> QED BY <1>2, <3>1, <3>2, <3>3 DEF FoldType, Here
  <2> QED BY <2>1, <2>2
<1>5. ASSUME NEW cell \in Cells PROVE Whole(cell)'
  <2> SUFFICES ASSUME disk'[cell].metrics # None, NEW o \in disk[cell].torn,
                      o[1] \in DOMAIN disk'[cell].metrics.models
               PROVE  o[2] = "refit" /\ crashes > 0
    BY <1>4 DEF Whole
  <2>1. disk[cell].metrics # None /\ o[1] \in DOMAIN disk[cell].metrics.models
    BY <1>3, <1>4 DEF Here
  <2> QED BY <1>1, <2>1 DEF WInv, Whole, Rewriting
<1>6. DOMAIN job = Fields
  BY <1>2 DEF IsJob
<1>7. job'.pc \in {"summary", "load"}
  <2>1. CASE WriteReport
    BY <1>6, <2>1 DEF WriteReport, Advance, Fields
  <2>2. CASE UpdateReport
    BY <1>6, <2>2 DEF UpdateReport, Advance, Fields
  <2> QED BY <2>1, <2>2
<1> QED BY <1>5, <1>7 DEF WInv, SavedWhole, AtModels

LEMMA WholeStarts == Init => WInv
<1> SUFFICES ASSUME Init PROVE WInv
  OBVIOUS
<1>1. PICK old \in Leftovers : disk = [cell \in Cells |-> IF cell \in old THEN OldFold ELSE EmptyFold]
  BY DEF Init
<1>2. OldFold.torn = {} /\ EmptyFold.torn = {}
  BY DEF OldFold, EmptyFold
<1> QED BY <1>1, <1>2 DEF WInv, Whole, Running, Init

LEMMA WholeInductive == IInv /\ WInv /\ [Next]_vars => WInv'
<1> SUFFICES ASSUME IInv, WInv, [Next]_vars PROVE WInv'
  OBVIOUS
<1>1. CASE UNCHANGED vars
  BY <1>1 DEF vars, WInv, Whole, Rewriting, SavedWhole, AtModels, Running, Here, Cell
<1> QED BY <1>1, WholeReadSteps, WholeWriteSteps, WholeOtherSteps, WholeOpenStep, WholeSaveStep,
           WholeReportStep DEF Next

(* A fold's report stands on files of one CSV and on models fitted on        *)
(* exactly those, whatever was killed, replaced or refitted; what it names   *)
(* is whole unless a refit is writing it or a job was killed.                *)
THEOREM ReportSafe == Spec => []ReportOverOwnFiles
<1>1. IInv /\ WInv => ReportOverOwnFiles
  BY DEF IInv, WInv, ReportOverOwnFiles, OwnReport, Whole
<1> QED BY <1>1, WholeStarts, WholeInductive, Invariant, PTL DEF Spec

-----------------------------------------------------------------------------
(* Splits.  A seeded stream yields a number below the one it is asked for.   *)

DrawsBelow == \A stream \in Seq(Nat), n \in Nat \ {0} : Draw(stream, n) \in 0 .. n - 1

LEMMA AscendingIs ==
    ASSUME NEW S, IsFiniteSet(S), \A x \in S : x \in Int
    PROVE  Numbers(S, Ascending(S))
<1> DEFINE R == {xy \in S \X S : xy[1] < xy[2]}
           r == [x \in S |-> 1 + Cardinality(Before(S, R, x))]
<1>1. \A x, y \in S : <<x, y>> \in R <=> x < y
  OBVIOUS
<1>2. StrictOrder(S, R)
  <2>1. \A x, y, z \in S : ~(x < x) /\ (x < y /\ y < z => x < z) /\ (x # y => x < y \/ y < x)
    OBVIOUS
  <2> HIDE DEF R
  <2> QED BY <1>1, <2>1 DEF StrictOrder
<1>3. Ascending(S) = r
  <2>1. ASSUME NEW x \in S PROVE {y \in S : y # x /\ y < x} = Before(S, R, x)
    <3>1. \A y \in S : y < x <=> <<y, x>> \in R
      BY <1>1
    <3>2. <<x, x>> \notin R
      BY <1>2 DEF StrictOrder
    <3> HIDE DEF R
    <3> QED BY <3>1, <3>2 DEF Before
  <2>2. Ascending(S) = [x \in S |-> 1 + Cardinality({y \in S : y # x /\ y < x})]
    BY TableIs DEF Ascending, Place
  <2> HIDE DEF R
  <2> QED BY <2>1, <2>2
<1> HIDE DEF R
<1>4. r = [x \in S |-> 1 + Cardinality(Before(S, R, x))]
  OBVIOUS
<1> HIDE DEF r
<1>5. /\ r \in [S -> 1 .. Cardinality(S)]
      /\ \A x, y \in S : <<x, y>> \in R <=> r[x] < r[y]
  BY <1>2, <1>4, PlaceOrders
<1>6. ASSUME NEW x \in S, NEW y \in S, r[x] = r[y] PROVE x = y
  <2>1. r[x] \in Int /\ ~(r[x] < r[x])
    BY <1>5
  <2>2. <<x, y>> \notin R /\ <<y, x>> \notin R
    BY <1>5, <1>6, <2>1
  <2> QED BY <1>2, <2>2 DEF StrictOrder
<1>7. r \in [S -> 1 .. Cardinality(S)] /\ \A x, y \in S : r[x] = r[y] => x = y
  BY <1>5, <1>6
<1>8. Numbers(S, r)
  BY <1>7, Numbered
<1> QED BY <1>3, <1>8

LEMMA ShuffledIs ==
    ASSUME DrawsBelow, NEW S, IsFiniteSet(S), \A x \in S : x \in Int, NEW stream \in Seq(Nat)
    PROVE  Numbers(S, Shuffled(stream, S))
<1> DEFINE n == Cardinality(S)
           d == IF n = 0 THEN 0 ELSE Draw(stream, n)
           order == Ascending(S)
           turned == [x \in S |-> 1 + ((order[x] + d) % n)]
<1>1. n \in Nat /\ (S # {} => n # 0)
  BY FS_CardinalityType, FS_EmptySet
<1>2. d \in Int
  <2>1. CASE n = 0
    BY <2>1
  <2>2. CASE n # 0
    <3>1. Draw(stream, n) \in 0 .. n - 1
      BY <1>1, <2>2 DEF DrawsBelow
    <3> QED BY <1>1, <2>2, <3>1
  <2> QED BY <2>1, <2>2
<1>3. Shuffled(stream, S) = turned
  <2>1. Shuffled(stream, S) = [x \in S |-> 1 + ((order[x] + Draw(stream, n)) % n)]
    BY TableIs DEF Shuffled
  <2>2. \A x \in S : d = Draw(stream, n)
    BY <1>1
  <2> HIDE DEF order, n, d
  <2> QED BY <2>1, <2>2
<1>4. Numbers(S, order)
  BY AscendingIs
<1>5. turned = [x \in S |-> 1 + ((order[x] + d) % Cardinality(S))]
  OBVIOUS
<1> HIDE DEF d, order, turned
<1>6. Numbers(S, turned)
  BY <1>2, <1>4, <1>5, Rotates
<1> QED BY <1>3, <1>6

LEMMA SplitIs ==
    ASSUME DrawsBelow, NEW seed \in Nat, NEW u \in Nat, NEW history,
           IsFiniteSet(DOMAIN history), DOMAIN history \subseteq Nat
    PROVE  LET split == Split(seed, u, history) IN
           /\ split.validation \in DOMAIN history \cup {NoTarget}
           /\ split.test \in DOMAIN history \cup {NoTarget}
           /\ split.validation # NoTarget => split.validation # split.test
           /\ split.validation = NoTarget <=> split.test = NoTarget
           /\ split.test # NoTarget <=> Cardinality(Positives(history)) >= 3
<1> DEFINE positives == Positives(history)
           stream == <<seed, u, 0>>
           order == Shuffled(stream, positives)
           at(n) == CHOOSE f \in positives : order[f] = n
           split == Split(seed, u, history)
<1>1. positives \subseteq DOMAIN history /\ IsFiniteSet(positives) /\ positives \subseteq Int
  <2>1. positives \subseteq DOMAIN history
    BY DEF Positives
  <2> QED BY <2>1, FS_Subset
<1>2. stream \in Seq(Nat)
  OBVIOUS
<1>3. \A i \in 1 .. Cardinality(positives) : \E x \in positives : order[x] = i
  <2>1. \A x \in positives : x \in Int
    BY <1>1
  <2> HIDE DEF positives, stream
  <2> QED BY <1>1, <1>2, <2>1, ShuffledIs DEF order, Numbers
<1>4. NoTarget \notin DOMAIN history
  BY SplitAssumption
<1>5. CASE Cardinality(positives) >= 3
  <2>1. 1 \in 1 .. Cardinality(positives) /\ 2 \in 1 .. Cardinality(positives)
    BY <1>1, <1>5, FS_CardinalityType
  <2>2. split.validation = at(1) /\ split.test = at(2)
    BY <1>5 DEF Split
  <2>3. \E f \in positives : order[f] = 1
    BY <1>3, <2>1
  <2>4. \E f \in positives : order[f] = 2
    BY <1>3, <2>1
  <2> HIDE DEF order, positives, split
  <2>5. at(1) \in positives /\ order[at(1)] = 1
    BY <2>3
  <2>6. at(2) \in positives /\ order[at(2)] = 2
    BY <2>4
  <2>7. at(1) # at(2)
    BY <2>5, <2>6
  <2> HIDE DEF at
  <2> QED BY <1>1, <1>4, <1>5, <2>2, <2>5, <2>6, <2>7 DEF split, positives
<1>6. CASE ~(Cardinality(positives) >= 3)
  <2>1. split.validation = NoTarget /\ split.test = NoTarget
    BY <1>6 DEF Split
  <2> QED BY <1>6, <2>1
<1> QED BY <1>5, <1>6

LEMMA SplitKeeps ==
    ASSUME NEW seed, NEW u, NEW history
    PROVE  LET split == Split(seed, u, history) IN
           /\ split.all = history
           /\ DOMAIN split.context = DOMAIN history \ {split.validation, split.test}
BY DEF Split, Restrict

-----------------------------------------------------------------------------
(* No leak.                                                                  *)

Data(c) == Loaded(Csvs[c])

Films == {FilmOf[slug] : slug \in DOMAIN FilmOf}

LEMMA LoadedIs ==
    ASSUME NEW c \in DOMAIN Csvs
    PROVE  /\ IsFiniteSet(DOMAIN Data(c)) /\ DOMAIN Data(c) \subseteq Nat
           /\ \A u \in DOMAIN Data(c) :
                  /\ IsFiniteSet(DOMAIN Data(c)[u]) /\ DOMAIN Data(c)[u] \subseteq Nat
                  /\ DOMAIN Data(c)[u] \subseteq Films
<1> DEFINE table == Csvs[c]
           I == Resolved(table)
           of(u) == {i \in I : table[i].user = u}
           user == [i \in I |-> table[i].user]
           film == [i \in I |-> FilmOf[table[i].slug]]
<1>1. table \in Seq([user : Nat, slug : STRING, rating : Int])
  BY JobAssumption, ElementOfSeq, CsvsAre
<1>2. DOMAIN table = 1 .. Len(table) /\ Len(table) \in Nat
  BY <1>1, LenProperties
<1>3. IsFiniteSet(I) /\ \A i \in I : user[i] \in Nat /\ film[i] \in Nat /\ film[i] \in Films
  <2>1. I \subseteq DOMAIN table /\ \A i \in I : table[i].slug \in DOMAIN FilmOf
    BY DEF Resolved
  <2>2. \A i \in DOMAIN table : table[i] \in [user : Nat, slug : STRING, rating : Int]
    BY <1>1, <1>2, ElementOfSeq
  <2>3. IsFiniteSet(I)
    <3>1. IsFiniteSet(1 .. Len(table))
      BY <1>2, FS_Interval
    <3> QED BY <1>2, <2>1, <3>1, FS_Subset
  <2>4. ASSUME NEW i \in I PROVE user[i] \in Nat /\ film[i] \in Nat /\ film[i] \in Films
    BY <2>1, <2>2, SplitAssumption DEF Films
  <2> QED BY <2>3, <2>4
<1>4. DOMAIN Data(c) = {user[i] : i \in I}
  <2>1. DOMAIN Data(c) = {table[i].user : i \in I}
    BY TableIs DEF Data, Loaded
  <2> QED BY <2>1
<1>5. ASSUME NEW u \in DOMAIN Data(c) PROVE DOMAIN Data(c)[u] = {film[i] : i \in of(u)}
  <2> DEFINE bucket(v, f) ==
               (CHOOSE r \in {table[i].rating : i \in {j \in of(v) : FilmOf[table[j].slug] = f}} : TRUE) - 1
             films(v) == {FilmOf[table[i].slug] : i \in of(v)}
  <2>1. Data(c) = [v \in {table[i].user : i \in I} |-> Table([f \in films(v) |-> bucket(v, f)])]
    BY TableIs DEF Data, Loaded
  <2> HIDE DEF bucket, films
  <2>2. Data(c)[u] = Table([f \in films(u) |-> bucket(u, f)])
    BY <1>5, <2>1
  <2>3. DOMAIN Data(c)[u] = films(u)
    BY <2>2, TableIs
  <2> QED BY <2>3 DEF films
<1> HIDE DEF user, film, table
<1>6. DOMAIN user = I /\ DOMAIN film = I
  BY DEF user, film
<1>7. \A u : of(u) \subseteq I /\ IsFiniteSet(of(u))
  BY <1>3, FS_Subset
<1> HIDE DEF I, of
<1>8. IsFiniteSet({user[i] : i \in I})
  BY <1>3, <1>6, ImageFinite
<1>9. \A u : IsFiniteSet({film[i] : i \in of(u)})
  BY <1>6, <1>7, ImageFinite
<1> QED BY <1>3, <1>4, <1>5, <1>7, <1>8, <1>9

(* What a fold is made of.                                                   *)
LEMMA SetupIs ==
    ASSUME NEW c \in Sound, NEW cell \in Cells
    PROVE  LET setup  == Setups[c][cell]
               splits == Splits(cell[1], Data(c))
               users  == Partition(Folds(cell[1], splits, Vocabulary(Data(c))), cell[2])
           IN  /\ setup.splits = splits /\ setup.users = users
               /\ setup.films = Vocabulary(Data(c))
               /\ setup.holdouts = [u \in users.train |-> Holdouts(cell[1], u, splits[u])]
               /\ DOMAIN splits = DOMAIN Data(c)
               /\ \A u \in DOMAIN Data(c) : splits[u] = Split(cell[1], u, Data(c)[u])
<1>1. Setups[c][cell] = Setup(Data(c), cell)
  <2>1. Setups[c] = Table([k \in Cells |-> Setup(Data(c), k)])
    BY TableIs DEF Setups, Data
  <2>2. Setups[c] = [k \in Cells |-> Setup(Data(c), k)]
    BY <2>1, TableIs
  <2> QED BY <2>2
<1>2. Splits(cell[1], Data(c)) = [u \in DOMAIN Data(c) |-> Split(cell[1], u, Data(c)[u])]
  BY TableIs DEF Splits
<1> HIDE DEF Data
<1> QED BY <1>1, <1>2 DEF Setup, SetupOf, SetupOver

LEMMA FoldsAre ==
    ASSUME NEW seed, NEW splits, NEW films
    PROVE  DOMAIN Folds(seed, splits, films) = DOMAIN splits
<1>1. DOMAIN KeysOf(splits, films) = DOMAIN splits
  BY TableIs DEF KeysOf, FoldKeys
<1>2. ASSUME NEW key PROVE DOMAIN DealtByKey(seed, key) = DOMAIN key
  BY TableIs DEF DealtByKey, Dealt
<1> QED BY <1>1, <1>2 DEF Folds

(* The users of a fold's partitions have histories, and those it trains on   *)
(* are neither validated nor tested.                                         *)
LEMMA UsersAre ==
    ASSUME NEW c \in Sound, NEW cell \in Cells
    PROVE  LET users == Setups[c][cell].users IN
           /\ \A part \in Parts : users[part] \subseteq DOMAIN Data(c)
           /\ users.train \cap (users.validation \cup users.test) = {}
<1> DEFINE splits == Splits(cell[1], Data(c))
           folds  == Folds(cell[1], splits, Vocabulary(Data(c)))
           users  == Setups[c][cell].users
<1>1. users = Partition(folds, cell[2])
  BY SetupIs
<1>2. DOMAIN folds = DOMAIN Data(c)
  <2>1. DOMAIN splits = DOMAIN Data(c)
    BY SetupIs
  <2> QED BY <2>1, FoldsAre
<1> HIDE DEF folds
<1>3. /\ users.test = UsersOf(folds, cell[2])
      /\ users.validation = UsersOf(folds, ValidationFold(cell[2]))
      /\ users.train = DOMAIN folds \ (users.test \cup users.validation)
  BY <1>1 DEF Partition
<1>4. \A fold : UsersOf(folds, fold) \subseteq DOMAIN folds
  BY DEF UsersOf
<1> QED BY <1>2, <1>3, <1>4 DEF Parts

LEMMA WorkIs ==
    ASSUME NEW c \in Sound, NEW cell \in FittableCells(c)
    PROVE  LET setup == Setups[c][cell]
               work  == Works[c][cell]
           IN  /\ work.art.fitted = UNION {{u} \X DOMAIN setup.holdouts[u].context : u \in setup.users.train}
               /\ DOMAIN work.queries["validation"] = setup.users.validation
               /\ DOMAIN work.queries["test"] = setup.users.test
               /\ \A part \in {"validation", "test"} : \A u \in DOMAIN work.queries[part] :
                      work.queries[part][u].example = Example(part, setup.splits[u], << >>)
<1> DEFINE setup == Setups[c][cell]
           contexts == ContextsOf(setup)
           quart == Quartiles([u \in DOMAIN contexts |-> Cardinality(DOMAIN contexts[u])])
           art == Artifacts(contexts, setup.films)
<1>1. Works[c][cell] = Work(setup, cell[1])
  <2>1. Works[c] = Table([k \in FittableCells(c) |-> Work(Setups[c][k], k[1])])
    BY TableIs DEF Works
  <2>2. Works[c] = [k \in FittableCells(c) |-> Work(Setups[c][k], k[1])]
    BY <2>1, TableIs
  <2> QED BY <2>2
<1>2. Works[c][cell] = WorkOver(setup, cell[1], art, quart)
  BY <1>1 DEF Work, WorkFor
<1>3. contexts = [u \in setup.users.train |-> setup.holdouts[u].context]
  BY DEF ContextsOf, Contexts
<1>4. art.fitted = UNION {{u} \X DOMAIN contexts[u] : u \in DOMAIN contexts}
  BY DEF Artifacts
<1> HIDE DEF setup, quart, art, contexts
<1>5. art.fitted = UNION {{u} \X DOMAIN setup.holdouts[u].context : u \in setup.users.train}
  BY <1>3, <1>4
<1>6. Works[c][cell].art = art
  BY <1>2 DEF WorkOver
<1>7. ASSUME NEW part \in {"validation", "test"}
      PROVE  Works[c][cell].queries[part] =
                 [u \in setup.users[part] |->
                     Query(cell[1], part, u, setup.splits[u], << >>, art, quart)]
  BY <1>2, TableIs DEF WorkOver, Parts
<1>8. ASSUME NEW part \in {"validation", "test"}, NEW u \in setup.users[part]
      PROVE  Query(cell[1], part, u, setup.splits[u], << >>, art, quart).example
                 = Example(part, setup.splits[u], << >>)
  BY DEF Query, QueryFor, QueryOver
<1> QED BY <1>5, <1>6, <1>7, <1>8 DEF setup

(* What a fold is fitted on.                                                 *)
LEMMA FittedApart ==
    ASSUME NEW c \in Sound, NEW cell \in FittableCells(c), NEW rated \in Works[c][cell].art.fitted
    PROVE  LET setup == Setups[c][cell]
               u == rated[1]
               f == rated[2]
           IN  /\ u \notin setup.users.validation \cup setup.users.test
               /\ f \notin Canonical(setup.splits[u])
               /\ f \notin DOMAIN setup.holdouts[u].label
<1> DEFINE setup == Setups[c][cell]
           u == rated[1]
           f == rated[2]
           hidden == HeldOut(cell[1], u, setup.splits[u], Positives(setup.splits[u].context))
<1>1. cell \in Cells
  BY DEF FittableCells
<1>2. u \in setup.users.train /\ f \in DOMAIN setup.holdouts[u].context
  <2>1. Works[c][cell].art.fitted = UNION {{v} \X DOMAIN setup.holdouts[v].context : v \in setup.users.train}
    BY WorkIs
  <2>2. PICK v \in setup.users.train : rated \in {v} \X DOMAIN setup.holdouts[v].context
    BY <2>1
  <2> QED BY <2>2
<1>3. u \in DOMAIN Data(c) /\ u \notin setup.users.validation \cup setup.users.test
  BY <1>1, <1>2, UsersAre DEF Parts
<1> HIDE DEF u
<1>4. setup.holdouts[u] = Holdouts(cell[1], u, setup.splits[u])
  <2>1. setup.holdouts = [v \in setup.users.train |-> Holdouts(cell[1], v, setup.splits[v])]
    <3>1. setup.splits = Splits(cell[1], Data(c))
      BY <1>1, SetupIs
    <3>2. setup.users = Partition(Folds(cell[1], setup.splits, Vocabulary(Data(c))), cell[2])
      BY <1>1, <3>1, SetupIs
    <3> QED BY <1>1, <3>1, <3>2, SetupIs
  <2> QED BY <1>2, <2>1
<1>5. setup.splits[u] = Split(cell[1], u, Data(c)[u])
  BY <1>1, <1>3, SetupIs
<1>6. /\ DOMAIN setup.holdouts[u].label = hidden
      /\ DOMAIN setup.holdouts[u].context = DOMAIN setup.splits[u].context \ hidden
  BY <1>4 DEF Holdouts, HiddenFrom, Restrict
<1>7. f \notin {setup.splits[u].validation, setup.splits[u].test}
  BY <1>2, <1>5, <1>6, SplitKeeps
<1> QED BY <1>2, <1>3, <1>6, <1>7 DEF Canonical, u

(* The target of a user of a part.                                           *)
TargetOf(c, seed, u, part) ==
    IF part = "validation" THEN Split(seed, u, Data(c)[u]).validation
                           ELSE Split(seed, u, Data(c)[u]).test

LEMMA TargetsAre ==
    ASSUME NEW c \in Sound, NEW cell \in FittableCells(c), NEW part \in {"validation", "test"},
           NEW t \in Targets(c, cell, part)
    PROVE  /\ t = <<c, cell[1], t[3], t[4]>>
           /\ t[3] \in DOMAIN Data(c)
           /\ t[4] # NoTarget /\ t[4] = TargetOf(c, cell[1], t[3], part)
<1> DEFINE queries == Works[c][cell].queries[part]
           splits == Setups[c][cell].splits
<1>1. cell \in Cells
  BY DEF FittableCells
<1>2. PICK u \in Eligible(queries) : t = <<c, cell[1], u, queries[u].example.target>>
  BY DEF Targets
<1>3. u \in DOMAIN queries /\ queries[u].example.labels # << >>
  BY DEF Eligible
<1>4. queries[u].example = Example(part, splits[u], << >>)
  BY <1>3, WorkIs
<1>5. u \in DOMAIN Data(c)
  BY <1>1, <1>3, WorkIs, UsersAre DEF Parts
<1>6. splits[u] = Split(cell[1], u, Data(c)[u])
  BY <1>1, <1>5, SetupIs
<1>7. queries[u].example.target = TargetOf(c, cell[1], u, part)
  BY <1>4, <1>6 DEF Example, TargetOf
<1>8. queries[u].example.target # NoTarget
  <2> DEFINE target == queries[u].example.target
             value(f) == Label(splits[u].all[f])
  <2>1. queries[u].example.labels = [f \in {target} \ {NoTarget} |-> value(f)]
    BY <1>4 DEF Example
  <2>2. CASE target = NoTarget
    <3>1. queries[u].example.labels = [f \in {} |-> value(f)]
      BY <2>1, <2>2
    <3> HIDE DEF value
    <3>2. [f \in {} |-> value(f)] = << >>
      OBVIOUS
    <3> QED BY <1>3, <3>1, <3>2
  <2> QED BY <2>2
<1> QED BY <1>2, <1>5, <1>7, <1>8

(* No target is shown to its user, and a user's two targets differ.          *)
LEMMA TargetApart ==
    ASSUME DrawsBelow, NEW c \in Sound, NEW seed \in Seeds, NEW u \in DOMAIN Data(c),
           NEW part \in {"validation", "test"}, TargetOf(c, seed, u, part) # NoTarget
    PROVE  /\ TargetOf(c, seed, u, part) \notin DOMAIN Setups[c][<<seed, 0>>].splits[u].context
           /\ TargetOf(c, seed, u, "validation") # TargetOf(c, seed, u, "test")
<1>1. <<seed, 0>> \in Cells /\ seed \in Nat
  BY JobAssumption, SplitAssumption DEF Cells
<1>2. Setups[c][<<seed, 0>>].splits[u] = Split(seed, u, Data(c)[u])
  BY <1>1, SetupIs
<1>3. IsFiniteSet(DOMAIN Data(c)[u]) /\ DOMAIN Data(c)[u] \subseteq Nat /\ u \in Nat
  BY LoadedIs DEF Sound
<1> DEFINE split == Split(seed, u, Data(c)[u])
<1>4. DOMAIN split.context = DOMAIN Data(c)[u] \ {split.validation, split.test}
  BY SplitKeeps
<1>5. /\ split.validation # NoTarget => split.validation # split.test
      /\ split.validation = NoTarget <=> split.test = NoTarget
  BY <1>1, <1>3, SplitIs
<1> HIDE DEF split
<1> QED BY <1>2, <1>4, <1>5 DEF TargetOf, split

(* The pairs a job has chosen or stopped with and those it has tested.       *)
LEMMA Untested ==
    ASSUME DrawsBelow, IInv, Running
    PROVE  /\ job.tuned \cap job.tested = {}
           /\ \A t \in job.tuned \cup job.tested :
                  /\ t[4] # NoTarget
                  /\ t[4] \notin DOMAIN Setups[t[1]][<<t[2], 0>>].splits[t[3]].context
<1> DEFINE c == job.data
<1> SUFFICES ASSUME job.tuned \cup job.tested # {}
             PROVE  /\ job.tuned \cap job.tested = {}
                    /\ \A t \in job.tuned \cup job.tested :
                           /\ t[4] # NoTarget
                           /\ t[4] \notin DOMAIN Setups[t[1]][<<t[2], 0>>].splits[t[3]].context
  OBVIOUS
<1>1. /\ c \in Sound
      /\ job.tuned \subseteq TargetsOf("validation") /\ job.tested \subseteq TargetsOf("test")
  BY HereIs DEF Progress, Learning
<1> HIDE DEF c
<1>2. ASSUME NEW part \in {"validation", "test"}, NEW t \in TargetsOf(part)
      PROVE  /\ t[1] = c /\ t[2] \in Seeds /\ t[3] \in DOMAIN Data(c)
             /\ t[4] # NoTarget /\ t[4] = TargetOf(c, t[2], t[3], part)
  <2>1. PICK cell \in FittableCells(c) : t \in Targets(c, cell, part)
    BY <1>2 DEF TargetsOf, c
  <2>2. cell \in Cells
    BY <2>1 DEF FittableCells
  <2>3. cell[1] \in Seeds
    BY <2>2 DEF Cells
  <2>4. /\ t = <<c, cell[1], t[3], t[4]>> /\ t[3] \in DOMAIN Data(c)
        /\ t[4] # NoTarget /\ t[4] = TargetOf(c, cell[1], t[3], part)
    BY <1>1, <2>1, TargetsAre
  <2>5. t[1] = c /\ t[2] = cell[1]
    BY <2>4
  <2> QED BY <2>3, <2>4, <2>5
<1>3. ASSUME NEW t \in job.tuned, t \in job.tested PROVE FALSE
  <2>1. /\ t[1] = c /\ t[2] \in Seeds /\ t[3] \in DOMAIN Data(c) /\ t[4] # NoTarget
        /\ t[4] = TargetOf(c, t[2], t[3], "validation") /\ t[4] = TargetOf(c, t[2], t[3], "test")
    BY <1>1, <1>2, <1>3
  <2> QED BY <1>1, <2>1, TargetApart
<1>4. ASSUME NEW t \in job.tuned \cup job.tested
      PROVE  /\ t[4] # NoTarget
             /\ t[4] \notin DOMAIN Setups[t[1]][<<t[2], 0>>].splits[t[3]].context
  <2>1. PICK part \in {"validation", "test"} : t \in TargetsOf(part)
    BY <1>1, <1>4
  <2>2. /\ t[1] = c /\ t[2] \in Seeds /\ t[3] \in DOMAIN Data(c) /\ t[4] # NoTarget
        /\ t[4] = TargetOf(c, t[2], t[3], part)
    BY <1>2, <2>1
  <2> QED BY <1>1, <2>2, TargetApart
<1> QED BY <1>3, <1>4

(* A fold is fitted on no target and no hidden positive, and no target that  *)
(* a job has stopped its training or chosen a configuration with is ever     *)
(* tested by it under the same seed, for every CSV, plan and order of folds, *)
(* if a stream yields numbers below the one it is asked for.                 *)
THEOREM LeakSafe ==
    ASSUME DrawsBelow
    PROVE  Spec => []NoLeak
<1>1. IInv => NoLeak
  <2> SUFFICES ASSUME IInv, job # Idle PROVE NoLeak
    BY DEF NoLeak
  <2>1. Running /\ Progress /\ Calibrating /\ Learning /\ IsJob(job) /\ Cell \in Cells
    BY HereIs DEF Running
  <2>2. ASSUME job.fitted # {}, NEW rated \in job.fitted
        PROVE  /\ rated[1] \notin CurrentSetup.users.validation \cup CurrentSetup.users.test
               /\ rated[2] \notin Canonical(CurrentSetup.splits[rated[1]])
               /\ rated[2] \notin DOMAIN CurrentSetup.holdouts[rated[1]].label
    <3>1. /\ job.fitted = Works[job.data][Cell].art.fitted
          /\ Writing \/ At({"calibrate"}, "validate")
      BY <2>1, <2>2 DEF Learning
    <3>2. job.data \in Sound /\ Cell \in FittableCells(job.data)
      <4>1. CASE Writing
        BY <2>1, <4>1 DEF Progress, Writing
      <4>2. CASE At({"calibrate"}, "validate")
        BY <2>1, <4>2 DEF Progress, Calibrating, At, AtModels, Cell, IsJob
      <4> QED BY <3>1, <4>1, <4>2
    <3> QED BY <2>2, <3>1, <3>2, FittedApart DEF CurrentSetup
  <2>3. /\ job.tuned \cap job.tested = {}
        /\ \A t \in job.tuned \cup job.tested :
               /\ t[4] # NoTarget
               /\ t[4] \notin DOMAIN Setups[t[1]][<<t[2], 0>>].splits[t[3]].context
    BY <2>1, Untested
  <2> QED BY <2>2, <2>3 DEF NoLeak
<1> QED BY <1>1, Invariant, PTL

-----------------------------------------------------------------------------
(* Keys: sequences of n integers, which Lower orders.                        *)

LEMMA LowerOrders ==
    ASSUME NEW n \in Nat, NEW s \in [1 .. n -> Int], NEW t \in [1 .. n -> Int],
           NEW v \in [1 .. n -> Int]
    PROVE  /\ ~Lower(s, s)
           /\ Lower(s, t) /\ Lower(t, v) => Lower(s, v)
           /\ s # t => Lower(s, t) \/ Lower(t, s)
<1>1. ~Lower(s, s)
  BY DEF Lower
<1>2. ASSUME Lower(s, t), Lower(t, v) PROVE Lower(s, v)
  <2>1. PICK i \in 1 .. n : s[i] < t[i] /\ \A m \in 1 .. i - 1 : s[m] = t[m]
    BY <1>2 DEF Lower
  <2>2. PICK j \in 1 .. n : t[j] < v[j] /\ \A m \in 1 .. j - 1 : t[m] = v[m]
    BY <1>2 DEF Lower
  <2>3. CASE i <= j
    <3>1. s[i] < v[i]
      <4>1. t[i] <= v[i]
        BY <2>2, <2>3
      <4> QED BY <2>1, <4>1
    <3>2. \A m \in 1 .. i - 1 : s[m] = v[m]
      BY <2>1, <2>2, <2>3
    <3> QED BY <3>1, <3>2 DEF Lower
  <2>4. CASE j < i
    <3>1. s[j] < v[j] /\ \A m \in 1 .. j - 1 : s[m] = v[m]
      BY <2>1, <2>2, <2>4
    <3> QED BY <3>1 DEF Lower
  <2> QED BY <2>3, <2>4
<1>3. ASSUME s # t PROVE Lower(s, t) \/ Lower(t, s)
  <2> DEFINE T == {i \in 1 .. n : s[i] # t[i]}
  <2>1. T # {} /\ T \subseteq Nat
    <3>1. ASSUME T = {} PROVE FALSE
      <4>1. PICK a : a = [i \in 1 .. n |-> s[i]]
        OBVIOUS
      <4>2. s = a
        BY <4>1
      <4>3. \A i \in 1 .. n : s[i] = t[i]
        BY <3>1
      <4>4. t = a
        BY <4>1, <4>3
      <4> QED BY <1>3, <4>2, <4>4
    <3>2. T \subseteq Nat
      OBVIOUS
    <3> HIDE DEF T
    <3> QED BY <3>1, <3>2
  <2>2. PICK i \in T : \A m \in T : i <= m
    BY <2>1, LeastOf
  <2>3. \A m \in 1 .. i - 1 : s[m] = t[m]
    BY <2>2
  <2>4. s[i] < t[i] \/ t[i] < s[i]
    BY <2>2
  <2> QED BY <2>2, <2>3, <2>4 DEF Lower
<1> QED BY <1>1, <1>2, <1>3

(* Places by a key of their own number the elements.                         *)
LEMMA PlaceByKey ==
    ASSUME NEW S, IsFiniteSet(S), NEW n \in Nat, NEW key, \A x \in S : key[x] \in [1 .. n -> Int],
           \A x, y \in S : key[x] = key[y] => x = y,
           NEW r, r = [x \in S |-> 1 + Cardinality({y \in S : y # x /\ Lower(key[y], key[x])})]
    PROVE  Numbers(S, r)
<1> DEFINE R == {xy \in S \X S : Lower(key[xy[1]], key[xy[2]])}
<1>1. \A x, y \in S : <<x, y>> \in R <=> Lower(key[x], key[y])
  OBVIOUS
<1> HIDE DEF R
<1>2. StrictOrder(S, R)
  <2>1. ASSUME NEW x \in S, NEW y \in S, NEW z \in S
        PROVE  /\ <<x, x>> \notin R
               /\ <<x, y>> \in R /\ <<y, z>> \in R => <<x, z>> \in R
               /\ x # y => <<x, y>> \in R \/ <<y, x>> \in R
    <3>1. PICK a : a = key[x]
      OBVIOUS
    <3>2. PICK b : b = key[y]
      OBVIOUS
    <3>3. PICK c : c = key[z]
      OBVIOUS
    <3>4. a \in [1 .. n -> Int] /\ b \in [1 .. n -> Int] /\ c \in [1 .. n -> Int]
      BY <3>1, <3>2, <3>3
    <3>5. x # y => a # b
      BY <3>1, <3>2
    <3>6. /\ ~Lower(a, a)
          /\ Lower(a, b) /\ Lower(b, c) => Lower(a, c)
          /\ a # b => Lower(a, b) \/ Lower(b, a)
      BY <3>4, LowerOrders
    <3> QED BY <1>1, <3>1, <3>2, <3>3, <3>5, <3>6
  <2> QED BY <2>1 DEF StrictOrder
<1>3. r = [x \in S |-> 1 + Cardinality(Before(S, R, x))]
  <2>1. ASSUME NEW x \in S PROVE {y \in S : y # x /\ Lower(key[y], key[x])} = Before(S, R, x)
    <3>1. <<x, x>> \notin R
      BY <1>2 DEF StrictOrder
    <3> QED BY <1>1, <3>1 DEF Before
  <2> QED BY <2>1
<1> QED BY <1>2, <1>3, PlaceNumbers

LEMMA PlaceIsNumber ==
    ASSUME NEW S, IsFiniteSet(S), NEW T \in SUBSET S
    PROVE  1 + Cardinality(T) \in Nat \ {0}
<1>1. Cardinality(T) \in Nat
  BY FS_Subset, FS_CardinalityType
<1> QED BY <1>1

-----------------------------------------------------------------------------
(* Ranking groups.                                                           *)

Extends(new, group, taken, stratum) ==
    new = [f \in DOMAIN group \cup taken |-> IF f \in taken THEN stratum ELSE group[f]]

(* A pass takes as many as its quota and what is left allow.                 *)
LEMMA FillIs ==
    ASSUME NEW group, NEW left, IsFiniteSet(left), NEW n \in Nat, NEW order,
           \A x \in left : order[x] \in [1 .. n -> Int],
           \A x, y \in left : order[x] = order[y] => x = y,
           NEW quota \in Nat, NEW stratum
    PROVE  \E taken \in SUBSET left :
               /\ Cardinality(taken) = IF quota <= Cardinality(left) THEN quota ELSE Cardinality(left)
               /\ Extends(Fill(group, left, order, quota, stratum), group, taken, stratum)
<1> DEFINE place == Place(left, LAMBDA f, g : Lower(order[f], order[g]))
           taken == {f \in left : place[f] <= quota}
<1>1. place = [x \in left |-> 1 + Cardinality({y \in left : y # x /\ Lower(order[y], order[x])})]
  BY TableIs DEF Place
<1>2. Extends(Fill(group, left, order, quota, stratum), group, taken, stratum)
  BY TableIs DEF Fill, Extends
<1> HIDE DEF place
<1>3. Numbers(left, place)
  BY <1>1, PlaceByKey
<1>4. Cardinality(taken) = IF quota <= Cardinality(left) THEN quota ELSE Cardinality(left)
  BY <1>3, CountUpTo
<1> QED BY <1>2, <1>4

(* The ranks a source gives are numbers.                                     *)
IsFound(found) ==
    /\ IsFiniteSet(found.films) /\ found.films \subseteq Int
    /\ found.films = DOMAIN found.svd \cup DOMAIN found.popular
    /\ \A f \in DOMAIN found.svd : found.svd[f] \in Int
    /\ \A f \in DOMAIN found.popular : found.popular[f] \in Int

LEMMA RankKeyIs ==
    ASSUME NEW found, IsFound(found), NEW f \in found.films
    PROVE  RankKey(found, f) \in [1 .. 4 -> Int] /\ RankKey(found, f)[4] = f
<1>1. RankIn(found.svd, f) \in Int /\ RankIn(found.popular, f) \in Int
  BY DEF IsFound, RankIn, Absent
<1>2. BestRank(found, f) \in Int
  BY <1>1, MinOfTwo DEF BestRank
<1>3. f \in Int
  BY DEF IsFound
<1> QED BY <1>1, <1>2, <1>3 DEF RankKey

(* A group under construction: the positives, then films of the pool.        *)
Growing(group, kept, pool) ==
    /\ DOMAIN kept \subseteq DOMAIN group /\ DOMAIN group \subseteq DOMAIN kept \cup pool
    /\ \A f \in DOMAIN kept : group[f] = kept[f]
    /\ \A f \in DOMAIN group \ DOMAIN kept : group[f] # "positive"

LEMMA TakeFromIs ==
    ASSUME DrawsBelow, NEW seed \in Nat, NEW u \in Nat, NEW found, IsFound(found),
           NEW kept, DOMAIN kept \subseteq found.films,
           NEW pool \in SUBSET found.films, DOMAIN kept \cap pool = {},
           NEW group, Growing(group, kept, pool), NEW limit, NEW stratum, stratum # "positive",
           NEW quota \in Nat,
           quota = IF stratum = "deterministic_fill" THEN GroupCap - Cardinality(DOMAIN group)
                                                     ELSE Quota(limit, stratum)
    PROVE  LET left == {f \in pool \ DOMAIN group : Reaches(found, f, stratum)}
               new  == TakeFrom(seed, u, found, group, pool, limit, stratum)
           IN  /\ Growing(new, kept, pool)
               /\ Cardinality(DOMAIN new) = Cardinality(DOMAIN group)
                      + (IF quota <= Cardinality(left) THEN quota ELSE Cardinality(left))
<1> DEFINE left == {f \in pool \ DOMAIN group : Reaches(found, f, stratum)}
           new  == TakeFrom(seed, u, found, group, pool, limit, stratum)
           order == [f \in left |-> IF stratum = "uniform_remainder"
                                    THEN <<Shuffled(<<seed, u, 512>>, left)[f]>>
                                    ELSE RankKey(found, f)]
           n == IF stratum = "uniform_remainder" THEN 1 ELSE 4
<1>1. new = Fill(group, left, order, quota, stratum)
  BY TableIs DEF TakeFrom
<1>2. left \subseteq pool \ DOMAIN group
  OBVIOUS
<1> HIDE DEF left
<1>3. IsFiniteSet(left) /\ left \subseteq found.films /\ \A f \in left : f \in Int
  BY <1>2, FS_Subset DEF IsFound
<1>4. n \in Nat /\ (\A x \in left : order[x] \in [1 .. n -> Int])
      /\ \A x, y \in left : order[x] = order[y] => x = y
  <2>1. CASE stratum = "uniform_remainder"
    <3> DEFINE turn == Shuffled(<<seed, u, 512>>, left)
    <3>1. Numbers(left, turn)
      <4>1. <<seed, u, 512>> \in Seq(Nat)
        OBVIOUS
      <4> QED BY <1>3, <4>1, ShuffledIs
    <3>2. (\A x \in left : turn[x] \in Int) /\ \A x, y \in left : turn[x] = turn[y] => x = y
      <4>1. Cardinality(left) \in Nat
        BY <1>3, FS_CardinalityType
      <4> HIDE DEF turn
      <4> QED BY <3>1, <4>1 DEF Numbers
    <3>3. n = 1 /\ \A x \in left : order[x] = <<turn[x]>>
      BY <2>1
    <3> HIDE DEF turn, order, n
    <3>4. \A x \in left : order[x] \in [1 .. n -> Int] /\ order[x][1] = turn[x]
      <4>1. \A i \in Int : <<i>> \in [1 .. 1 -> Int] /\ <<i>>[1] = i
        OBVIOUS
      <4> QED BY <3>2, <3>3, <4>1
    <3>5. \A x, y \in left : order[x] = order[y] => x = y
      BY <3>2, <3>4
    <3>6. n \in Nat
      BY <3>3
    <3> QED BY <3>4, <3>5, <3>6
  <2>2. CASE stratum # "uniform_remainder"
    <3>1. n = 4 /\ \A x \in left : order[x] = RankKey(found, x)
      BY <2>2
    <3>2. \A x \in left : RankKey(found, x) \in [1 .. 4 -> Int] /\ RankKey(found, x)[4] = x
      BY <1>3, RankKeyIs
    <3> HIDE DEF order, n
    <3> QED BY <3>1, <3>2
  <2> QED BY <2>1, <2>2
<1> HIDE DEF order, n, new
<1>5. PICK taken \in SUBSET left :
          /\ Cardinality(taken) = IF quota <= Cardinality(left) THEN quota ELSE Cardinality(left)
          /\ Extends(new, group, taken, stratum)
  BY <1>1, <1>3, <1>4, FillIs
<1>6. /\ DOMAIN new = DOMAIN group \cup taken
      /\ \A f \in DOMAIN new : new[f] = IF f \in taken THEN stratum ELSE group[f]
  BY <1>5 DEF Extends
<1>7. Growing(new, kept, pool)
  BY <1>2, <1>5, <1>6 DEF Growing
<1>8. Cardinality(DOMAIN new) = Cardinality(DOMAIN group) + Cardinality(taken)
  <2>1. IsFiniteSet(DOMAIN group) /\ IsFiniteSet(taken) /\ DOMAIN group \cap taken = {}
    <3>1. DOMAIN group \subseteq found.films /\ taken \subseteq found.films
      BY <1>3, <1>5 DEF Growing
    <3> QED BY <1>2, <1>5, <3>1, FS_Subset DEF IsFound
  <2> QED BY <1>6, <2>1, DisjointUnion
<1> QED BY <1>5, <1>7, <1>8 DEF left, new

(* The quotas of a group add up to its limit.                                *)
LEMMA QuotasAre ==
    ASSUME NEW limit \in Nat
    PROVE  /\ \A stratum : Quota(limit, stratum) \in Nat
           /\ Quota(limit, "both_source") + Quota(limit, "svd_only")
                + Quota(limit, "popularity_only") + Quota(limit, "additional_top_500")
                + Quota(limit, "source_tail") + Quota(limit, "uniform_remainder") = limit
<1>1. PICK a \in Nat : a = limit \div 4 /\ 4 * a <= limit
  OBVIOUS
<1>2. PICK b \in Nat : b = limit \div 5 /\ 5 * b <= limit
  OBVIOUS
<1>3. PICK c \in Nat : c = limit \div 8 /\ 8 * c <= limit
  OBVIOUS
<1>4. PICK d \in Nat : d = limit \div 10 /\ 10 * d <= limit
  OBVIOUS
<1>5. limit - (2 * a + b + c + d) \in Nat
  BY <1>1, <1>2, <1>3, <1>4
<1>6. /\ Quota(limit, "both_source") = a /\ Quota(limit, "svd_only") = a
      /\ Quota(limit, "popularity_only") = b /\ Quota(limit, "additional_top_500") = c
      /\ Quota(limit, "source_tail") = d
      /\ Quota(limit, "uniform_remainder") = limit - (2 * a + b + c + d)
  BY <1>1, <1>2, <1>3, <1>4 DEF Quota
<1>7. \A stratum : Quota(limit, stratum) \in {a, b, c, d, limit - (2 * a + b + c + d)}
  BY <1>1, <1>2, <1>3, <1>4 DEF Quota
<1>8. \A stratum : Quota(limit, stratum) \in Nat
  BY <1>5, <1>7
<1> QED BY <1>6, <1>8

(* The passes one after the other.                                           *)
LEMMA SampledUnrolls ==
    ASSUME NEW seed, NEW u, NEW found, NEW kept, NEW pool
    PROVE  LET limit == Max({0, GroupCap - Cardinality(DOMAIN kept)})
               take(g, i) == TakeFrom(seed, u, found, g, pool, limit, Negatives[i])
           IN  \E g : /\ g[0] = kept
                      /\ \A i \in 1 .. 7 : g[i] = take(g[i - 1], i)
                      /\ Sampled(seed, u, found, kept, pool) = g[7]
<1> DEFINE limit == Max({0, GroupCap - Cardinality(DOMAIN kept)})
           take(g, i) == TakeFrom(seed, u, found, g, pool, limit, Negatives[i])
           Passes(g) == g = [i \in 0 .. 7 |-> IF i = 0 THEN kept ELSE take(g[i - 1], i)]
<1>1. Len(Negatives) = 7
  BY DEF Negatives
<1>2. Sampled(seed, u, found, kept, pool) = (CHOOSE g : Passes(g))[7]
  BY <1>1 DEF Sampled
<1> HIDE DEF take
<1>3. \E g : Passes(g)
  <2> DEFINE t1 == take(kept, 1)
             t2 == take(t1, 2)
             t3 == take(t2, 3)
             t4 == take(t3, 4)
             t5 == take(t4, 5)
             t6 == take(t5, 6)
             t7 == take(t6, 7)
             g == [i \in 0 .. 7 |-> CASE i = 0 -> kept [] i = 1 -> t1 [] i = 2 -> t2
                                      [] i = 3 -> t3 [] i = 4 -> t4 [] i = 5 -> t5
                                      [] i = 6 -> t6 [] OTHER -> t7]
  <2> HIDE DEF t1, t2, t3, t4, t5, t6, t7
  <2>1. /\ g[0] = kept /\ g[1] = t1 /\ g[2] = t2 /\ g[3] = t3 /\ g[4] = t4 /\ g[5] = t5
        /\ g[6] = t6 /\ g[7] = t7
    OBVIOUS
  <2>2. g = [i \in 0 .. 7 |-> g[i]]
    OBVIOUS
  <2> HIDE DEF g
  <2>3. \A i \in 0 .. 7 : g[i] = IF i = 0 THEN kept ELSE take(g[i - 1], i)
    <3>1. /\ g[1] = take(g[0], 1) /\ g[2] = take(g[1], 2) /\ g[3] = take(g[2], 3)
          /\ g[4] = take(g[3], 4) /\ g[5] = take(g[4], 5) /\ g[6] = take(g[5], 6)
          /\ g[7] = take(g[6], 7)
      BY <2>1 DEF t1, t2, t3, t4, t5, t6, t7
    <3> TAKE i \in 0 .. 7
    <3>2. i = 0 \/ i = 1 \/ i = 2 \/ i = 3 \/ i = 4 \/ i = 5 \/ i = 6 \/ i = 7
      OBVIOUS
    <3> QED BY <2>1, <3>1, <3>2
  <2> QED BY <2>2, <2>3
<1>4. PICK g : g = (CHOOSE h : Passes(h)) /\ Passes(g)
  BY <1>3
<1> QED BY <1>2, <1>4 DEF take

(* A sampled group keeps the positives and is as full as the cap and the     *)
(* pool allow.                                                               *)
LEMMA SampledIs ==
    ASSUME DrawsBelow, NEW seed \in Nat, NEW u \in Nat, NEW found, IsFound(found),
           NEW kept, DOMAIN kept \subseteq found.films, Cardinality(DOMAIN kept) <= GroupCap,
           NEW pool \in SUBSET found.films, DOMAIN kept \cap pool = {}
    PROVE  LET new == Sampled(seed, u, found, kept, pool)
           IN  /\ Growing(new, kept, pool)
               /\ Cardinality(DOMAIN new) = Min({GroupCap, Cardinality(DOMAIN kept \cup pool)})
<1> DEFINE limit == Max({0, GroupCap - Cardinality(DOMAIN kept)})
           take(h, i) == TakeFrom(seed, u, found, h, pool, limit, Negatives[i])
           k == Cardinality(DOMAIN kept)
           all == DOMAIN kept \cup pool
<1>1. PICK g : /\ g[0] = kept /\ \A i \in 1 .. 7 : g[i] = take(g[i - 1], i)
               /\ Sampled(seed, u, found, kept, pool) = g[7]
  BY SampledUnrolls
<1>2. IsFiniteSet(DOMAIN kept) /\ IsFiniteSet(pool) /\ IsFiniteSet(all)
  BY FS_Subset, FS_Union DEF IsFound
<1>3. k \in Nat /\ GroupCap \in Nat /\ limit = GroupCap - k /\ limit \in Nat
  <2>1. k \in Nat /\ GroupCap \in Nat
    BY <1>2, FS_CardinalityType, RankingAssumption
  <2>2. limit = GroupCap - k
    BY <2>1, MaxOfTwo
  <2> QED BY <2>1, <2>2
<1>4. \A h : Growing(h, kept, pool) => DOMAIN h \subseteq all /\ Cardinality(DOMAIN h) \in Nat
  BY <1>2, FS_Subset, FS_CardinalityType DEF Growing
<1> HIDE DEF limit, take
<1>5. ASSUME NEW i \in 1 .. 6, Growing(g[i - 1], kept, pool)
      PROVE  /\ Growing(g[i], kept, pool)
             /\ Cardinality(DOMAIN g[i])
                    <= Cardinality(DOMAIN g[i - 1]) + Quota(limit, Negatives[i])
  <2>1. PICK h : h = g[i - 1]
    OBVIOUS
  <2>2. PICK stratum : stratum = Negatives[i]
    OBVIOUS
  <2>3. stratum # "positive" /\ stratum # "deterministic_fill"
    BY <2>2 DEF Negatives
  <2>4. PICK quota \in Nat : quota = Quota(limit, stratum)
    BY <1>3, QuotasAre
  <2> DEFINE left == {f \in pool \ DOMAIN h : Reaches(found, f, stratum)}
             new  == TakeFrom(seed, u, found, h, pool, limit, stratum)
  <2>5. /\ Growing(new, kept, pool)
        /\ Cardinality(DOMAIN new) = Cardinality(DOMAIN h)
               + (IF quota <= Cardinality(left) THEN quota ELSE Cardinality(left))
    <3>1. Growing(h, kept, pool)
      BY <1>5, <2>1
    <3>2. quota = IF stratum = "deterministic_fill" THEN GroupCap - Cardinality(DOMAIN h)
                                                    ELSE Quota(limit, stratum)
      BY <2>3, <2>4
    <3> QED BY <2>3, <3>1, <3>2, TakeFromIs
  <2>6. Cardinality(left) \in Nat
    <3>1. left \subseteq pool
      OBVIOUS
    <3> QED BY <1>2, <3>1, FS_Subset, FS_CardinalityType
  <2>7. g[i] = new
    BY <1>1, <2>1, <2>2 DEF take
  <2>8. Cardinality(DOMAIN h) \in Nat
    BY <1>4, <1>5, <2>1
  <2> HIDE DEF left, new
  <2>9. Cardinality(DOMAIN new) <= Cardinality(DOMAIN h) + quota
    BY <2>5, <2>6, <2>8
  <2> QED BY <2>1, <2>2, <2>4, <2>5, <2>7, <2>9
<1>6. Growing(g[6], kept, pool) /\ Cardinality(DOMAIN g[6]) <= GroupCap
  <2> DEFINE size(i) == Cardinality(DOMAIN g[i])
             quota(i) == Quota(limit, Negatives[i])
  <2>0. Growing(g[0], kept, pool) /\ size(0) = k
    BY <1>1 DEF Growing
  <2>1. Growing(g[1], kept, pool) /\ size(1) <= size(0) + quota(1)
    BY <1>5, <2>0
  <2>2. Growing(g[2], kept, pool) /\ size(2) <= size(1) + quota(2)
    BY <1>5, <2>1
  <2>3. Growing(g[3], kept, pool) /\ size(3) <= size(2) + quota(3)
    BY <1>5, <2>2
  <2>4. Growing(g[4], kept, pool) /\ size(4) <= size(3) + quota(4)
    BY <1>5, <2>3
  <2>5. Growing(g[5], kept, pool) /\ size(5) <= size(4) + quota(5)
    BY <1>5, <2>4
  <2>6. Growing(g[6], kept, pool) /\ size(6) <= size(5) + quota(6)
    BY <1>5, <2>5
  <2>7. /\ size(1) \in Nat /\ size(2) \in Nat /\ size(3) \in Nat
        /\ size(4) \in Nat /\ size(5) \in Nat /\ size(6) \in Nat
    BY <1>4, <2>1, <2>2, <2>3, <2>4, <2>5, <2>6
  <2>8. /\ quota(1) = Quota(limit, "both_source") /\ quota(2) = Quota(limit, "svd_only")
        /\ quota(3) = Quota(limit, "popularity_only")
        /\ quota(4) = Quota(limit, "additional_top_500")
        /\ quota(5) = Quota(limit, "source_tail") /\ quota(6) = Quota(limit, "uniform_remainder")
    BY DEF Negatives
  <2>9. /\ quota(1) \in Nat /\ quota(2) \in Nat /\ quota(3) \in Nat
        /\ quota(4) \in Nat /\ quota(5) \in Nat /\ quota(6) \in Nat
        /\ quota(1) + quota(2) + quota(3) + quota(4) + quota(5) + quota(6) = limit
    BY <1>3, <2>8, QuotasAre
  <2> HIDE DEF size, quota
  <2>10. size(6) <= k + limit
    BY <1>3, <2>0, <2>1, <2>2, <2>3, <2>4, <2>5, <2>6, <2>7, <2>9
  <2> QED BY <1>3, <2>6, <2>10 DEF size
<1>7. PICK h : h = g[6]
  OBVIOUS
<1> DEFINE left == {f \in pool \ DOMAIN h : Reaches(found, f, "deterministic_fill")}
           new == TakeFrom(seed, u, found, h, pool, limit, "deterministic_fill")
<1>8. g[7] = new
  BY <1>1, <1>7 DEF take, Negatives
<1>9. left = all \ DOMAIN h
  <2>1. DOMAIN kept \subseteq DOMAIN h
    BY <1>6, <1>7 DEF Growing
  <2>2. left = pool \ DOMAIN h
    BY DEF Reaches
  <2> QED BY <2>1, <2>2
<1>10. PICK quota \in Nat : quota = GroupCap - Cardinality(DOMAIN h)
  BY <1>3, <1>4, <1>6, <1>7
<1>11. /\ Growing(new, kept, pool)
       /\ Cardinality(DOMAIN new) = Cardinality(DOMAIN h)
              + (IF quota <= Cardinality(left) THEN quota ELSE Cardinality(left))
  BY <1>6, <1>7, <1>10, TakeFromIs
<1> HIDE DEF left, new, all
<1>12. Cardinality(left) = Cardinality(all) - Cardinality(DOMAIN h) /\ Cardinality(all) \in Nat
  <2>1. DOMAIN h \subseteq all
    BY <1>4, <1>6, <1>7
  <2>2. IsFiniteSet(left) /\ IsFiniteSet(DOMAIN h)
    BY <1>2, <1>9, <2>1, FS_Subset
  <2>3. left \cap DOMAIN h = {} /\ left \cup DOMAIN h = all
    BY <1>9, <2>1
  <2>4. Cardinality(all) = Cardinality(left) + Cardinality(DOMAIN h)
    BY <2>2, <2>3, DisjointUnion
  <2> QED BY <1>2, <2>2, <2>4, FS_CardinalityType
<1>13. Cardinality(DOMAIN h) \in Nat
  BY <1>4, <1>6, <1>7
<1>14. Min({GroupCap, Cardinality(all)}) = IF GroupCap <= Cardinality(all) THEN GroupCap ELSE Cardinality(all)
  BY <1>3, <1>12, MinOfTwo
<1>15. Cardinality(DOMAIN new) = Min({GroupCap, Cardinality(all)})
  BY <1>3, <1>10, <1>11, <1>12, <1>13, <1>14
<1> QED BY <1>1, <1>8, <1>11, <1>15 DEF all

(* No more positives are hidden than the limit.                              *)
LEMMA HeldOutFew ==
    ASSUME DrawsBelow, NEW seed \in Nat, NEW u \in Nat, NEW split,
           NEW films, IsFiniteSet(films), \A f \in films : f \in Int
    PROVE  /\ HeldOut(seed, u, split, films) \subseteq films
           /\ Cardinality(HeldOut(seed, u, split, films)) <= HoldoutLimit
<1> DEFINE label == [f \in films |-> Label(split.context[f])]
           alike(f) == {g \in films : label[g] = label[f]}
           shuffled(f) == Shuffled(<<seed, u, label[f]>>, alike(f))
           round == Table([f \in films |-> Cardinality(alike(f)) - shuffled(f)[f]])
           key == [f \in films |-> <<round[f], label[f]>>]
           turn == Place(films, LAMBDA f, g : Lower(<<round[f], label[f]>>, <<round[g], label[g]>>))
<1>1. HeldOut(seed, u, split, films) = {f \in films : turn[f] <= HoldoutLimit}
  BY DEF HeldOut
<1>0. round = [f \in films |-> Cardinality(alike(f)) - shuffled(f)[f]]
  BY TableIs
<1>2. turn = [x \in films |-> 1 + Cardinality({y \in films : y # x /\ Lower(key[y], key[x])})]
  <2> HIDE DEF round, label
  <2> QED BY TableIs DEF Place
<1> HIDE DEF turn
<1>3. \A f \in films : label[f] \in Nat
  BY DEF Label
<1> HIDE DEF label
<1>4. ASSUME NEW f \in films
      PROVE  /\ Numbers(alike(f), shuffled(f)) /\ f \in alike(f)
             /\ IsFiniteSet(alike(f)) /\ Cardinality(alike(f)) \in Nat
  <2>1. IsFiniteSet(alike(f)) /\ (\A g \in alike(f) : g \in Int) /\ f \in alike(f)
    <3>1. alike(f) \subseteq films
      OBVIOUS
    <3> QED BY <3>1, FS_Subset
  <2>2. <<seed, u, label[f]>> \in Seq(Nat)
    BY <1>3
  <2>3. PICK S : S = alike(f)
    OBVIOUS
  <2>4. PICK stream : stream = <<seed, u, label[f]>>
    OBVIOUS
  <2>5. Numbers(S, Shuffled(stream, S))
    BY <2>1, <2>2, <2>3, <2>4, ShuffledIs
  <2> QED BY <2>1, <2>3, <2>4, <2>5, FS_CardinalityType
<1>5. ASSUME NEW f \in films, NEW g \in films, key[f] = key[g] PROVE f = g
  <2>1. round[f] = round[g] /\ label[f] = label[g]
    BY <1>5
  <2>2. alike(f) = alike(g)
    BY <2>1
  <2>3. shuffled(f) = shuffled(g)
    BY <2>1, <2>2
  <2>4. PICK S : S = alike(f)
    OBVIOUS
  <2>5. PICK order : order = shuffled(f)
    OBVIOUS
  <2>6. round[f] = Cardinality(S) - order[f] /\ round[g] = Cardinality(S) - order[g]
    BY <1>0, <2>2, <2>3, <2>4, <2>5
  <2>7. Numbers(S, order) /\ f \in S /\ g \in S /\ Cardinality(S) \in Nat
    BY <1>4, <2>2, <2>4, <2>5
  <2> HIDE DEF alike, shuffled, round, key
  <2>8. order[f] \in Int /\ order[g] \in Int
    BY <2>7 DEF Numbers
  <2>9. order[f] = order[g]
    <3>1. PICK n \in Int : n = Cardinality(S)
      BY <2>7
    <3>2. PICK a \in Int : a = order[f]
      BY <2>8
    <3>3. PICK b \in Int : b = order[g]
      BY <2>8
    <3>4. n - a = n - b
      BY <2>1, <2>6, <3>1, <3>2, <3>3
    <3>5. a = b
      BY <3>4
    <3> QED BY <3>2, <3>3, <3>5
  <2> QED BY <2>7, <2>9 DEF Numbers
<1>6. ASSUME NEW f \in films PROVE key[f] \in [1 .. 2 -> Int]
  <2>1. PICK S : S = alike(f)
    OBVIOUS
  <2>2. PICK order : order = shuffled(f)
    OBVIOUS
  <2>3. round[f] = Cardinality(S) - order[f]
    BY <1>0, <2>1, <2>2
  <2>4. Numbers(S, order) /\ f \in S /\ Cardinality(S) \in Nat
    BY <1>4, <2>1, <2>2
  <2>5. key[f] = <<round[f], label[f]>>
    OBVIOUS
  <2> HIDE DEF alike, shuffled, round, key
  <2>6. order[f] \in Int
    BY <2>4 DEF Numbers
  <2>7. round[f] \in Int /\ label[f] \in Int
    BY <1>3, <2>3, <2>4, <2>6
  <2> QED BY <2>5, <2>7
<1> HIDE DEF key
<1>7. Numbers(films, turn)
  <2>1. PICK n \in Nat : n = 2
    OBVIOUS
  <2>2. \A x \in films : key[x] \in [1 .. n -> Int]
    BY <1>6, <2>1
  <2>3. \A x, y \in films : key[x] = key[y] => x = y
    BY <1>5
  <2> QED BY <1>2, <2>2, <2>3, PlaceByKey
<1>8. Cardinality(films) \in Nat /\ HoldoutLimit \in Nat
  BY FS_CardinalityType, SplitAssumption
<1>9. Cardinality({f \in films : turn[f] <= HoldoutLimit}) <= HoldoutLimit
  BY <1>7, <1>8, CountUpTo
<1> QED BY <1>1, <1>9

(* The shuffled control lends every user the profile of another.             *)
LEMMA DonorsAre ==
    ASSUME DrawsBelow, NEW seed \in Nat, NEW fold \in Nat,
           NEW users, IsFiniteSet(users), \A u \in users : u \in Int
    PROVE  LET donor == Donors(seed, fold, users)
           IN  /\ \A u \in users : donor[u] = u => Cardinality(users) = 1
               /\ {donor[u] : u \in users} = users
<1> DEFINE n == Cardinality(users)
           order == Ascending(users)
           shift == 1 + Draw(<<seed, fold, 991>>, n - 1)
           turned == [u \in users |-> 1 + ((order[u] + (n - 1 - shift)) % n)]
           donor == Donors(seed, fold, users)
<1>1. n \in Nat /\ (users # {} => n # 0)
  BY FS_CardinalityType, FS_EmptySet
<1>2. CASE n <= 1
  <2>1. donor = [u \in users |-> u]
    BY <1>2 DEF Donors
  <2>2. \A u \in users : n = 1
    BY <1>1, <1>2
  <2> QED BY <2>1, <2>2
<1>3. CASE ~(n <= 1)
  <2>1. shift \in 1 .. n - 1
    <3>1. <<seed, fold, 991>> \in Seq(Nat) /\ n - 1 \in Nat \ {0}
      BY <1>1, <1>3
    <3>2. Draw(<<seed, fold, 991>>, n - 1) \in 0 .. (n - 1) - 1
      BY <3>1 DEF DrawsBelow
    <3> QED BY <1>1, <3>2
  <2>2. Numbers(users, order)
    BY AscendingIs
  <2>3. donor = [u \in users |-> CHOOSE v \in users : order[v] = 1 + ((order[u] - 1 + n - shift) % n)]
    BY <1>3 DEF Donors
  <2> HIDE DEF order, shift, donor, n
  <2>4. \A u \in users : order[u] \in 1 .. n
    BY <2>2 DEF Numbers, n
  <2>5. \A u \in users : turned[u] = 1 + ((order[u] - 1 + n - shift) % n)
    <3>1. \A u \in users : order[u] + (n - 1 - shift) = order[u] - 1 + n - shift
      BY <1>1, <2>1, <2>4
    <3> QED BY <3>1
  <2>6. Numbers(users, turned)
    <3>1. n - 1 - shift \in Int
      BY <1>1, <2>1
    <3>2. PICK t : t = turned
      OBVIOUS
    <3>3. t = [u \in users |-> 1 + ((order[u] + (n - 1 - shift)) % Cardinality(users))]
      BY <3>2 DEF n
    <3>4. Numbers(users, t)
      BY <2>2, <3>1, <3>3, Rotates
    <3> QED BY <3>2, <3>4
  <2> HIDE DEF turned
  <2>7. \A u \in users : donor[u] \in users /\ order[donor[u]] = turned[u]
    <3> TAKE u \in users
    <3>1. \E v \in users : order[v] = turned[u]
      BY <2>2, <2>6 DEF Numbers
    <3>2. donor[u] = CHOOSE v \in users : order[v] = turned[u]
      BY <2>3, <2>5
    <3> QED BY <3>1, <3>2
  <2>8. ASSUME NEW u \in users, donor[u] = u PROVE FALSE
    <3>1. PICK a : a = order[u] - 1
      OBVIOUS
    <3>2. a \in 0 .. n - 1 /\ n \in Nat \ {0}
      BY <1>1, <1>3, <2>4, <3>1
    <3>3. a = (a + n - shift) % n
      BY <2>1, <2>4, <2>5, <2>7, <2>8, <3>1, <3>2
    <3>4. a % n = a
      BY <3>2
    <3>5. PICK b \in Int : b = a + n - shift
      BY <2>1, <3>2
    <3>6. a <= b /\ b - a < n
      BY <2>1, <3>2, <3>5
    <3>7. a % n = b % n
      BY <3>3, <3>4, <3>5
    <3>8. a = b
      <4>1. a \in Int /\ n \in Nat \ {0}
        BY <3>2
      <4> QED BY <3>6, <3>7, <4>1, SameRemainder
    <3> QED BY <2>1, <3>2, <3>5, <3>8
  <2>9. ASSUME NEW v \in users PROVE \E u \in users : donor[u] = v
    <3>1. PICK u \in users : turned[u] = order[v]
      BY <2>2, <2>6 DEF Numbers
    <3>2. order[donor[u]] = order[v] /\ donor[u] \in users
      BY <2>7, <3>1
    <3> QED BY <2>2, <3>2 DEF Numbers
  <2> QED BY <2>7, <2>8, <2>9 DEF donor
<1> QED BY <1>2, <1>3

(* The sources rank films that the user's context does not show.             *)
LEMMA CandidatesAre ==
    ASSUME NEW context, NEW art, IsFiniteSet(DOMAIN art.order), DOMAIN art.order \subseteq Int
    PROVE  LET found == Candidates(context, art)
           IN  /\ IsFound(found)
               /\ found.films \subseteq DOMAIN art.order \ DOMAIN context
<1> DEFINE left == DOMAIN art.order \ DOMAIN context
           weight == PositiveWeights(context)
           score == Table([f \in left |-> Similar(weight, art, f)])
           nearest == Nearest(score)
           popular == Place(left, LAMBDA f, g : art.order[f] < art.order[g])
           svd == IF HasProfile(weight, art) THEN First(nearest, SvdDepth) ELSE << >>
           found == Candidates(context, art)
<1>1. found = Found(svd, First(popular, PopularityDepth), score)
  BY DEF Candidates, CandidatesAmong
<1>2. IsFiniteSet(left) /\ left \subseteq Int
  <2>1. left \subseteq DOMAIN art.order
    OBVIOUS
  <2> QED BY <2>1, FS_Subset
<1>3. DOMAIN score = left
  BY TableIs
<1> HIDE DEF score, left
<1>4. DOMAIN nearest = left /\ \A f \in left : nearest[f] \in Int
  <2> DEFINE ahead(f) == {g \in left : g # f /\ Lower(<<-score[g], g>>, <<-score[f], f>>)}
  <2>1. nearest = [f \in left |-> 1 + Cardinality(ahead(f))]
    BY <1>3, TableIs DEF Nearest, Place
  <2>2. \A f \in left : ahead(f) \in SUBSET left
    OBVIOUS
  <2> HIDE DEF ahead, nearest
  <2>3. \A f \in left : 1 + Cardinality(ahead(f)) \in Int
    BY <1>2, <2>2, PlaceIsNumber
  <2> QED BY <2>1, <2>3
<1>5. DOMAIN popular = left /\ \A f \in left : popular[f] \in Int
  <2> DEFINE ahead(f) == {g \in left : g # f /\ art.order[g] < art.order[f]}
  <2>1. popular = [f \in left |-> 1 + Cardinality(ahead(f))]
    BY TableIs DEF Place
  <2>2. \A f \in left : ahead(f) \in SUBSET left
    OBVIOUS
  <2> HIDE DEF ahead, popular
  <2>3. \A f \in left : 1 + Cardinality(ahead(f)) \in Int
    BY <1>2, <2>2, PlaceIsNumber
  <2> QED BY <2>1, <2>3
<1> HIDE DEF nearest, popular, found
<1>6. \A order, n : DOMAIN order = left /\ (\A f \in left : order[f] \in Int) =>
          DOMAIN First(order, n) \subseteq left /\ \A f \in DOMAIN First(order, n) : First(order, n)[f] \in Int
  BY DEF First, Restrict
<1>7. DOMAIN svd \subseteq left /\ \A f \in DOMAIN svd : svd[f] \in Int
  <2>1. CASE HasProfile(weight, art)
    BY <1>4, <1>6, <2>1
  <2>2. CASE ~HasProfile(weight, art)
    BY <2>2
  <2> QED BY <2>1, <2>2
<1> HIDE DEF svd
<1> DEFINE shown == First(popular, PopularityDepth)
<1>8. DOMAIN shown \subseteq left /\ \A f \in DOMAIN shown : shown[f] \in Int
  BY <1>5, <1>6
<1> HIDE DEF shown
<1>9. found.svd = svd /\ found.popular = shown /\ found.films = DOMAIN svd \cup DOMAIN shown
  BY <1>1 DEF Found, shown
<1>10. found.films \subseteq left
  BY <1>7, <1>8, <1>9
<1>11. IsFound(found)
  BY <1>2, <1>7, <1>8, <1>9, <1>10, FS_Subset DEF IsFound
<1>12. found.films \subseteq DOMAIN art.order \ DOMAIN context
  BY <1>10 DEF left
<1> QED BY <1>11, <1>12 DEF found

(* What is asked for a user of a partition.                                  *)
ExampleOf(c, cell, part, u) ==
    Example(part, Setups[c][cell].splits[u],
            IF part = "train" THEN Setups[c][cell].holdouts[u] ELSE << >>)

LEMMA QueryIs ==
    ASSUME NEW c \in Sound, NEW cell \in FittableCells(c), NEW part \in Parts
    PROVE  LET queries == Works[c][cell].queries[part] IN
           /\ DOMAIN queries = Setups[c][cell].users[part]
           /\ \A u \in DOMAIN queries :
                  LET query == queries[u] IN
                  /\ query.example = ExampleOf(c, cell, part, u)
                  /\ query.group = Group(cell[1], part, u, query.example, query.found)
                  /\ query.source = Source(query.found, query.example.target)
                  /\ IsFound(query.found)
                  /\ query.found.films \subseteq Vocabulary(Data(c)) \ DOMAIN query.example.context
<1> DEFINE setup == Setups[c][cell]
           contexts == ContextsOf(setup)
           quart == Quartiles([u \in DOMAIN contexts |-> Cardinality(DOMAIN contexts[u])])
           art == Artifacts(contexts, setup.films)
           queries == Works[c][cell].queries[part]
           holdout(u) == IF part = "train" THEN setup.holdouts[u] ELSE << >>
<1>1. Works[c][cell] = WorkOver(setup, cell[1], art, quart)
  <2>1. Works[c] = Table([k \in FittableCells(c) |-> Work(Setups[c][k], k[1])])
    BY TableIs DEF Works
  <2>2. Works[c] = [k \in FittableCells(c) |-> Work(Setups[c][k], k[1])]
    BY <2>1, TableIs
  <2>3. Works[c][cell] = Work(setup, cell[1])
    BY <2>2
  <2> QED BY <2>3 DEF Work, WorkFor
<1>2. /\ IsFiniteSet(DOMAIN art.order) /\ DOMAIN art.order \subseteq Int
      /\ DOMAIN art.order = Vocabulary(Data(c))
  <2>1. DOMAIN art.order = setup.films
    BY TableIs DEF Artifacts, PopularFirst, Place
  <2>2. setup.films = Vocabulary(Data(c))
    BY SetupIs DEF FittableCells
  <2>3. Vocabulary(Data(c)) \subseteq Int /\ IsFiniteSet(Vocabulary(Data(c)))
    <3> DEFINE rated == {DOMAIN Data(c)[u] : u \in DOMAIN Data(c)}
               shelf == [u \in DOMAIN Data(c) |-> DOMAIN Data(c)[u]]
    <3>1. c \in DOMAIN Csvs
      BY DEF Sound
    <3>2. /\ IsFiniteSet(DOMAIN Data(c))
          /\ \A u \in DOMAIN Data(c) : IsFiniteSet(shelf[u]) /\ shelf[u] \subseteq Int
      BY <3>1, LoadedIs
    <3>3. rated = {shelf[u] : u \in DOMAIN Data(c)} /\ DOMAIN shelf = DOMAIN Data(c)
      OBVIOUS
    <3>4. Vocabulary(Data(c)) = UNION rated
      BY DEF Vocabulary
    <3> HIDE DEF rated, shelf
    <3>5. IsFiniteSet(rated) /\ \A S \in rated : IsFiniteSet(S) /\ S \subseteq Int
      BY <3>2, <3>3, ImageFinite
    <3> QED BY <3>4, <3>5, FS_UNION
  <2> QED BY <2>1, <2>2, <2>3
<1> HIDE DEF quart, art, contexts, setup
<1>3. queries = [u \in setup.users[part] |-> Query(cell[1], part, u, setup.splits[u], holdout(u), art, quart)]
  BY <1>1, TableIs DEF WorkOver, Parts
<1> HIDE DEF queries, holdout
<1>4. ASSUME NEW u \in DOMAIN queries
      PROVE  LET query == queries[u]
                 example == Example(part, setup.splits[u], holdout(u))
                 found == Candidates(example.context, art)
             IN  /\ query.example = example /\ query.found = found
                 /\ query.group = Group(cell[1], part, u, example, found)
                 /\ query.source = Source(found, example.target)
                 /\ IsFound(found)
                 /\ found.films \subseteq Vocabulary(Data(c)) \ DOMAIN example.context
  <2> DEFINE example == Example(part, setup.splits[u], holdout(u))
             found == Candidates(example.context, art)
  <2>1. IsFound(found) /\ found.films \subseteq Vocabulary(Data(c)) \ DOMAIN example.context
    <3> HIDE DEF example
    <3> QED BY <1>2, CandidatesAre
  <2>2. queries[u] = QueryOver(cell[1], part, u, example, found, art, quart)
    BY <1>3 DEF Query, QueryFor
  <2> HIDE DEF example, found
  <2>3. /\ queries[u].example = example /\ queries[u].found = found
        /\ queries[u].group = Group(cell[1], part, u, example, found)
        /\ queries[u].source = Source(found, example.target)
    BY <2>2 DEF QueryOver
  <2> QED BY <2>1, <2>3 DEF example, found
<1>5. DOMAIN queries = setup.users[part]
  BY <1>3
<1> QED BY <1>4, <1>5 DEF ExampleOf, setup, queries, holdout

(* A training user's holdout is of positives that are no targets.            *)
LEMMA HoldoutIs ==
    ASSUME DrawsBelow, NEW c \in Sound, NEW cell \in Cells, NEW u \in Setups[c][cell].users.train
    PROVE  LET holdout == Setups[c][cell].holdouts[u]
               split   == Setups[c][cell].splits[u]
           IN  /\ DOMAIN holdout.label \cap Canonical(split) = {}
               /\ DOMAIN holdout.label \cap DOMAIN holdout.context = {}
               /\ IsFiniteSet(DOMAIN holdout.label)
               /\ Cardinality(DOMAIN holdout.label) <= HoldoutLimit
<1> DEFINE setup == Setups[c][cell]
           split == setup.splits[u]
           films == Positives(split.context)
           hidden == HeldOut(cell[1], u, split, films)
<1>1. setup.holdouts[u] = HiddenFrom(split, hidden)
  <2>1. setup.splits = Splits(cell[1], Data(c))
    BY SetupIs
  <2>2. setup.users = Partition(Folds(cell[1], setup.splits, Vocabulary(Data(c))), cell[2])
    BY <2>1, SetupIs
  <2>3. setup.holdouts = [v \in setup.users.train |-> Holdouts(cell[1], v, setup.splits[v])]
    BY <2>1, <2>2, SetupIs
  <2>4. setup.holdouts[u] = Holdouts(cell[1], u, split)
    BY <2>3
  <2> QED BY <2>4 DEF Holdouts
<1>2. u \in DOMAIN Data(c)
  BY UsersAre DEF Parts
<1>3. split = Split(cell[1], u, Data(c)[u])
  BY <1>2, SetupIs
<1>4. /\ u \in Nat /\ cell[1] \in Nat
      /\ IsFiniteSet(DOMAIN Data(c)[u]) /\ DOMAIN Data(c)[u] \subseteq Nat
  BY <1>2, LoadedIs, CellsAre DEF Sound
<1>5. DOMAIN split.context = DOMAIN Data(c)[u] \ {split.validation, split.test}
  BY <1>3, SplitKeeps
<1> HIDE DEF split, setup
<1>6. films \subseteq DOMAIN split.context
  BY DEF Positives
<1>7. IsFiniteSet(films) /\ \A f \in films : f \in Int
  <2> HIDE DEF films
  <2>1. films \subseteq DOMAIN Data(c)[u]
    BY <1>5, <1>6
  <2> QED BY <1>4, <2>1, FS_Subset
<1> HIDE DEF films
<1>8. hidden \subseteq films /\ Cardinality(hidden) <= HoldoutLimit
  BY <1>4, <1>7, HeldOutFew
<1> HIDE DEF hidden
<1>9. IsFiniteSet(hidden)
  BY <1>7, <1>8, FS_Subset
<1>10. /\ DOMAIN setup.holdouts[u].label = hidden
       /\ DOMAIN setup.holdouts[u].context = DOMAIN split.context \ hidden
  BY <1>1 DEF HiddenFrom, Restrict
<1> QED BY <1>5, <1>6, <1>8, <1>9, <1>10 DEF Canonical, split, setup

LEMMA TrainingGroupIs ==
    ASSUME DrawsBelow, NEW c \in Sound, NEW cell \in FittableCells(c),
           NEW u \in DOMAIN Works[c][cell].queries["train"]
    PROVE  HonestGroup("train", Works[c][cell].queries["train"][u])
<1> DEFINE query == Works[c][cell].queries["train"][u]
           found == query.found
           labels == DOMAIN query.example.labels
           forbidden == query.example.forbidden
           kept == [f \in found.films \cap labels |-> "positive"]
           pool == found.films \ (labels \cup forbidden)
<1>1. cell \in Cells /\ u \in Setups[c][cell].users.train
  BY QueryIs DEF FittableCells, Parts
<1>2. /\ query.example = ExampleOf(c, cell, "train", u)
      /\ query.group = Group(cell[1], "train", u, query.example, found)
      /\ IsFound(found) /\ found.films \cap DOMAIN query.example.context = {}
  BY QueryIs DEF Parts
<1>3. u \in Nat /\ cell[1] \in Nat
  <2>1. u \in DOMAIN Data(c)
    BY <1>1, UsersAre DEF Parts
  <2> QED BY <1>1, <2>1, LoadedIs, CellsAre DEF Sound
<1>4. labels \cap forbidden = {} /\ IsFiniteSet(labels) /\ Cardinality(labels) <= HoldoutLimit
  BY <1>1, <1>2, HoldoutIs DEF ExampleOf, Example
<1>5. query.group = Sampled(cell[1], u, found, kept, pool)
  BY <1>2 DEF Group, SampledGroup
<1> HIDE DEF query, found, labels, forbidden
<1>6. /\ DOMAIN kept = found.films \cap labels /\ DOMAIN kept \subseteq found.films
      /\ pool \in SUBSET found.films /\ DOMAIN kept \cap pool = {}
  OBVIOUS
<1>7. Cardinality(DOMAIN kept) <= GroupCap
  <2>1. DOMAIN kept \subseteq labels
    OBVIOUS
  <2>2. /\ IsFiniteSet(DOMAIN kept)
        /\ Cardinality(DOMAIN kept) <= Cardinality(labels)
    BY <1>4, <2>1, FS_Subset
  <2>3. Cardinality(DOMAIN kept) \in Nat /\ Cardinality(labels) \in Nat
    BY <1>4, <2>2, FS_CardinalityType
  <2>4. HoldoutLimit \in Nat /\ GroupCap \in Nat /\ HoldoutLimit <= GroupCap
    BY SplitAssumption, RankingAssumption
  <2> QED BY <1>4, <2>2, <2>3, <2>4
<1>8. DOMAIN kept \cup pool = found.films \ forbidden
  BY <1>4
<1>9. \A f \in DOMAIN kept : kept[f] = "positive"
  OBVIOUS
<1> HIDE DEF kept, pool
<1>10. /\ Growing(query.group, kept, pool)
       /\ Cardinality(DOMAIN query.group) = Min({GroupCap, Cardinality(found.films \ forbidden)})
  <2>1. PICK seed \in Nat : seed = cell[1]
    BY <1>3
  <2>2. PICK new : new = Sampled(seed, u, found, kept, pool)
    OBVIOUS
  <2>3. /\ Growing(new, kept, pool)
        /\ Cardinality(DOMAIN new) = Min({GroupCap, Cardinality(DOMAIN kept \cup pool)})
    BY <1>2, <1>3, <1>6, <1>7, <2>2, SampledIs
  <2> QED BY <1>5, <1>8, <2>1, <2>2, <2>3
<1>11. DOMAIN query.group \subseteq found.films \ forbidden
  BY <1>8, <1>10 DEF Growing
<1>12. DOMAIN query.group \cap DOMAIN query.example.context = {}
  BY <1>2, <1>11
<1>13. found.films \cap labels \subseteq DOMAIN query.group
  BY <1>6, <1>10 DEF Growing
<1>14. \A f \in DOMAIN query.group : query.group[f] = "positive" <=> f \in labels
  BY <1>6, <1>9, <1>10, <1>11 DEF Growing
<1> QED BY <1>10, <1>11, <1>12, <1>13, <1>14 DEF HonestGroup, query, found, labels, forbidden

LEMMA FullGroupIs ==
    ASSUME NEW c \in Sound, NEW cell \in FittableCells(c), NEW part \in {"validation", "test"},
           NEW u \in DOMAIN Works[c][cell].queries[part]
    PROVE  HonestGroup(part, Works[c][cell].queries[part][u])
<1> DEFINE query == Works[c][cell].queries[part][u]
           found == query.found
           labels == DOMAIN query.example.labels
           forbidden == query.example.forbidden
<1>1. /\ query.example = ExampleOf(c, cell, part, u)
      /\ query.group = Group(cell[1], part, u, query.example, found)
      /\ IsFound(found) /\ found.films \cap DOMAIN query.example.context = {}
  <2>1. part \in Parts
    BY DEF Parts
  <2> QED BY <2>1, QueryIs
<1>2. labels \cap forbidden = {}
  <2> DEFINE split == Setups[c][cell].splits[u]
             target == IF part = "validation" THEN split.validation ELSE split.test
  <2>1. query.example = Example(part, split, << >>)
    BY <1>1 DEF ExampleOf
  <2> HIDE DEF split
  <2>2. labels = {target} \ {NoTarget} /\ forbidden = Canonical(split) \ {target}
    BY <2>1 DEF Example
  <2> QED BY <2>2
<1>3. query.group = FullGroup(found, query.example.labels, forbidden)
  BY <1>1 DEF Group
<1> HIDE DEF query, found, forbidden
<1>4. /\ DOMAIN query.group = found.films \ forbidden
      /\ \A f \in DOMAIN query.group : query.group[f] = "positive" <=> f \in labels
  BY <1>3 DEF FullGroup
<1> HIDE DEF labels
<1> QED BY <1>1, <1>2, <1>4 DEF HonestGroup, query, found, labels, forbidden

(* Every group holds the retrieved positives of its user, no film of the     *)
(* context and no other target, and is as full as the cap and the candidates *)
(* allow; the shuffled control gives every profile to one user, never its    *)
(* own, for every CSV, seed, cap and depth of the sources.                   *)
THEOREM GroupsSafe ==
    ASSUME DrawsBelow
    PROVE  Spec => []GroupsHonest
<1>1. IInv => GroupsHonest
  <2> SUFFICES ASSUME IInv, job # Idle, job.kind = "benchmark", job.pc = "metadata"
               PROVE  GroupsHonest
    BY DEF GroupsHonest
  <2>1. PICK c \in Sound : c = job.data
    BY HereIs DEF Progress, Running
  <2>2. PICK cell \in FittableCells(c) : cell = Cell
    BY <2>1, HereIs DEF Progress, Running, Writing
  <2>3. PICK part \in Parts : part = job.part
    BY HereIs DEF Running, IsJob
  <2> DEFINE queries == Works[c][cell].queries[part]
  <2>4. \A u \in DOMAIN queries : HonestGroup(part, queries[u])
    <3>1. CASE part = "train"
      BY <3>1, TrainingGroupIs
    <3>2. CASE part \in {"validation", "test"}
      BY <3>2, FullGroupIs
    <3> QED BY <3>1, <3>2 DEF Parts
  <2>5. LET donor == Donors(cell[1], cell[2], DOMAIN queries) IN
        /\ \A u \in DOMAIN queries : donor[u] = u => Cardinality(DOMAIN queries) = 1
        /\ {donor[u] : u \in DOMAIN queries} = DOMAIN queries
    <3>1. cell \in Cells /\ cell[1] \in Nat /\ cell[2] \in Nat
      BY CellsAre DEF FittableCells
    <3>2. DOMAIN queries = Setups[c][cell].users[part]
      BY QueryIs
    <3>3. DOMAIN queries \subseteq DOMAIN Data(c)
      BY <3>1, <3>2, UsersAre
    <3> HIDE DEF queries
    <3>4. IsFiniteSet(DOMAIN queries) /\ \A u \in DOMAIN queries : u \in Int
      BY <3>3, LoadedIs, FS_Subset DEF Sound
    <3>5. PICK users : users = DOMAIN queries
      OBVIOUS
    <3>6. PICK seed \in Nat : seed = cell[1]
      BY <3>1
    <3>7. PICK fold \in Nat : fold = cell[2]
      BY <3>1
    <3>8. LET donor == Donors(seed, fold, users) IN
          /\ \A u \in users : donor[u] = u => Cardinality(users) = 1
          /\ {donor[u] : u \in users} = users
      <4>1. IsFiniteSet(users) /\ \A x \in users : x \in Int
        BY <3>4, <3>5
      <4> HIDE <3>5
      <4> QED BY <4>1, DonorsAre
    <3> QED BY <3>5, <3>6, <3>7, <3>8
  <2>6. GroupsHonest <=>
            /\ \A u \in DOMAIN queries : HonestGroup(part, queries[u])
            /\ LET donor == Donors(cell[1], cell[2], DOMAIN queries) IN
               /\ \A u \in DOMAIN queries : donor[u] = u => Cardinality(DOMAIN queries) = 1
               /\ {donor[u] : u \in DOMAIN queries} = DOMAIN queries
    BY <2>1, <2>2, <2>3 DEF GroupsHonest
  <2> HIDE DEF queries
  <2> QED BY <2>4, <2>5, <2>6
<1> QED BY <1>1, Invariant, PTL

-----------------------------------------------------------------------------
(* Every user is in one fold of a seed.                                      *)

FoldsOf(c, seed) == Folds(seed, Splits(seed, Data(c)), Vocabulary(Data(c)))

LEMMA DealtIs ==
    ASSUME DrawsBelow, NEW seed \in Nat, NEW key, IsFiniteSet(DOMAIN key), DOMAIN key \subseteq Nat,
           NEW u \in DOMAIN key
    PROVE  DealtByKey(seed, key)[u] \in 0 .. FoldCount - 1
<1> DEFINE keys == {key[v] : v \in DOMAIN key}
           index == Place(keys, Lower)
           group == {v \in DOMAIN key : key[v] = key[u]}
           before == {k \in keys : k # key[u] /\ Lower(k, key[u])}
           stream == <<seed, index[key[u]] - 1, Cardinality(group)>>
           turn == Shuffled(stream, group)[u]
           start == Draw(Append(stream, 1), FoldCount)
<1>1. DealtByKey(seed, key)[u] = (turn - 1 + start) % FoldCount
  <2> DEFINE alike(w) == {v \in DOMAIN key : key[v] = key[w]}
             draws(w) == <<seed, index[key[w]] - 1, Cardinality(alike(w))>>
             dealt(w) == (Shuffled(draws(w), alike(w))[w] - 1 + Draw(Append(draws(w), 1), FoldCount))
                             % FoldCount
  <2>1. DealtByKey(seed, key) = Table([w \in DOMAIN key |-> dealt(w)])
    BY DEF DealtByKey, Dealt
  <2>2. dealt(u) = (turn - 1 + start) % FoldCount
    OBVIOUS
  <2> HIDE DEF dealt
  <2>3. DealtByKey(seed, key) = [w \in DOMAIN key |-> dealt(w)]
    BY <2>1, TableIs
  <2> QED BY <2>2, <2>3
<1>2. IsFiniteSet(group) /\ u \in group /\ \A v \in group : v \in Int
  <2>1. group \subseteq DOMAIN key
    OBVIOUS
  <2> QED BY <2>1, FS_Subset
<1>3. index[key[u]] - 1 \in Nat
  <2>1. index[key[u]] = 1 + Cardinality(before)
    BY TableIs DEF Place
  <2>2. IsFiniteSet(keys)
    BY ImageFinite
  <2>3. before \subseteq keys
    OBVIOUS
  <2> HIDE DEF keys, before, index
  <2>4. Cardinality(before) \in Nat
    BY <2>2, <2>3, FS_Subset, FS_CardinalityType
  <2> QED BY <2>1, <2>4
<1> HIDE DEF index, keys
<1>4. Cardinality(group) \in Nat
  BY <1>2, FS_CardinalityType
<1> HIDE DEF group
<1>5. stream \in Seq(Nat) /\ Append(stream, 1) \in Seq(Nat)
  <2>1. stream \in Seq(Nat)
    BY <1>3, <1>4
  <2> HIDE DEF stream
  <2> QED BY <2>1, AppendProperties
<1> HIDE DEF stream
<1>6. turn \in Int
  <2>1. Numbers(group, Shuffled(stream, group))
    BY <1>2, <1>5, ShuffledIs
  <2> QED BY <1>2, <1>4, <2>1 DEF Numbers
<1>7. FoldCount \in Nat \ {0}
  BY SplitAssumption
<1>8. start \in Int
  <2>1. start \in 0 .. FoldCount - 1
    BY <1>5, <1>7 DEF DrawsBelow
  <2> QED BY <1>7, <2>1
<1> HIDE DEF turn, start
<1>9. (turn - 1 + start) % FoldCount \in 0 .. FoldCount - 1
  BY <1>6, <1>7, <1>8
<1> QED BY <1>1, <1>9

LEMMA FoldIs ==
    ASSUME DrawsBelow, NEW c \in Sound, NEW seed \in Seeds, NEW u \in DOMAIN Data(c)
    PROVE  FoldsOf(c, seed)[u] \in 0 .. FoldCount - 1
<1> DEFINE splits == Splits(seed, Data(c))
           key == KeysOf(splits, Vocabulary(Data(c)))
<1>1. FoldsOf(c, seed) = DealtByKey(seed, key)
  BY DEF FoldsOf, Folds
<1>2. DOMAIN key = DOMAIN Data(c)
  <2>1. DOMAIN key = DOMAIN splits
    BY TableIs DEF KeysOf, FoldKeys
  <2>2. DOMAIN splits = DOMAIN Data(c)
    BY TableIs DEF Splits
  <2> QED BY <2>1, <2>2
<1> HIDE DEF key
<1>3. IsFiniteSet(DOMAIN key) /\ DOMAIN key \subseteq Nat /\ u \in DOMAIN key
  BY <1>2, LoadedIs DEF Sound
<1>4. seed \in Nat
  BY JobAssumption
<1> QED BY <1>1, <1>3, <1>4, DealtIs

(* The users a report of a fold ranks: those of the fold that have a target. *)
OneLabel(example) == DOMAIN example.labels = {example.target} \ {NoTarget}

LEMMA EligibleIs ==
    ASSUME NEW c \in Sound, NEW cell \in FittableCells(c), NEW part \in {"validation", "test"}
    PROVE  LET queries == Works[c][cell].queries[part] IN
           /\ Eligible(queries) = {u \in Setups[c][cell].users[part] : queries[u].example.target # NoTarget}
           /\ \A u \in DOMAIN queries :
                  /\ queries[u].example.target = TargetOf(c, cell[1], u, part)
                  /\ OneLabel(queries[u].example)
                  /\ queries[u].example.forbidden =
                         Canonical(Setups[c][cell].splits[u]) \ {queries[u].example.target}
<1> DEFINE queries == Works[c][cell].queries[part]
<1>0. part \in Parts /\ cell \in Cells
  BY DEF Parts, FittableCells
<1>1. DOMAIN queries = Setups[c][cell].users[part]
  BY <1>0, QueryIs
<1>2. ASSUME NEW u \in DOMAIN queries
      PROVE  LET example == queries[u].example IN
             /\ example.target = TargetOf(c, cell[1], u, part)
             /\ DOMAIN example.labels = {example.target} \ {NoTarget}
             /\ example.labels # << >> <=> example.target # NoTarget
             /\ example.forbidden = Canonical(Setups[c][cell].splits[u]) \ {example.target}
  <2> DEFINE example == queries[u].example
             split == Setups[c][cell].splits[u]
             target == IF part = "validation" THEN split.validation ELSE split.test
             value(f) == Label(split.all[f])
  <2>1. example = Example(part, split, << >>)
    <3>1. example = ExampleOf(c, cell, part, u)
      BY <1>0, QueryIs
    <3> QED BY <3>1 DEF ExampleOf
  <2>2. u \in DOMAIN Data(c)
    BY <1>0, <1>1, UsersAre
  <2>3. split = Split(cell[1], u, Data(c)[u])
    BY <1>0, <2>2, SetupIs
  <2>4. target = TargetOf(c, cell[1], u, part)
    BY <2>3 DEF TargetOf
  <2> HIDE DEF split, value, example
  <2>5. /\ example.target = target /\ example.labels = [f \in {target} \ {NoTarget} |-> value(f)]
        /\ example.forbidden = Canonical(split) \ {target}
    BY <2>1 DEF Example, value
  <2>6. CASE target = NoTarget
    <3>1. example.labels = [f \in {} |-> value(f)]
      BY <2>5, <2>6
    <3>2. [f \in {} |-> value(f)] = << >>
      OBVIOUS
    <3>3. example.labels = << >>
      BY <3>1, <3>2
    <3> QED BY <2>4, <2>5, <2>6, <3>3 DEF example, split
  <2>7. CASE target # NoTarget
    <3>1. DOMAIN example.labels = {target} \ {NoTarget} /\ target \in DOMAIN example.labels
      BY <2>5, <2>7
    <3>2. example.labels # << >>
      <4>1. \A labels : labels = << >> => DOMAIN labels = {}
        OBVIOUS
      <4> HIDE DEF target
      <4> QED BY <3>1, <4>1
    <3> HIDE DEF target
    <3> QED BY <2>4, <2>5, <2>7, <3>1, <3>2 DEF example, split
  <2> QED BY <2>6, <2>7
<1> HIDE DEF queries
<1>3. Eligible(queries) = {u \in DOMAIN queries : queries[u].example.labels # << >>}
  BY DEF Eligible
<1>4. Eligible(queries) = {u \in DOMAIN queries : queries[u].example.target # NoTarget}
  BY <1>2, <1>3
<1> QED BY <1>1, <1>2, <1>4 DEF queries, OneLabel

Tested(c, cell) == Eligible(Works[c][cell].queries["test"])

(* A user with a target is tested in its own fold and in no other.           *)
LEMMA TestedIs ==
    ASSUME DrawsBelow, NEW c \in Sound, NEW seed \in Seeds, NEW k \in 0 .. FoldCount - 1,
           <<seed, k>> \in FittableCells(c), NEW u \in DOMAIN Data(c)
    PROVE  u \in Tested(c, <<seed, k>>) <=> HasTarget(c, seed, u) /\ FoldsOf(c, seed)[u] = k
<1> DEFINE cell == <<seed, k>>
           folds == FoldsOf(c, seed)
           split == Split(seed, u, Data(c)[u])
<1>1. cell \in Cells /\ <<seed, 0>> \in Cells /\ cell[1] = seed /\ cell[2] = k
  BY SplitAssumption DEF FittableCells, Cells
<1>2. HasTarget(c, seed, u) <=> split.test # NoTarget
  <2>1. Setups[c][<<seed, 0>>].splits[u] = split
    <3>1. PICK first \in Cells : first = <<seed, 0>>
      BY <1>1
    <3>2. Setups[c][first].splits[u] = Split(first[1], u, Data(c)[u])
      BY SetupIs
    <3> QED BY <3>1, <3>2
  <2>2. /\ seed \in Nat /\ u \in Nat /\ IsFiniteSet(DOMAIN Data(c)[u])
        /\ DOMAIN Data(c)[u] \subseteq Nat
    BY JobAssumption, LoadedIs DEF Sound
  <2>3. split.validation = NoTarget <=> split.test = NoTarget
    BY <2>2, SplitIs
  <2> HIDE DEF split
  <2> QED BY <2>1, <2>3 DEF HasTarget, Canonical
<1>3. Setups[c][cell].users.test = {v \in DOMAIN Data(c) : folds[v] = k}
  <2>1. PICK here \in Cells : here = cell
    BY <1>1
  <2>2. Setups[c][here].users
            = Partition(Folds(here[1], Splits(here[1], Data(c)), Vocabulary(Data(c))), here[2])
    BY SetupIs
  <2>3. Setups[c][cell].users = Partition(folds, k)
    BY <1>1, <2>1, <2>2 DEF FoldsOf
  <2>4. DOMAIN folds = DOMAIN Data(c)
    <3>1. DOMAIN folds = DOMAIN Splits(seed, Data(c))
      BY FoldsAre DEF FoldsOf
    <3>2. DOMAIN Splits(seed, Data(c)) = DOMAIN Data(c)
      BY TableIs DEF Splits
    <3> QED BY <3>1, <3>2
  <2> HIDE DEF folds
  <2> QED BY <2>3, <2>4 DEF Partition, UsersOf
<1>4. u \in Setups[c][cell].users.test =>
          (u \in Tested(c, cell) <=> split.test # NoTarget)
  <2> SUFFICES ASSUME u \in Setups[c][cell].users.test
               PROVE  u \in Tested(c, cell) <=> split.test # NoTarget
    OBVIOUS
  <2>1. PICK here \in FittableCells(c) : here = cell
    OBVIOUS
  <2>2. u \in DOMAIN Works[c][here].queries["test"]
    BY <2>1, QueryIs DEF Parts
  <2>3. Works[c][here].queries["test"][u].example.target = TargetOf(c, here[1], u, "test")
    BY <2>2, EligibleIs
  <2>4. Tested(c, here) = {v \in Setups[c][here].users["test"] :
                              Works[c][here].queries["test"][v].example.target # NoTarget}
    BY EligibleIs DEF Tested
  <2>5. TargetOf(c, here[1], u, "test") = split.test
    BY <1>1, <2>1 DEF TargetOf
  <2> HIDE DEF split, cell
  <2> QED BY <2>1, <2>3, <2>4, <2>5
<1>5. u \in Tested(c, cell) => u \in Setups[c][cell].users.test
  <2>1. PICK here \in FittableCells(c) : here = cell
    OBVIOUS
  <2>2. Tested(c, here) \subseteq Setups[c][here].users["test"]
    BY EligibleIs DEF Tested
  <2> QED BY <2>1, <2>2
<1> HIDE DEF split, folds
<1> QED BY <1>2, <1>3, <1>4, <1>5 DEF folds

LEMMA RankedOnceIs ==
    ASSUME DrawsBelow, NEW c \in Sound, NEW seed \in Seeds,
           \A k \in 0 .. FoldCount - 1 : <<seed, k>> \in FittableCells(c),
           NEW report, \A k \in 0 .. FoldCount - 1 : DOMAIN report[k].ranks = Tested(c, <<seed, k>>)
    PROVE  RankedOnce(c, seed, report)
<1> SUFFICES ASSUME NEW u \in DOMAIN Data(c)
             PROVE  Cardinality({k \in 0 .. FoldCount - 1 : u \in DOMAIN report[k].ranks})
                        = IF HasTarget(c, seed, u) THEN 1 ELSE 0
  BY DEF RankedOnce, Users, Data
<1> DEFINE ranked == {k \in 0 .. FoldCount - 1 : u \in DOMAIN report[k].ranks}
           fold == FoldsOf(c, seed)[u]
<1>1. fold \in 0 .. FoldCount - 1
  BY FoldIs
<1>2. ASSUME NEW k \in 0 .. FoldCount - 1
      PROVE  u \in DOMAIN report[k].ranks <=> HasTarget(c, seed, u) /\ fold = k
  <2>1. <<seed, k>> \in FittableCells(c) /\ DOMAIN report[k].ranks = Tested(c, <<seed, k>>)
    OBVIOUS
  <2>2. u \in Tested(c, <<seed, k>>) <=> HasTarget(c, seed, u) /\ FoldsOf(c, seed)[u] = k
    BY <2>1, TestedIs
  <2> QED BY <2>1, <2>2
<1> HIDE DEF fold
<1>3. ranked = IF HasTarget(c, seed, u) THEN {fold} ELSE {}
  BY <1>1, <1>2
<1> HIDE DEF ranked
<1>4. Cardinality(ranked) = IF HasTarget(c, seed, u) THEN 1 ELSE 0
  BY <1>3, FS_EmptySet, FS_Singleton
<1> QED BY <1>4 DEF ranked

(* A user with a target under a seed has one under every seed, and is paired *)
(* once for each.                                                            *)
LEMMA TargetsAlike ==
    ASSUME DrawsBelow, NEW c \in Sound, NEW seed \in Seeds, NEW u \in DOMAIN Data(c)
    PROVE  HasTarget(c, seed, u) <=> Cardinality(Positives(Data(c)[u])) >= 3
<1> DEFINE split == Split(seed, u, Data(c)[u])
<1>1. PICK cell \in Cells : cell = <<seed, 0>>
  <2>1. 0 \in 0 .. FoldCount - 1
    BY SplitAssumption
  <2> QED BY <2>1 DEF Cells
<1>2. Setups[c][cell].splits[u] = split
  <2>1. cell[1] = seed
    BY <1>1
  <2>2. Setups[c][cell].splits[u] = Split(cell[1], u, Data(c)[u])
    BY SetupIs
  <2> QED BY <2>1, <2>2
<1>3. /\ seed \in Nat /\ u \in Nat /\ IsFiniteSet(DOMAIN Data(c)[u])
      /\ DOMAIN Data(c)[u] \subseteq Nat
  BY JobAssumption, LoadedIs DEF Sound
<1>4. /\ split.validation = NoTarget <=> split.test = NoTarget
      /\ split.test # NoTarget <=> Cardinality(Positives(Data(c)[u])) >= 3
  BY <1>3, SplitIs
<1> HIDE DEF split
<1> QED BY <1>1, <1>2, <1>4 DEF HasTarget, Canonical

LEMMA PairedOnce ==
    ASSUME DrawsBelow, NEW c \in Sound, Cells \subseteq FittableCells(c),
           NEW rows, DOMAIN rows = Cells, \A cell \in Cells : DOMAIN rows[cell] = Tested(c, cell),
           NEW baseline, NEW u \in DOMAIN Clustered(rows, baseline)
    PROVE  Clustered(rows, baseline)[u].observations = Cardinality(Seeds)
<1> DEFINE seen == {cell \in Cells : u \in DOMAIN rows[cell]}
           fold(seed) == FoldsOf(c, seed)[u]
           f == [seed \in Seeds |-> <<seed, fold(seed)>>]
<1>1. /\ DOMAIN Clustered(rows, baseline) = UNION {DOMAIN rows[cell] : cell \in DOMAIN rows}
      /\ Clustered(rows, baseline)[u].observations = Cardinality(seen)
  BY DEF Clustered
<1>2. PICK here \in Cells : u \in Tested(c, here)
  BY <1>1
<1>3. \A cell \in Cells : \E seed \in Seeds, k \in 0 .. FoldCount - 1 : cell = <<seed, k>>
  BY DEF Cells
<1>4. u \in DOMAIN Data(c)
  <2>1. u \in Setups[c][here].users.test
    BY <1>2, EligibleIs DEF Tested
  <2> QED BY <2>1, UsersAre DEF Parts
<1>5. ASSUME NEW seed \in Seeds, NEW k \in 0 .. FoldCount - 1
      PROVE  u \in DOMAIN rows[<<seed, k>>] <=> HasTarget(c, seed, u) /\ fold(seed) = k
  <2>1. <<seed, k>> \in Cells /\ <<seed, k>> \in FittableCells(c)
    BY DEF Cells
  <2> QED BY <1>4, <2>1, TestedIs
<1>6. \A seed \in Seeds : HasTarget(c, seed, u)
  <2>1. PICK seed \in Seeds, k \in 0 .. FoldCount - 1 : here = <<seed, k>>
    BY <1>3
  <2>2. HasTarget(c, seed, u)
    BY <1>2, <1>5, <2>1
  <2> QED BY <1>4, <2>2, TargetsAlike
<1>7. \A seed \in Seeds : fold(seed) \in 0 .. FoldCount - 1
  BY <1>4, FoldIs
<1> HIDE DEF fold
<1>8. f \in Bijection(Seeds, seen)
  <2>1. ASSUME NEW seed \in Seeds PROVE f[seed] \in seen
    BY <1>5, <1>6, <1>7 DEF Cells
  <2>2. \A s, t \in Seeds : f[s] = f[t] => s = t
    OBVIOUS
  <2>3. ASSUME NEW cell \in seen PROVE \E seed \in Seeds : f[seed] = cell
    <3>1. PICK seed \in Seeds, k \in 0 .. FoldCount - 1 : cell = <<seed, k>>
      BY <1>3
    <3> QED BY <1>5, <3>1
  <2>4. f \in [Seeds -> seen]
    BY <2>1
  <2> HIDE DEF f, seen
  <2>5. f \in Injection(Seeds, seen)
    BY <2>2, <2>4 DEF Injection, IsInjective
  <2>6. f \in Surjection(Seeds, seen)
    BY <2>3, <2>4 DEF Surjection
  <2> QED BY <2>5, <2>6 DEF Bijection
<1>9. Cardinality(Seeds) = Cardinality(seen)
  <2>1. ExistsBijection(Seeds, seen)
    BY <1>8 DEF ExistsBijection
  <2> HIDE DEF seen
  <2> QED BY <2>1, JobAssumption, FS_Bijection
<1> QED BY <1>1, <1>9

-----------------------------------------------------------------------------
(* Sums.                                                                     *)

Gains(ranks) == [u \in DOMAIN ranks |-> Gain(ranks[u])]

LEMMA ViewIs ==
    ASSUME NEW ranks
    PROVE  /\ View(ranks).users = Cardinality(DOMAIN ranks)
           /\ View(ranks).ndcg = IF DOMAIN ranks = {} THEN 0
                                 ELSE (Scale * Total(Gains(ranks), DOMAIN ranks))
                                          \div Cardinality(DOMAIN ranks)
<1> DEFINE S == DOMAIN ranks
           F == Gains(ranks)
           Eq(g) == g = [T \in SUBSET S |-> IF T = {} THEN 0
                            ELSE Gain(ranks[Picked(T)]) + g[T \ {Picked(T)}]]
           h == CHOOSE g : Eq(g)
<1>1. View(ranks).users = Cardinality(S)
  BY DEF View
<1>2. View(ranks).ndcg = IF S = {} THEN 0 ELSE (Scale * h[S]) \div Cardinality(S)
  BY DEF View, MapThenSumSet, MapThenFoldSet, Picked
<1>3. ASSUME NEW g PROVE Eq(g) <=> Totals(F, S, g)
  <2>1. \A T \in SUBSET S : T # {} => F[Picked(T)] = Gain(ranks[Picked(T)])
    BY DEF Picked, Gains
  <2>2. [T \in SUBSET S |-> IF T = {} THEN 0 ELSE Gain(ranks[Picked(T)]) + g[T \ {Picked(T)}]]
            = [T \in SUBSET S |-> IF T = {} THEN 0 ELSE F[Picked(T)] + g[T \ {Picked(T)}]]
    <3> HIDE DEF F
    <3> QED BY <2>1
  <2> HIDE DEF F
  <2> QED BY <2>2 DEF Totals
<1> HIDE DEF Eq
<1>4. h = CHOOSE g : Totals(F, S, g)
  BY <1>3, Zenon
<1> QED BY <1>1, <1>2, <1>4 DEF Total

LEMMA ModelRanksAre ==
    ASSUME NEW c \in Sound, NEW cell \in FittableCells(c), NEW part \in {"validation", "test"},
           NEW name
    PROVE  LET queries == Works[c][cell].queries[part]
               ranks   == ModelReport(Works[c][cell], part, name).ranks
               films(u) == DOMAIN queries[u].group
           IN  /\ ModelReport(Works[c][cell], part, name) = StrategyReport(ranks)
               /\ DOMAIN ranks = Eligible(queries)
               /\ \A u \in Eligible(queries) :
                      ranks[u] = TargetRank(films(u), [f \in films(u) |-> Fraction(Prediction[name][f], 1)],
                                            queries[u].example.target)
<1> DEFINE queries == Works[c][cell].queries[part]
           ranks == ModelReport(Works[c][cell], part, name).ranks
           score(u) == [f \in DOMAIN queries[u].group |-> Fraction(Prediction[name][f], 1)]
           rank(u) == TargetRank(DOMAIN queries[u].group, Table(score(u)), queries[u].example.target)
           all == [u \in Eligible(queries) |-> rank(u)]
<1>1. ModelReport(Works[c][cell], part, name) = StrategyReport(Table(all))
  BY DEF ModelReport, Ranks
<1> HIDE DEF rank
<1>2. Table(all) = all
  BY TableIs
<1>3. ranks = all /\ ModelReport(Works[c][cell], part, name) = StrategyReport(ranks)
  BY <1>1, <1>2 DEF StrategyReport
<1>4. \A u : rank(u) = TargetRank(DOMAIN queries[u].group, score(u), queries[u].example.target)
  BY TableIs DEF rank
<1> HIDE DEF ranks, queries, rank
<1> QED BY <1>3, <1>4 DEF ranks, queries

(* The films of an evaluation group.                                         *)
LEMMA EvaluationIs ==
    ASSUME NEW c \in Sound, NEW cell \in FittableCells(c), NEW part \in {"validation", "test"},
           NEW u \in DOMAIN Works[c][cell].queries[part]
    PROVE  LET query  == Works[c][cell].queries[part][u]
               target == query.example.target
           IN  /\ IsFiniteSet(DOMAIN query.group) /\ DOMAIN query.group \subseteq Int
               /\ DOMAIN query.group \subseteq Films
               /\ DOMAIN query.example.labels = {target} \ {NoTarget}
               /\ query.source = "missed" <=> target \notin DOMAIN query.group
<1> DEFINE queries == Works[c][cell].queries[part]
           query == queries[u]
           target == query.example.target
           found == query.found
<1>1. /\ query.group = Group(cell[1], part, u, query.example, found)
      /\ query.source = Source(found, target)
      /\ IsFound(found) /\ found.films \subseteq Films
  <2>1. part \in Parts
    BY DEF Parts
  <2>2. Vocabulary(Data(c)) \subseteq Films
    BY LoadedIs DEF Sound, Vocabulary
  <2> QED BY <2>1, <2>2, QueryIs
<1>2. DOMAIN query.example.labels = {target} \ {NoTarget} /\ target \notin query.example.forbidden
  <2> HIDE DEF queries
  <2>1. /\ DOMAIN query.example.labels = {target} \ {NoTarget}
        /\ query.example.forbidden = Canonical(Setups[c][cell].splits[u]) \ {target}
    <3>1. OneLabel(query.example)
      BY EligibleIs DEF queries
    <3>2. query.example.forbidden = Canonical(Setups[c][cell].splits[u]) \ {target}
      BY EligibleIs DEF queries
    <3> QED BY <3>1, <3>2 DEF OneLabel
  <2> QED BY <2>1
<1>3. query.group = FullGroup(found, query.example.labels, query.example.forbidden)
  BY <1>1 DEF Group
<1> HIDE DEF query, queries
<1>4. DOMAIN query.group = found.films \ query.example.forbidden
  BY <1>3 DEF FullGroup
<1>5. query.source = "missed" <=> target \notin found.films
  <2>1. \A f : Source(found, f) = "missed" <=> f \notin found.films
    <3> TAKE f
    <3>1. Source(found, f) = IF f \notin found.films THEN "missed"
                             ELSE IF f \in DOMAIN found.svd \cap DOMAIN found.popular THEN "both"
                             ELSE IF f \in DOMAIN found.svd \ DOMAIN found.popular THEN "svd_only"
                             ELSE "popularity_only"
      BY <1>1 DEF Source, IsFound
    <3> QED BY <3>1
  <2> QED BY <1>1, <2>1
<1>6. /\ IsFiniteSet(DOMAIN query.group) /\ DOMAIN query.group \subseteq Int
      /\ DOMAIN query.group \subseteq Films
  BY <1>1, <1>4, FS_Subset DEF IsFound
<1> QED BY <1>2, <1>4, <1>5, <1>6 DEF query, queries

(* A miss is ranked 0 and kept.                                              *)
LEMMA MissesAre ==
    ASSUME NEW c \in Sound, NEW cell \in FittableCells(c), NEW name,
           NEW u \in Eligible(Works[c][cell].queries["test"])
    PROVE  ModelReport(Works[c][cell], "test", name).ranks[u] = 0
               <=> Works[c][cell].queries["test"][u].source = "missed"
<1> DEFINE query == Works[c][cell].queries["test"][u]
           films == DOMAIN query.group
           target == query.example.target
           score == [f \in films |-> Fraction(Prediction[name][f], 1)]
           above == {f \in films : \/ Below(score[target], score[f])
                                   \/ /\ ~Below(score[f], score[target])
                                      /\ f < target}
           rank == TargetRank(films, score, target)
<1>1. ModelReport(Works[c][cell], "test", name).ranks[u] = rank
  BY ModelRanksAre
<1>2. u \in DOMAIN Works[c][cell].queries["test"]
  BY DEF Eligible
<1>3. IsFiniteSet(films) /\ (query.source = "missed" <=> target \notin films)
  BY <1>2, EvaluationIs
<1>4. rank = IF target \notin films THEN 0 ELSE 1 + Cardinality(above)
  BY DEF TargetRank
<1>5. 1 + Cardinality(above) \in Nat \ {0}
  <2>1. above \in SUBSET films
    OBVIOUS
  <2> HIDE DEF above, films
  <2> QED BY <1>3, <2>1, PlaceIsNumber
<1> HIDE DEF above, rank, films, query
<1> QED BY <1>1, <1>3, <1>4, <1>5 DEF query

(* The segments of a report add up to it.                                    *)
LEMMA SegmentsAddUp ==
    ASSUME NEW queries, NEW ranks, IsFiniteSet(DOMAIN ranks),
           NEW d \in {"target_stratum", "history_depth", "target_source"},
           NEW report, report = Segments(queries, ranks)[d]
    PROVE  MapThenSumSet(LAMBDA n : report[n].eligible, DOMAIN report) = Cardinality(DOMAIN ranks)
<1> DEFINE U == DOMAIN ranks
           class == [u \in U |-> Segment(queries[u], d)]
           of(n) == {u \in U : class[u] = n}
           sizes == [n \in {class[u] : u \in U} |-> Cardinality(of(n))]
           S == DOMAIN report
           Eq(g) == g = [T \in SUBSET S |-> IF T = {} THEN 0
                            ELSE report[Picked(T)].eligible + g[T \ {Picked(T)}]]
           h == CHOOSE g : Eq(g)
<1>1. MapThenSumSet(LAMBDA n : report[n].eligible, S) = h[S]
  BY DEF MapThenSumSet, MapThenFoldSet, Picked
<1>2. report = [n \in {class[u] : u \in U} |-> StrategyReport(Restrict(ranks, of(n)))]
  BY DEF Segments
<1>3. S = DOMAIN sizes /\ \A n \in S : report[n].eligible = sizes[n]
  <2>1. \A n : DOMAIN Restrict(ranks, of(n)) = of(n)
    BY DEF Restrict
  <2> HIDE DEF of, class
  <2>2. \A n \in {class[u] : u \in U} : report[n].eligible = Cardinality(of(n))
    BY <1>2, <2>1 DEF StrategyReport
  <2> QED BY <1>2, <2>2
<1>4. ASSUME NEW g PROVE Eq(g) <=> Totals(sizes, S, g)
  <2>1. \A T \in SUBSET S : T # {} => report[Picked(T)].eligible = sizes[Picked(T)]
    BY <1>3 DEF Picked
  <2> HIDE DEF sizes
  <2>2. [T \in SUBSET S |-> IF T = {} THEN 0 ELSE report[Picked(T)].eligible + g[T \ {Picked(T)}]]
            = [T \in SUBSET S |-> IF T = {} THEN 0 ELSE sizes[Picked(T)] + g[T \ {Picked(T)}]]
    BY <2>1
  <2> QED BY <2>2 DEF Totals
<1>5. Total(sizes, DOMAIN sizes) = Cardinality(U)
  <2>1. DOMAIN class = U /\ sizes = [n \in {class[u] : u \in U} |-> Cardinality({u \in U : class[u] = n})]
    OBVIOUS
  <2> HIDE DEF class, sizes, U
  <2>2. IsFiniteSet(U)
    BY DEF U
  <2> QED BY <2>1, <2>2, ClassesAddUp
<1> HIDE DEF Eq, sizes
<1>6. h = CHOOSE g : Totals(sizes, S, g)
  BY <1>4, Zenon
<1> QED BY <1>1, <1>3, <1>5, <1>6 DEF Total

(* Sorting the films of a group by their score puts the target at its rank.  *)
Sorted(films, value) ==
    Place(films, LAMBDA f, g :
              \/ Below(Fraction(value[g], 1), Fraction(value[f], 1))
              \/ ~Below(Fraction(value[f], 1), Fraction(value[g], 1)) /\ f < g)

LEMMA PlaceIsTargetRank ==
    ASSUME NEW films, IsFiniteSet(films), films \subseteq Int, NEW target \in films,
           NEW value, \A f \in films : value[f] \in Int
    PROVE  LET rank == Sorted(films, value)[target] IN
           rank = TargetRank(films, [f \in films |-> Fraction(value[f], 1)], target) /\ rank \in Int
<1> DEFINE score == [f \in films |-> Fraction(value[f], 1)]
           ahead(x) == {y \in films : y # x /\ (\/ Below(Fraction(value[x], 1), Fraction(value[y], 1))
                                                \/ ~Below(Fraction(value[y], 1), Fraction(value[x], 1))
                                                   /\ y < x)}
           above == {f \in films : \/ Below(score[target], score[f])
                                   \/ /\ ~Below(score[f], score[target])
                                      /\ f < target}
           order == Sorted(films, value)
<1>1. order[target] = 1 + Cardinality(ahead(target))
  <2>1. order = Table([x \in films |-> 1 + Cardinality(ahead(x))])
    BY DEF Sorted, Place
  <2> HIDE DEF ahead, order
  <2> QED BY <2>1, TableIs
<1>2. TargetRank(films, score, target) = 1 + Cardinality(above)
  BY DEF TargetRank
<1>3. ahead(target) = above
  <2>1. ~Below(score[target], score[target]) /\ ~(target < target)
    <3>1. target \in Int /\ value[target] \in Int
      OBVIOUS
    <3> QED BY <3>1 DEF Below, Fraction
  <2>2. \A f \in films : score[f] = Fraction(value[f], 1)
    OBVIOUS
  <2> HIDE DEF score
  <2> QED BY <2>1, <2>2
<1>4. 1 + Cardinality(above) \in Nat
  <2>1. above \in SUBSET films
    OBVIOUS
  <2> HIDE DEF above
  <2> QED BY <2>1, PlaceIsNumber
<1> HIDE DEF above, ahead, order, score
<1>5. order[target] = TargetRank(films, score, target) /\ order[target] \in Int
  BY <1>1, <1>2, <1>3, <1>4
<1> QED BY <1>5 DEF order, score

(* The value early stopping maximizes is the one the report shows.           *)
LEMMA CheckpointIs ==
    ASSUME NEW c \in Sound, NEW cell \in FittableCells(c), NEW name \in DOMAIN Prediction
    PROVE  Checkpoint(Works[c][cell].queries["validation"],
                      LAMBDA u, f : Fraction(Prediction[name][f], 1))
               = ModelReport(Works[c][cell], "validation", name).global.ndcg
<1> DEFINE queries == Works[c][cell].queries["validation"]
           ranks == ModelReport(Works[c][cell], "validation", name).ranks
           S == DOMAIN ranks
           value == Prediction[name]
           films(u) == DOMAIN queries[u].group
           order(u) == Sorted(films(u), value)
           hit(u) == films(u) \cap DOMAIN queries[u].example.labels
           best(u) == IF hit(u) = {} THEN 0 ELSE Gain(Min({order(u)[f] : f \in hit(u)}))
           counted == {u \in Groups("validation", queries) : queries[u].example.target # NoTarget}
           Eq(g) == g = [T \in SUBSET counted |-> IF T = {} THEN 0
                            ELSE best(Picked(T)) + g[T \ {Picked(T)}]]
           h == CHOOSE g : Eq(g)
           F == Gains(ranks)
<1>1. Checkpoint(queries, LAMBDA u, f : Fraction(value[f], 1))
          = IF counted = {} THEN 0 ELSE (Scale * h[counted]) \div Cardinality(counted)
  BY DEF Checkpoint, Sorted, MapThenSumSet, MapThenFoldSet, Picked
<1>2. counted = S
  <2>1. S = Eligible(queries)
    BY ModelRanksAre
  <2>2. Eligible(queries) = {u \in Setups[c][cell].users["validation"] : queries[u].example.target # NoTarget}
    BY EligibleIs
  <2>3. DOMAIN queries = Setups[c][cell].users["validation"]
    BY QueryIs DEF Parts
  <2>4. Groups("validation", queries) = DOMAIN queries
    BY DEF Groups, HasGroup
  <2> HIDE DEF queries, S
  <2> QED BY <2>1, <2>2, <2>3, <2>4
<1>3. ASSUME NEW u \in S PROVE best(u) = F[u]
  <2> DEFINE target == queries[u].example.target
             score == [f \in films(u) |-> Fraction(value[f], 1)]
  <2>1. u \in Eligible(queries) /\ ranks[u] = TargetRank(films(u), score, target)
    BY ModelRanksAre
  <2>2. u \in DOMAIN queries
    BY <2>1 DEF Eligible
  <2>3. /\ IsFiniteSet(films(u)) /\ films(u) \subseteq Int
        /\ DOMAIN queries[u].example.labels = {target} \ {NoTarget}
    BY <2>2, EvaluationIs
  <2>4. \A f \in films(u) : value[f] \in Int
    BY <2>2, EvaluationIs, RankingAssumption DEF Films
  <2>5. target # NoTarget
    BY <1>2
  <2>6. hit(u) = films(u) \cap {target}
    BY <2>3, <2>5
  <2>7. CASE target \in films(u)
    <3>1. order(u)[target] = TargetRank(films(u), score, target) /\ order(u)[target] \in Int
      <4> HIDE DEF films, value, target
      <4> QED BY <2>3, <2>4, <2>7, PlaceIsTargetRank
    <3> HIDE DEF order, films, hit, target, score
    <3>2. hit(u) = {target} /\ {order(u)[f] : f \in hit(u)} = {order(u)[target], order(u)[target]}
      BY <2>6, <2>7
    <3>3. Min({order(u)[target], order(u)[target]}) = order(u)[target]
      BY <3>1, MinOfTwo
    <3> QED BY <2>1, <3>1, <3>2, <3>3 DEF Gains
  <2>8. CASE target \notin films(u)
    <3>1. hit(u) = {} /\ ranks[u] = 0
      BY <2>1, <2>6, <2>8 DEF TargetRank
    <3>2. Gain(0) = 0
      BY RankingAssumption DEF Gain
    <3> HIDE DEF hit
    <3> QED BY <3>1, <3>2 DEF Gains
  <2> QED BY <2>7, <2>8
<1> HIDE DEF best
<1>4. ASSUME NEW g PROVE Eq(g) <=> Totals(F, S, g)
  <2>1. \A T \in SUBSET S : T # {} => best(Picked(T)) = F[Picked(T)]
    BY <1>3 DEF Picked
  <2> HIDE DEF F, S
  <2>2. [T \in SUBSET S |-> IF T = {} THEN 0 ELSE best(Picked(T)) + g[T \ {Picked(T)}]]
            = [T \in SUBSET S |-> IF T = {} THEN 0 ELSE F[Picked(T)] + g[T \ {Picked(T)}]]
    BY <2>1
  <2> QED BY <1>2, <2>2 DEF Totals
<1> HIDE DEF Eq, F, S
<1>5. h = CHOOSE g : Totals(F, S, g)
  BY <1>4, Zenon
<1>6. View(ranks).ndcg = IF S = {} THEN 0 ELSE (Scale * Total(F, S)) \div Cardinality(S)
  BY ViewIs DEF F, S
<1>7. ModelReport(Works[c][cell], "validation", name).global = View(ranks)
  <2> HIDE DEF ranks
  <2>1. ModelReport(Works[c][cell], "validation", name) = StrategyReport(ranks)
    BY ModelRanksAre DEF ranks
  <2> QED BY <2>1 DEF StrategyReport
<1> HIDE DEF counted, h, ranks, queries
<1>8. Checkpoint(queries, LAMBDA u, f : Fraction(value[f], 1)) = View(ranks).ndcg
  BY <1>1, <1>2, <1>5, <1>6 DEF Total
<1> QED BY <1>7, <1>8 DEF queries, ranks

LEMMA TestReportIs ==
    ASSUME NEW c \in Sound, NEW cell \in FittableCells(c), NEW name \in DOMAIN Prediction
    PROVE  TestReports[c][cell][name] = ModelReport(Works[c][cell], "test", name)
<1> DEFINE of(k) == Table([n \in DOMAIN Prediction |-> ModelReport(Works[c][k], "test", n)])
<1>1. TestReports[c] = Table([k \in FittableCells(c) |-> of(k)])
  BY TableIs DEF TestReports
<1>2. of(cell)[name] = ModelReport(Works[c][cell], "test", name)
  BY TableIs
<1> HIDE DEF of
<1>3. TestReports[c][cell] = of(cell)
  BY <1>1, TableIs
<1> QED BY <1>2, <1>3

LEMMA AccountedIs ==
    ASSUME NEW c \in Sound, NEW cell \in FittableCells(c), NEW name \in DOMAIN Prediction
    PROVE  Accounted(c, cell, name)
<1> DEFINE work == Works[c][cell]
           queries == work.queries["test"]
           report == TestReports[c][cell][name]
           ranks == report.ranks
           parts == Segments(queries, ranks)
<1>1. /\ report = ModelReport(work, "test", name) /\ report = StrategyReport(ranks)
      /\ DOMAIN ranks = Eligible(queries)
  <2>1. report = ModelReport(work, "test", name)
    BY TestReportIs
  <2> HIDE DEF report
  <2> QED BY <2>1, ModelRanksAre
<1>2. IsFiniteSet(DOMAIN ranks)
  <2>1. Eligible(queries) \subseteq Setups[c][cell].users["test"]
    BY EligibleIs
  <2>2. cell \in Cells /\ "test" \in Parts
    BY DEF FittableCells, Parts
  <2>3. Setups[c][cell].users["test"] \subseteq DOMAIN Data(c)
    BY <2>2, UsersAre
  <2>4. IsFiniteSet(DOMAIN Data(c))
    BY LoadedIs DEF Sound
  <2> HIDE DEF queries, report
  <2> QED BY <1>1, <2>1, <2>3, <2>4, FS_Subset
<1>3. \A u \in DOMAIN ranks : ranks[u] = 0 <=> queries[u].source = "missed"
  BY <1>1, MissesAre
<1>4. ASSUME NEW d \in DOMAIN parts
      PROVE  MapThenSumSet(LAMBDA n : parts[d][n].eligible, DOMAIN parts[d]) = report.global.users
  <2>1. d \in {"target_stratum", "history_depth", "target_source"}
    BY DEF Segments
  <2>2. MapThenSumSet(LAMBDA n : parts[d][n].eligible, DOMAIN parts[d]) = Cardinality(DOMAIN ranks)
    BY <1>2, <2>1, SegmentsAddUp
  <2>3. report.global = View(ranks)
    BY <1>1 DEF StrategyReport
  <2>4. View(ranks).users = Cardinality(DOMAIN ranks)
    BY ViewIs
  <2> QED BY <2>2, <2>3, <2>4
<1>5. Checkpoint(work.queries["validation"], LAMBDA u, f : Fraction(Prediction[name][f], 1))
          = ModelReport(work, "validation", name).global.ndcg
  BY CheckpointIs
<1> QED BY <1>3, <1>4, <1>5 DEF Accounted

-----------------------------------------------------------------------------
(* The choice of a configuration: the keys have a least one.                 *)

LEMMA LeastKey ==
    ASSUME NEW S, IsFiniteSet(S), S # {}, NEW n \in Nat,
           NEW key, \A x \in S : key[x] \in [1 .. n -> Int],
           \A x, y \in S : key[x] = key[y] => x = y
    PROVE  \E x \in S : \A y \in S \ {x} : Lower(key[x], key[y])
<1> DEFINE ahead(x) == {y \in S : y # x /\ Lower(key[y], key[x])}
           r == [x \in S |-> 1 + Cardinality(ahead(x))]
<1>1. Numbers(S, r)
  <2>1. r = [x \in S |-> 1 + Cardinality({y \in S : y # x /\ Lower(key[y], key[x])})]
    OBVIOUS
  <2> HIDE DEF r
  <2> QED BY <2>1, PlaceByKey
<1>2. Cardinality(S) \in Nat \ {0}
  BY FS_CardinalityType, FS_EmptySet
<1> HIDE DEF ahead
<1>3. PICK x \in S : r[x] = 1
  BY <1>1, <1>2 DEF Numbers
<1>4. ahead(x) = {}
  <2>1. ahead(x) \in SUBSET S
    BY DEF ahead
  <2>2. IsFiniteSet(ahead(x)) /\ Cardinality(ahead(x)) \in Nat
    BY <2>1, FS_Subset, FS_CardinalityType
  <2>3. Cardinality(ahead(x)) = 0
    BY <1>3, <2>2
  <2> QED BY <2>2, <2>3, FS_EmptySet
<1>5. ASSUME NEW y \in S \ {x} PROVE Lower(key[x], key[y])
  <2>1. PICK a : a = key[x]
    OBVIOUS
  <2>2. PICK b : b = key[y]
    OBVIOUS
  <2>3. a \in [1 .. n -> Int] /\ b \in [1 .. n -> Int] /\ a # b
    BY <2>1, <2>2
  <2>4. Lower(a, b) \/ Lower(b, a)
    BY <2>3, LowerOrders
  <2>5. ~Lower(key[y], key[x])
    BY <1>4 DEF ahead
  <2> QED BY <2>1, <2>2, <2>4, <2>5
<1> QED BY <1>5

LEMMA GreatestIn ==
    ASSUME NEW T, IsFiniteSet(T), T \subseteq Int, T # {}
    PROVE  Max(T) \in T /\ \A m \in T : m <= Max(T)
<1> DEFINE key == [x \in T |-> <<-x>>]
<1>1. /\ \A x \in T : key[x] \in [1 .. 1 -> Int]
      /\ \A x, y \in T : key[x] = key[y] => x = y
      /\ \A x, y \in T : Lower(key[x], key[y]) => y < x
  <2>1. ASSUME NEW x \in T PROVE key[x] \in [1 .. 1 -> Int] /\ key[x][1] = -x
    OBVIOUS
  <2>2. ASSUME NEW x \in T, NEW y \in T, key[x] = key[y] PROVE x = y
    <3>1. x \in Int /\ y \in Int /\ -x = -y
      BY <2>1, <2>2
    <3> QED BY <3>1
  <2>3. ASSUME NEW x \in T, NEW y \in T, Lower(key[x], key[y]) PROVE y < x
    <3>1. PICK i \in DOMAIN key[x] : key[x][i] < key[y][i]
      BY <2>3 DEF Lower
    <3>2. i = 1
      BY <2>1
    <3>3. x \in Int /\ y \in Int /\ -x < -y
      BY <2>1, <3>1, <3>2
    <3> QED BY <3>3
  <2> QED BY <2>1, <2>2, <2>3
<1> HIDE DEF key
<1>2. PICK x \in T : \A y \in T \ {x} : Lower(key[x], key[y])
  <2>1. PICK n \in Nat : n = 1
    OBVIOUS
  <2>2. \A y \in T : key[y] \in [1 .. n -> Int]
    BY <1>1, <2>1
  <2> QED BY <1>1, <2>2, LeastKey
<1>3. \A y \in T : y <= x
  BY <1>1, <1>2
<1> QED BY <1>3 DEF Max

LEMMA ConfigurationsAre ==
    /\ IsFiniteSet(Configurations) /\ DefaultConfiguration \in Configurations
    /\ \A conf \in Configurations :
           /\ conf.weight \in DOMAIN Weights /\ conf.weight \in Nat /\ conf.k \in RrfK /\ conf.k \in Nat
           /\ conf = [weight |-> conf.weight, k |-> conf.k]
<1> DEFINE pairs == (DOMAIN Weights) \X RrfK
           named == [p \in pairs |-> [weight |-> p[1], k |-> p[2]]]
<1>1. /\ DOMAIN Weights = 1 .. Len(Weights) /\ Len(Weights) \in Nat
      /\ RrfK \subseteq Nat /\ DefaultConfiguration \in Configurations
  BY RankingAssumption, LenProperties DEF Configurations
<1>2. IsFiniteSet(pairs)
  <2>1. IsFiniteSet(DOMAIN Weights) /\ IsFiniteSet(RrfK)
    <3>1. IsFiniteSet(1 .. Len(Weights))
      BY <1>1, FS_Interval
    <3> QED BY <1>1, <3>1, RankingAssumption
  <2> QED BY <2>1, FS_Product
<1>3. IsFiniteSet({named[p] : p \in pairs})
  <2> HIDE DEF pairs
  <2>1. DOMAIN named = pairs
    OBVIOUS
  <2> HIDE DEF named
  <2> QED BY <1>2, <2>1, ImageFinite
<1>4. \A conf \in Configurations :
          /\ conf.weight \in DOMAIN Weights /\ conf.k \in RrfK
          /\ conf = [weight |-> conf.weight, k |-> conf.k]
  BY DEF Configurations
<1>5. Configurations \subseteq {named[p] : p \in pairs}
  <2> SUFFICES ASSUME NEW conf \in Configurations PROVE \E p \in pairs : named[p] = conf
    OBVIOUS
  <2>1. <<conf.weight, conf.k>> \in pairs /\ named[<<conf.weight, conf.k>>] = conf
    <3>1. \A p \in pairs : named[p] = [weight |-> p[1], k |-> p[2]]
      OBVIOUS
    <3>2. <<conf.weight, conf.k>> \in pairs
      BY <1>4
    <3> HIDE DEF named, pairs
    <3>3. named[<<conf.weight, conf.k>>] = [weight |-> conf.weight, k |-> conf.k]
      BY <3>1, <3>2
    <3> QED BY <1>4, <3>2, <3>3
  <2> QED BY <2>1
<1>6. IsFiniteSet(Configurations)
  <2> HIDE DEF named
  <2> QED BY <1>3, <1>5, FS_Subset
<1>7. \A conf \in Configurations : conf.weight \in Nat /\ conf.k \in Nat
  BY <1>1, <1>4
<1> HIDE DEF pairs, named
<1> QED BY <1>1, <1>4, <1>6, <1>7

LEMMA SimplicityIs ==
    ASSUME NEW conf \in Configurations
    PROVE  /\ Simplicity(conf) \in [1 .. 5 -> Int]
           /\ Simplicity(conf)[4] = conf.k /\ Simplicity(conf)[5] = conf.weight
<1>1. \A a, b \in Int : Distance(a, b) \in Int
  BY MaxOfTwo DEF Distance
<1>2. /\ conf.k \in Nat /\ conf.weight \in Nat
      /\ Weights[conf.weight][1] \in Int /\ DefaultConfiguration.k \in Int
  <2>1. conf.weight \in DOMAIN Weights
    BY ConfigurationsAre
  <2>2. Weights[conf.weight] \in Nat \X Nat
    BY <2>1, RankingAssumption
  <2> QED BY <2>2, ConfigurationsAre
<1>3. Distance(Weights[conf.weight][1], 50) \in Int /\ Distance(conf.k, DefaultConfiguration.k) \in Int
  <2>1. PICK w : w = Weights[conf.weight][1]
    OBVIOUS
  <2>2. PICK k : k = conf.k
    OBVIOUS
  <2>3. w \in Int /\ 50 \in Int /\ k \in Int
    BY <1>2, <2>1, <2>2
  <2>4. Distance(w, 50) \in Int /\ Distance(k, DefaultConfiguration.k) \in Int
    BY <1>1, <1>2, <2>3
  <2> QED BY <2>1, <2>2, <2>4
<1> QED BY <1>2, <1>3 DEF Simplicity

(* The values a choice compares are integers.                                *)
LEMMA GainIs ==
    ASSUME NEW rank
    PROVE  Gain(rank) \in Int
<1>1. CASE rank \notin 1 .. Cutoff
  BY <1>1 DEF Gain
<1>2. CASE rank \in 1 .. Cutoff
  <2> DEFINE table == <<1000, 631, 500, 431, 387, 356, 333, 315, 301, 289,
                        279, 270, 263, 256, 250, 245, 240, 235, 231, 228>>
  <2>1. Gain(rank) = table[rank]
    BY <1>2 DEF Gain
  <2>2. rank \in 1 .. 20
    BY <1>2, RankingAssumption
  <2>3. table \in [1 .. 20 -> Int]
    OBVIOUS
  <2> HIDE DEF table
  <2> QED BY <2>1, <2>2, <2>3
<1> QED BY <1>1, <1>2

Recalled(ranks) == [u \in DOMAIN ranks |-> IF ranks[u] \in 1 .. Cutoff THEN 1000 ELSE 0]

LEMMA RecallIs ==
    ASSUME NEW ranks
    PROVE  View(ranks).recall = IF DOMAIN ranks = {} THEN 0
                                ELSE (Scale * Total(Recalled(ranks), DOMAIN ranks))
                                         \div Cardinality(DOMAIN ranks)
<1> DEFINE S == DOMAIN ranks
           F == Recalled(ranks)
           worth(u) == IF ranks[u] \in 1 .. Cutoff THEN 1000 ELSE 0
           Eq(g) == g = [T \in SUBSET S |-> IF T = {} THEN 0
                            ELSE worth(Picked(T)) + g[T \ {Picked(T)}]]
           h == CHOOSE g : Eq(g)
<1>1. View(ranks).recall = IF S = {} THEN 0 ELSE (Scale * h[S]) \div Cardinality(S)
  BY DEF View, MapThenSumSet, MapThenFoldSet, Picked
<1>2. ASSUME NEW g PROVE Eq(g) <=> Totals(F, S, g)
  <2>1. \A T \in SUBSET S : T # {} => F[Picked(T)] = worth(Picked(T))
    BY DEF Picked, Recalled
  <2> HIDE DEF F, worth
  <2>2. [T \in SUBSET S |-> IF T = {} THEN 0 ELSE worth(Picked(T)) + g[T \ {Picked(T)}]]
            = [T \in SUBSET S |-> IF T = {} THEN 0 ELSE F[Picked(T)] + g[T \ {Picked(T)}]]
    BY <2>1
  <2> QED BY <2>2 DEF Totals
<1> HIDE DEF Eq
<1>3. h = CHOOSE g : Totals(F, S, g)
  BY <1>2, Zenon
<1> QED BY <1>1, <1>3 DEF Total

LEMMA TotalIsInt ==
    ASSUME NEW S, IsFiniteSet(S), NEW f \in [S -> Int]
    PROVE  Total(f, S) \in Int
<1> DEFINE g == CHOOSE h : Totals(f, S, h)
<1>1. Totals(f, S, g)
  BY TotalIs
<1> HIDE DEF g
<1>2. g[S] \in Int
  BY <1>1, TotalType
<1> QED BY <1>2 DEF Total, g

LEMMA ViewType ==
    ASSUME NEW ranks, IsFiniteSet(DOMAIN ranks)
    PROVE  View(ranks).ndcg \in Int /\ View(ranks).recall \in Int
<1> DEFINE S == DOMAIN ranks
           n == Cardinality(S)
           gains == Total(Gains(ranks), S)
           hits == Total(Recalled(ranks), S)
<1>1. Gains(ranks) \in [S -> Int] /\ Recalled(ranks) \in [S -> Int]
  BY GainIs DEF Gains, Recalled
<1>2. gains \in Int /\ hits \in Int
  BY <1>1, TotalIsInt
<1>3. S # {} => n \in Nat \ {0}
  BY FS_CardinalityType, FS_EmptySet
<1>4. /\ View(ranks).ndcg = IF S = {} THEN 0 ELSE (Scale * gains) \div n
      /\ View(ranks).recall = IF S = {} THEN 0 ELSE (Scale * hits) \div n
  BY ViewIs, RecallIs
<1> HIDE DEF n, gains, hits
<1>5. S # {} => (Scale * gains) \div n \in Int /\ (Scale * hits) \div n \in Int
  BY <1>2, <1>3 DEF Scale
<1> QED BY <1>2, <1>4, <1>5

LEMMA Joined ==
    ASSUME NEW m \in Nat, NEW n \in Nat, NEW s \in [1 .. m -> Int], NEW t \in [1 .. n -> Int]
    PROVE  /\ s \o t \in [1 .. m + n -> Int]
           /\ \A i \in 1 .. n : (s \o t)[m + i] = t[i]
<1>1. s \in Seq(Int) /\ Len(s) = m /\ t \in Seq(Int) /\ Len(t) = n
  OBVIOUS
<1>2. s \o t \in Seq(Int) /\ Len(s \o t) = m + n
  BY <1>1, ConcatProperties
<1>3. s \o t \in [1 .. m + n -> Int]
  BY <1>2, LenProperties
<1>4. ASSUME NEW i \in 1 .. n PROVE (s \o t)[m + i] = t[i]
  BY <1>1, ConcatProperties
<1> QED BY <1>3, <1>4

(* Two configurations have different keys.                                   *)
LEMMA SelectedIs ==
    ASSUME NEW reports,
           \A conf \in Configurations :
               /\ reports[conf].global.ndcg \in Int /\ reports[conf].global.recall \in Int
               /\ reports[conf].conditional.ndcg \in Int
    PROVE  Selected(reports) \in Configurations
<1> DEFINE head(conf) == <<-reports[conf].global.ndcg, -reports[conf].global.recall,
                           -reports[conf].conditional.ndcg>>
           key == [conf \in Configurations |-> head(conf) \o Simplicity(conf)]
<1>1. ASSUME NEW conf \in Configurations
      PROVE  /\ key[conf] \in [1 .. 8 -> Int]
             /\ key[conf][7] = conf.k /\ key[conf][8] = conf.weight
  <2>1. head(conf) \in [1 .. 3 -> Int]
    OBVIOUS
  <2>2. /\ Simplicity(conf) \in [1 .. 5 -> Int]
        /\ Simplicity(conf)[4] = conf.k /\ Simplicity(conf)[5] = conf.weight
    BY SimplicityIs
  <2>3. key[conf] = head(conf) \o Simplicity(conf)
    OBVIOUS
  <2> HIDE DEF head, key
  <2>4. PICK a : a = head(conf)
    OBVIOUS
  <2>5. PICK b : b = Simplicity(conf)
    OBVIOUS
  <2>6. PICK m \in Nat, n \in Nat : m = 3 /\ n = 5
    OBVIOUS
  <2>7. a \in [1 .. m -> Int] /\ b \in [1 .. n -> Int]
    BY <2>1, <2>2, <2>4, <2>5, <2>6
  <2>8. a \o b \in [1 .. m + n -> Int] /\ \A i \in 1 .. n : (a \o b)[m + i] = b[i]
    BY <2>7, Joined
  <2>9. a \o b \in [1 .. 8 -> Int] /\ (a \o b)[7] = b[4] /\ (a \o b)[8] = b[5]
    BY <2>6, <2>8
  <2> QED BY <2>2, <2>3, <2>4, <2>5, <2>9
<1> HIDE DEF key
<1>2. \A a, b \in Configurations : key[a] = key[b] => a = b
  <2> SUFFICES ASSUME NEW a \in Configurations, NEW b \in Configurations, key[a] = key[b]
               PROVE  a = b
    OBVIOUS
  <2>1. a.k = b.k /\ a.weight = b.weight
    BY <1>1
  <2>2. a = [weight |-> a.weight, k |-> a.k] /\ b = [weight |-> b.weight, k |-> b.k]
    BY ConfigurationsAre
  <2> QED BY <2>1, <2>2
<1>3. \E x \in Configurations : \A y \in Configurations \ {x} : Lower(key[x], key[y])
  <2>1. PICK n \in Nat : n = 8
    OBVIOUS
  <2>2. \A x \in Configurations : key[x] \in [1 .. n -> Int]
    BY <1>1, <2>1
  <2> QED BY <1>2, <2>2, ConfigurationsAre, LeastKey
<1>4. Selected(reports) = CHOOSE conf \in Configurations :
          \A other \in Configurations \ {conf} : Lower(key[conf], key[other])
  BY DEF Selected, key
<1> QED BY <1>3, <1>4

LEMMA GridTotalsAre ==
    ASSUME NEW reports, IsFiniteSet(DOMAIN reports),
           \A k \in DOMAIN reports : \A conf \in Configurations : reports[k][conf].global.ndcg \in Int,
           NEW conf \in Configurations
    PROVE  GridTotals(reports)[conf] \in Int
<1> DEFINE S == DOMAIN reports
           F == [k \in S |-> reports[k][conf].global.ndcg]
           sum(x) == MapThenSumSet(LAMBDA k : reports[k][x].global.ndcg, S)
           Eq(g) == g = [T \in SUBSET S |-> IF T = {} THEN 0
                            ELSE reports[Picked(T)][conf].global.ndcg + g[T \ {Picked(T)}]]
           h == CHOOSE g : Eq(g)
<1>1. GridTotals(reports)[conf] = sum(conf)
  <2>1. GridTotals(reports) = Table([x \in Configurations |-> sum(x)])
    BY DEF GridTotals
  <2> HIDE DEF sum
  <2> QED BY <2>1, TableIs
<1>2. sum(conf) = h[S]
  BY DEF MapThenSumSet, MapThenFoldSet, Picked
<1>3. ASSUME NEW g PROVE Eq(g) <=> Totals(F, S, g)
  <2>1. \A T \in SUBSET S : T # {} => F[Picked(T)] = reports[Picked(T)][conf].global.ndcg
    BY DEF Picked
  <2> HIDE DEF F
  <2>2. [T \in SUBSET S |-> IF T = {} THEN 0 ELSE reports[Picked(T)][conf].global.ndcg + g[T \ {Picked(T)}]]
            = [T \in SUBSET S |-> IF T = {} THEN 0 ELSE F[Picked(T)] + g[T \ {Picked(T)}]]
    BY <2>1
  <2> QED BY <2>2 DEF Totals
<1>4. F \in [S -> Int]
  OBVIOUS
<1> HIDE DEF Eq, F
<1>5. h = CHOOSE g : Totals(F, S, g)
  BY <1>3, Zenon
<1>6. Total(F, S) \in Int
  BY <1>4, TotalIsInt
<1> HIDE DEF h, sum
<1> QED BY <1>1, <1>2, <1>5, <1>6 DEF Total

(* The plateau of the best total has a simplest configuration.               *)
LEMMA RecommendedIs ==
    ASSUME NEW reports, IsFiniteSet(DOMAIN reports),
           \A k \in DOMAIN reports : \A conf \in Configurations : reports[k][conf].global.ndcg \in Int
    PROVE  Recommended(reports) \in Configurations
<1> DEFINE total == GridTotals(reports)
           totals == {total[conf] : conf \in Configurations}
           best == Max(totals)
           plateau == {conf \in Configurations :
                          best - total[conf] <= PlateauWidth * Cardinality(DOMAIN reports)}
           key == [conf \in plateau |-> Simplicity(conf)]
<1>1. \A conf \in Configurations : total[conf] \in Int
  BY GridTotalsAre
<1>2. DOMAIN total = Configurations
  BY TableIs DEF GridTotals
<1> HIDE DEF total
<1>3. IsFiniteSet(totals) /\ totals \subseteq Int /\ totals # {}
  <2>1. IsFiniteSet(totals)
    BY <1>2, ConfigurationsAre, ImageFinite
  <2> QED BY <1>1, <2>1, ConfigurationsAre
<1>4. best \in totals /\ best \in Int
  <2> HIDE DEF totals
  <2> QED BY <1>3, GreatestIn
<1>5. PICK top \in Configurations : total[top] = best
  BY <1>4
<1>6. top \in plateau
  <2>1. Cardinality(DOMAIN reports) \in Nat /\ PlateauWidth \in Nat
    BY RankingAssumption, FS_CardinalityType
  <2>2. ASSUME NEW m \in Nat, NEW n \in Nat PROVE m * n >= 0
    OBVIOUS
  <2>3. PlateauWidth * Cardinality(DOMAIN reports) >= 0
    BY <2>1, <2>2
  <2>4. best - total[top] = 0
    BY <1>4, <1>5
  <2> HIDE DEF best
  <2>5. PlateauWidth * Cardinality(DOMAIN reports) \in Int
    BY <2>1
  <2> QED BY <1>5, <2>3, <2>4, <2>5
<1> HIDE DEF best
<1>7. IsFiniteSet(plateau) /\ plateau # {} /\ plateau \subseteq Configurations
  <2>1. plateau \subseteq Configurations
    OBVIOUS
  <2> HIDE DEF plateau
  <2> QED BY <1>6, <2>1, ConfigurationsAre, FS_Subset
<1>8. Recommended(reports) = CHOOSE conf \in plateau :
          \A other \in plateau \ {conf} : Lower(Simplicity(conf), Simplicity(other))
  BY DEF Recommended, total, best
<1> HIDE DEF plateau
<1>9. \E x \in plateau : \A y \in plateau \ {x} : Lower(key[x], key[y])
  <2>1. PICK n \in Nat : n = 5
    OBVIOUS
  <2>2. \A x \in plateau : key[x] \in [1 .. n -> Int]
    BY <1>7, <2>1, SimplicityIs
  <2>3. \A x, y \in plateau : key[x] = key[y] => x = y
    <3> SUFFICES ASSUME NEW x \in plateau, NEW y \in plateau, key[x] = key[y] PROVE x = y
      OBVIOUS
    <3>1. x.k = y.k /\ x.weight = y.weight
      BY <1>7, SimplicityIs
    <3>2. x = [weight |-> x.weight, k |-> x.k] /\ y = [weight |-> y.weight, k |-> y.k]
      BY <1>7, ConfigurationsAre
    <3> QED BY <3>1, <3>2
  <2> HIDE DEF key
  <2> QED BY <1>7, <2>2, <2>3, LeastKey
<1>10. \E x \in plateau : \A y \in plateau \ {x} : Lower(Simplicity(x), Simplicity(y))
  BY <1>9
<1> QED BY <1>7, <1>8, <1>10

-----------------------------------------------------------------------------
(* What a calibration reports.                                               *)

LEMMA GridReportIs ==
    ASSUME NEW c \in Sound, NEW cell \in FittableCells(c), NEW part \in {"validation", "test"},
           NEW conf \in Configurations
    PROVE  LET report == GridReports[c][cell][part][conf] IN
           /\ report = StrategyReport(report.ranks)
           /\ DOMAIN report.ranks = Eligible(Works[c][cell].queries[part])
<1> DEFINE ofPart(k, p) == Table([x \in Configurations |-> GridReport(Works[c][k], p, x)])
           of(k) == Table([p \in {"validation", "test"} |-> ofPart(k, p)])
           queries == Works[c][cell].queries[part]
           rank(u) == TargetRank(DOMAIN queries[u].group,
                                 Table([f \in DOMAIN queries[u].group |-> Fused(queries[u].found, conf, f)]),
                                 queries[u].example.target)
           ranks == Table([u \in Eligible(queries) |-> rank(u)])
<1>1. GridReport(Works[c][cell], part, conf) = StrategyReport(ranks)
  BY DEF GridReport, Ranks
<1> HIDE DEF rank
<1>2. DOMAIN ranks = Eligible(queries)
  BY TableIs
<1> HIDE DEF ranks
<1>3. GridReports[c] = Table([k \in FittableCells(c) |-> of(k)])
  BY TableIs DEF GridReports
<1>4. ofPart(cell, part)[conf] = GridReport(Works[c][cell], part, conf)
  BY TableIs
<1> HIDE DEF ofPart
<1>5. of(cell)[part] = ofPart(cell, part)
  BY TableIs
<1> HIDE DEF of
<1>6. GridReports[c][cell] = of(cell)
  BY <1>3, TableIs
<1>7. GridReports[c][cell][part][conf] = StrategyReport(ranks)
  BY <1>1, <1>4, <1>5, <1>6
<1>8. StrategyReport(ranks).ranks = ranks
  BY DEF StrategyReport
<1> QED BY <1>2, <1>7, <1>8

LEMMA BaselineReportIs ==
    ASSUME NEW c \in Sound, NEW cell \in FittableCells(c), NEW name \in Baselines
    PROVE  DOMAIN BaselineReports[c][cell][name].ranks = Tested(c, cell)
<1> DEFINE of(k) == Table([n \in Baselines |-> BaselineReport(Works[c][k], "test", n)])
           queries == Works[c][cell].queries["test"]
           rank(u) == TargetRank(DOMAIN queries[u].group,
                                 Table([f \in DOMAIN queries[u].group |->
                                            BaselineScore(name, queries[u], Works[c][cell].art, f)]),
                                 queries[u].example.target)
           ranks == Table([u \in Eligible(queries) |-> rank(u)])
<1>1. BaselineReport(Works[c][cell], "test", name) = StrategyReport(ranks)
  BY DEF BaselineReport, Ranks
<1> HIDE DEF rank
<1>2. DOMAIN ranks = Tested(c, cell)
  BY TableIs DEF Tested
<1> HIDE DEF ranks
<1>3. BaselineReports[c] = Table([k \in FittableCells(c) |-> of(k)])
  BY TableIs DEF BaselineReports
<1>4. of(cell)[name] = BaselineReport(Works[c][cell], "test", name)
  BY TableIs
<1> HIDE DEF of
<1>5. BaselineReports[c][cell] = of(cell)
  BY <1>3, TableIs
<1>6. StrategyReport(ranks).ranks = ranks
  BY DEF StrategyReport
<1> QED BY <1>1, <1>2, <1>4, <1>5, <1>6

LEMMA GridValuesAre ==
    ASSUME NEW c \in Sound, NEW cell \in FittableCells(c), NEW conf \in Configurations
    PROVE  LET report == GridReports[c][cell]["validation"][conf] IN
           /\ report.global.ndcg \in Int /\ report.global.recall \in Int
           /\ report.conditional.ndcg \in Int
<1> DEFINE queries == Works[c][cell].queries["validation"]
           report == GridReports[c][cell]["validation"][conf]
           hits == Restrict(report.ranks, Hits(report.ranks))
<1>1. report = StrategyReport(report.ranks) /\ DOMAIN report.ranks = Eligible(queries)
  BY GridReportIs
<1>2. IsFiniteSet(DOMAIN report.ranks)
  <2>1. Eligible(queries) \subseteq Setups[c][cell].users["validation"]
    BY EligibleIs
  <2>2. cell \in Cells /\ "validation" \in Parts
    BY DEF FittableCells, Parts
  <2>3. Setups[c][cell].users["validation"] \subseteq DOMAIN Data(c)
    BY <2>2, UsersAre
  <2>4. IsFiniteSet(DOMAIN Data(c))
    BY LoadedIs DEF Sound
  <2> HIDE DEF queries, report
  <2> QED BY <1>1, <2>1, <2>3, <2>4, FS_Subset
<1> HIDE DEF report
<1>3. IsFiniteSet(DOMAIN hits)
  <2>1. DOMAIN hits \subseteq DOMAIN report.ranks
    BY DEF Restrict, Hits
  <2> QED BY <1>2, <2>1, FS_Subset
<1> HIDE DEF hits
<1>4. report.global = View(report.ranks) /\ report.conditional = View(hits)
  BY <1>1 DEF StrategyReport, hits
<1>5. View(report.ranks).ndcg \in Int /\ View(report.ranks).recall \in Int /\ View(hits).ndcg \in Int
  BY <1>2, <1>3, ViewType
<1> QED BY <1>4, <1>5 DEF report

LEMMA ChosenIs ==
    ASSUME NEW c \in Sound, Cells \subseteq FittableCells(c)
    PROVE  Recommended([cell \in Cells |-> GridReports[c][cell]["validation"]]) \in Configurations
<1> DEFINE reports == [cell \in Cells |-> GridReports[c][cell]["validation"]]
<1>1. DOMAIN reports = Cells /\ IsFiniteSet(DOMAIN reports)
  BY CellsAre
<1>2. ASSUME NEW k \in Cells, NEW conf \in Configurations PROVE reports[k][conf].global.ndcg \in Int
  BY GridValuesAre
<1> HIDE DEF reports
<1>3. Recommended(reports) \in Configurations
  BY <1>1, <1>2, RecommendedIs
<1> QED BY <1>3 DEF reports

Strategies == {"validation_selected_rrf", "recommended_fixed_rrf", "conventional_rrf",
               "positive_weighted_svd", "popularity", "svd_mean_pooling"}

LEMMA StrategiesAre ==
    ASSUME NEW c \in Sound, NEW cell \in FittableCells(c), NEW chosen \in Configurations
    PROVE  LET tests == StrategiesOf(c, cell, chosen) IN
           /\ DOMAIN tests = Strategies
           /\ \A name \in Strategies : DOMAIN tests[name].ranks = Tested(c, cell)
<1> DEFINE grid == GridReports[c][cell]["test"]
           base == BaselineReports[c][cell]
           selected == Selected(GridReports[c][cell]["validation"])
           tests == StrategiesOf(c, cell, chosen)
<1>1. selected \in Configurations
  BY GridValuesAre, SelectedIs
<1>2. \A conf \in Configurations : DOMAIN grid[conf].ranks = Tested(c, cell)
  BY GridReportIs DEF Tested
<1>3. DefaultConfiguration \in Configurations
  BY ConfigurationsAre
<1>4. \A name \in Baselines : DOMAIN base[name].ranks = Tested(c, cell)
  BY BaselineReportIs
<1> HIDE DEF grid, base, selected
<1>5. tests = [validation_selected_rrf |-> grid[selected],
               recommended_fixed_rrf   |-> grid[chosen],
               conventional_rrf        |-> grid[DefaultConfiguration],
               positive_weighted_svd   |-> base["positive_weighted_svd"],
               popularity              |-> base["popularity"],
               svd_mean_pooling        |-> base["svd_mean_pooling"]]
  BY DEF StrategiesOf, grid, base, selected
<1> HIDE DEF tests
<1>6. DOMAIN tests = Strategies
  BY <1>5 DEF Strategies
<1>7. /\ tests["validation_selected_rrf"] = grid[selected]
      /\ tests["recommended_fixed_rrf"] = grid[chosen]
      /\ tests["conventional_rrf"] = grid[DefaultConfiguration]
      /\ tests["positive_weighted_svd"] = base["positive_weighted_svd"]
      /\ tests["popularity"] = base["popularity"] /\ tests["svd_mean_pooling"] = base["svd_mean_pooling"]
  BY <1>5
<1>8. ASSUME NEW name \in Strategies PROVE DOMAIN tests[name].ranks = Tested(c, cell)
  BY <1>1, <1>2, <1>3, <1>4, <1>7 DEF Strategies, Baselines
<1> QED BY <1>6, <1>8 DEF tests

-----------------------------------------------------------------------------
(* The invariant of what is counted: every report on disk, in a job or in a  *)
(* summary is of a fold its CSV can fit, and a calibration chose from the    *)
(* grid.                                                                     *)

Fair(cell, metrics) ==
    /\ metrics.data \in Sound /\ cell \in FittableCells(metrics.data)
    /\ DOMAIN metrics.models \subseteq Models

Reports == {r \in [cell : Cells, metrics : ReportType] : Fair(r.cell, r.metrics)}

FairFolds == \A cell \in Cells : disk[cell].metrics # None => Fair(cell, disk[cell].metrics)

FairSummary ==
    summary # None =>
        /\ \A cell \in DOMAIN summary.folds :
               summary.folds[cell] \in Sound /\ cell \in FittableCells(summary.folds[cell])
        /\ summary.models \subseteq Models

FairCalibration ==
    calibration # None =>
        \E c \in Sound, chosen \in Configurations :
            /\ Cells \subseteq FittableCells(c)
            /\ calibration.data = c
            /\ calibration.tests = [cell \in Cells |-> StrategiesOf(c, cell, chosen)]

Counting ==
    /\ job.reports \in Seq(Reports)
    /\ job.pc = "summary" => job.reports # << >>
    /\ job.kind = "calibrate" /\ job.pc \in {"test", "write"} => job.chosen \in Configurations

CInv == FairFolds /\ FairSummary /\ FairCalibration /\ (Running => Counting)

(* A step that reports nothing and chooses nothing.                          *)
LEMMA Quiet ==
    ASSUME IInv, CInv, summary' = summary, calibration' = calibration,
           \A cell \in Cells : disk'[cell].metrics = disk[cell].metrics,
           Running' => /\ Running /\ job'.reports = job.reports
                       /\ job'.pc \notin {"summary", "test", "write"}
    PROVE  CInv'
<1>1. FairFolds'
  BY DEF CInv, FairFolds
<1>2. FairSummary' /\ FairCalibration'
  BY DEF CInv, FairSummary, FairCalibration
<1>3. Running' => Counting'
  BY DEF CInv, Counting
<1> QED BY <1>1, <1>2, <1>3 DEF CInv

LEMMA QuietSteps ==
    ASSUME IInv, CInv,
           \/ BeginFold \/ WriteArrays \/ WriteMetadata \/ Train \/ OpenModel \/ SaveModel
           \/ RefitFold \/ FitFold \/ ValidateFold
    PROVE  CInv'
<1>1. ASSUME Fail PROVE CInv'
  BY <1>1, Quiet DEF Fail, Keep, Finish, Running
<1>2. Running
  BY IsCalm DEF BeginFold, WriteArrays, WriteMetadata, Train, OpenModel, SaveModel, RefitFold,
                FitFold, ValidateFold
<1>3. DOMAIN job = Fields /\ disk \in [Cells -> FoldType] /\ Cell \in Cells
  BY <1>2, HereIs DEF IsJob, IInv, Types
<1>4. CASE BeginFold
  <2> SUFFICES ASSUME ~Fail PROVE CInv'
    BY <1>1
  <2>1. job'.reports = job.reports /\ job'.pc = "arrays" /\ Keep
    BY <1>3, <1>4 DEF BeginFold, Advance, Fields
  <2> QED BY <1>2, <2>1, Quiet DEF Keep
<1>5. CASE WriteArrays
  <2> SUFFICES ASSUME ~Fail PROVE CInv'
    BY <1>1
  <2>1. /\ job'.reports = job.reports /\ job'.pc = "metadata"
        /\ summary' = summary /\ calibration' = calibration
    BY <1>3, <1>5 DEF WriteArrays, Advance, Fields
  <2>2. \A cell \in Cells : disk'[cell].metrics = disk[cell].metrics
    BY <1>3, <1>5 DEF WriteArrays, FoldType
  <2> QED BY <1>2, <2>1, <2>2, Quiet
<1>6. CASE WriteMetadata
  <2>1. /\ job'.reports = job.reports /\ job'.pc \in {"arrays", "train"}
        /\ summary' = summary /\ calibration' = calibration
    <3>1. job.part \in {"train", "validation", "test"}
      BY <1>2, HereIs DEF IsJob, Parts
    <3> QED BY <1>3, <1>6, <3>1 DEF WriteMetadata, Advance, Fields
  <2>2. \A cell \in Cells : disk'[cell].metrics = disk[cell].metrics
    BY <1>3, <1>6 DEF WriteMetadata, FoldType
  <2> QED BY <1>2, <2>1, <2>2, Quiet
<1>7. CASE Train
  <2> SUFFICES ASSUME ~Fail PROVE CInv'
    BY <1>1
  <2>1. job'.reports = job.reports /\ job'.pc = "models" /\ Keep
    BY <1>3, <1>7 DEF Train, Advance, Fields
  <2> QED BY <1>2, <2>1, Quiet DEF Keep
<1>8. CASE OpenModel \/ SaveModel
  <2>1. /\ job'.reports = job.reports /\ job'.pc \in {"models", "save"}
        /\ summary' = summary /\ calibration' = calibration
    BY <1>3, <1>8 DEF OpenModel, SaveModel, Advance, Fields, At
  <2>2. \A cell \in Cells : disk'[cell].metrics = disk[cell].metrics
    BY <1>3, <1>8 DEF OpenModel, SaveModel, FoldType
  <2> QED BY <1>2, <2>1, <2>2, Quiet
<1>9. CASE RefitFold
  <2> SUFFICES ASSUME ~Fail PROVE CInv'
    BY <1>1
  <2>1. job'.reports = job.reports /\ job'.pc = "models" /\ Keep
    BY <1>3, <1>9 DEF RefitFold, Advance, Fields
  <2> QED BY <1>2, <2>1, Quiet DEF Keep
<1>10. CASE FitFold
  <2> SUFFICES ASSUME ~Fail PROVE CInv'
    BY <1>1
  <2>1. job'.reports = job.reports /\ job'.pc = "validate" /\ Keep
    BY <1>3, <1>10 DEF FitFold, Advance, Fields
  <2> QED BY <1>2, <2>1, Quiet DEF Keep
<1>11. CASE ValidateFold
  <2>1. job'.reports = job.reports /\ job'.pc \in {"fit", "choose"} /\ Keep
    BY <1>3, <1>11 DEF ValidateFold, Advance, Fields
  <2> QED BY <1>2, <2>1, Quiet DEF Keep
<1> QED BY <1>4, <1>5, <1>6, <1>7, <1>8, <1>9, <1>10, <1>11

LEMMA IdleSteps ==
    ASSUME IInv, CInv, \/ RefuseCsv \/ Crash \/ ReplaceCsv \/ UNCHANGED vars
    PROVE  CInv'
<1>1. CASE RefuseCsv \/ Crash \/ ReplaceCsv
  BY <1>1, Quiet DEF RefuseCsv, Crash, ReplaceCsv, Keep, Running
<1>2. CASE UNCHANGED vars
  BY <1>2 DEF vars, CInv, FairFolds, FairSummary, FairCalibration, Running, Counting
<1> QED BY <1>1, <1>2

LEMMA StartedCount ==
    ASSUME CInv, StartBenchmark \/ StartRefit \/ StartCalibration
    PROVE  CInv'
<1>1. PICK kind, pc, plan, names :
          /\ pc \in {"fold", "load", "fit"} /\ job' = Job(kind, pc, plan, names)
          /\ UNCHANGED <<disk, summary, calibration>>
  BY DEF StartBenchmark, StartRefit, StartCalibration, Begin, Keep
<1>2. job'.reports = << >> /\ job'.pc = pc
  BY <1>1 DEF Job
<1>3. Counting'
  BY <1>1, <1>2 DEF Counting
<1> QED BY <1>1, <1>3 DEF CInv, FairFolds, FairSummary, FairCalibration

(* A report is added to the job's, and may be written to its fold.           *)
LEMMA Reporting ==
    ASSUME IInv, CInv, Running, NEW metrics \in ReportType, Fair(Cell, metrics),
           summary' = summary, calibration' = calibration,
           \A cell \in Cells : \/ disk'[cell].metrics = disk[cell].metrics
                               \/ cell = Cell /\ disk'[cell].metrics = metrics,
           job'.reports = Append(job.reports, [cell |-> Cell, metrics |-> metrics]),
           job'.kind # "calibrate"
    PROVE  CInv'
<1>1. Cell \in Cells
  BY HereIs
<1>2. FairFolds'
  BY <1>1 DEF CInv, FairFolds
<1>3. FairSummary' /\ FairCalibration'
  BY DEF CInv, FairSummary, FairCalibration
<1>4. job'.reports \in Seq(Reports) /\ job'.reports # << >>
  <2>1. PICK r : r = [cell |-> Cell, metrics |-> metrics]
    OBVIOUS
  <2>2. r \in Reports
    BY <1>1, <2>1 DEF Reports
  <2>3. job.reports \in Seq(Reports)
    BY DEF CInv, Counting
  <2>4. Append(job.reports, r) \in Seq(Reports) /\ Len(Append(job.reports, r)) = Len(job.reports) + 1
    BY <2>2, <2>3, AppendProperties
  <2>5. Len(job.reports) \in Nat
    BY <2>3, LenProperties
  <2>6. Len(job'.reports) # 0
    BY <2>1, <2>4, <2>5
  <2> QED BY <2>1, <2>4, <2>6, EmptySeq
<1>5. Counting'
  BY <1>4 DEF Counting
<1> QED BY <1>2, <1>3, <1>5 DEF CInv

LEMMA ReuseFoldCount ==
    ASSUME IInv, CInv, ReuseFold PROVE CInv'
<1>1. CASE Fail
  BY <1>1, Quiet DEF Fail, Keep, Finish, Running
<1>2. CASE Advance([job EXCEPT !.reports = Append(@, [cell |-> Cell, metrics |-> Here.metrics]),
                               !.pc = "summary"]) /\ Keep
  <2>1. Running /\ At({"benchmark"}, "fold") /\ Here.metrics # None
    BY IsCalm DEF ReuseFold
  <2>2. DOMAIN job = Fields /\ Cell \in Cells /\ Here \in FoldType
    BY <2>1, HereIs DEF IsJob
  <2>3. Here.metrics \in ReportType
    BY <2>1, <2>2 DEF FoldType
  <2>4. Fair(Cell, Here.metrics)
    BY <2>1, <2>2 DEF CInv, FairFolds, Here
  <2>5. /\ job'.reports = Append(job.reports, [cell |-> Cell, metrics |-> Here.metrics])
        /\ job'.kind = "benchmark"
    BY <1>2, <2>1, <2>2 DEF Advance, Fields, At
  <2> QED BY <1>2, <2>1, <2>3, <2>4, <2>5, Reporting DEF Keep
<1> QED BY <1>1, <1>2 DEF ReuseFold

LEMMA TrainedAre ==
    ASSUME IInv, Running
    PROVE  DOMAIN Trained \subseteq Models
<1>1. job.names \in Seq(Models)
  BY HereIs DEF IsJob
<1>2. \A i \in DOMAIN job.names : job.names[i] \in Models
  BY <1>1, ElementOfSeq, LenProperties
<1> QED BY <1>2 DEF Trained

LEMMA WriteReportCount ==
    ASSUME IInv, CInv, WriteReport PROVE CInv'
<1> DEFINE metrics == [protocol |-> "full_pool", data |-> job.data, models |-> Trained]
<1>1. Running /\ At({"benchmark"}, "models") /\ Writing
  BY IsCalm DEF WriteReport, Writing, At
<1>2. /\ IsJob(job) /\ Cell \in Cells /\ Here \in FoldType
      /\ job.data \in Sound /\ Cell \in FittableCells(job.data)
  BY <1>1, HereIs DEF Progress, At, AtModels
<1>3. /\ disk' = [disk EXCEPT ![Cell].metrics = metrics]
      /\ job'.reports = Append(job.reports, [cell |-> Cell, metrics |-> metrics])
      /\ job'.kind = "benchmark" /\ summary' = summary /\ calibration' = calibration
  BY <1>1, <1>2 DEF WriteReport, Advance, IsJob, Fields, At
<1>4. disk \in [Cells -> FoldType]
  BY DEF IInv, Types
<1>5. \A cell \in Cells : \/ disk'[cell].metrics = disk[cell].metrics
                          \/ cell = Cell /\ disk'[cell].metrics = metrics
  <2> HIDE DEF metrics
  <2> QED BY <1>2, <1>3, <1>4 DEF FoldType
<1>6. metrics \in ReportType
  <2>1. Trained \in [DOMAIN Trained -> Files] /\ DOMAIN Trained \subseteq Models
    <3>1. job.loaded \in Files
      BY <1>2 DEF IsJob
    <3> QED BY <1>1, <3>1, TrainedAre DEF Trained
  <2>2. Trained \in UNION {[N -> Files] : N \in SUBSET Models}
    BY <2>1
  <2>3. job.data \in Stamps
    BY <1>2 DEF IsJob, Stamps
  <2> QED BY <2>2, <2>3 DEF ReportType
<1>7. Fair(Cell, metrics)
  <2>1. metrics.data = job.data /\ metrics.models = Trained
    OBVIOUS
  <2> HIDE DEF metrics
  <2> QED BY <1>1, <1>2, <2>1, TrainedAre DEF Fair
<1> HIDE DEF metrics
<1> QED BY <1>1, <1>3, <1>5, <1>6, <1>7, Reporting

LEMMA UpdateReportCount ==
    ASSUME IInv, CInv, UpdateReport PROVE CInv'
<1> DEFINE old     == Here.metrics
           models  == [name \in DOMAIN old.models \cup DOMAIN Trained |->
                           IF name \in DOMAIN Trained THEN Trained[name] ELSE old.models[name]]
           metrics == [old EXCEPT !.models = models]
           done    == [job EXCEPT !.reports = Append(@, [cell |-> Cell, metrics |-> metrics])]
<1>1. Running /\ At({"refit"}, "models")
  BY IsCalm DEF UpdateReport
<1>2. /\ IsJob(job) /\ Cell \in Cells /\ Here \in FoldType /\ old # None /\ job.loaded \in Files
      /\ DOMAIN Trained \subseteq Models
  BY <1>1, HereIs, TrainedAre DEF Progress, At, AtModels, IsJob
<1>3. old \in ReportType /\ Fair(Cell, old)
  BY <1>2 DEF FoldType, CInv, FairFolds, Here
<1>4. /\ disk' = [disk EXCEPT ![Cell].metrics = metrics]
      /\ job' = IF job.at < Len(job.plan) THEN [done EXCEPT !.at = @ + 1, !.pc = "load"]
                                          ELSE [done EXCEPT !.pc = "summary"]
      /\ summary' = summary /\ calibration' = calibration
  BY DEF UpdateReport, Advance
<1>5. /\ job'.reports = Append(job.reports, [cell |-> Cell, metrics |-> metrics])
      /\ job'.kind = "refit"
  <2>1. /\ DOMAIN done = Fields /\ done.kind = "refit"
        /\ done.reports = Append(job.reports, [cell |-> Cell, metrics |-> metrics])
    <3> HIDE DEF metrics
    <3> QED BY <1>1, <1>2 DEF IsJob, Fields, At
  <2> HIDE DEF done, metrics
  <2> QED BY <1>4, <2>1 DEF Fields
<1>6. models \in [DOMAIN models -> Files] /\ DOMAIN models \subseteq Models
  <2>1. \A name \in DOMAIN old.models : old.models[name] \in Files /\ name \in Models
    BY <1>3 DEF ReportType
  <2>2. \A name \in DOMAIN Trained : Trained[name] \in Files
    BY <1>2 DEF Trained
  <2> QED BY <1>2, <2>1, <2>2
<1>7. metrics \in ReportType /\ metrics.data = old.data /\ metrics.models = models
  <2>1. models \in UNION {[N -> Files] : N \in SUBSET Models}
    BY <1>6
  <2> HIDE DEF models
  <2> QED BY <1>3, <2>1 DEF ReportType
<1>8. Fair(Cell, metrics)
  <2> HIDE DEF metrics, models
  <2> QED BY <1>3, <1>6, <1>7 DEF Fair
<1>9. disk \in [Cells -> FoldType]
  BY DEF IInv, Types
<1> HIDE DEF metrics
<1>10. \A cell \in Cells : \/ disk'[cell].metrics = disk[cell].metrics
                           \/ cell = Cell /\ disk'[cell].metrics = metrics
  BY <1>2, <1>4, <1>9 DEF FoldType
<1> QED BY <1>1, <1>4, <1>5, <1>7, <1>8, <1>10, Reporting

LEMMA SummarizeCount ==
    ASSUME IInv, CInv, Summarize PROVE CInv'
<1>1. CASE Fail
  BY <1>1, Quiet DEF Fail, Keep, Finish, Running
<1>2. CASE summary' = SummaryOf(job.reports) /\ disk' = disk /\ calibration' = calibration
  <2> DEFINE reports == job.reports
  <2>1. Running /\ job.pc = "summary"
    BY IsCalm DEF Summarize, At
  <2>2. reports \in Seq(Reports) /\ reports # << >>
    BY <2>1 DEF CInv, Counting
  <2> HIDE DEF reports
  <2>3. \A i \in DOMAIN reports : reports[i] \in Reports
    BY <2>2, ElementOfSeq, LenProperties
  <2>4. 1 \in DOMAIN reports
    BY <2>2, EmptySeq, LenProperties
  <2>5. /\ DOMAIN summary'.folds = {reports[i].cell : i \in DOMAIN reports}
        /\ \A cell \in DOMAIN summary'.folds :
               summary'.folds[cell] = reports[CHOOSE i \in DOMAIN reports : reports[i].cell = cell].metrics.data
        /\ summary'.models = DOMAIN reports[1].metrics.models
    BY <1>2 DEF SummaryOf, reports
  <2>6. ASSUME NEW cell \in DOMAIN summary'.folds
        PROVE  summary'.folds[cell] \in Sound /\ cell \in FittableCells(summary'.folds[cell])
    <3>1. PICK i \in DOMAIN reports :
              reports[i].cell = cell /\ summary'.folds[cell] = reports[i].metrics.data
      BY <2>5
    <3>2. Fair(cell, reports[i].metrics)
      BY <2>3, <3>1 DEF Reports
    <3> QED BY <3>1, <3>2 DEF Fair
  <2>7. summary'.models \subseteq Models
    BY <2>3, <2>4, <2>5 DEF Reports, Fair
  <2>8. FairSummary'
    BY <2>6, <2>7 DEF FairSummary
  <2>9. FairFolds' /\ FairCalibration'
    BY <1>2 DEF CInv, FairFolds, FairCalibration
  <2>10. Running' => Counting'
    <3> SUFFICES ASSUME Running' PROVE Counting'
      OBVIOUS
    <3>1. CASE Finish
      BY <3>1 DEF Finish, Running
    <3>2. CASE Advance([job EXCEPT !.at = @ + 1, !.pc = "fold"])
      <4>1. DOMAIN job = Fields
        BY <2>1, HereIs DEF IsJob
      <4>2. job'.reports = job.reports /\ job'.pc = "fold"
        BY <3>2, <4>1 DEF Advance, Fields
      <4> QED BY <2>1, <4>2 DEF CInv, Counting
    <3>3. CASE Fail
      BY <1>1, <3>3 DEF Fail, Finish, Running
    <3> QED BY <3>1, <3>2, <3>3 DEF Summarize
  <2> QED BY <2>8, <2>9, <2>10 DEF CInv
<1> QED BY <1>1, <1>2 DEF Summarize

LEMMA ChooseCount ==
    ASSUME IInv, CInv, Choose PROVE CInv'
<1>1. Running /\ At({"calibrate"}, "choose")
  BY IsCalm DEF Choose
<1>2. /\ DOMAIN job = Fields /\ job.data \in Sound /\ Cells \subseteq FittableCells(job.data)
  BY <1>1, HereIs DEF IsJob, Progress, Calibrating, At, AtModels
<1>3. /\ job'.reports = job.reports /\ job'.pc = "test"
      /\ job'.chosen = Recommended([cell \in Cells |-> GridReports[job.data][cell]["validation"]])
      /\ UNCHANGED <<disk, summary, calibration>>
  BY <1>2 DEF Choose, Advance, Keep, Fields
<1>4. job'.chosen \in Configurations
  BY <1>2, <1>3, ChosenIs
<1>5. Counting'
  BY <1>1, <1>3, <1>4 DEF CInv, Counting
<1> QED BY <1>3, <1>5 DEF CInv, FairFolds, FairSummary, FairCalibration

LEMMA TestFoldCount ==
    ASSUME IInv, CInv, TestFold PROVE CInv'
<1>1. Running /\ At({"calibrate"}, "test")
  BY IsCalm DEF TestFold
<1>2. DOMAIN job = Fields
  BY <1>1, HereIs DEF IsJob
<1>3. /\ job'.reports = job.reports /\ job'.pc \in {"test", "write"} /\ job'.chosen = job.chosen
      /\ UNCHANGED <<disk, summary, calibration>>
  BY <1>2 DEF TestFold, Advance, Keep, Fields
<1>4. Counting'
  BY <1>1, <1>3 DEF CInv, Counting, At
<1> QED BY <1>3, <1>4 DEF CInv, FairFolds, FairSummary, FairCalibration

LEMMA WriteCalibrationCount ==
    ASSUME IInv, CInv, WriteCalibration PROVE CInv'
<1>1. Running /\ At({"calibrate"}, "write")
  BY IsCalm DEF WriteCalibration
<1>2. /\ job.data \in Sound /\ Cells \subseteq FittableCells(job.data)
      /\ job.chosen \in Configurations
  BY <1>1, HereIs DEF Progress, Calibrating, At, AtModels, CInv, Counting
<1>3. /\ calibration'.data = job.data
      /\ calibration'.tests = [cell \in Cells |-> StrategiesOf(job.data, cell, job.chosen)]
      /\ UNCHANGED <<disk, summary>> /\ ~Running'
  BY DEF WriteCalibration, Finish, Running
<1>4. FairCalibration'
  BY <1>2, <1>3 DEF FairCalibration
<1> QED BY <1>3, <1>4 DEF CInv, FairFolds, FairSummary

LEMMA CountStarts == Init => CInv
<1> SUFFICES ASSUME Init PROVE CInv
  OBVIOUS
<1>1. PICK old \in Leftovers : disk = [cell \in Cells |-> IF cell \in old THEN OldFold ELSE EmptyFold]
  BY DEF Init
<1>2. ASSUME NEW cell \in Cells, disk[cell].metrics # None PROVE Fair(cell, disk[cell].metrics)
  <2>1. EmptyFold.metrics = None
    BY DEF EmptyFold
  <2>2. cell \in old /\ disk[cell] = OldFold
    BY <1>1, <1>2, <2>1
  <2>3. OldFold.metrics.data = 1 /\ DOMAIN OldFold.metrics.models = Models
    BY DEF OldFold, Models
  <2>4. 1 \in Sound /\ cell \in FittableCells(1)
    BY <2>2, LeftoverAssumption
  <2> QED BY <2>2, <2>3, <2>4 DEF Fair
<1>3. summary = None /\ calibration = None /\ ~Running
  BY DEF Init, Running
<1> QED BY <1>2, <1>3 DEF CInv, FairFolds, FairSummary, FairCalibration

LEMMA CountInductive == IInv /\ CInv /\ [Next]_vars => CInv'
<1> SUFFICES ASSUME IInv, CInv, [Next]_vars PROVE CInv'
  OBVIOUS
<1> QED BY QuietSteps, IdleSteps, StartedCount, ReuseFoldCount, WriteReportCount, UpdateReportCount,
           SummarizeCount, ChooseCount, TestFoldCount, WriteCalibrationCount DEF Next

LEMMA Counted == Spec => []CInv
BY CountStarts, CountInductive, Invariant, PTL DEF Spec

LEMMA SummariesCount ==
    ASSUME DrawsBelow, CInv, summary # None, NEW seed \in Seeds, NEW c \in Sound,
           \A k \in 0 .. FoldCount - 1 : <<seed, k>> \in DOMAIN summary.folds
                                         /\ summary.folds[<<seed, k>>] = c,
           NEW name \in summary.models
    PROVE  /\ RankedOnce(c, seed, [k \in 0 .. FoldCount - 1 |-> TestReports[c][<<seed, k>>][name]])
           /\ \A k \in 0 .. FoldCount - 1 : Accounted(c, <<seed, k>>, name)
<1> DEFINE report == [k \in 0 .. FoldCount - 1 |-> TestReports[c][<<seed, k>>][name]]
<1>1. name \in DOMAIN Prediction
  BY DEF CInv, FairSummary, Models
<1>2. \A k \in 0 .. FoldCount - 1 : <<seed, k>> \in FittableCells(c)
  BY DEF CInv, FairSummary
<1>3. ASSUME NEW k \in 0 .. FoldCount - 1 PROVE DOMAIN report[k].ranks = Tested(c, <<seed, k>>)
  <2>1. PICK cell \in FittableCells(c) : cell = <<seed, k>>
    BY <1>2
  <2>2. report[k] = ModelReport(Works[c][cell], "test", name)
    BY <1>1, <2>1, TestReportIs
  <2>3. DOMAIN ModelReport(Works[c][cell], "test", name).ranks = Tested(c, cell)
    BY ModelRanksAre DEF Tested
  <2> HIDE DEF report
  <2> QED BY <2>1, <2>2, <2>3
<1>4. ASSUME NEW k \in 0 .. FoldCount - 1 PROVE Accounted(c, <<seed, k>>, name)
  BY <1>1, <1>2, AccountedIs
<1> HIDE DEF report
<1>5. RankedOnce(c, seed, report)
  BY <1>2, <1>3, RankedOnceIs
<1> QED BY <1>4, <1>5 DEF report

LEMMA CalibrationsCount ==
    ASSUME DrawsBelow, CInv, calibration # None
    PROVE  LET c == calibration.data
               rows(name) == [cell \in Cells |-> calibration.tests[cell][name].ranks]
               strategies == DOMAIN calibration.tests[CHOOSE cell \in Cells : TRUE]
               paired == Clustered(rows("recommended_fixed_rrf"), rows("conventional_rrf"))
           IN  /\ \A seed \in Seeds, name \in strategies :
                     RankedOnce(c, seed, [k \in 0 .. FoldCount - 1 |-> calibration.tests[<<seed, k>>][name]])
               /\ \A u \in DOMAIN paired : paired[u].observations = Cardinality(Seeds)
<1> DEFINE tests == calibration.tests
           rows(name) == [cell \in Cells |-> tests[cell][name].ranks]
           one == CHOOSE cell \in Cells : TRUE
<1>1. PICK c \in Sound, chosen \in Configurations :
          /\ Cells \subseteq FittableCells(c) /\ calibration.data = c
          /\ tests = [cell \in Cells |-> StrategiesOf(c, cell, chosen)]
  BY DEF CInv, FairCalibration
<1> HIDE DEF tests
<1>2. \A cell \in Cells : /\ DOMAIN tests[cell] = Strategies
                          /\ \A name \in Strategies : DOMAIN tests[cell][name].ranks = Tested(c, cell)
  BY <1>1, StrategiesAre
<1>3. DOMAIN tests[one] = Strategies
  BY <1>2, CellsAre
<1>4. ASSUME NEW seed \in Seeds, NEW name \in Strategies
      PROVE  RankedOnce(c, seed, [k \in 0 .. FoldCount - 1 |-> tests[<<seed, k>>][name]])
  <2> DEFINE report == [k \in 0 .. FoldCount - 1 |-> tests[<<seed, k>>][name]]
  <2>1. ASSUME NEW k \in 0 .. FoldCount - 1
        PROVE  <<seed, k>> \in FittableCells(c) /\ DOMAIN report[k].ranks = Tested(c, <<seed, k>>)
    <3>1. <<seed, k>> \in Cells
      BY DEF Cells
    <3> QED BY <1>1, <1>2, <3>1
  <2> HIDE DEF report
  <2>2. RankedOnce(c, seed, report)
    BY <2>1, RankedOnceIs
  <2> QED BY <2>2 DEF report
<1>5. ASSUME NEW u \in DOMAIN Clustered(rows("recommended_fixed_rrf"), rows("conventional_rrf"))
      PROVE  Clustered(rows("recommended_fixed_rrf"), rows("conventional_rrf"))[u].observations
                 = Cardinality(Seeds)
  <2>1. PICK fixed : fixed = rows("recommended_fixed_rrf")
    OBVIOUS
  <2>2. PICK usual : usual = rows("conventional_rrf")
    OBVIOUS
  <2>3. DOMAIN fixed = Cells /\ \A cell \in Cells : DOMAIN fixed[cell] = Tested(c, cell)
    BY <1>2, <2>1 DEF Strategies
  <2>4. u \in DOMAIN Clustered(fixed, usual)
    BY <2>1, <2>2
  <2> HIDE DEF rows
  <2>5. Clustered(fixed, usual)[u].observations = Cardinality(Seeds)
    BY <1>1, <2>3, <2>4, PairedOnce
  <2> QED BY <2>1, <2>2, <2>5
<1> QED BY <1>1, <1>3, <1>4, <1>5 DEF tests

(* Over the folds of a seed every user with targets is ranked once, with the *)
(* misses kept, in a summary of one CSV and in a calibration report, under   *)
(* every strategy alike, as long as a stream draws below the number asked.   *)
THEOREM CountedSafe ==
    ASSUME DrawsBelow
    PROVE  Spec => []EveryTargetCountedOnce
<1>1. CInv => EveryTargetCountedOnce
  <2> SUFFICES ASSUME CInv PROVE EveryTargetCountedOnce
    OBVIOUS
  <2> QED BY SummariesCount, CalibrationsCount DEF EveryTargetCountedOnce
<1> QED BY <1>1, Counted, PTL

=============================================================================
