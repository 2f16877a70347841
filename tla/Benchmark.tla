----------------------------- MODULE Benchmark ------------------------------
(***************************************************************************)
(* Training and benchmark of the flow classifier on the same CSV files:    *)
(* train_attack_classifier.py main(), then benchmark_attack_classifier.py  *)
(* main() with its sampling, its metrics and its exit codes.  Randomness   *)
(* (the reservoirs, the shuffles) and the hash of a row are free choices.  *)
(***************************************************************************)
EXTENDS FlowModel

CONSTANTS
    Rows,           \* the raw rows of the dataset
    Files,          \* what the CSV may hold, sequences of rows
    Percents,       \* --holdout-percent, of a hash in 0..Hashes-1
    Hashes,
    Caps,           \* --sample-per-class, --max-per-class
    SampleSizes,    \* --sample-size, 0 when it is not given
    Gates           \* --min-tpr and --max-fpr, fractions or None

ASSUME BenchmarkAssumption ==
    /\ Files \subseteq Seq(Rows)
    /\ Hashes \in Nat \ {0} /\ Percents \subseteq 1..(Hashes - 1)
    /\ Caps \subseteq Nat \ {0} /\ SampleSizes \subseteq Nat
    /\ Gates \subseteq [tpr : Nat \X Nat, fpr : Nat \X Nat]

None == <<0, 0>>

VARIABLES
    hash, file,     \* given
    fit, bench,     \* arguments of the two programs, when they are started
    pc, row,        \* what is done next, the next row of the file
    seen, buckets,  \* the reservoirs of the read that is running
    model,          \* the examples the flow model is fitted to
    trained,        \* the raw rows among them
    allocation,     \* stratified_sample: rows per label so far
    selected,       \* and altogether
    turn,           \* the label whose turn it is
    examples,       \* what is evaluated, positions in the file
    exit            \* exit code, or -1

given == <<hash, file, fit, bench>>
reading == <<seen, buckets>>
vars == <<given, pc, row, reading, model, trained, allocation, selected, turn, examples, exit>>

LabelAt(i) == Label(file[i].words)
Labels == {LabelAt(i) : i \in DOMAIN file}
Empty(S, v) == [l \in S |-> v]

Init ==
    /\ file \in Files
    /\ hash \in [Rows -> 0..(Hashes - 1)]
    /\ fit \in [split : {"all", "train"}, percent : Percents, cap : Caps]
    /\ bench = [split |-> "all"]
    /\ pc = "train" /\ row = 1
    /\ seen = Empty(Labels, 0) /\ buckets = Empty(Labels, <<>>)
    /\ model = <<>> /\ trained = {}
    /\ allocation = Empty(Labels, 0) /\ selected = 0 /\ turn = 1 /\ examples = {}
    /\ exit = -1

-----------------------------------------------------------------------------
(* read_csv: a reservoir per label.  Mutant: the row is always appended.   *)
AppendsAlways(l, cap) == TRUE
Appends(l, cap) == Len(buckets[l]) < cap

TakeRow(l, cap) ==
    /\ seen' = [seen EXCEPT ![l] = @ + 1]
    /\ IF Appends(l, cap)
       THEN buckets' = [buckets EXCEPT ![l] = Append(@, row)]
       ELSE \E index \in 0..seen[l] :
              buckets' = IF index < cap THEN [buckets EXCEPT ![l][index + 1] = row] ELSE buckets

SkipRow == UNCHANGED reading

(* The two programs test the partition before they take the label off.     *)
(* Mutant: the benchmark takes it off first, and hashes another row.       *)
BenchRowUnlabelled == CHOOSE r \in Rows : r.id # file[row].id
BenchRow == file[row]

TrainRow ==
    /\ pc = "train" /\ row \in DOMAIN file
    /\ row' = row + 1
    /\ IF InSplit(hash, file[row], fit.split, fit.percent)
       THEN TakeRow(LabelAt(row), fit.cap) ELSE SkipRow
    /\ UNCHANGED <<given, pc, model, trained, allocation, selected, turn, examples, exit>>

InBucket(l) == {buckets[l][k] : k \in DOMAIN buckets[l]}
Taken == UNION {InBucket(l) : l \in Labels}

(* A model of flows is fitted if there is a row with features for it, and  *)
(* the benchmark is started.                                               *)
Fitted == {i \in Taken : Features(file[i]) # {}}
Train ==
    /\ pc = "train" /\ row > Len(file)
    /\ trained' = {file[i] : i \in Fitted}
    /\ model' = [k \in 1..Cardinality(Fitted) |->
                   LET i == CHOOSE i \in Fitted : Cardinality({j \in Fitted : j < i}) = k - 1
                   IN  [label |-> LabelAt(i), tokens |-> Tokens(file[i])]]
    /\ bench' \in [split : {"all", "test"}, percent : Percents, cap : Caps, size : SampleSizes, gates : Gates]
    /\ pc' = "bench" /\ row' = 1
    /\ seen' = Empty(Labels, 0) /\ buckets' = Empty(Labels, <<>>)
    /\ UNCHANGED <<hash, file, fit, allocation, selected, turn, examples, exit>>

ReadRow ==
    /\ pc = "bench" /\ row \in DOMAIN file
    /\ row' = row + 1
    /\ IF InSplit(hash, BenchRow, bench.split, bench.percent)
       THEN TakeRow(LabelAt(row), bench.cap) ELSE SkipRow
    /\ UNCHANGED <<given, pc, model, trained, allocation, selected, turn, examples, exit>>

(* No examples, or fewer than were asked for: the benchmark ends.          *)
Available == Cardinality(Taken)
EndRead ==
    /\ pc = "bench" /\ row > Len(file)
    /\ \/ /\ Available = 0 \/ (bench.size # 0 /\ bench.size > Available)
          /\ exit' = 1 /\ pc' = "done" /\ UNCHANGED examples
       \/ /\ Available > 0 /\ bench.size = 0
          /\ examples' = Taken /\ pc' = "evaluate" /\ UNCHANGED exit
       \/ /\ bench.size # 0 /\ bench.size <= Available
          /\ pc' = "sample" /\ UNCHANGED <<examples, exit>>
    /\ UNCHANGED <<given, row, reading, model, trained, allocation, selected, turn>>

-----------------------------------------------------------------------------
(* stratified_sample: label after label is given one more row, those       *)
(* without more rows are passed over.  Mutant: they are not.               *)
NeverExhausted(l) == FALSE
Exhausted(l) == allocation[l] >= Len(buckets[l])
Sampled == {i \in DOMAIN Order : Order[i] \in Labels /\ buckets[Order[i]] # <<>>}

Allocate ==
    /\ pc = "sample" /\ selected < bench.size
    /\ turn' = (turn % Len(Order)) + 1
    /\ IF turn \in Sampled /\ ~Exhausted(Order[turn])
       THEN /\ allocation' = [allocation EXCEPT ![Order[turn]] = @ + 1]
            /\ selected' = selected + 1
       ELSE UNCHANGED <<allocation, selected>>
    /\ UNCHANGED <<given, pc, row, reading, model, trained, examples, exit>>

(* The first rows of the shuffled buckets.                                 *)
Select ==
    /\ pc = "sample" /\ selected = bench.size
    /\ \E S \in SUBSET Taken :
         /\ \A l \in Labels :
              Cardinality(S \cap InBucket(l)) = IF allocation[l] < Len(buckets[l]) THEN allocation[l] ELSE Len(buckets[l])
         /\ examples' = S
    /\ pc' = "evaluate"
    /\ UNCHANGED <<given, row, reading, model, trained, allocation, selected, turn, exit>>

-----------------------------------------------------------------------------
(* evaluate and binary_detection_metrics: every label but benign is an     *)
(* attack, a row without a label in the answer too.                        *)
Predicted(i) == Detect(model, file[i])
Count(expected, predicted) ==
    Cardinality({i \in examples : (LabelAt(i) # "benign") = expected /\ (Predicted(i) # "benign") = predicted})
Support(expected) == Cardinality({i \in examples : (LabelAt(i) # "benign") = expected})

(* The gates of main: no rate is no pass.  Mutant: it is.                  *)
TooManyFalseIfAny(limit) == Support(FALSE) > 0 /\ Count(FALSE, TRUE) * limit[2] > limit[1] * Support(FALSE)
TooManyFalse(limit) == Support(FALSE) = 0 \/ Count(FALSE, TRUE) * limit[2] > limit[1] * Support(FALSE)
TooFewTrue(limit) == Support(TRUE) = 0 \/ Count(TRUE, TRUE) * limit[2] < limit[1] * Support(TRUE)

Evaluate ==
    /\ pc = "evaluate"
    /\ exit' = IF bench.gates.tpr # None /\ TooFewTrue(bench.gates.tpr) THEN 4
               ELSE IF bench.gates.fpr # None /\ TooManyFalse(bench.gates.fpr) THEN 5 ELSE 0
    /\ pc' = "done"
    /\ UNCHANGED <<given, row, reading, model, trained, allocation, selected, turn, examples>>

Next == TrainRow \/ Train \/ ReadRow \/ EndRead \/ Allocate \/ Select \/ Evaluate

Spec == Init /\ [][Next]_vars

-----------------------------------------------------------------------------
(* No row is both fitted and evaluated, duplicates included, when the      *)
(* programs are given complementary splits and the benchmark holds out no  *)
(* more than the training did.                                             *)
HeldOut ==
    fit.split = "train" /\ bench.split = "test" /\ bench.percent <= fit.percent =>
        \A i \in examples : file[i] \notin trained

(* A reservoir holds as many rows as it may, all different and all of its  *)
(* label, whatever the random numbers were.                                *)
ReservoirIsSample ==
    \A l \in Labels :
        LET cap == IF pc = "train" THEN fit.cap ELSE bench.cap
        IN  /\ Len(buckets[l]) = IF seen[l] < cap THEN seen[l] ELSE cap
            /\ Cardinality(InBucket(l)) = Len(buckets[l])
            /\ \A i \in InBucket(l) : LabelAt(i) = l

(* The stratified sample has the size asked for, and a label has fewer     *)
(* rows in it than another, by more than one, only if it has no more.      *)
SampleIsFair ==
    pc \in {"evaluate", "done"} /\ exit # 1 /\ bench.size # 0 =>
        /\ Cardinality(examples) = bench.size
        /\ \A l, k \in Labels :
             LET of(m) == Cardinality(examples \cap InBucket(m))
             IN  of(l) + 1 < of(k) => of(l) = Len(buckets[l])

(* A model that was fitted to no flow calls every flow an attack, which is *)
(* a TPR of one.  With an FPR gate below one it does not pass, whatever    *)
(* the files hold.                                                         *)
BlindNeverPasses ==
    LET limit == bench.gates.fpr
    IN  exit = 0 /\ limit # None /\ limit[1] < limit[2] => model # <<>>

=============================================================================
