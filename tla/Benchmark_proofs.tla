-------------------------- MODULE Benchmark_proofs --------------------------
(***************************************************************************)
(* What training and benchmark hold and report, for every file, hash,      *)
(* split, cap, sample size and random choice.                              *)
(***************************************************************************)
EXTENDS Benchmark, FiniteSetTheorems, WellFoundedInduction, SequenceTheorems, TLAPS

-----------------------------------------------------------------------------
(* Types *)

(* The program that reads the file.                                        *)
Program == IF pc = "train" THEN fit ELSE bench

Types ==
    /\ file \in Seq(Rows) /\ hash \in [Rows -> 0..(Hashes - 1)]
    /\ pc \in {"train", "bench", "sample", "evaluate", "done"}
    /\ fit.percent \in Nat /\ fit.cap \in Nat \ {0}
    /\ pc # "train" => /\ bench.percent \in Nat /\ bench.cap \in Nat \ {0} /\ bench.size \in Nat
                       /\ bench.gates \in Gates
    /\ row \in Nat \ {0}
    /\ seen \in [Labels -> Nat] /\ DOMAIN buckets = Labels

LEMMA Arguments ==
    Hashes \in Nat \ {0} /\ Percents \subseteq Nat /\ Caps \subseteq Nat \ {0} /\ SampleSizes \subseteq Nat
<1>1. Percents \subseteq 1..(Hashes - 1) /\ Hashes \in Nat \ {0}
  BY BenchmarkAssumption
<1>2. Percents \subseteq Nat
  BY <1>1
<1> QED
  BY <1>1, <1>2, BenchmarkAssumption

LEMMA Given ==
    ASSUME [Next]_vars
    PROVE  /\ hash' = hash /\ file' = file /\ fit' = fit /\ Labels' = Labels
           /\ pc # "train" => bench' = bench
  BY DEF Next, vars, given, reading, TrainRow, Train, ReadRow, EndRead, Allocate, Select, Evaluate,
         Labels, LabelAt

LEMMA TypesStep == ASSUME Types, [Next]_vars PROVE Types'
<1> USE DEF Types
<1>1. hash' = hash /\ file' = file /\ fit' = fit /\ Labels' = Labels
  BY Given
<1>2. ASSUME NEW l, NEW cap, l \in Labels, TakeRow(l, cap)
      PROVE  seen' \in [Labels -> Nat] /\ DOMAIN buckets' = Labels
  BY <1>2 DEF TakeRow
<1>3. CASE TrainRow
  <2>1. /\ row' = row + 1 /\ pc' = pc /\ pc = "train" /\ row \in DOMAIN file
        /\ TakeRow(LabelAt(row), fit.cap) \/ UNCHANGED reading
    BY <1>3 DEF TrainRow, SkipRow
  <2>2. seen' \in [Labels -> Nat] /\ DOMAIN buckets' = Labels
    BY <1>2, <2>1 DEF reading, Labels
  <2> QED
    BY <1>1, <2>1, <2>2
<1>4. CASE ReadRow
  <2>1. /\ row' = row + 1 /\ pc' = pc /\ pc = "bench" /\ row \in DOMAIN file /\ bench' = bench
        /\ TakeRow(LabelAt(row), bench.cap) \/ UNCHANGED reading
    BY <1>4 DEF ReadRow, SkipRow, given
  <2>2. seen' \in [Labels -> Nat] /\ DOMAIN buckets' = Labels
    BY <1>2, <2>1 DEF reading, Labels
  <2> QED
    BY <1>1, <2>1, <2>2
<1>5. CASE Train
  <2>1. /\ bench'.percent \in Percents /\ bench'.cap \in Caps /\ bench'.size \in SampleSizes
        /\ bench'.gates \in Gates
    <3>1. bench' \in [split : {"all", "test"}, percent : Percents, cap : Caps, size : SampleSizes, gates : Gates]
      BY <1>5 DEF Train
    <3> QED
      BY <3>1
  <2>2. /\ bench'.percent \in Nat /\ bench'.cap \in Nat \ {0} /\ bench'.size \in Nat
    BY <2>1, Arguments
  <2>3. seen' \in [Labels -> Nat] /\ DOMAIN buckets' = Labels /\ pc' = "bench" /\ row' = 1
    BY <1>5 DEF Train, Empty
  <2> QED
    BY <1>1, <2>1, <2>2, <2>3
<1>6. CASE EndRead \/ Allocate \/ Select \/ Evaluate \/ UNCHANGED vars
  BY <1>1, <1>6, Given DEF EndRead, Allocate, Select, Evaluate, vars, given, reading
<1> QED
  BY <1>3, <1>4, <1>5, <1>6 DEF Next

LEMMA TypesHold == Spec => []Types
<1>1. ASSUME Init PROVE Types
  <2>1. file \in Seq(Rows) /\ hash \in [Rows -> 0..(Hashes - 1)]
    BY <1>1, BenchmarkAssumption DEF Init
  <2>2. fit.percent \in Percents /\ fit.cap \in Caps
    <3>1. fit \in [split : {"all", "train"}, percent : Percents, cap : Caps]
      BY <1>1 DEF Init
    <3> QED
      BY <3>1
  <2>3. fit.percent \in Nat /\ fit.cap \in Nat \ {0}
    BY <2>2, Arguments
  <2> QED
    BY <1>1, <2>1, <2>3 DEF Init, Types, Empty
<1> QED
  BY <1>1, TypesStep, PTL DEF Spec

-----------------------------------------------------------------------------
(* The reservoirs *)

(* A reservoir of at most cap different rows of a label and of a split,    *)
(* out of n that came by.                                                  *)
Reservoir(s, l, n, p) ==
    /\ s \in Seq(DOMAIN file)
    /\ Len(s) = IF n < p.cap THEN n ELSE p.cap
    /\ \A j \in DOMAIN s : /\ s[j] < row /\ LabelAt(s[j]) = l
                           /\ InSplit(hash, file[s[j]], p.split, p.percent)
    /\ \A j, k \in DOMAIN s : s[j] = s[k] => j = k
ReservoirInv == \A l \in Labels : Reservoir(buckets[l], l, seen[l], Program)

LEMMA NoRows == ASSUME NEW l, NEW p, p.cap \in Nat \ {0} PROVE Reservoir(<<>>, l, 0, p)
<1>1. Len(<<>>) = 0 /\ DOMAIN <<>> = {} /\ <<>> \in Seq(DOMAIN file)
  OBVIOUS
<1> QED
  BY <1>1 DEF Reservoir

LEMMA OtherRows ==
    ASSUME Types, Types', NEW s, NEW l, NEW n, NEW p, Reservoir(s, l, n, p),
           file' = file, hash' = hash, row' = row \/ row' = row + 1
    PROVE  Reservoir(s, l, n, p)'
<1>1. ASSUME NEW j \in DOMAIN s PROVE s[j] < row'
  <2>1. s[j] \in DOMAIN file /\ DOMAIN file \subseteq Nat /\ row \in Nat
    <3>1. s \in Seq(DOMAIN file) /\ file \in Seq(Rows) /\ row \in Nat
      BY DEF Reservoir, Types
    <3>2. DOMAIN s = 1..Len(s) /\ DOMAIN file = 1..Len(file)
      BY <3>1, LenProperties
    <3> QED
      BY <3>1, <3>2
  <2> QED
    BY <2>1 DEF Reservoir
<1> QED
  BY <1>1 DEF Reservoir, LabelAt

(* What the next row does to the reservoir of its label.                   *)
Takes(s, t, cap) ==
    IF Len(s) < cap THEN t = Append(s, row) ELSE t = s \/ \E i \in 1..cap : t = [s EXCEPT ![i] = row]

LEMMA Added ==
    ASSUME Types, file' = file, hash' = hash, row' = row + 1, row \in DOMAIN file,
           NEW l, l = LabelAt(row), NEW n \in Nat, NEW p, p.cap \in Nat \ {0},
           InSplit(hash, file[row], p.split, p.percent),
           NEW s, Reservoir(s, l, n, p), NEW t, Takes(s, t, p.cap)
    PROVE  Reservoir(t, l, n + 1, p)'
<1> DEFINE Good(i) == i < row /\ LabelAt(i) = l /\ InSplit(hash, file[i], p.split, p.percent)
           Fits(i) == i < row' /\ LabelAt(i)' = l /\ InSplit(hash', file'[i], p.split, p.percent)
<1>1. /\ s \in Seq(DOMAIN file) /\ Len(s) \in Nat /\ DOMAIN s = 1..Len(s) /\ row \in Nat
      /\ DOMAIN file \subseteq Nat
  BY LenProperties DEF Reservoir, Types
<1>2. /\ \A j \in DOMAIN s : Good(s[j])
      /\ \A j, k \in DOMAIN s : s[j] = s[k] => j = k
      /\ Len(s) = IF n < p.cap THEN n ELSE p.cap
  BY DEF Reservoir
<1>3. \A i \in DOMAIN file : Good(i) \/ i = row => Fits(i)
  BY <1>1 DEF LabelAt
<1>4. \A i \in DOMAIN file : Good(i) => i # row
  BY <1>1
<1> HIDE DEF Good, Fits
<1>5. SUFFICES /\ t \in Seq(DOMAIN file)
               /\ Len(t) = IF n + 1 < p.cap THEN n + 1 ELSE p.cap
               /\ \A j \in DOMAIN t : Good(t[j]) \/ t[j] = row
               /\ \A j, k \in DOMAIN t : t[j] = t[k] => j = k
  <2>1. ASSUME t \in Seq(DOMAIN file), \A j \in DOMAIN t : Good(t[j]) \/ t[j] = row
        PROVE  \A j \in DOMAIN t : Fits(t[j])
    <3>1. DOMAIN t = 1..Len(t) /\ \A j \in DOMAIN t : t[j] \in DOMAIN file
      BY <2>1, LenProperties, ElementOfSeq
    <3> QED
      BY <1>3, <2>1, <3>1
  <2>2. DOMAIN file' = DOMAIN file
    OBVIOUS
  <2> QED
    BY <2>1, <2>2 DEF Fits, Reservoir
<1>6. ASSUME Len(s) < p.cap, t = Append(s, row)
      PROVE  /\ t \in Seq(DOMAIN file)
             /\ Len(t) = IF n + 1 < p.cap THEN n + 1 ELSE p.cap
             /\ \A j \in DOMAIN t : Good(t[j]) \/ t[j] = row
             /\ \A j, k \in DOMAIN t : t[j] = t[k] => j = k
  <2>1. /\ t \in Seq(DOMAIN file) /\ Len(t) = Len(s) + 1 /\ DOMAIN t = 1..(Len(s) + 1)
        /\ \A j \in 1..Len(s) : t[j] = s[j]
        /\ t[Len(s) + 1] = row
    <3>1. row \in DOMAIN file
      OBVIOUS
    <3>2. /\ t \in Seq(DOMAIN file) /\ Len(t) = Len(s) + 1
          /\ \A j \in 1..Len(s) : t[j] = s[j]
          /\ t[Len(s) + 1] = row
      BY <1>1, <1>6, <3>1, AppendProperties
    <3> QED
      BY <3>2, LenProperties
  <2>2. \A j \in DOMAIN s : Good(t[j]) /\ t[j] # row /\ t[j] = s[j]
    BY <1>1, <1>2, <1>4, <2>1
  <2>3. DOMAIN t = DOMAIN s \cup {Len(s) + 1} /\ Len(s) + 1 \notin DOMAIN s
    BY <1>1, <2>1
  <2>4. \A j, k \in DOMAIN t : t[j] = t[k] => j = k
    BY <1>2, <2>1, <2>2, <2>3
  <2>5. \A j \in DOMAIN t : Good(t[j]) \/ t[j] = row
    BY <2>1, <2>2, <2>3
  <2>6. Len(t) = IF n + 1 < p.cap THEN n + 1 ELSE p.cap
    BY <1>2, <1>6, <2>1
  <2> QED
    BY <2>1, <2>4, <2>5, <2>6
<1>7. CASE t = s /\ ~(Len(s) < p.cap)
  BY <1>1, <1>2, <1>7
<1>8. ASSUME ~(Len(s) < p.cap), NEW i \in 1..p.cap, t = [s EXCEPT ![i] = row]
      PROVE  /\ t \in Seq(DOMAIN file)
             /\ Len(t) = IF n + 1 < p.cap THEN n + 1 ELSE p.cap
             /\ \A j \in DOMAIN t : Good(t[j]) \/ t[j] = row
             /\ \A j, k \in DOMAIN t : t[j] = t[k] => j = k
  <2>1. t = [s EXCEPT ![i] = row]
    BY <1>8
  <2>2. Len(s) = p.cap /\ i \in 1..Len(s)
    BY <1>2, <1>8
  <2>3. /\ t \in Seq(DOMAIN file) /\ Len(t) = Len(s)
        /\ \A j \in 1..Len(s) : t[j] = IF j = i THEN row ELSE s[j]
    BY <1>1, <2>1, <2>2, ExceptSeq
  <2>4. DOMAIN t = DOMAIN s /\ t[i] = row /\ \A j \in DOMAIN s \ {i} : t[j] = s[j] /\ Good(t[j]) /\ t[j] # row
    BY <1>1, <1>2, <1>4, <2>2, <2>3, LenProperties
  <2>5. \A j, k \in DOMAIN t : t[j] = t[k] => j = k
    BY <1>2, <2>4
  <2>6. Len(t) = IF n + 1 < p.cap THEN n + 1 ELSE p.cap
    BY <1>2, <2>2, <2>3
  <2> QED
    BY <2>3, <2>4, <2>5, <2>6
<1> QED
  BY <1>6, <1>7, <1>8 DEF Takes

LEMMA TakeStep ==
    ASSUME Types, Types', file' = file, hash' = hash, row' = row + 1, row \in DOMAIN file,
           NEW p, p.cap \in Nat \ {0}, \A l \in Labels : Reservoir(buckets[l], l, seen[l], p),
           IF InSplit(hash, file[row], p.split, p.percent) THEN TakeRow(LabelAt(row), p.cap) ELSE SkipRow
    PROVE  (\A l \in Labels : Reservoir(buckets[l], l, seen[l], p))'
<1>1. Labels' = Labels /\ LabelAt(row) \in Labels
  BY DEF Labels, LabelAt
<1>2. CASE SkipRow
  <2>1. ASSUME NEW l \in Labels PROVE Reservoir(buckets[l], l, seen[l], p)'
    <3>1. PICK s, n : s = buckets[l] /\ n = seen[l]
      OBVIOUS
    <3>2. Reservoir(s, l, n, p)
      BY <3>1
    <3>3. Reservoir(s, l, n, p)'
      BY <3>2, OtherRows
    <3> QED
      BY <1>2, <3>1, <3>3 DEF SkipRow, reading
  <2> QED
    BY <1>1, <2>1
<1>3. CASE InSplit(hash, file[row], p.split, p.percent) /\ TakeRow(LabelAt(row), p.cap)
  <2>1. PICK a : a = LabelAt(row)
    OBVIOUS
  <2>2. a \in Labels /\ seen \in [Labels -> Nat] /\ DOMAIN buckets = Labels
    BY <1>1, <2>1 DEF Types
  <2>3. seen'[a] = seen[a] + 1 /\ \A l \in Labels \ {a} : seen'[l] = seen[l]
    BY <1>3, <2>1, <2>2 DEF TakeRow
  <2>4. /\ Takes(buckets[a], buckets'[a], p.cap)
        /\ \A l \in Labels \ {a} : buckets'[l] = buckets[l]
    <3>1. CASE Appends(a, p.cap)
      BY <1>3, <2>1, <2>2, <3>1 DEF TakeRow, Appends, Takes
    <3>2. CASE ~Appends(a, p.cap)
      <4>1. PICK index \in 0..seen[a] :
              buckets' = IF index < p.cap THEN [buckets EXCEPT ![a][index + 1] = row] ELSE buckets
        BY <1>3, <2>1, <3>2 DEF TakeRow
      <4>2. CASE index < p.cap
        <5>1. PICK i : i = index + 1
          OBVIOUS
        <5>2. i \in 1..p.cap
          BY <2>2, <4>2, <5>1
        <5>3. buckets' = [buckets EXCEPT ![a] = [buckets[a] EXCEPT ![i] = row]]
          BY <4>1, <4>2, <5>1
        <5> QED
          BY <2>2, <3>2, <5>2, <5>3 DEF Appends, Takes
      <4>3. CASE ~(index < p.cap)
        BY <3>2, <4>1, <4>3 DEF Appends, Takes
      <4> QED
        BY <4>2, <4>3
    <3> QED
      BY <3>1, <3>2
  <2>5. Reservoir(buckets[a], a, seen[a], p)'
    <3>1. PICK s, t, n : s = buckets[a] /\ t = buckets'[a] /\ n = seen[a]
      OBVIOUS
    <3>2. n \in Nat /\ Reservoir(s, a, n, p)
      BY <2>2, <3>1
    <3>3. Takes(s, t, p.cap)
      BY <2>4, <3>1
    <3>4. Reservoir(t, a, n + 1, p)'
      BY <1>3, <2>1, <3>2, <3>3, Added
    <3> QED
      BY <2>3, <3>1, <3>4
  <2>6. ASSUME NEW l \in Labels \ {a} PROVE Reservoir(buckets[l], l, seen[l], p)'
    <3>1. PICK s, n : s = buckets[l] /\ n = seen[l]
      OBVIOUS
    <3>2. Reservoir(s, l, n, p)
      BY <3>1
    <3>3. Reservoir(s, l, n, p)'
      BY <3>2, OtherRows
    <3> QED
      BY <2>3, <2>4, <3>1, <3>3
  <2> QED
    BY <1>1, <2>5, <2>6
<1> QED
  BY <1>2, <1>3

LEMMA ReservoirStep == ASSUME Types, Types', ReservoirInv, [Next]_vars PROVE ReservoirInv'
<1>1. hash' = hash /\ file' = file /\ fit' = fit /\ Labels' = Labels /\ (pc # "train" => bench' = bench)
  BY Given
<1>2. CASE TrainRow
  <2>1. /\ pc = "train" /\ pc' = pc /\ row' = row + 1 /\ row \in DOMAIN file
        /\ IF InSplit(hash, file[row], fit.split, fit.percent) THEN TakeRow(LabelAt(row), fit.cap) ELSE SkipRow
    BY <1>2 DEF TrainRow
  <2>2. PICK p : p = fit
    OBVIOUS
  <2>3. Program = p /\ Program' = p /\ p.cap \in Nat \ {0}
    BY <1>1, <2>1, <2>2 DEF Program, Types
  <2>4. (\A l \in Labels : Reservoir(buckets[l], l, seen[l], p))'
    BY <1>1, <2>1, <2>2, <2>3, TakeStep DEF ReservoirInv
  <2> QED
    BY <2>3, <2>4 DEF ReservoirInv
<1>3. CASE ReadRow
  <2>1. /\ pc = "bench" /\ pc' = pc /\ row' = row + 1 /\ row \in DOMAIN file
        /\ IF InSplit(hash, file[row], bench.split, bench.percent)
           THEN TakeRow(LabelAt(row), bench.cap) ELSE SkipRow
    BY <1>3 DEF ReadRow, BenchRow
  <2>2. PICK p : p = bench
    OBVIOUS
  <2>3. Program = p /\ Program' = p /\ p.cap \in Nat \ {0}
    BY <1>1, <2>1, <2>2 DEF Program, Types
  <2>4. (\A l \in Labels : Reservoir(buckets[l], l, seen[l], p))'
    BY <1>1, <2>1, <2>2, <2>3, TakeStep DEF ReservoirInv
  <2> QED
    BY <2>3, <2>4 DEF ReservoirInv
<1>4. CASE Train
  <2>1. \A l \in Labels' : buckets'[l] = <<>> /\ seen'[l] = 0
    BY <1>1, <1>4 DEF Train, Empty
  <2>2. PICK p : p = Program'
    OBVIOUS
  <2>3. p.cap \in Nat \ {0}
    BY <1>1, <1>4, <2>2 DEF Train, Program, Types
  <2>4. ASSUME NEW l PROVE Reservoir(<<>>, l, 0, p)'
    <3>1. Len(<<>>) = 0 /\ DOMAIN <<>> = {} /\ <<>> \in Seq(DOMAIN file')
      OBVIOUS
    <3> QED
      BY <2>3, <3>1 DEF Reservoir
  <2> QED
    BY <2>1, <2>2, <2>4 DEF ReservoirInv
<1>5. CASE EndRead \/ Allocate \/ Select \/ Evaluate \/ UNCHANGED vars
  <2>1. buckets' = buckets /\ seen' = seen /\ row' = row /\ Program' = Program
    BY <1>1, <1>5 DEF EndRead, Allocate, Select, Evaluate, vars, reading, given, Program
  <2>2. PICK p : p = Program
    OBVIOUS
  <2>3. ASSUME NEW l \in Labels PROVE Reservoir(buckets[l], l, seen[l], p)'
    <3>1. PICK s, n : s = buckets[l] /\ n = seen[l]
      OBVIOUS
    <3>2. Reservoir(s, l, n, p)
      BY <2>2, <3>1 DEF ReservoirInv
    <3>3. Reservoir(s, l, n, p)'
      BY <1>1, <2>1, <3>2, OtherRows
    <3> QED
      BY <2>1, <3>1, <3>3
  <2> QED
    BY <1>1, <2>1, <2>2, <2>3 DEF ReservoirInv
<1> QED
  BY <1>2, <1>3, <1>4, <1>5 DEF Next

LEMMA ReservoirsHold == Spec => []ReservoirInv
<1>1. ASSUME Init, Types PROVE ReservoirInv
  <2>1. \A l \in Labels : buckets[l] = <<>> /\ seen[l] = 0
    BY <1>1 DEF Init, Empty
  <2>2. Program.cap \in Nat \ {0}
    BY <1>1 DEF Init, Program, Types
  <2> QED
    BY <2>1, <2>2, NoRows DEF ReservoirInv
<1> QED
  BY <1>1, ReservoirStep, TypesHold, PTL DEF Spec

(* As many elements as positions, if all are different.                    *)
LEMMA Distinct ==
    ASSUME NEW T, NEW s \in Seq(T), \A j, k \in DOMAIN s : s[j] = s[k] => j = k
    PROVE  LET S == {s[k] : k \in DOMAIN s}
           IN  IsFiniteSet(S) /\ Cardinality(S) = Len(s)
<1> DEFINE S == {s[k] : k \in DOMAIN s}
           f == [k \in 1..Len(s) |-> s[k]]
<1>1. DOMAIN s = 1..Len(s) /\ Len(s) \in Nat
  BY LenProperties
<1>2. IsFiniteSet(1..Len(s)) /\ Cardinality(1..Len(s)) = Len(s)
  BY <1>1, FS_Interval
<1>3. f \in Bijection(1..Len(s), S)
  BY <1>1 DEF Bijection, Injection, Surjection, IsInjective
<1> HIDE DEF S, f
<1>4. ExistsBijection(1..Len(s), S)
  BY <1>3 DEF ExistsBijection
<1>5. IsFiniteSet(S) /\ Cardinality(S) = Cardinality(1..Len(s))
  BY <1>2, <1>4, FS_Bijection
<1> QED
  BY <1>2, <1>5 DEF S

LEMMA BucketCount ==
    ASSUME ReservoirInv, NEW l \in Labels
    PROVE  /\ IsFiniteSet(InBucket(l)) /\ Cardinality(InBucket(l)) = Len(buckets[l])
           /\ Len(buckets[l]) \in Nat
<1>1. PICK s : s = buckets[l]
  OBVIOUS
<1>2. s \in Seq(DOMAIN file) /\ \A j, k \in DOMAIN s : s[j] = s[k] => j = k
  BY <1>1 DEF ReservoirInv, Reservoir
<1> QED
  BY <1>1, <1>2, Distinct, LenProperties DEF InBucket

(* Whatever random numbers were drawn: a reservoir is as large as it can   *)
(* be, and a sample of the rows of its label without repetition.           *)
THEOREM ReservoirsAreSamples == Spec => []ReservoirIsSample
<1>1. ASSUME Types, ReservoirInv PROVE ReservoirIsSample
  <2>1. \A l \in Labels : Reservoir(buckets[l], l, seen[l], Program)
    BY <1>1 DEF ReservoirInv
  <2>2. Program.cap = IF pc = "train" THEN fit.cap ELSE bench.cap
    BY DEF Program
  <2>3. ASSUME NEW l \in Labels
        PROVE  /\ Len(buckets[l]) = IF seen[l] < Program.cap THEN seen[l] ELSE Program.cap
               /\ Cardinality(InBucket(l)) = Len(buckets[l])
               /\ \A i \in InBucket(l) : LabelAt(i) = l
    <3>1. Cardinality(InBucket(l)) = Len(buckets[l])
      BY <1>1, BucketCount
    <3> QED
      BY <2>1, <3>1 DEF Reservoir, InBucket
  <2> QED
    BY <2>2, <2>3 DEF ReservoirIsSample
<1> QED
  BY <1>1, TypesHold, ReservoirsHold, PTL

-----------------------------------------------------------------------------
(* Training and evaluation apart *)

(* The rows the model was fitted to and those that are evaluated came out  *)
(* of the splits that were asked for.                                      *)
SplitInv ==
    /\ trained \subseteq Rows /\ (pc = "train" => trained = {})
    /\ \A r \in trained : InSplit(hash, r, fit.split, fit.percent)
    /\ examples \subseteq Taken /\ (pc \in {"train", "bench", "sample"} => examples = {})

LEMMA TakenRows ==
    ASSUME Types, ReservoirInv
    PROVE  \A i \in Taken : /\ i \in DOMAIN file /\ file[i] \in Rows
                            /\ InSplit(hash, file[i], Program.split, Program.percent)
<1> SUFFICES ASSUME NEW l \in Labels, NEW j \in DOMAIN buckets[l]
             PROVE  /\ buckets[l][j] \in DOMAIN file /\ file[buckets[l][j]] \in Rows
                    /\ InSplit(hash, file[buckets[l][j]], Program.split, Program.percent)
  BY DEF Taken, InBucket
<1>1. PICK s : s = buckets[l]
  OBVIOUS
<1>2. /\ s \in Seq(DOMAIN file)
      /\ \A k \in DOMAIN s : InSplit(hash, file[s[k]], Program.split, Program.percent)
  BY <1>1 DEF ReservoirInv, Reservoir
<1>3. s[j] \in DOMAIN file
  BY <1>1, <1>2, ElementOfSeq, LenProperties
<1>4. \A i \in DOMAIN file : file[i] \in Rows
  BY ElementOfSeq, LenProperties DEF Types
<1> QED
  BY <1>1, <1>2, <1>3, <1>4

LEMMA SplitStep == ASSUME Types, Types', ReservoirInv, SplitInv, [Next]_vars PROVE SplitInv'
<1>1. hash' = hash /\ file' = file /\ fit' = fit /\ Labels' = Labels
  BY Given
<1>2. CASE TrainRow \/ ReadRow
  BY <1>1, <1>2 DEF TrainRow, ReadRow, SplitInv
<1>3. CASE Train
  <2>1. trained' = {file[i] : i \in Fitted} /\ examples' = examples /\ examples = {} /\ pc = "train" /\ pc' = "bench"
    BY <1>3 DEF Train, SplitInv
  <2>2. Program = fit
    BY <2>1 DEF Program
  <2>3. \A i \in Fitted : file[i] \in Rows /\ InSplit(hash, file[i], fit.split, fit.percent)
    BY <2>2, TakenRows DEF Fitted
  <2> QED
    BY <1>1, <2>1, <2>3 DEF SplitInv
<1>4. ASSUME UNCHANGED <<buckets, trained>>, pc' # "train", examples' \subseteq Taken,
             pc' \in {"train", "bench", "sample"} => examples' = {}
      PROVE  SplitInv'
  <2>1. Taken' = Taken
    BY <1>1, <1>4 DEF Taken, InBucket
  <2> QED
    BY <1>1, <1>4, <2>1 DEF SplitInv
<1>5. CASE EndRead
  <2>1. pc = "bench" /\ examples = {} /\ UNCHANGED <<buckets, trained>>
    BY <1>5 DEF EndRead, reading, SplitInv
  <2>2. \/ pc' = "done" /\ examples' = examples
        \/ pc' = "evaluate" /\ examples' = Taken
        \/ pc' = "sample" /\ examples' = examples
    BY <1>5 DEF EndRead
  <2> QED
    BY <1>4, <2>1, <2>2
<1>6. CASE Allocate
  BY <1>4, <1>6 DEF Allocate, reading, SplitInv
<1>7. CASE Select
  BY <1>4, <1>7 DEF Select, reading
<1>8. CASE Evaluate
  BY <1>4, <1>8 DEF Evaluate, reading, SplitInv
<1>9. CASE UNCHANGED vars
  BY <1>9 DEF vars, reading, given, SplitInv, Taken, InBucket, Labels, LabelAt
<1> QED
  BY <1>2, <1>3, <1>5, <1>6, <1>7, <1>8, <1>9 DEF Next

LEMMA SplitHolds == Spec => []SplitInv
<1>1. Init => SplitInv
  BY DEF Init, SplitInv
<1> QED
  BY <1>1, SplitStep, TypesHold, ReservoirsHold, PTL DEF Spec

(* No row that the model was fitted to is evaluated, in any file with any  *)
(* duplicates, when the splits are complementary.                          *)
THEOREM EvaluationIsHeldOut == Spec => []HeldOut
<1>1. ASSUME Types, ReservoirInv, SplitInv PROVE HeldOut
  <2> SUFFICES ASSUME fit.split = "train", bench.split = "test", bench.percent <= fit.percent,
                      NEW i \in examples, file[i] \in trained
               PROVE  FALSE
    BY DEF HeldOut
  <2>1. pc # "train"
    BY <1>1 DEF SplitInv
  <2>2. file[i] \in Rows /\ InSplit(hash, file[i], bench.split, bench.percent)
    BY <1>1, <2>1, TakenRows DEF SplitInv, Program
  <2>3. InSplit(hash, file[i], fit.split, fit.percent)
    BY <1>1 DEF SplitInv
  <2>4. hash[file[i]] < bench.percent /\ ~(hash[file[i]] < fit.percent)
    BY <2>2, <2>3 DEF InSplit, Partition
  <2>5. hash[file[i]] \in Nat /\ bench.percent \in Nat /\ fit.percent \in Nat
    <3>1. hash[file[i]] \in 0..(Hashes - 1)
      BY <1>1, <2>2 DEF Types
    <3> QED
      BY <1>1, <2>1, <3>1, Arguments DEF Types
  <2> QED
    BY <2>4, <2>5
<1> QED
  BY <1>1, TypesHold, ReservoirsHold, SplitHolds, PTL

-----------------------------------------------------------------------------
(* The stratified sample *)

LEMMA OrderDomain == DOMAIN Order = 1..13 /\ Len(Order) = 13
  BY DEF Order

LEMMA OrderDistinct == \A i, j \in DOMAIN Order : Order[i] = Order[j] => i = j
  BY DEF Order

(* Every label has its turn.                                               *)
LEMMA WordingNames == \A i \in DOMAIN Wordings : \E k \in DOMAIN Order : Wordings[i][2] = Order[k]
<1>1. /\ Wordings[1][2] = Order[6] /\ Wordings[2][2] = Order[3] /\ Wordings[3][2] = Order[13]
      /\ Wordings[4][2] = Order[10] /\ Wordings[5][2] = Order[11] /\ Wordings[6][2] = Order[12]
      /\ Wordings[7][2] = Order[5] /\ Wordings[8][2] = Order[2] /\ Wordings[9][2] = Order[7]
      /\ Wordings[10][2] = Order[4] /\ Wordings[11][2] = Order[8]
  BY DEF Wordings, Order
<1>2. DOMAIN Wordings = 1..11 /\ DOMAIN Order = 1..13
  BY DEF Wordings, Order
<1> QED
  BY <1>1, <1>2

LEMMA Smallest ==
    ASSUME NEW T, T \subseteq Nat, T # {} PROVE (CHOOSE i \in T : \A j \in T : i <= j) \in T
<1>1. PICK i \in T : \A j \in T : ~(<<j, i>> \in OpToRel(<, Nat))
  BY NatLessThanWellFounded, WFMin
<1>2. \A j \in T : ~(j < i)
  BY <1>1 DEF OpToRel
<1>3. \A j \in T : i <= j
  BY <1>2
<1> QED
  BY <1>3

LEMMA LabelKnown == ASSUME NEW words PROVE \E k \in DOMAIN Order : Label(words) = Order[k]
<1> DEFINE hits == {i \in DOMAIN Wordings : Wordings[i][1] \cap words # {}}
           first == CHOOSE i \in hits : \A j \in hits : i <= j
           benign == words = {} \/ words \in {{"benign"}, {"normal"}, {"background"}}
<1>1. DOMAIN Wordings \subseteq Nat
  BY DEF Wordings
<1>2. ASSUME hits # {} PROVE first \in DOMAIN Wordings
  <2>1. hits \subseteq Nat
    BY <1>1
  <2> HIDE DEF hits
  <2>2. first \in hits
    BY <1>2, <2>1, Smallest
  <2> QED
    BY <2>2 DEF hits
<1>3. Label(words) = CASE benign -> "benign" [] hits # {} -> Wordings[first][2] [] OTHER -> "other"
  BY DEF Label
<1> HIDE DEF hits, first, benign
<1>4. /\ ~(benign /\ hits # {}) => (benign => Label(words) = "benign")
      /\ ~benign /\ hits # {} => Label(words) = Wordings[first][2]
      /\ ~benign /\ ~(hits # {}) => Label(words) = "other"
      /\ benign => Label(words) \in {"benign", Wordings[first][2]}
  BY <1>3
<1>5. Order[1] = "benign" /\ Order[9] = "other" /\ {1, 9} \subseteq DOMAIN Order
  BY DEF Order
<1>6. CASE hits # {}
  BY <1>2, <1>4, <1>5, <1>6, WordingNames
<1>7. CASE ~(hits # {})
  BY <1>4, <1>5, <1>7
<1> QED
  BY <1>6, <1>7

LEMMA LabelsKnown == \A l \in Labels : \E i \in DOMAIN Order : l = Order[i]
  BY LabelKnown DEF Labels, LabelAt

Least(a, b) == IF a < b THEN a ELSE b

(* What has been allocated, as pairs of a label and a number.              *)
Allotted == {p \in Labels \X (Nat \ {0}) : p[2] <= allocation[p[1]]}

(* In round r + 1, the labels that had their turn have one more row, or    *)
(* all of theirs.                                                          *)
Rounds(r) ==
    \A i \in DOMAIN Order : Order[i] \in Labels =>
        allocation[Order[i]] = Least(Len(buckets[Order[i]]), IF i < turn THEN r + 1 ELSE r)

AllotInv ==
    /\ allocation \in [Labels -> Nat] /\ selected \in Nat /\ turn \in DOMAIN Order
    /\ IsFiniteSet(Allotted) /\ Cardinality(Allotted) = selected
    /\ \E r \in Nat : Rounds(r)
    /\ pc \in {"train", "bench"} => turn = 1 /\ \A l \in Labels : allocation[l] = 0

LEMMA NoRounds ==
    ASSUME ReservoirInv, turn = 1, \A l \in Labels : allocation[l] = 0 PROVE Rounds(0)
<1>1. \A l \in Labels : Len(buckets[l]) \in Nat
  BY BucketCount
<1>2. \A i \in DOMAIN Order : ~(i < turn)
  BY OrderDomain
<1> QED
  BY <1>1, <1>2 DEF Rounds, Least

LEMMA AllocateStep == ASSUME ReservoirInv, AllotInv, Allocate PROVE AllotInv'
<1> USE OrderDomain
<1>1. PICK r \in Nat : Rounds(r)
  BY DEF AllotInv
<1>2. /\ Labels' = Labels /\ buckets' = buckets /\ pc' = pc /\ pc = "sample"
  BY DEF Allocate, given, reading, Labels, LabelAt
<1>3. turn \in 1..13 /\ allocation \in [Labels -> Nat] /\ selected \in Nat
  BY DEF AllotInv
<1>4. turn' = IF turn = 13 THEN 1 ELSE turn + 1
  <2>1. turn' = (turn % 13) + 1
    BY DEF Allocate
  <2> QED
    BY <1>3, <2>1
<1>5. \A l \in Labels : Len(buckets[l]) \in Nat
  BY BucketCount
<1> DEFINE a == Order[turn]
           more == turn \in Sampled /\ ~Exhausted(a)
<1>6. more => a \in Labels /\ allocation[a] < Len(buckets[a])
  BY <1>3, <1>5 DEF Sampled, Exhausted
<1>7. ~more /\ a \in Labels => allocation[a] >= Len(buckets[a])
  <2>1. ASSUME a \in Labels, buckets[a] = <<>> PROVE Len(buckets[a]) = 0
    BY <2>1
  <2> QED
    BY <1>3, <1>5, <2>1 DEF Sampled, Exhausted
<1>8. IF more THEN allocation' = [allocation EXCEPT ![a] = @ + 1] /\ selected' = selected + 1
              ELSE UNCHANGED <<allocation, selected>>
  BY DEF Allocate
<1> HIDE DEF more
<1>9. allocation' \in [Labels -> Nat] /\ selected' \in Nat
  BY <1>3, <1>6, <1>8
<1>10. ASSUME NEW i \in DOMAIN Order, Order[i] \in Labels
       PROVE  allocation'[Order[i]] = Least(Len(buckets[Order[i]]), IF i <= turn THEN r + 1 ELSE r)
  <2>1. allocation[Order[i]] = Least(Len(buckets[Order[i]]), IF i < turn THEN r + 1 ELSE r)
    BY <1>1, <1>10 DEF Rounds
  <2>2. CASE i = turn
    <3>1. allocation[a] = Least(Len(buckets[a]), r) /\ a \in Labels
      BY <1>3, <1>10, <2>1, <2>2
    <3>2. allocation'[a] = Least(Len(buckets[a]), r + 1)
      <4>1. CASE more
        <5>1. allocation'[a] = allocation[a] + 1
          BY <1>3, <1>8, <3>1, <4>1
        <5> QED
          BY <1>3, <1>5, <1>6, <3>1, <4>1, <5>1 DEF Least
      <4>2. CASE ~more
        BY <1>3, <1>5, <1>7, <1>8, <3>1, <4>2 DEF Least
      <4> QED
        BY <4>1, <4>2
    <3> QED
      BY <1>3, <2>2, <3>2
  <2>3. CASE i # turn
    <3>1. Order[i] # a
      BY <1>3, <2>3, OrderDistinct
    <3>2. allocation'[Order[i]] = allocation[Order[i]]
      BY <1>3, <1>8, <1>10, <3>1
    <3>3. i < turn <=> i <= turn
      BY <1>3, <2>3
    <3> QED
      BY <2>1, <3>2, <3>3
  <2> QED
    BY <2>2, <2>3
<1>11. \E q \in Nat : Rounds(q)'
  <2>1. CASE turn = 13
    <3>1. \A i \in DOMAIN Order : i <= turn /\ ~(i < turn')
      BY <1>4, <2>1
    <3>2. Rounds(r + 1)'
      BY <1>2, <1>10, <3>1 DEF Rounds
    <3> QED
      BY <3>2
  <2>2. CASE turn # 13
    <3>1. \A i \in DOMAIN Order : i <= turn <=> i < turn'
      BY <1>3, <1>4, <2>2
    <3>2. Rounds(r)'
      BY <1>2, <1>10, <3>1 DEF Rounds
    <3> QED
      BY <3>2
  <2> QED
    BY <2>1, <2>2
<1>12. IsFiniteSet(Allotted') /\ Cardinality(Allotted') = selected'
  <2>0. IsFiniteSet(Allotted) /\ Cardinality(Allotted) = selected
    BY DEF AllotInv
  <2>1. CASE more
    <3>1. PICK x : x = <<a, allocation[a] + 1>>
      OBVIOUS
    <3>2. a \in Labels /\ allocation[a] \in Nat /\ allocation'[a] = allocation[a] + 1 /\ selected' = selected + 1
          /\ \A l \in Labels \ {a} : allocation'[l] = allocation[l]
      BY <1>3, <1>6, <1>8, <2>1
    <3> HIDE DEF a
    <3>3. x \notin Allotted
      BY <3>1, <3>2 DEF Allotted
    <3>4. Allotted' = Allotted \cup {x}
      <4>1. ASSUME NEW l \in Labels, NEW k \in Nat \ {0}
            PROVE  k <= allocation'[l] <=> k <= allocation[l] \/ <<l, k>> = x
        <5>1. allocation[l] \in Nat
          BY <1>3
        <5>2. CASE l = a
          BY <3>1, <3>2, <5>1, <5>2
        <5>3. CASE l # a
          BY <3>1, <3>2, <5>3
        <5> QED
          BY <5>2, <5>3
      <4>2. x \in Labels \X (Nat \ {0})
        BY <3>1, <3>2
      <4>3. ASSUME NEW p \in Labels \X (Nat \ {0})
            PROVE  p[2] <= allocation'[p[1]] <=> p[2] <= allocation[p[1]] \/ p = x
        <5>1. PICK l \in Labels, k \in Nat \ {0} : p = <<l, k>>
          OBVIOUS
        <5>2. p[1] = l /\ p[2] = k
          BY <5>1
        <5> QED
          BY <4>1, <5>1, <5>2
      <4> DEFINE Pairs == Labels \X (Nat \ {0})
      <4>4. Allotted' = {p \in Pairs : p[2] <= allocation'[p[1]]}
        BY <1>2 DEF Allotted
      <4>5. Allotted = {p \in Pairs : p[2] <= allocation[p[1]]}
        BY DEF Allotted
      <4>6. x \in Pairs /\ \A p \in Pairs : p[2] <= allocation'[p[1]] <=> p[2] <= allocation[p[1]] \/ p = x
        BY <4>2, <4>3
      <4> HIDE DEF Pairs
      <4>7. \A p : p \in Allotted' <=> p \in Allotted \/ p = x
        BY <4>4, <4>5, <4>6, Zenon
      <4> QED
        BY <4>7
    <3> QED
      BY <2>0, <3>2, <3>3, <3>4, FS_AddElement
  <2>2. CASE ~more
    BY <1>2, <1>8, <2>0, <2>2 DEF Allotted
  <2> QED
    BY <2>1, <2>2
<1>13. turn' \in DOMAIN Order
  BY <1>3, <1>4
<1> QED
  BY <1>2, <1>9, <1>11, <1>12, <1>13 DEF AllotInv

LEMMA AllotStep == ASSUME ReservoirInv, ReservoirInv', AllotInv, [Next]_vars PROVE AllotInv'
<1>1. CASE Allocate
  BY <1>1, AllocateStep
<1>2. ASSUME UNCHANGED <<allocation, selected, turn>>, Labels' = Labels,
             buckets' = buckets \/ pc \in {"train", "bench"},
             pc' \in {"train", "bench"} => pc \in {"train", "bench"}
      PROVE  AllotInv'
  <2>1. Allotted' = Allotted
    BY <1>2 DEF Allotted
  <2>2. \E r \in Nat : Rounds(r)'
    <3>1. CASE pc \in {"train", "bench"}
      <4>1. turn' = 1 /\ \A l \in Labels' : allocation'[l] = 0
        BY <1>2, <3>1 DEF AllotInv
      <4>2. ASSUME NEW l \in Labels' PROVE Len(buckets'[l]) \in Nat
        <5>1. PICK s : s = buckets'[l]
          OBVIOUS
        <5>2. s \in Seq(DOMAIN file')
          BY <5>1 DEF ReservoirInv, Reservoir
        <5> QED
          BY <5>1, <5>2, LenProperties
      <4>3. \A i \in DOMAIN Order : ~(i < turn')
        BY <4>1, OrderDomain
      <4>4. Rounds(0)'
        BY <4>1, <4>2, <4>3 DEF Rounds, Least
      <4> QED
        BY <4>4
    <3>2. CASE buckets' = buckets
      <4>1. PICK r \in Nat : Rounds(r)
        BY DEF AllotInv
      <4>2. Rounds(r)'
        BY <1>2, <3>2, <4>1 DEF Rounds
      <4> QED
        BY <4>2
    <3> QED
      BY <1>2, <3>1, <3>2
  <2> QED
    BY <1>2, <2>1, <2>2 DEF AllotInv
<1>3. CASE TrainRow \/ ReadRow \/ Train \/ EndRead \/ Select \/ Evaluate \/ UNCHANGED vars
  <2>1. Labels' = Labels
    BY Given
  <2>2. /\ UNCHANGED <<allocation, selected, turn>>
        /\ buckets' = buckets \/ pc \in {"train", "bench"}
        /\ pc' \in {"train", "bench"} => pc \in {"train", "bench"}
    BY <1>3 DEF TrainRow, ReadRow, Train, EndRead, Select, Evaluate, vars, reading, given
  <2> QED
    BY <1>2, <2>1, <2>2
<1> QED
  BY <1>1, <1>3 DEF Next

LEMMA AllotHolds == Spec => []AllotInv
<1>1. ASSUME Init, ReservoirInv PROVE AllotInv
  <2>1. allocation = [l \in Labels |-> 0] /\ selected = 0 /\ turn = 1
    BY <1>1 DEF Init, Empty
  <2>2. Allotted = {}
    BY <2>1 DEF Allotted
  <2>3. Rounds(0)
    BY <1>1, <2>1, NoRounds
  <2>4. IsFiniteSet(Allotted) /\ Cardinality(Allotted) = 0
    BY <2>2, FS_EmptySet
  <2> QED
    BY <2>1, <2>3, <2>4, OrderDomain DEF AllotInv
<1> QED
  BY <1>1, AllotStep, ReservoirsHold, PTL DEF Spec

(* What the benchmark evaluates has as many rows of a label as were        *)
(* allotted to it.                                                         *)
FairInv ==
    /\ pc # "done" => exit = -1
    /\ pc \in {"evaluate", "done"} /\ exit # 1 /\ bench.size # 0 =>
        /\ selected = bench.size
        /\ \A l \in Labels : Cardinality(examples \cap InBucket(l)) = allocation[l]

LEMMA NoMoreThanThere ==
    ASSUME ReservoirInv, AllotInv, NEW l \in Labels
    PROVE  /\ allocation[l] \in Nat /\ Len(buckets[l]) \in Nat
           /\ allocation[l] <= Len(buckets[l])
<1>1. PICK i \in DOMAIN Order : l = Order[i]
  BY LabelsKnown
<1>2. PICK r \in Nat : Rounds(r)
  BY DEF AllotInv
<1>3. allocation[l] = Least(Len(buckets[l]), IF i < turn THEN r + 1 ELSE r)
  BY <1>1, <1>2 DEF Rounds
<1>4. Len(buckets[l]) \in Nat /\ allocation[l] \in Nat
  BY BucketCount DEF AllotInv
<1> QED
  BY <1>3, <1>4 DEF Least

LEMMA FairStep == ASSUME ReservoirInv, AllotInv, FairInv, [Next]_vars PROVE FairInv'
<1>1. Labels' = Labels
  BY Given
<1>2. CASE TrainRow \/ Train \/ ReadRow \/ Allocate
  BY <1>2 DEF TrainRow, Train, ReadRow, Allocate, FairInv
<1>3. CASE EndRead
  <2>1. /\ exit = -1 /\ bench' = bench
        /\ \/ exit' = 1 /\ pc' = "done"
           \/ pc' = "evaluate" /\ bench.size = 0 /\ exit' = exit
           \/ pc' = "sample" /\ exit' = exit
    BY <1>3 DEF EndRead, FairInv, given
  <2> QED
    BY <2>1 DEF FairInv
<1>4. CASE Select
  <2>1. /\ pc' = "evaluate" /\ pc = "sample" /\ exit' = exit /\ selected = bench.size
        /\ UNCHANGED <<bench, buckets, allocation, selected>>
    BY <1>4 DEF Select, given, reading
  <2>2. \A l \in Labels :
          Cardinality(examples' \cap InBucket(l)) = IF allocation[l] < Len(buckets[l]) THEN allocation[l] ELSE Len(buckets[l])
    BY <1>4 DEF Select
  <2>3. ASSUME NEW l \in Labels PROVE Cardinality(examples' \cap InBucket(l)) = allocation[l]
    BY <2>2, NoMoreThanThere
  <2>4. \A l : InBucket(l)' = InBucket(l)
    BY <2>1 DEF InBucket
  <2>5. exit' = -1
    BY <2>1 DEF FairInv
  <2>6. \A l \in Labels' : Cardinality(examples' \cap InBucket(l)') = allocation'[l]
    BY <1>1, <2>1, <2>3, <2>4
  <2> QED
    BY <2>1, <2>5, <2>6 DEF FairInv
<1>5. CASE Evaluate \/ UNCHANGED vars
  <2>1. /\ UNCHANGED <<bench, buckets, allocation, selected, examples>>
        /\ pc' \in {"evaluate", "done"} => pc = "evaluate" \/ (pc = "done" /\ exit' = exit)
        /\ pc' # "done" => exit' = exit /\ pc' = pc
    BY <1>5 DEF Evaluate, vars, given, reading, FairInv
  <2>2. \A l : InBucket(l)' = InBucket(l)
    BY <2>1 DEF InBucket
  <2> QED
    BY <1>1, <2>1, <2>2 DEF FairInv
<1> QED
  BY <1>2, <1>3, <1>4, <1>5 DEF Next

LEMMA FairHolds == Spec => []FairInv
<1>1. Init => FairInv
  BY DEF Init, FairInv
<1> QED
  BY <1>1, FairStep, ReservoirsHold, AllotHolds, PTL DEF Spec

(* The k-th row of a label that was allotted is a row that is evaluated:   *)
(* there are as many of the ones as of the others.                         *)
LEMMA SampleCount ==
    ASSUME ReservoirInv, SplitInv, AllotInv,
           \A l \in Labels : Cardinality(examples \cap InBucket(l)) = allocation[l]
    PROVE  Cardinality(examples) = selected
<1> DEFINE Of(l) == examples \cap InBucket(l)
<1>1. ASSUME NEW l \in Labels PROVE \E b : b \in Bijection(1..allocation[l], Of(l))
  <2>1. IsFiniteSet(Of(l))
    BY BucketCount, FS_Subset
  <2>2. ExistsBijection(1..Cardinality(Of(l)), Of(l))
    BY <2>1, FS_CardinalityType
  <2> QED
    BY <2>2 DEF ExistsBijection
<1>2. \A l \in Labels : \A i \in Of(l) : i \in examples /\ LabelAt(i) = l
  BY DEF InBucket, ReservoirInv, Reservoir
<1>3. \A i \in examples : \E l \in Labels : i \in Of(l)
  BY DEF SplitInv, Taken
<1>4. allocation \in [Labels -> Nat] /\ IsFiniteSet(Allotted) /\ Cardinality(Allotted) = selected
  BY DEF AllotInv
<1> HIDE DEF Of
<1> DEFINE b == [l \in Labels |-> CHOOSE g : g \in Bijection(1..allocation[l], Of(l))]
           f == [p \in Allotted |-> b[p[1]][p[2]]]
<1>5. ASSUME NEW l \in Labels PROVE b[l] \in Bijection(1..allocation[l], Of(l))
  BY <1>1
<1> HIDE DEF b
<1>6. ASSUME NEW l \in Labels
      PROVE  /\ \A k \in 1..allocation[l] : b[l][k] \in Of(l)
             /\ \A j, k \in 1..allocation[l] : b[l][j] = b[l][k] => j = k
             /\ \A i \in Of(l) : \E k \in 1..allocation[l] : b[l][k] = i
  BY <1>5 DEF Bijection, Injection, Surjection, IsInjective
<1>7. \A p \in Allotted : p[1] \in Labels /\ p[2] \in 1..allocation[p[1]] /\ p = <<p[1], p[2]>>
  BY <1>4 DEF Allotted
<1>8. \A l \in Labels : \A k \in 1..allocation[l] : <<l, k>> \in Allotted
  BY <1>4 DEF Allotted
<1>9. f \in [Allotted -> examples]
  BY <1>2, <1>6, <1>7
<1>10. ASSUME NEW p \in Allotted, NEW q \in Allotted, f[p] = f[q] PROVE p = q
  <2>1. b[p[1]][p[2]] = b[q[1]][q[2]]
    BY <1>10
  <2>2. b[p[1]][p[2]] \in Of(p[1]) /\ b[q[1]][q[2]] \in Of(q[1])
    BY <1>6, <1>7
  <2>3. p[1] = q[1]
    BY <1>2, <1>7, <2>1, <2>2
  <2>4. p[2] = q[2]
    BY <1>6, <1>7, <2>1, <2>3
  <2> QED
    BY <1>7, <2>3, <2>4
<1>11. ASSUME NEW i \in examples PROVE \E p \in Allotted : f[p] = i
  <2>1. PICK l \in Labels : i \in Of(l)
    BY <1>3
  <2>2. PICK k \in 1..allocation[l] : b[l][k] = i
    BY <1>6, <2>1
  <2>3. <<l, k>> \in Allotted
    BY <1>8
  <2>4. f[<<l, k>>] = b[l][k]
    BY <2>3
  <2> QED
    BY <2>2, <2>3, <2>4
<1> HIDE DEF f
<1>12. f \in Bijection(Allotted, examples)
  BY <1>9, <1>10, <1>11 DEF Bijection, Injection, Surjection, IsInjective
<1> QED
  BY <1>4, <1>12, FS_Bijection DEF ExistsBijection

(* The sample has the size that was asked for, and is as even as the       *)
(* reservoirs allow.                                                       *)
THEOREM SampleIsEven == Spec => []SampleIsFair
<1>1. ASSUME ReservoirInv, SplitInv, AllotInv, FairInv PROVE SampleIsFair
  <2> SUFFICES ASSUME pc \in {"evaluate", "done"}, exit # 1, bench.size # 0
               PROVE  /\ Cardinality(examples) = bench.size
                      /\ \A l, k \in Labels :
                           Cardinality(examples \cap InBucket(l)) + 1 < Cardinality(examples \cap InBucket(k))
                             => Cardinality(examples \cap InBucket(l)) = Len(buckets[l])
    BY DEF SampleIsFair
  <2>1. /\ selected = bench.size
        /\ \A l \in Labels : Cardinality(examples \cap InBucket(l)) = allocation[l]
    BY <1>1 DEF FairInv
  <2>2. Cardinality(examples) = bench.size
    BY <1>1, <2>1, SampleCount
  <2>3. PICK r \in Nat : Rounds(r)
    BY <1>1 DEF AllotInv
  <2>4. ASSUME NEW l \in Labels
        PROVE  /\ allocation[l] = Len(buckets[l]) \/ allocation[l] \in {r, r + 1}
               /\ allocation[l] <= r + 1 /\ allocation[l] \in Nat
    <3>1. PICK i \in DOMAIN Order : l = Order[i]
      BY LabelsKnown
    <3>2. allocation[l] = Least(Len(buckets[l]), IF i < turn THEN r + 1 ELSE r)
      BY <2>3, <3>1 DEF Rounds
    <3>3. allocation[l] \in Nat /\ Len(buckets[l]) \in Nat
      BY <1>1, NoMoreThanThere
    <3> QED
      BY <3>2, <3>3 DEF Least
  <2>5. ASSUME NEW l \in Labels, NEW k \in Labels, allocation[l] + 1 < allocation[k]
        PROVE  allocation[l] = Len(buckets[l])
    BY <2>4, <2>5
  <2> QED
    BY <2>1, <2>2, <2>5
<1> QED
  BY <1>1, ReservoirsHold, SplitHolds, AllotHolds, FairHolds, PTL

-----------------------------------------------------------------------------
(* The gates *)

LEMMA BlindAnswer == ASSUME NEW r PROVE Detect(<<>>, r) = "unclassified"
<1>1. Vocabulary(<<>>) = {}
  BY DEF Vocabulary
<1>2. Tokens(r) \cap Vocabulary(<<>>) = {}
  BY <1>1
<1> QED
  BY <1>2 DEF Detect

(* If every benign row is a false positive, no limit below one holds.      *)
LEMMA AllAreTooMany ==
    ASSUME NEW n \in Nat, n # 0, NEW a \in Nat, NEW b \in Nat, a < b
    PROVE  n * b > a * n
<1>1. PICK d \in Nat : b = a + 1 + d
  <2>1. b - a - 1 \in Nat /\ b = a + 1 + (b - a - 1)
    OBVIOUS
  <2> QED
    BY <2>1
<1>2. n * (a + 1 + d) = n * a + n + n * d
  <2>1. n * (a + (1 + d)) = n * a + n * (1 + d)
    BY SMT
  <2>2. n * (1 + d) = n + n * d
    BY SMT
  <2> QED
    BY <2>1, <2>2
<1>3. n * d \in Nat /\ n * a \in Nat /\ a * n = n * a
  BY SMT
<1>4. n * b = n * a + n + n * d
  BY <1>1, <1>2
<1> QED
  BY <1>3, <1>4

LEMMA BlindFails ==
    ASSUME IsFiniteSet(examples), model = <<>>, NEW limit \in Nat \X Nat, limit[1] < limit[2]
    PROVE  TooManyFalse(limit)
<1>1. \A i : Predicted(i) # "benign"
  BY BlindAnswer DEF Predicted
<1>2. Count(FALSE, TRUE) = Support(FALSE)
  <2>1. \A i : (Predicted(i) # "benign") = TRUE
    BY <1>1
  <2> QED
    BY <2>1 DEF Count, Support
<1>3. Support(FALSE) \in Nat
  <2>1. {i \in examples : (LabelAt(i) # "benign") = FALSE} \in SUBSET examples
    OBVIOUS
  <2> QED
    BY <2>1, FS_Subset, FS_CardinalityType DEF Support
<1>4. limit[1] \in Nat /\ limit[2] \in Nat
  OBVIOUS
<1> QED
  BY <1>2, <1>3, <1>4, AllAreTooMany DEF TooManyFalse

LEMMA FewExamples == ASSUME Types, ReservoirInv, SplitInv PROVE IsFiniteSet(examples)
<1>1. examples \subseteq DOMAIN file
  BY TakenRows DEF SplitInv
<1>2. DOMAIN file = 1..Len(file) /\ Len(file) \in Nat
  BY LenProperties DEF Types
<1>3. IsFiniteSet(1..Len(file))
  BY <1>2, FS_Interval
<1> QED
  BY <1>1, <1>2, <1>3, FS_Subset

LEMMA BlindStep ==
    ASSUME Types, ReservoirInv, SplitInv, FairInv, BlindNeverPasses, [Next]_vars PROVE BlindNeverPasses'
<1>1. CASE Evaluate
  <2>1. /\ pc = "evaluate" /\ bench' = bench /\ model' = model
        /\ exit' = IF bench.gates.tpr # None /\ TooFewTrue(bench.gates.tpr) THEN 4
                   ELSE IF bench.gates.fpr # None /\ TooManyFalse(bench.gates.fpr) THEN 5 ELSE 0
    BY <1>1 DEF Evaluate, given
  <2> SUFFICES ASSUME exit' = 0, bench.gates.fpr # None, bench.gates.fpr[1] < bench.gates.fpr[2], model = <<>>
               PROVE  FALSE
    BY <2>1 DEF BlindNeverPasses
  <2>2. bench.gates.fpr \in Nat \X Nat
    <3>1. bench.gates \in [tpr : Nat \X Nat, fpr : Nat \X Nat]
      BY <2>1, BenchmarkAssumption DEF Types
    <3> QED
      BY <3>1
  <2>3. TooManyFalse(bench.gates.fpr)
    BY <2>2, FewExamples, BlindFails
  <2> QED
    BY <2>1, <2>3
<1>2. CASE TrainRow \/ Train \/ ReadRow \/ EndRead \/ Allocate \/ Select
  <2>1. exit' # 0
    BY <1>2 DEF TrainRow, Train, ReadRow, EndRead, Allocate, Select, FairInv
  <2> QED
    BY <2>1 DEF BlindNeverPasses
<1>3. CASE UNCHANGED vars
  BY <1>3 DEF vars, given, BlindNeverPasses
<1> QED
  BY <1>1, <1>2, <1>3 DEF Next

(* Whatever the files, the split, the sample and the TPR gate: a model     *)
(* that was fitted to no flow does not pass an FPR gate below one.         *)
THEOREM BlindIsGated == Spec => []BlindNeverPasses
<1>1. Init => BlindNeverPasses
  BY DEF Init, BlindNeverPasses
<1> QED
  BY <1>1, BlindStep, TypesHold, ReservoirsHold, SplitHolds, FairHolds, PTL DEF Spec

=============================================================================
