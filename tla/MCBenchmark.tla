---------------------------- MODULE MCBenchmark -----------------------------
(* Instances of Benchmark: attack rows of two labels, a benign row that    *)
(* differs from an attack in what the features leave out, and one more.    *)
EXTENDS Benchmark

R(i, p, s, w) == [id |-> i, port |-> p, size |-> s, words |-> w]
Attack1 == R(1, 80, 5, {"ddos"})
Attack2 == R(2, 80, 4, {"web attack", "sql"})
Benign1 == R(3, 80, 6, {"benign"})
Benign2 == R(4, 443, NonFinite, {})

MCRows == {Attack1, Attack2, Benign1, Benign2}
MCFiles == { <<Attack1, Benign1, Attack1, Attack2, Benign2>>,
             <<Attack1, Attack1, Attack1, Attack2>> }
MCGates == {[tpr |-> None, fpr |-> None], [tpr |-> <<1, 2>>, fpr |-> <<1, 2>>]}
=============================================================================
