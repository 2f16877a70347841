----------------------------- MODULE FlowModel ------------------------------
(***************************************************************************)
(* The flow classifier, without its files: labels                          *)
(* (src/scripts/train_attack_classifier.py), features and partition of a   *)
(* flow record (src/app/agents/flow_features.py), and the naive Bayes      *)
(* model as it is fitted and as it predicts                                *)
(* (src/app/agents/ml_detector.py).                                        *)
(*                                                                         *)
(* A raw row is [id, port, size, words]: what the features leave out, a    *)
(* feature taken literally, one reduced to its magnitude, and the words of *)
(* its label.  A token of the model stands for a key or a key with its     *)
(* value; logarithms and floats are exact fractions here.                  *)
(***************************************************************************)
EXTENDS Integers, Sequences, FiniteSetsExt

NoValue   == 1000       \* an empty cell
NonFinite == 1001       \* "Infinity", "NaN"

(* normalize_label: the first line one of whose words occurs decides.      *)
Wordings == <<
    <<{"mirai"}, "mirai_malware">>,
    <<{"brute", "ftp patator", "ssh patator"}, "brute_force">>,
    <<{"audit log", "1102", "log cleared"}, "windows_log_cleared">>,
    <<{"powershell"}, "powershell_execution">>,
    <<{"sql"}, "sql_injection_probe">>,
    <<{"xss", "cross site", "web attack", "command injection", "backdoor upload", "heartbleed"}, "web_attack">>,
    <<{"infiltration", "infilteration"}, "infiltration">>,
    <<{"bot"}, "botnet_activity">>,
    <<{"arp spoof", "ip spoof", "impersonation", "mitm"}, "mitm_spoofing">>,
    <<{"ddos", "dos", "flood", "slowloris"}, "http_flood_dos">>,
    <<{"scan", "recon", "ping sweep", "host discovery"}, "network_scan">> >>

Label(words) ==
    LET hits == {i \in DOMAIN Wordings : Wordings[i][1] \cap words # {}}
    IN  CASE words = {} \/ words \in {{"benign"}, {"normal"}, {"background"}} -> "benign"
          [] hits # {} -> Wordings[CHOOSE i \in hits : \A j \in hits : i <= j][2]
          [] OTHER -> "other"

(* _numeric_feature: the sign and the power of two below it.               *)
Magnitude(v) == CHOOSE k \in 0..v : 2 ^ k <= v /\ v < 2 ^ (k + 1)
NumericFeature(key, v) ==
    CASE v = NonFinite -> <<key, "non_finite", 0>>
      [] v = 0         -> <<key, "zero", 0>>
      [] v < 0         -> <<key, "negative", Magnitude(-v)>>
      [] OTHER         -> <<key, "positive", Magnitude(v)>>

(* canonical_flow_features: neither identifiers nor the label.             *)
Features(row) ==
    {<<"port", "exactly", p>> : p \in {row.port} \ {NoValue}}
    \cup {NumericFeature("size", v) : v \in {row.size} \ {NoValue}}

Tokens(row) == Features(row) \cup {<<f[1], "key", 0>> : f \in Features(row)}

(* holdout_partition: the hash of the raw row, label and all.              *)
Partition(hash, row, percent) == IF hash[row] < percent THEN "test" ELSE "train"
InSplit(hash, row, split, percent) == split = "all" \/ Partition(hash, row, percent) = split

-----------------------------------------------------------------------------
(* train: counts over the examples, a sequence of [label, tokens].         *)
Docs(model, l) == Cardinality({i \in DOMAIN model : model[i].label = l})
ModelLabels(model) == {model[i].label : i \in DOMAIN model}
Vocabulary(model) == UNION {model[i].tokens : i \in DOMAIN model}
Times(model, l, t) == Cardinality({i \in DOMAIN model : model[i].label = l /\ t \in model[i].tokens})

Total(model, l) == MapThenSumSet(LAMBDA t : Times(model, l, t), Vocabulary(model))
Likelihood(model, l, known) == FoldSet(LAMBDA t, x : (Times(model, l, t) + 1) * x, 1, known)

(* detect: prior and likelihoods with alpha 1, as a fraction.              *)
Score(model, l, known) ==
    << (Docs(model, l) + 1) * Likelihood(model, l, known),
       (Total(model, l) + Cardinality(Vocabulary(model))) ^ Cardinality(known) >>
AtLeast(s, t) == s[1] * t[2] >= t[1] * s[2]

(* The best label, the first in alphabetical order if there are several;   *)
(* none when the model is empty or knows no token of the row.              *)
Order == <<"benign", "botnet_activity", "brute_force", "http_flood_dos", "infiltration",
           "mirai_malware", "mitm_spoofing", "network_scan", "other", "powershell_execution",
           "sql_injection_probe", "web_attack", "windows_log_cleared">>
Before(l, k) == \E i, j \in DOMAIN Order : i < j /\ Order[i] = l /\ Order[j] = k

Detect(model, row) ==
    LET known == Tokens(row) \cap Vocabulary(model)
        best  == {l \in ModelLabels(model) :
                    \A k \in ModelLabels(model) : AtLeast(Score(model, l, known), Score(model, k, known))}
    IN  IF known = {} THEN "unclassified"
        ELSE CHOOSE l \in best : \A k \in best : l = k \/ Before(l, k)

=============================================================================
