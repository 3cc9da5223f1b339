---------------------------- MODULE AccuracyReport ----------------------------
(***************************************************************************)
(* The measurements of test/asr_test.cpp: how much of a sentence a backend *)
(* got right, and what the report makes of many such measurements.         *)
(*                                                                         *)
(* Floating point percentages are whole shares of Full, which stands for   *)
(* 100 %; percentiles are given in thousandths.  Decoding, noise and the   *)
(* text normalisation, which returns the text as it was, are left out; the *)
(* report has a vector for each of the Sentences, and no other is taken.   *)
(***************************************************************************)
EXTENDS Integers, Sequences, FiniteSets, FiniteSetsExt, SequencesExt

CONSTANTS
  Letters,       (* the alphabet                                            *)
  MaxLength,     (* bound: length of a text                                 *)
  Full,          (* 100 %, a multiple of every length                       *)
  Sentences,     (* the sentences that were recorded, five in the code      *)
  MaxTests       (* bound: measurements                                     *)

ASSUME ReportAssumption ==
  /\ MaxLength \in Nat \ {0} /\ MaxTests \in Nat
  /\ Full \in Nat /\ \A n \in 1..MaxLength : Full % n = 0

Texts == UNION {[1..n -> Letters] : n \in 0..MaxLength}

Longer(ref, hyp) == IF Len(ref) > Len(hyp) THEN Len(ref) ELSE Len(hyp)

(* The table d, and what it holds in row i and column j.                   *)
Cell(ref, hyp, d, i, j) ==
  IF i = 0 THEN j
  ELSE IF j = 0 THEN i
  ELSE Min({d[<<i - 1, j>>] + 1, d[<<i, j - 1>>] + 1,
            d[<<i - 1, j - 1>>] + (IF ref[i] = hyp[j] THEN 0 ELSE 1)})

Cells(ref, hyp) == (0..Len(ref)) \X (0..Len(hyp))

(* Mutation: the first row of the table is left at zero.                   *)
DistancesWithoutRow(ref, hyp) ==
  LET d[c \in Cells(ref, hyp)] ==
        IF c[1] = 0 THEN 0 ELSE Cell(ref, hyp, d, c[1], c[2])
  IN d

Distances(ref, hyp) ==
  LET d[c \in Cells(ref, hyp)] == Cell(ref, hyp, d, c[1], c[2]) IN d

Distance(ref, hyp) == Distances(ref, hyp)[<<Len(ref), Len(hyp)>>]

Accuracy(ref, hyp) ==
  IF ref = <<>> THEN IF hyp = <<>> THEN Full ELSE 0
  ELSE Full - (Full * Distance(ref, hyp)) \div Longer(ref, hyp)

(* Mutation: the rank is cut off instead of rounded up.                    *)
RankCutOff(n, p) == LET r == (p * n) \div 1000 IN IF r = 0 THEN 1 ELSE r

(* std::ceil, less one for the index; size_t wraps below zero, and the     *)
(* clamp then takes the last.                                              *)
Rank(n, p) == LET r == (p * n + 999) \div 1000 IN IF r = 0 \/ r > n THEN n ELSE r

Percentile(sorted, p) == IF sorted = <<>> THEN 0 ELSE sorted[Rank(Len(sorted), p)]

VARIABLES
  phase,     (* "between" tests, a text "transcribed", the suite "reported" *)
  ref, hyp,  (* expected and actual text of the running test                *)
  stats,     (* s_stats                                                     *)
  report     (* what TearDownTestSuite prints of them                       *)

reportVars == <<phase, ref, hyp, stats, report>>

ReportInit ==
  phase = "between" /\ ref = <<>> /\ hyp = <<>> /\ stats = <<>> /\ report = <<>>

(* A test that decodes and transcribes its clip.                           *)
TakeText(r, h) ==
  /\ phase = "between" /\ Len(stats) < MaxTests
  /\ phase' = "transcribed" /\ ref' = r /\ hyp' = h
  /\ UNCHANGED <<stats, report>>

(* The measurement is kept whether or not it reaches the threshold of its  *)
(* noise level, in hundredths.                                             *)
Verify(sentence, threshold) ==
  /\ phase = "transcribed"
  /\ stats' = Append(stats, [sentence |-> sentence,
                             accuracy |-> Accuracy(ref, hyp),
                             passed |-> 100 * Accuracy(ref, hyp) >= threshold * Full])
  /\ phase' = "between" /\ ref' = <<>> /\ hyp' = <<>>
  /\ UNCHANGED report

(* The measurements of some sentences and their accuracies, sorted.        *)
Measured(S) == {i \in DOMAIN stats : stats[i].sentence \in S}

Accuracies(S) ==
  LET ascending(order) == \A k, l \in DOMAIN order :
        k < l => stats[order[k]].accuracy <= stats[order[l]].accuracy
      sorted == CHOOSE order \in Bijection(1..Cardinality(Measured(S)), Measured(S)) :
                  ascending(order)
  IN [k \in DOMAIN sorted |-> stats[sorted[k]].accuracy]

(* accAt[0], which an empty vector does not have.                          *)
First(v) == IF v = <<>> THEN "pastTheEnd" ELSE v[1]

Summary(v) == [p500 |-> Percentile(v, 500), p990 |-> Percentile(v, 990),
               p999 |-> Percentile(v, 999), n |-> Len(v)]

(* Nothing is printed when nothing was measured.                           *)
Report ==
  /\ phase = "between" /\ phase' = "reported"
  /\ report' = IF stats = <<>> THEN <<>>
               ELSE [all |-> Summary(Accuracies(Sentences)),
                     each |-> [s \in Sentences |->
                       [p500 |-> Percentile(Accuracies({s}), 500),
                        least |-> First(Accuracies({s}))]],
                     passed |-> Cardinality({i \in DOMAIN stats : stats[i].passed})]
  /\ UNCHANGED <<ref, hyp, stats>>

ReportNext ==
        \/ \E r, h \in Texts : TakeText(r, h)
        \/ \E s \in Sentences, t \in {95, 85, 75} : Verify(s, t)
        \/ Report

ReportSpec == ReportInit /\ [][ReportNext]_reportVars

(***************************************************************************)
(* Properties                                                              *)
(***************************************************************************)
(* t becomes u when one letter is replaced, dropped or put in.             *)
OneEdit(t, u) ==
  \/ Len(t) = Len(u) /\ Cardinality({i \in DOMAIN t : t[i] # u[i]}) = 1
  \/ \E i \in DOMAIN t : RemoveAt(t, i) = u
  \/ \E i \in DOMAIN u : RemoveAt(u, i) = t

(* The pairs of texts that n edits join.                                   *)
Joined ==
  LET joined[n \in 0..MaxLength] ==
        IF n = 0 THEN {<<t, t>> : t \in Texts}
        ELSE {pair \in Texts \X Texts : \E s \in Texts :
                <<pair[1], s>> \in joined[n - 1] /\ OneEdit(s, pair[2])}
  IN joined

EditDistance(t, u) == Min({n \in 0..MaxLength : <<t, u>> \in Joined[n]})

(* The accuracy of a transcription is the share of the longer text that    *)
(* the fewest edits leave alone, also when a text is empty.                *)
AccuracyIsEditDistance ==
  phase = "transcribed" =>
    Accuracy(ref, hyp) =
      IF ref = hyp THEN Full
      ELSE Full - (Full * EditDistance(ref, hyp)) \div Longer(ref, hyp)

(* v is the least of the measurements that p thousandths of them do not    *)
(* exceed.                                                                 *)
NearestRank(S, p, v) ==
  LET n       == Cardinality(Measured(S))
      atMost  == {i \in Measured(S) : stats[i].accuracy <= v}
      below   == {i \in Measured(S) : stats[i].accuracy < v}
  IN /\ \E i \in Measured(S) : stats[i].accuracy = v
     /\ 1000 * Cardinality(atMost) >= p * n
     /\ 1000 * Cardinality(below) < p * n

(* The percentiles of the report are those of the measurements, over all   *)
(* of them and for every sentence that was measured.                       *)
PercentilesAreNearestRank ==
  report # <<>> =>
    /\ NearestRank(Sentences, 500, report.all.p500)
    /\ NearestRank(Sentences, 990, report.all.p990)
    /\ NearestRank(Sentences, 999, report.all.p999)
    /\ \A s \in Sentences :
         Measured({s}) # {} => NearestRank({s}, 500, report.each[s].p500)

(* "Min will be @start" of the sorted accuracies of a sentence: what is    *)
(* read there is its least measurement, if it has been measured at all.    *)
MinimumIsAtTheStart ==
  report # <<>> =>
    \A s \in Sentences : Measured({s}) # {} => \E i \in Measured({s}) :
      /\ stats[i].accuracy = report.each[s].least
      /\ \A j \in Measured({s}) : stats[i].accuracy <= stats[j].accuracy
=============================================================================
