------------------------------ MODULE Benchmark ------------------------------
(***************************************************************************)
(* The timing helpers of daw/benchmark.h (src/include/daw/benchmark.h).   *)
(* One behaviour is one call of one helper: benchmark, show_benchmark,    *)
(* bench_test, bench_test2, the bench_n_test family, expecting and        *)
(* expecting_exception.  steady_clock readings are integer ticks of      *)
(* 10^TickExp seconds (steady_clock counts nanoseconds in libstdc++ and   *)
(* libc++; a coarser tick keeps every printed number within TLC's         *)
(* integers and changes only the units the report reaches); the          *)
(* time a timed call takes, the time the empty calibration lambda takes   *)
(* and the time a loop spends outside its timed region are drawn from     *)
(* small sets.  A double is kept as the exact rational it approximates,   *)
(* a record [num, den, exp] standing for num / den * 10^exp with den > 0; *)
(* the printed text of a number is its digits after std::fixed rounding   *)
(* and its unit, which is what a reader of the report reads.              *)
(***************************************************************************)
EXTENDS Integers, FiniteSets, FiniteSetsExt

CONSTANTS
  Helpers,          \* the helpers a behaviour may call
  RunCounts,        \* values of the Runs template argument
  CalibrationRuns,  \* the 1000 samples of the calibration loop
  Durations,        \* ticks a timed call takes
  CalDurations,     \* ticks the empty calibration lambda takes
  Gaps,             \* ticks a loop iteration spends outside its timed region
  ByteCounts,       \* values of the bytes / data_size_bytes argument
  ItemCounts,       \* values of the item_count argument
  DblMax,           \* numeric_limits<double>::max( ), above every duration
  TickExp           \* a tick is 10^TickExp seconds

TimedLoops == {"n_test", "mbs", "mbs2", "json", "json_val"}

ASSUME /\ Helpers \subseteq TimedLoops \cup
            {"benchmark", "show_benchmark", "bench_test", "bench_test2",
             "expecting", "expecting_exception"}
       /\ RunCounts \subseteq Nat \ {0}
       /\ CalibrationRuns \in Nat \ {0}
       /\ \A d \in Durations \cup CalDurations : d \in 0 .. DblMax - 1

(***************************************************************************)
(* Numbers and their printing.                                             *)
(***************************************************************************)

\* second_duration( finish - start ).count( ): ticks as seconds.
Seconds(num, den) == [num |-> num, den |-> den, exp |-> TickExp]

\* a * 10^k < b for k >= 0 and b > 0, without forming a * 10^k.
RECURSIVE ScaledLess(_, _, _)
ScaledLess(a, k, b) ==
  IF a <= 0 THEN TRUE
  ELSE IF k = 0 THEN a < b
  ELSE IF a >= b THEN FALSE
  ELSE ScaledLess(a * 10, k - 1, b)

\* The test val < 10^k of the unit loops, on an exact value.
LessPow(q, k) ==
  IF q.exp >= k THEN ScaledLess(q.num, q.exp - k, q.den)
  ELSE ~ScaledLess(q.den, k - q.exp, q.num + 1)

\* 10^x mod m.
RECURSIVE PowMod(_, _)
PowMod(x, m) == IF x = 0 THEN 1 % m ELSE (10 * PowMod(x - 1, m)) % m

\* The integer std::setprecision( prec ) << std::fixed prints for q, in
\* units of 10^-prec: q * 10^prec rounded to nearest, ties to even (printf
\* under the default rounding mode).  It is kept exactly, as the scaled
\* value M / d and the amount adj that rounding adds to it; the remainders
\* are taken modulo d so that no intermediate grows with 10^x.
Rounded(q, prec) ==
  LET x == q.exp + prec
      d == IF x >= 0 THEN q.den ELSE q.den * 10^(-x)
      M(m) == IF x >= 0 THEN ((q.num % m) * PowMod(x, m)) % m ELSE q.num % m
      s == M(d)
      odd == (M(2 * d) - s) \div d = 1
      up == 2 * s > d \/ (2 * s = d /\ odd)
  IN  [num |-> q.num, den |-> q.den, exp |-> x,
       adj |-> IF s = 0 THEN [num |-> 0, den |-> 1]
               ELSE IF up THEN [num |-> d - s, den |-> d]
               ELSE [num |-> -s, den |-> d]]

SecondUnits == <<"fs", "ps", "ns", "us", "ms", "s">>
ByteUnits == <<"bytes", "KB", "MB", "GB", "TB", "PB">>

\* The chain of "if( val < 1000 ) return; val /= 1000.0;" steps: the
\* number of divisions made before the value drops below 1000, at most
\* last.  q is in the first unit and step i tests q / 1000^i.
RECURSIVE UnitStep(_, _, _)
UnitStep(q, i, last) ==
  IF i = last \/ LessPow(q, 3 * (i + 1)) THEN i ELSE UnitStep(q, i + 1, last)

\* Printing q, in the first unit, after i divisions by 1000; special names
\* a value printed as "inf" or "nan" instead of digits.
Text(q, i, prec, units) ==
  [digits |-> Rounded([q EXCEPT !.exp = @ - 3 * i], prec),
   unit |-> units[i + 1], special |-> "none"]

NoDigits == Rounded([num |-> 0, den |-> 1, exp |-> 0], 0)

NotFinite(bytes) ==
  [digits |-> NoDigits, unit |-> "PB",
   special |-> IF bytes = 0 THEN "nan" ELSE "inf"]

\* utility::format_seconds( t, prec ): t seconds scaled to femtoseconds,
\* then divided down while at least 1000.
FormatSeconds(t, prec) ==
  LET fs == [t EXCEPT !.exp = @ + 15]
  IN  Text(fs, UnitStep(fs, 0, 5), prec, SecondUnits)

\* utility::to_bytes_per_second( bytes, t, prec ).  bytes / t is an IEEE
\* division: by zero it is inf, or nan for 0 / 0, and both fail every
\* "val < 1000.0" test and are printed as such with "PB".  The
\* ( val * 100.0 ) / 100 of every branch is the identity on the value.
ToBytesPerSecond(bytes, t, prec) ==
  IF t.num = 0
  THEN NotFinite(bytes)
  ELSE LET v == [num |-> IF t.num > 0 THEN bytes * t.den ELSE -(bytes * t.den),
                 den |-> IF t.num > 0 THEN t.num ELSE -t.num,
                 exp |-> -t.exp]
       IN  Text(v, UnitStep(v, 0, 5), prec, ByteUnits)

(***************************************************************************)
(* The calls.                                                              *)
(***************************************************************************)

VARIABLES
  call,       \* the helper being called
  args,       \* its arguments: Runs, bytes, item_count, and whether the
              \* build defines DAW_USE_EXCEPTIONS
  pc,         \* "calibrate", "run", "report", "call", or how it ended:
              \* "returned", "aborted", "rethrown"
  n,          \* the loop counter of the loop being run
  base_time,  \* ticks: the fastest calibration sample
  min_time,   \* ticks: the fastest timed call (less base_time once reported)
  max_time,   \* ticks: the slowest timed call (less base_time once reported)
  elapsed,    \* ticks since total_start
  seen,       \* durations the timed calls took so far
  results,    \* the array or vector of durations mbs2 / json / json_val return
  result,     \* whether the last expected_from_code result holds a value
  stats,      \* the computed statistics, as exact values
  out,        \* the numbers written to std::cout, with their printed text
  thrown      \* what expecting_exception's expression did

vars == <<call, args, pc, n, base_time, min_time, max_time, elapsed, seen,
          results, result, stats, out, thrown>>

TimeLine(t, prec) ==
  [kind |-> "time", value |-> t, bytes |-> 0, prec |-> prec,
   text |-> FormatSeconds(t, prec)]

RateLine(bytes, t, prec) ==
  [kind |-> "rate", value |-> t, bytes |-> bytes, prec |-> prec,
   text |-> ToBytesPerSecond(bytes, t, prec)]

NoStats == [x \in {} |-> 0]

\* result_t result{ }, base_time, min_time and max_time set to their
\* starting values, the result arrays value-initialised.
Init ==
  /\ call \in Helpers
  /\ args \in [runs : RunCounts, bytes : ByteCounts, items : ItemCounts,
               exceptions : BOOLEAN]
  /\ pc = IF call \in TimedLoops THEN "calibrate" ELSE "call"
  /\ n = 0
  /\ base_time = DblMax
  /\ min_time = DblMax
  /\ max_time = 0
  /\ elapsed = 0
  /\ seen = {}
  /\ results = [i \in 1 .. args.runs |-> 0]
  /\ result = FALSE
  /\ stats = NoStats
  /\ out = {}
  /\ thrown = [what |-> "none", accepted |-> FALSE]

\* One sample of the calibration loop: time the empty lambda and keep the
\* fastest.
Calibrate ==
  /\ pc = "calibrate"
  /\ n < CalibrationRuns
  /\ \E d \in CalDurations :
       base_time' = IF d < base_time THEN d ELSE base_time
  /\ n' = n + 1
  /\ UNCHANGED <<call, args, pc, min_time, max_time, elapsed, seen, results,
                 result, stats, out, thrown>>

\* Faulty variant of StartTimedRuns: the loop counter is not reset.
StartTimedRunsNoReset ==
  /\ pc = "calibrate"
  /\ n = CalibrationRuns
  /\ pc' = "run"
  /\ elapsed' = 0
  /\ UNCHANGED <<call, args, n, base_time, min_time, max_time, seen, results,
                 result, stats, out, thrown>>

\* The calibration loop ends; total_start is read and the timed loop
\* starts.
StartTimedRuns ==
  /\ pc = "calibrate"
  /\ n = CalibrationRuns
  /\ n' = 0
  /\ pc' = "run"
  /\ elapsed' = 0
  /\ UNCHANGED <<call, args, base_time, min_time, max_time, seen, results,
                 result, stats, out, thrown>>

\* Faulty variant of RecordRun: max_time is updated only when min_time is
\* not (an else-if).
RecordRunElseIf(d, g) ==
  /\ min_time' = IF d < min_time THEN d ELSE min_time
  /\ max_time' = IF d >= min_time /\ d > max_time THEN d ELSE max_time
  /\ elapsed' = elapsed + d + g
  /\ seen' = seen \cup {d}
  /\ n' = n + 1

\* A timed call took d ticks, inside an iteration of d + g ticks.
RecordRun(d, g) ==
  /\ min_time' = IF d < min_time THEN d ELSE min_time
  /\ max_time' = IF d > max_time THEN d ELSE max_time
  /\ elapsed' = elapsed + d + g
  /\ seen' = seen \cup {d}
  /\ n' = n + 1

\* An iteration of bench_n_test's timed loop.
RunNTest ==
  /\ pc = "run"
  /\ call = "n_test"
  /\ \E d \in Durations, g \in Gaps, hv \in BOOLEAN :
       /\ RecordRun(d, g)
       /\ result' = hv
       /\ pc' = IF n + 1 = args.runs THEN "report" ELSE "run"
  /\ UNCHANGED <<call, args, base_time, results, stats, out, thrown>>

\* An iteration of bench_n_test_mbs's timed loop, which stops at the first
\* result without a value.
RunMbs ==
  /\ pc = "run"
  /\ call = "mbs"
  /\ \E d \in Durations, g \in Gaps, hv \in BOOLEAN :
       /\ RecordRun(d, g)
       /\ result' = hv
       /\ pc' = IF ~hv \/ n + 1 = args.runs THEN "report" ELSE "run"
  /\ UNCHANGED <<call, args, base_time, results, stats, out, thrown>>

\* The average the code prints, before and after it takes base_time off,
\* as [num, den] ticks.
AvgTime(runs, total, max) ==
  IF runs >= 10 THEN [num |-> total - max, den |-> runs - 1]
  ELSE IF runs > 1 THEN [num |-> total, den |-> runs]
  ELSE [num |-> total - max, den |-> 1]

\* total_time, avg_time, min_time and max_time once base_time is taken
\* off, in seconds.
Summary ==
  LET total == elapsed - args.runs * base_time
      avg == AvgTime(args.runs, total, max_time - base_time)
  IN  [total |-> Seconds(total, 1),
       avg |-> Seconds(avg.num - base_time * avg.den, avg.den),
       min |-> Seconds(min_time - base_time, 1),
       max |-> Seconds(max_time - base_time, 1)]

\* bench_n_test after its loop: the statistics and their report.
ReportNTest ==
  /\ pc = "report"
  /\ call = "n_test"
  /\ min_time' = min_time - base_time
  /\ max_time' = max_time - base_time
  /\ stats' = Summary
  /\ out' = {TimeLine(Summary[k], 2) : k \in DOMAIN Summary}
  /\ pc' = "returned"
  /\ UNCHANGED <<call, args, n, base_time, elapsed, seen, results, result,
                 thrown>>

\* 1.0 / t for a time t in seconds; a zero den stands for inf.
PerSecond(t) ==
  [num |-> IF t.num >= 0 THEN t.den ELSE -t.den,
   den |-> IF t.num >= 0 THEN t.num ELSE -t.num,
   exp |-> -t.exp]

\* Faulty variant of ReportMbs: the report is printed whatever the last
\* result holds.
ReportMbsAlwaysPrint ==
  /\ pc = "report"
  /\ call = "mbs"
  /\ min_time' = min_time - base_time
  /\ max_time' = max_time - base_time
  /\ stats' = [total |-> Summary.total, avg |-> Summary.avg,
              min |-> Summary.min, max |-> Summary.max,
              per_second |-> PerSecond(Summary.min)]
  /\ out' = {TimeLine(Summary[k], 2) : k \in DOMAIN Summary} \cup
            {RateLine(args.bytes, Summary[k], 2) : k \in {"min", "avg", "max"}}
  /\ pc' = "returned"
  /\ UNCHANGED <<call, args, n, base_time, elapsed, seen, results, result,
                 thrown>>

\* bench_n_test_mbs after its loop: nothing but the title when the last
\* result holds no value, else the times, the rates and runs/second.
ReportMbs ==
  /\ pc = "report"
  /\ call = "mbs"
  /\ min_time' = min_time - base_time
  /\ max_time' = max_time - base_time
  /\ stats' = [total |-> Summary.total, avg |-> Summary.avg,
              min |-> Summary.min, max |-> Summary.max,
              per_second |-> PerSecond(Summary.min)]
  /\ out' = IF ~result THEN {}
            ELSE {TimeLine(Summary[k], 2) : k \in DOMAIN Summary} \cup
                 {RateLine(args.bytes, Summary[k], 2) : k \in {"min", "avg", "max"}}
  /\ pc' = "returned"
  /\ UNCHANGED <<call, args, n, base_time, elapsed, seen, results, result,
                 thrown>>

\* An iteration of bench_n_test_mbs2: a failed validation aborts, else the
\* raw duration is stored.
RunMbs2 ==
  /\ pc = "run"
  /\ call = "mbs2"
  /\ \E d \in Durations, valid \in BOOLEAN :
       \/ /\ ~valid
          /\ pc' = "aborted"
          /\ UNCHANGED <<n, results>>
       \/ /\ valid
          /\ results' = [results EXCEPT ![n + 1] = d]
          /\ n' = n + 1
          /\ pc' = IF n + 1 = args.runs THEN "returned" ELSE "run"
  /\ UNCHANGED <<call, args, base_time, min_time, max_time, elapsed, seen,
                 result, stats, out, thrown>>

\* An iteration of bench_n_test_json: the duration less base_time is stored.
RunJson ==
  /\ pc = "run"
  /\ call = "json"
  /\ \E d \in Durations : results' = [results EXCEPT ![n + 1] = d - base_time]
  /\ n' = n + 1
  /\ pc' = IF n + 1 = args.runs THEN "returned" ELSE "run"
  /\ UNCHANGED <<call, args, base_time, min_time, max_time, elapsed, seen,
                 result, stats, out, thrown>>

\* An iteration of bench_n_test_json_val: the result is dereferenced
\* (an expected without a value ends the noexcept function) and validated
\* (a failure aborts) before the duration less base_time is stored.
RunJsonVal ==
  /\ pc = "run"
  /\ call = "json_val"
  /\ \E d \in Durations, hv \in BOOLEAN, valid \in BOOLEAN :
       \/ /\ ~(hv /\ valid)
          /\ pc' = "aborted"
          /\ UNCHANGED <<n, results>>
       \/ /\ hv /\ valid
          /\ results' = [results EXCEPT ![n + 1] = d - base_time]
          /\ n' = n + 1
          /\ pc' = IF n + 1 = args.runs THEN "returned" ELSE "run"
  /\ UNCHANGED <<call, args, base_time, min_time, max_time, elapsed, seen,
                 result, stats, out, thrown>>

\* benchmark( func ): the seconds one call takes.
CallBenchmark ==
  /\ pc = "call"
  /\ call = "benchmark"
  /\ \E d \in Durations : stats' = [time |-> Seconds(d, 1)]
  /\ pc' = "returned"
  /\ UNCHANGED <<call, args, n, base_time, min_time, max_time, elapsed, seen,
                 results, result, out, thrown>>

\* show_benchmark( bytes, title, func ) with the default precisions
\* (data_prec 1, time_prec 0): the time, the time per item when there is
\* more than one, the size and the rate.
ShowBenchmark ==
  /\ pc = "call"
  /\ call = "show_benchmark"
  /\ \E d \in Durations :
       out' = {TimeLine(Seconds(d, 1), 0),
               RateLine(args.bytes, [num |-> 1, den |-> 1, exp |-> 0], 1),
               RateLine(args.bytes, Seconds(d, 1), 1)} \cup
              (IF args.items > 1 THEN {TimeLine(Seconds(d, args.items), 0)}
                                 ELSE {})
  /\ pc' = "returned"
  /\ UNCHANGED <<call, args, n, base_time, min_time, max_time, elapsed, seen,
                 results, result, stats, thrown>>

\* bench_test( title, test ): one timed call through expected_from_code.
BenchTest ==
  /\ pc = "call"
  /\ call = "bench_test"
  /\ \E d \in Durations, hv \in BOOLEAN :
       /\ out' = {TimeLine(Seconds(d, 1), 2)}
       /\ result' = hv
  /\ pc' = "returned"
  /\ UNCHANGED <<call, args, n, base_time, min_time, max_time, elapsed, seen,
                 results, stats, thrown>>

\* bench_test2( title, test, item_count ): as bench_test, and the time per
\* item when there is more than one.
BenchTest2 ==
  /\ pc = "call"
  /\ call = "bench_test2"
  /\ \E d \in Durations, hv \in BOOLEAN :
       /\ out' = {TimeLine(Seconds(d, 1), 2)} \cup
                 (IF args.items > 1 THEN {TimeLine(Seconds(d, args.items), 2)}
                                    ELSE {})
       /\ result' = hv
  /\ pc' = "returned"
  /\ UNCHANGED <<call, args, n, base_time, min_time, max_time, elapsed, seen,
                 results, stats, thrown>>

\* expecting( expected, result ), expecting( b ), expecting_message( b, m ):
\* abort unless the comparison or the condition holds.  The message
\* output_expected_error writes first is left out.
Expecting ==
  /\ pc = "call"
  /\ call = "expecting"
  /\ \E holds \in BOOLEAN : pc' = IF holds THEN "returned" ELSE "aborted"
  /\ UNCHANGED <<call, args, n, base_time, min_time, max_time, elapsed, seen,
                 results, result, stats, out, thrown>>

\* expecting_exception<Exception>( expression, pred ).  The expression
\* returns, throws an Exception (accepted or not by pred, always_true by
\* default), or throws something else.  Without DAW_USE_EXCEPTIONS the
\* expression is only called.
ExpectingException ==
  /\ pc = "call"
  /\ call = "expecting_exception"
  /\ \E what \in {"none", "match", "other"}, accepted \in BOOLEAN :
       /\ thrown' = [what |-> what, accepted |-> accepted]
       /\ \/ ~args.exceptions /\ what = "none" /\ pc' = "returned"
          \/ args.exceptions /\ what = "match" /\ accepted /\ pc' = "returned"
          \/ args.exceptions /\ what = "match" /\ ~accepted /\ pc' = "aborted"
          \/ args.exceptions /\ what = "other" /\ pc' = "rethrown"
          \/ args.exceptions /\ what = "none" /\ pc' = "aborted"
  /\ UNCHANGED <<call, args, n, base_time, min_time, max_time, elapsed, seen,
                 results, result, stats, out>>

Next ==
  \/ Calibrate \/ StartTimedRuns
  \/ RunNTest \/ ReportNTest \/ RunMbs \/ ReportMbs
  \/ RunMbs2 \/ RunJson \/ RunJsonVal
  \/ CallBenchmark \/ ShowBenchmark \/ BenchTest \/ BenchTest2
  \/ Expecting \/ ExpectingException

\* One call, run to its end: each step of a helper follows the last on
\* the calling thread.
Spec == Init /\ [][Next]_vars /\ WF_vars(Next)

(***************************************************************************)
(* Properties.                                                             *)
(***************************************************************************)

Q == [num : Int, den : Nat \ {0}, exp : Int]
TextT == [digits : [num : Int, den : Nat \ {0}, exp : Int,
                    adj : [num : Int, den : Nat \ {0}]],
          unit : {SecondUnits[i] : i \in 1 .. 6} \cup {ByteUnits[i] : i \in 1 .. 6},
          special : {"none", "inf", "nan"}]

TypeOK ==
  /\ call \in Helpers
  /\ pc \in {"calibrate", "run", "report", "call", "returned", "aborted",
             "rethrown"}
  /\ n \in 0 .. IF pc = "calibrate" THEN CalibrationRuns ELSE args.runs
  /\ base_time \in CalDurations \cup {DblMax}
  /\ seen \subseteq Durations
  /\ results \in [1 .. args.runs -> Int]
  /\ result \in BOOLEAN
  /\ \A k \in DOMAIN stats : stats[k] \in [num : Int, den : Nat, exp : Int]
  /\ \A line \in out : line.value \in Q /\ line.text \in TextT

\* bench_n_test and bench_n_test_mbs: min_time and max_time are the fastest
\* and the slowest of the timed calls made so far, less base_time once the
\* report has taken it off.  Both are updated by the two ifs of every
\* iteration; the first call must set both.
MinMaxBracket ==
  (call \in {"n_test", "mbs"} /\ seen # {}) =>
    LET off == IF pc = "returned" THEN base_time ELSE 0
    IN  /\ min_time = Min(seen) - off
        /\ max_time = Max(seen) - off

\* bench_n_test_mbs prints its "runs: Runs" report only when the loop made
\* all Runs calls: a loop cut short by a result without a value prints
\* nothing but the title.
RunsLineTrue ==
  (call = "mbs" /\ pc = "returned" /\ out # {}) => n = args.runs

\* bench_n_test and bench_n_test_mbs print an average that lies between
\* the minimum and the maximum they print.
AvgWithinRange ==
  (pc = "returned" /\ (call = "n_test" \/ (call = "mbs" /\ result))) =>
    LET lo == stats.min.num * stats.avg.den
        hi == stats.max.num * stats.avg.den
    IN  lo <= stats.avg.num /\ stats.avg.num <= hi

=============================================================================
