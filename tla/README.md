# TLA+ models of beached/function_queue

This directory holds TLA+ models of the function_queue library:
- its work-stealing task scheduler;
- the two ring buffers the scheduler's queues can be built from;
- the `fixed_array` container;
- the timing and test helpers of `src/include/daw/benchmark.h`.

Alongside the modules are their TLC configurations and `PROJECT.json`. `PROJECT.json` maps every
modelled definition to the source lines it translates, and lists the runs, mutants, findings and
hazards.

To check a run, go to this directory and run `tlc -workers 2 -config <cfg>.cfg <MC module>`.
The module of each run is listed in `PROJECT.json`.

## 1. The system

The sources under `src/unnamed/` hold several snapshots of the same library. Each file is a
concatenation of several original files.

| source | contents |
|---|---|
| `part_000` 30-291 | `task_scheduler_impl.cpp` |
| `part_000` 292-600 | the library's README |
| `part_000` 603-774 | `daw::fixed_array` |
| `part_001` 40-187 | `locking_circular_buffer<T, Sz>`: fixed size, `unique_ptr` slots, blocking and `try_` operations |
| `part_001` 221-335 | a second `locking_circular_buffer<T>` over `std::optional<T>` slots with a run-time size |
| `part_001` 367-414 | `daw::task_t` |
| `part_001` 450-781 | `task_scheduler.h`: member data, the `add_task` closures, the `task_runner`s, `wait_for_scope`, and the free helpers |
| `part_002`, `part_003` | older headers (a locked-stack scheduler), an unfinished merge sort, and the parallel-algorithm front ends |
| `part_004`, `part_005` | function-stream test and example programs |
| `src/include/daw/benchmark.h` | the benchmark and test helpers used by the tests |

`task_scheduler_impl.cpp` contains:
- `wait_for_task_from_pool`, `run_task`, `get_task_id`, `run_next_task`;
- both `task_runner`s;
- `start`, `stop`, `start_temp_task_runners`, `send_task`;
- `get_task_scheduler`.

`task_scheduler.h`'s free helpers are `schedule_task`, `create_task_group` and `invoke_tasks`.

`daw::shared_latch` and `future_result_t` are not under `src/`. What the models need of the latch
(`notify`, `try_wait`, `wait`) follows `spec.md` §4.2, and is marked `spec_modelled` in the map.

### The parts and how they interact

**Ring buffer.** State:
- a slot array;
- `m_front`, `m_back`, `m_is_full`;
- one mutex;
- the condition variables `m_not_empty` and `m_not_full`.

The `try_` operations take the mutex with `try_to_lock` and fail when it is busy. `push_back` and
`pop_front` block on the condition variables. `pop_front( can_continue, timeout )` retries a
timed wait through `wait_impl::wait_for`.

**Scheduler.** It owns N ring buffers, `m_continue` and the round-robin counter `m_task_count`.

- `add_task` picks queue `m_task_count++ % N`. It wraps the callable in a closure that runs the
  callable and then drains that queue, `while( m_continue and run_next_task( id ) )`. It sends the
  closure with `send_task`, which retries until the push succeeds.
- Each worker loops over `run_task( wait_for_task_from_pool( id ) )`. That call tries three
  stages in order:
  1. the worker's own queue;
  2. each other queue once;
  3. a spin on its own queue.
- `run_task` handles a task in one of two ways:
  - if the task's latch is not open, it re-sends the task inside one more closure;
  - otherwise it invokes the task.
- `stop( true )` clears `m_continue`, sends one empty task to each queue, and joins the workers.

**Nested waits.** `create_task_group` puts its callables on one latch. `invoke_tasks` calls
`wait_for`, which goes through `wait_for_scope`:
1. `start_temp_task_runners` starts a detached helper runner on a queue chosen from the clock.
2. The worker blocks on the latch.
3. The helper's own latch is notified at scope exit.

Workers, helpers and the client all touch the queues concurrently, each under the queue's mutex.
`m_continue` and `m_task_count` are atomics.

**fixed_array.** An owning `m_data` / `m_size` pair with copy, move, `clear` and `release`.

**benchmark.h.** Helpers a test calls on its own thread; they share no state with each other.
- `benchmark`, `show_benchmark`, `bench_test` and `bench_test2` time one call and print it with
  `format_seconds` and `to_bytes_per_second`.
- The five `bench_n_test` variants first time an empty lambda 1000 times and keep the fastest
  sample as `base_time`. Then each makes `Runs` timed calls:
  - `bench_n_test` keeps `min_time` and `max_time`, reads a clock around the whole loop, and
    prints total, average, min and max less `base_time`;
  - `bench_n_test_mbs` does the same, but stops at the first result without a value and then
    prints only the title; otherwise it also prints rates and runs/second;
  - `bench_n_test_mbs2` validates each result (a failure aborts) and returns the raw durations;
  - `bench_n_test_json` returns each duration less `base_time`;
  - `bench_n_test_json_val` dereferences and validates each result first.
- `expecting` and `expecting_message` abort when a check fails. `expecting_exception` returns only
  when the expression throws the expected exception and the predicate accepts it.

## 2. Modules

| module | models | state | actions |
|---|---|---|---|
| `LockingCircularBuffer` | the ring record and its locked operations (`part_001` 59-186) | none: operators over `[vals, front, back, full]` | `EmptyBuffer`, `IsEmpty`, `IsFull`, `FrontValue`, `PopFront`, `PushBack`; the abstraction `Contents` and the asserts as `WellFormed` |
| `TaskGroup` | what the scheduler promises a client's task group (spec.md 8.1, 8.2, 8.6, 8.7) | `submitted`, `runs`, `waited` | `Submit`, `Run`, `Wait` |
| `BoundedFIFO` | what a ring buffer promises: a FIFO of at most `Cap` values | `q`, `delivered` | `Put`, `Get` |
| `BlockingBuffer` | the whole fixed-size buffer, used by producer and consumer threads (`part_001` 42-186) | `buf`, `holder` (the mutex), `waiters` (a set per condition variable), `cont` (`can_continue`), per-thread `pc`/`op`/`woke`/`ret`, `sent`, `got` | one action per call phase: `Call`, `Acquire`, the bodies of `push_back`, `pop_front( )` and `pop_front( can_continue, timeout )`, `TryPushBack`, `TryPopFront`, `TryBusy` (try_to_lock fails), `Timeout`, `Spurious`, `Stop` |
| `OptionalBuffer` | the `std::optional` buffer (`part_001` 221-334) | as above, plus `owns` (whether a thread's `unique_lock` owns the mutex) | `TryLock`, `Lock`, `Relock`, `PushBody`, `RacyAdvance`, `RacyExit`, `PopBody`, `TryPopBody`, `Spurious`, `Stop` |
| `TaskScheduler` | workers, queues, group latch, client, and a parent callable running `invoke_tasks` with its helper runner | queues, `continue`, `taskCount`, latches, per-thread pc / steal index / held task / drain stack, client and parent program counters | `Start`, `Submit`, `Send`, `WaitGroup`, `Stop`, `SendSentinel`, `Join`; `LoopHead`, `HelperLoopHead`, `TryOwn`, `TrySteal`, `Spin`, `Defer`, `Resend`, `Execute`, `Throw`, `Complete`, `Drain`; `ExecuteParent`, `ParentSubmit`, `ParentSend`, `ParentScope`, `ParentWait` |
| `FixedArray` | `daw::fixed_array` (`part_000` 603-774) over a heap of blocks | `st`, `size`, `data`, `heap`, `cap`, `released`, `faults` | every constructor, both assignments, `clear`, `release`, element access, the destructor |
| `Benchmark` | one call of one helper of `benchmark.h` | `call`, `args` (Runs, bytes, item_count, exceptions on or off), `pc`, `n`, `base_time`, `min_time`, `max_time`, `elapsed` (ticks since `total_start`), `seen` (durations measured), `results`, `result`, `stats`, `out` (printed numbers and their text), `thrown` | `Calibrate`, `StartTimedRuns`, `RunNTest`, `ReportNTest`, `RunMbs`, `ReportMbs`, `RunMbs2`, `RunJson`, `RunJsonVal`, `CallBenchmark`, `ShowBenchmark`, `BenchTest`, `BenchTest2`, `Expecting`, `ExpectingException`; the operators `FormatSeconds` and `ToBytesPerSecond` |

Each module's `MC_` module supplies model values and small sets for the cfgs.

### Modelling choices

- **Buffers as operators.** A buffer's locked member functions run entirely under its mutex, so
  `TaskScheduler` applies each one as a single step on its own queue record.
- **Scheduler loops.** A sleeping retry changes no state and appears as stuttering. The depth of
  nested drains is kept exactly, as a stack of frames.
- **Throwing callables.** A callable in the constant `Throwing` may throw instead of returning
  (`Throw`). The exception unwinds through the `add_task` closure, so that closure's drain loop
  never runs. `schedule_task`'s `on_scope_exit` still notifies the latch on the way. Then
  `run_task`'s `catch( ... )` swallows the exception, and the thread goes back to whatever
  called `run_task`. `sched_core` lets `t1` and the deferred `g1` throw; `sched_nested` lets
  child `c1` throw.
- **BlockingBuffer threads.** The mutex holder is a variable:
  - a thread holds it from its `unique_lock` until the end of its critical section, or until a
    wait;
  - `notify_one` wakes one waiter, if there is any;
  - a woken thread takes the mutex again before it re-tests its predicate.
- **OptionalBuffer's undefined behaviour.** `push_back` and `try_push_back` go on when
  `try_to_lock` fails. The model follows what libstdc++ over glibc does:
  - If the ring is not full, they write the ring without the mutex. That write is three steps
    other threads can interleave: store, advance `m_back`, then set `m_is_full` and notify.
  - If the ring is full, they call `condition_variable::wait` on a `unique_lock` that does not
    own the mutex (undefined behaviour). `pthread_cond_wait` unlocks the mutex whoever holds it
    and relocks it on waking. The non-owning lock then never unlocks it.
- **Benchmark numbers.** A clock reading is an integer tick of `10^TickExp` seconds; the MC
  uses nanoseconds, the period of `steady_clock` in libstdc++ and libc++. A double is kept as
  the exact rational it approximates, `num / den * 10^exp`. The durations of calls, of the
  empty lambda and of the loop outside its timed calls are drawn from small sets. The
  printed text of a number is its unit and the integer `std::fixed` prints: the value times
  `10^prec`, rounded to nearest with ties to even. That integer is kept as the exact value plus
  the amount rounding adds, with remainders taken modulo the denominator, so a 13-digit rate
  needs no 13-digit integer. `bytes / 0` is `inf` (`nan` for `0 / 0`) and prints in PB, as IEEE
  division does. The calibration loop is one action shared by the five variants; it is the same
  code in each.
- **The scheduler's queues.** `task_scheduler_impl` (`part_000`) calls `receive` and `send` on
  a `task_queue_t` whose definition is not under `src/`. The model takes it to be the header's
  `locking_circular_buffer<task_t, 1024>` (`part_001` 473), with `receive` as one atomic
  `try_pop_front` and `send` as one atomic `try_push_back`. This is an assumption, not a
  translation: the legacy header (`part_003` 50) uses a locked stack instead.
- **FixedArray's heap.** Element values are left out. What is kept is each block's allocation
  state and capacity. A double `delete[]`, a copy past a block, or a read through a dead pointer
  is recorded in `faults`.

## 3. Runs

| run | module | expect | checks | states | time |
|---|---|---|---|---|---|
| `sched_core` | `MC_TaskScheduler` | pass | `TypeOK`, `TaskAccounting`, `LatchCountsPending`, `GroupRefinement` | 365k | 95 s |
| `sched_nested` | `MC_TaskScheduler` | pass | `TypeOK`, `TaskAccounting`, `LatchCountsPending`, `GroupRefinement` with a parent running `invoke_tasks( c1, c2 )`, then `stop( true )` | 88k | 25 s |
| `sched_quiesce` | `MC_TaskScheduler` | violation | `ShutdownQuiescence` | 34k | 3 s |
| `stop_hang` | `MC_TaskScheduler` | violation | `StopReturns` | 744 | 2 s |
| `fa_api` | `MC_FixedArray` | pass | `TypeOK`, `UniqueOwnership`, `NoDanglingRead` over every operation | 92k | 5 s |
| `bb_blocking` | `MC_BlockingBuffer` | pass | `TypeOK`, `BufferWellFormed`, `FifoRefinement`, `NotFullWaiterWakes` | 21k | 200 s |
| `bb_cancel` | `MC_BlockingBuffer` | pass | `CancelReleasesWaiters` | 4.4k | 35 s |
| `bb_push_cancel` | `MC_BlockingBuffer` | violation | `CancelReleasesWaiters` | 6.1k | 4 s |
| `bb_trypop` | `MC_BlockingBuffer` | violation | `NotFullWaiterWakes` with a consumer using `try_pop_front` only | 1.5k | 2 s |
| `ob_race` | `MC_OptionalBuffer` | violation | `FrontSlotFilled` | 39 | 1 s |
| `bench_all` | `MC_Benchmark` | pass | `TypeOK`, `MinMaxBracket`, `RunsLineTrue` | 157k | 4 s |
| `bench_avg` | `MC_Benchmark` | violation | `AvgWithinRange` | 1.1k | 1 s |

### What the properties say

**Scheduler (`sched_core`, `sched_nested`):**
- `TaskAccounting`: each callable is, at every moment, in exactly one queue slot, or held by one
  worker, or has run exactly once. Stealing, deferral and re-sending never lose or duplicate it.
- `LatchCountsPending`: each group latch equals the number of its unfinished callables.
- `GroupRefinement`: the scheduler implements `TaskGroup`, the abstract promise of a task
  group. A callable counts as submitted once `add_task` has taken it. Its invocations map to
  `runs`, and the client's wait maps to `waited`. The property checks four things at once:
  - every callable runs at most once;
  - a callable added with `add_task( task, sem )` runs only after the whole group has;
  - a parent's `invoke_tasks` returns only after its children have;
  - every submitted callable and the client's wait eventually complete, under `TaskGroup`'s
    weak fairness. In `sched_nested` this includes the children of a parent that blocks its
    worker in `wait_for_scope`.
- `sched_nested` ends with `stop( true )`, so the safety properties are also checked while
  `m_continue` drops in the middle of a drain, sentinels are stolen, and the helper retires or
  is left spinning. Its tasks have all run before the client stops, so the completion part of
  `GroupRefinement` still applies.
- A throwing callable counts as run. Every property above also holds when the callables in
  `Throwing` throw: the latch is still notified, and the skipped drain loop leaves the queued
  work to the other threads.

**Blocking buffer (`bb_blocking`, `bb_cancel`):**
- `FifoRefinement`: `BlockingBuffer` implements `BoundedFIFO` under the refinement mapping
  `q <- Contents(buf)`, `delivered <- got`. It is checked as the property `FIFO!Spec`.
- `NotFullWaiterWakes`: a producer blocked on `m_not_full` while there is room is eventually
  woken. In `bb_blocking` the consumer uses the two blocking `pop_front`s, which notify
  `m_not_full`; `bb_trypop` shows it fails when the consumer uses `try_pop_front`.
- `CancelReleasesWaiters`: a thread blocked in a call that takes `can_continue` returns once
  `can_continue` is false.

**benchmark.h (`bench_all`):**
- `MinMaxBracket`: while `bench_n_test` or `bench_n_test_mbs` runs, `min_time` and `max_time`
  are the fastest and slowest durations measured so far. Once reported, they are those less
  `base_time`.
- `RunsLineTrue`: `bench_n_test_mbs` prints its `runs: Runs` report only when all `Runs` calls
  were made.

### Findings

Each finding below is shown by a violation run. It is recorded in `PROJECT.json` with its source
line.

1. **`stop_hang`: `stop( true )` can hang in `join`** (`part_000` line 74).
   - A worker still in its steal loop takes another queue's sentinel.
   - That queue's owner then spins on its empty queue, and the spin loop never reads
     `m_continue`.
   - The same spin keeps a helper runner alive after its latch opens (hazard at `part_000` 130).
2. **`bb_push_cancel`: `push_back`'s untimed wait cannot be cancelled** (`part_001` 153).
   - Its predicate is `can_continue( ) and !full( )`, so once `can_continue` is false a producer
     blocked on a full ring never returns.
   - `spec.md` says such a wait is abandoned.
3. **`ob_race`: a single producer corrupts `m_is_full`** (`part_001` 321).
   1. The producer calls `try_push_back` while the consumer holds the mutex in `pop_front`.
   2. The producer writes unlocked.
   3. The consumer pops.
   4. The producer's final `m_is_full = m_front == m_back` marks the emptied ring full.
   5. The next pop fails `assert( m_values[m_front] )` (line 270).
4. **`bench_avg`: the printed average is below the printed minimum** (`benchmark.h` 259, and
   410 in `bench_n_test_mbs`).
   - With `Runs == 1` the average is `( total_time - max_time ) / 1.0`. That subtracts the only
     sample and leaves only the loop overhead outside the timed call.
   - TLC's trace is one call of 1 ns with a 0 ns calibration: it prints min 1.00ns and
     avg 0.00fs. With a 0 ns calibration, the `avg_time -= base_time` of line 263 plays no part.
5. **`sched_quiesce`: `stop( true )` returns with tasks still queued** (`part_000` 172-175).
   - `stop` clears `m_continue` before it sends the sentinels.
   - A worker that reads the cleared flag at its loop head (line 146), or at the head of a drain
     loop, leaves at once. Nothing takes the sentinel sent to its queue later.
   - Nothing runs or discards the tasks still queued. In TLC's trace the client has waited for
     its group, and the deferred callable `g1` is ready but still queued. Both workers leave,
     both sentinels are sent, and `stop` returns.
   - `spec.md` 8.8 says no queue holds a task once `stop( block=true )` returns. Scenario E6
     says every task is executed, or abandoned with its latch notified. A task stopped this way
     never notifies the latch its `schedule_task` wrapper holds.
6. **`bb_trypop`: `try_pop_front` never notifies `m_not_full`** (`part_001` 97).
   - Two producers block in `push_back` on a full ring of size 2. The consumer empties it with
     `try_pop_front`, which clears `m_is_full` and advances `m_front` but never calls
     `m_not_full.notify_one( )`. Nothing else wakes the producers.
   - `spec.md` §4.1 says `try_pop` clears the full flag and signals not_full.

### Mutants

Every property of a passing run has a mutant in `PROJECT.json`. A mutant is a plausible bug in a
mapped definition, defined as a `...` variant just before it. When the mutant replaces the
definition, TLC finds the property violated under the run's own cfg.

| mutant | breaks |
|---|---|
| `get_task_id` without the modulo | `TypeOK` |
| pop copies the slot instead of moving it | `TaskAccounting`, `BufferWellFormed` |
| group latch initialised one short | `LatchCountsPending` in `sched_core` |
| `schedule_task` notifies after the callable, not on scope exit | `LatchCountsPending` in `sched_nested` |
| `is_ready` ignores the latch | `GroupRefinement` in `sched_core` |
| the parent's wait returns without its children's latch | `GroupRefinement` in `sched_nested` |
| range length `first - last` | `FixedArray` `TypeOK` |
| move constructor keeps the source pointer | `UniqueOwnership` |
| `release` keeps `m_size` | `NoDanglingRead` |
| `m_back` advanced without the modulo | buffer `TypeOK` |
| pop takes the newest value | `FifoRefinement` |
| the pop's scope exit skips `notify_one` | `NotFullWaiterWakes` |
| `wait_for` retries without re-testing `can_continue` | `CancelReleasesWaiters` |
| the timed loop's counter not reset after calibration | `Benchmark` `TypeOK` |
| `max_time` updated in an `else` of the `min_time` update | `MinMaxBracket` |
| `bench_n_test_mbs` prints the report whatever the last result holds | `RunsLineTrue` |

## 4. Bounds and fairness

### Bounds

- **Scheduler.**
  - The scheduler has two workers with two-slot queues. Each worker has exactly one other queue
    to steal from, and a queue fills, so `send_task` retries.
  - Three client tasks (two in the group, one deferred on it) reach every steal, drain, deferral
    and sentinel interleaving the properties distinguish.
  - `MaxWraps` bounds how many closure ids are recorded around a re-sent task. Past it, the extra
    nested drains are omitted, but the re-send loop is kept.
  - `sched_nested` has one parent with two children and one helper, then stops the pool.
  - `sched_quiesce` is `sched_core`'s configuration followed by `stop( true )`.
- **Buffers.**
  - Two slots, with one or two producers of two or three values each, and one consumer. So the
    ring fills, wraps and empties, and both condition variables see waiters.
  - `ob_race` is the smallest case that shows its trace.
- **fixed_array.** Two arrays, lengths up to 2, and 4 blocks, with symmetry over the arrays.
- **benchmark.h.** Every helper, with these parameters:
  - `Runs` of 1, 3 and 10, one for each branch of the average;
  - timed calls of 1 or 2 ns, an empty lambda of 0 or 1 ns, and 0 or 1 ns spent outside each
    timed call;
  - two calibration samples (standing for 1000), 0 or 1000 bytes, and `item_count` 1 or 3.

  These bounds reach every branch of the loops and the report. They also reach a minimum of
  zero after `base_time` (an infinite rate), negative averages (printed in fs, and as negative
  rates in bytes), and fractional averages with denominators 3 and 9.

### Fairness

**TaskScheduler.** Every worker, the helper and the client are OS threads, so each has weak
fairness. The `stop_hang` lasso is made only of the spinning worker's enabled steps, so it is not
an artefact of missing fairness. `GroupRefinement` checks `TaskGroup`'s weak fairness on
`Run` and `Wait` against the scheduler's behaviours under that thread-level fairness alone.

**BlockingBuffer.**
- Calls and critical sections have weak fairness.
- A thread retrying a mutex that is free again and again eventually gets it: strong fairness on
  `Acquire` and on the `try_` calls.
- A timed wait has a fixed deadline that spurious wake-ups do not move: strong fairness on
  `Timeout`.
- Spurious wake-ups are never assumed to happen.

**Benchmark.** One call on one thread; the model checks only safety. A call that has returned,
aborted or thrown ends the behaviour, so its runs do not check deadlock.

**OptionalBuffer.** It has only safety properties and no fairness. A leaked mutex really can
leave every thread blocked, so `ob_race` does not check deadlock.

## 5. Observed while modelling, not checked by a run

One violation was shown by a run of an earlier version of this project, and another by a
configuration checked while modelling. They are not in the current set of twelve runs. The
properties are still defined, and the configurations to reproduce them are given:
- A wait on a non-owning lock leaks the mutex (`part_001` 323).
  - Configuration: `MC_OptionalBuffer` with one producer using `try_push` (`MC_TryPush`),
    `ConsOps <- MC_Pop`, and `INVARIANT MutexFreeWhenIdle`.
  - Result: with a full ring and a busy mutex, the producer's wait releases the consumer's
    mutex. On waking it takes the mutex again and never gives it back.

- Re-sending deferred tasks can block the whole pool (`part_000` 88 and 252).
  - Configuration: `MC_TaskScheduler` with `N = 2`, `Capacity = 1`, one group task `t1`, four
    tasks deferred on its latch, `MaxWraps = 1`, and deadlock checking on.
  - Result: TLC reaches a state where both workers hold a deferred task and retry
    `send_task` into full queues, and the client retries its last send. `t1`, the task that
    would open the gate, sits in a queue nobody pops. In the code each thread sleeps 1 ns and
    retries, forever.
  - `spec.md` §7 says a full queue makes `add_task` fail and return (SubmissionRejected).
    `send_task` never gives up.

These are sequential defects a unit test would catch:
- `fixed_array::clear` (`part_000` 700) leaves `m_data` dangling, so the destructor deletes the
  block again.
- Copy assignment (667-679) allocates the destination's old length and copies the source's
  length into it.
- Copy assignment returns early when `rhs.m_data` is null, leaking the block it has just
  allocated.
- `fib` in the function-stream tests (`part_005` 30-42, 134-143) computes
  `r(k+1) = 2 r(k) + r(k-1)`, the Pell numbers. It is not Fibonacci.
- `format_seconds` chooses the unit before rounding. 999.999995 us prints as `1000.00us`; the
  `FormatSeconds` operator reproduces this, but the model's durations never produce such a
  value.

## 6. Not modelled

- The parallel algorithms, whose bodies are not in `src/`.
- The legacy locked-stack scheduler.
- In `benchmark.h`:
  - the clock's absolute readings (only differences are used);
  - the title text and the default `%g` formatting of runs/second (kept as its exact value);
  - the validation-time counter of `bench_n_test_mbs2`, which is never read;
  - exceptions thrown by `func` in `bench_n_test_mbs2` and `bench_n_test_json`. Inside these
    `noexcept` functions such an exception ends the program; the model lets the call return.
- `get_task_scheduler`, a function-local static.
- The header's own `task_runner` templates (`part_001` 568-598). They belong to a
  `task_scheduler` whose `run_task`, `start_temp_task_runners` and `stop` are defined outside
  the repository. The model runs the loops of `task_scheduler_impl` (`part_000` 123-149)
  instead.
- An expired scheduler handle in the `add_task` closure (`part_001` 545). Every thread that
  runs a closure holds a strong reference for as long as the closure runs: a worker holds
  `self2`, a helper holds the `self` of its loop. So the branch that skips the callable cannot
  be taken.
- Thread-creation failure (`std::terminate`).
- Exception payloads and what a callable does before it throws. Only the fact of a throw is
  modelled (the `Throw` action).
- The future and pipeline parts (`spec.md` §4.3, §4.6), which are not under `src/`.

## 7. Plan

Done so far:
- the ring-buffer operators;
- the scheduler core with stop, and what `stop` leaves queued;
- nested waits through the helper runner;
- the scheduler's refinement of the abstract `TaskGroup`;
- callables that throw, and the latch notified on scope exit;
- `fixed_array`;
- the blocking buffer, with its refinement of `BoundedFIFO`;
- the optional-slot buffer;
- `benchmark.h`.

Remaining, in order:
1. **Full queues.** Check the full-queue re-send with more deferred tasks than free slots
   (every worker retrying `send_task`), and `stop`'s sentinel sent to a full queue whose worker
   has left.
2. **Future result and pipeline** (`spec_modelled`), over the scheduler.
3. **Scheduler lifetime.** Model the shared handle count, to check that a pool dropped without
   `stop` keeps its threads running. Every worker and helper holds the scheduler's
   `shared_ptr` for its whole loop (`part_000` 159, 236), so the destructor's `stop` cannot run.

The latch needs no module of its own. Its operations are operators and steps of
`TaskScheduler`, modelled from `spec.md` §4.2. A monotonicity property would hold by the shape
of `LatchNotify`, whatever the scheduler did.

The project uses all twelve of its runs. Two violations found while modelling have no run:
- the full-queue deadlock;
- the leaked mutex of `OptionalBuffer`.

They are described in §5.
