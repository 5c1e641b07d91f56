---------------------------- MODULE ProgramEngine ----------------------------
(***************************************************************************)
(* ProgramEngine (program_engine.py): a task for every scheduled program   *)
(* of a mock panel, a table of the programs that wait for an event, and    *)
(* the start and stop of it all.                                           *)
(*                                                                         *)
(* Programs run on the event loop: a task is interrupted only where it     *)
(* sleeps, so firing a program or a whole chain is one step.  The clock    *)
(* goes through Moments.  It waits for the sleepers it has woken           *)
(* (FakeClock yields to each of them; the real one is slower than the      *)
(* loop), but not for tasks that a start() has just created or a stop()    *)
(* has cancelled: these may come to their first, or last, step later.      *)
(***************************************************************************)
EXTENDS ProgramRules, PanelState

CONSTANTS
    Programs,           \* the panel's program table, decoded once
    Location,           \* the panel's location, or NoLocation
    PanelAtStart,       \* the panel's state
    UseStateEvaluator,  \* conditions are read from the panel's state, or assumed
    Moments,            \* the instants the clock shows, in order
    Events,             \* the events that are emitted
    ClientCommands,     \* the commands that clients send to the panel
    Callers,            \* those who call start() and stop()
    Overlap,            \* start() may be called while a stop() is in progress
    MaxStarts           \* bound on the calls of start() that do something

ASSUME MaxStartsAssumption == MaxStarts \in Nat \ {0}
ASSUME OverlapAssumption == Overlap \in BOOLEAN
ASSUME MomentsAssumption ==
    /\ Moments \in Seq(Nat) /\ Moments # <<>>
    /\ \A i, j \in DOMAIN Moments : i < j => Moments[i] < Moments[j]
ASSUME ProgramsAssumption ==
    /\ Len(Programs) \in Nat /\ DOMAIN Programs = 1..Len(Programs)
    /\ \A i \in DOMAIN Programs :
           /\ Programs[i].slot \in Nat
           /\ \A f \in {"cond", "cond2", "month", "day", "days", "hour"} :
                  Programs[i].rec[f] \in Nat
           /\ Programs[i].rec.minute \in Byte
    /\ \A i, j \in DOMAIN Programs : Programs[i].slot = Programs[j].slot => i = j
ASSUME LocationAssumption ==
    Location # NoLocation => /\ Location.sunrise \in SecondsOfDay
                             /\ Location.sunset \in SecondsOfDay

VARIABLES
    tick,         \* the position of the clock in Moments
    panel,        \* the state of the panel
    running,      \* _running
    tasks,        \* _tasks: the workers in the order they were created
    workers,      \* every worker created so far
    event_table,  \* _event_table and _when_chain_table
    calls,        \* what each caller's stop() waits for
    starts,       \* the starts so far
    errors,       \* metrics.errors
    begun,        \* history: when the latest worker to begin of each job began
    owed,         \* history: the jobs due now whose worker began before
    runs,         \* history: how often each job ran at this moment
    emitted       \* history: the last event of this moment and what it fired

vars == <<tick, panel, running, tasks, workers, event_table, calls, starts, errors,
          begun, owed, runs, emitted>>

now == Moments[tick]

----------------------------------------------------------------------------
(* The jobs: a compact program or a chain each.                            *)

Job(kind, p, chain) == [kind |-> kind, slot |-> p.slot, head |-> p.rec, chain |-> chain]
Single(p) == [conditions |-> <<>>, actions |-> <<p.rec>>]
JobsOf(kind, programs) ==
    [i \in DOMAIN programs |-> Job(kind, programs[i], Single(programs[i]))]

Chains == BuildChains(Programs)
ChainsOf(kind, types) ==
    LET chosen == Kept(Chains, {i \in DOMAIN Chains : Chains[i].head.prog_type \in types})
    IN [i \in DOMAIN chosen |->
          Job(kind, [slot |-> chosen[i].slot, rec |-> chosen[i].head], chosen[i])]

KindOf(job) == IF job.head.prog_type = ProgramType.EVERY THEN "every" ELSE job.kind

\* In the order in which start() creates their tasks.
Jobs == JobsOf("timed", Classify(Programs).timed)
        \o JobsOf("yearly", Classify(Programs).yearly)
        \o ChainsOf("timed", {ProgramType.AT, ProgramType.EVERY})

\* The jobs that wait for an event, in the order in which it fires them.
WaitingFor(event, jobs) == Kept(jobs, {i \in DOMAIN jobs : EventId(jobs[i].head) = event})
Subscribers(event) == WaitingFor(event, JobsOf("event", Classify(Programs).event))
                      \o WaitingFor(event, ChainsOf("event", {ProgramType.WHEN}))

Workers == (1..MaxStarts) \X (DOMAIN Jobs)

(* When a job that goes to sleep now is to wake.                           *)
NextFire(job, t) ==
    CASE KindOf(job) = "every" ->
             IF EveryInterval(job.head) = 0 THEN NoFire ELSE t + EveryInterval(job.head)
      [] KindOf(job) = "yearly" -> NextYearlyFire(t, job.head)
      [] KindOf(job) = "timed"  -> NextTimedFire(t, job.head, Location)

----------------------------------------------------------------------------
(* Firing.                                                                 *)

Fire(st, p) == HandleCommand(st, CommandPayload(p)).state

Passes(st, chain) ==
    LET IsSatisfied(c) == IF UseStateEvaluator THEN StateEvaluator(st, now, Location, c)
                                               ELSE DefaultConditionEvaluator(c)
    IN EvaluateConditions(chain.conditions,
           {j \in DOMAIN chain.conditions : IsSatisfied(chain.conditions[j])})

(* A chain whose conditions fail changes nothing.                          *)
FireChain(st, chain) == IF Passes(st, chain) THEN FoldLeft(Fire, st, chain.actions) ELSE st

----------------------------------------------------------------------------
(* Tasks.                                                                  *)

Created == [phase |-> "created", target |-> NoFire, cancelled |-> FALSE]
Ended == [phase |-> "ended", target |-> NoFire, cancelled |-> FALSE]
Asleep(target) == [phase |-> "asleep", target |-> target, cancelled |-> FALSE]

Alive(w) == w \in DOMAIN workers /\ workers[w].phase # "ended"
Runnable(w) ==
    /\ Alive(w)
    /\ \/ workers[w].phase = "created"
       \/ workers[w].cancelled
       \/ workers[w].target =< now
Woken(w) ==
    /\ Alive(w) /\ workers[w].phase = "asleep"
    /\ ~workers[w].cancelled /\ workers[w].target =< now

JobOf(w) == Jobs[w[2]]

(* The top of a worker's loop: it goes to sleep, ends, or crashes.         *)
Rest(w) ==
    LET next == NextFire(JobOf(w), now) IN
    /\ workers' = [workers EXCEPT ![w] = IF next \in {NoFire, ValueError}
                                         THEN Ended ELSE Asleep(next)]
    /\ errors' = errors + (IF next = ValueError THEN 1 ELSE 0)

(* A cancelled worker gets CancelledError at its next step; one that finds *)
(* the engine stopped returns.                                             *)
WorkerEnds(w) ==
    /\ Runnable(w)
    /\ workers[w].cancelled \/ ~running
    /\ workers' = [workers EXCEPT ![w] = Ended]
    /\ UNCHANGED <<tick, panel, running, tasks, event_table, calls, starts, errors,
                   begun, owed, runs, emitted>>

(* The loop begins the tasks in the order in which start() created them.   *)
WorkerBegins(w) ==
    /\ Alive(w) /\ workers[w].phase = "created"
    /\ ~workers[w].cancelled /\ running
    /\ \A i \in 1..(w[2] - 1) : workers[<<w[1], i>>].phase # "created"
    /\ Rest(w)
    /\ begun' = [begun EXCEPT ![w[2]] = now]
    /\ UNCHANGED <<tick, panel, running, tasks, event_table, calls, starts, owed, runs,
                   emitted>>

WorkerFires(w) ==
    /\ Runnable(w) /\ workers[w].phase = "asleep"
    /\ ~workers[w].cancelled /\ running
    /\ panel' = FireChain(panel, JobOf(w).chain)
    /\ runs' = [runs EXCEPT ![w[2]] = @ + 1]
    /\ Rest(w)
    /\ UNCHANGED <<tick, running, tasks, event_table, calls, starts, begun, owed, emitted>>

----------------------------------------------------------------------------
(* start() and stop().                                                     *)

Idle == [waits |-> FALSE]
WaitsFor(index) == [waits |-> TRUE, index |-> index, worker |-> tasks[index]]

\* One task of every job, and the table of events built anew.
NewTasksShifted == [i \in DOMAIN Jobs |-> <<starts + 1, i + 1>>]
NewTasks == [i \in DOMAIN Jobs |-> <<starts + 1, i>>]
EventTableGrown == [e \in Events |-> event_table[e] \o Subscribers(e)]
EventTable == [e \in Events |-> Subscribers(e)]

Start ==
    /\ ~running
    /\ starts < MaxStarts
    /\ Overlap \/ \A c \in Callers : calls[c] = Idle
    /\ running' = TRUE
    /\ starts' = starts + 1
    /\ tasks' = tasks \o NewTasks
    /\ workers' = [w \in DOMAIN workers \cup ToSet(NewTasks) |->
                     IF w \in DOMAIN workers THEN workers[w] ELSE Created]
    /\ event_table' = EventTable
    /\ UNCHANGED <<tick, panel, calls, errors, begun, owed, runs, emitted>>

(* stop() waits for the tasks one after the other, those added to the list *)
(* meanwhile included; it does not pause at one that has ended.            *)
AwaitNothing(c, index) == tasks' = <<>> /\ calls' = [calls EXCEPT ![c] = Idle]
AwaitFrom(c, index) ==
    LET left == {i \in DOMAIN tasks : i >= index /\ Alive(tasks[i])} IN
    IF left = {} THEN tasks' = <<>> /\ calls' = [calls EXCEPT ![c] = Idle]
    ELSE UNCHANGED tasks /\ calls' = [calls EXCEPT ![c] = WaitsFor(Lowest(left))]

CancelledByFlag == workers
Cancelled == [w \in DOMAIN workers |->
                 IF w \in ToSet(tasks) /\ Alive(w)
                 THEN [workers[w] EXCEPT !.cancelled = TRUE] ELSE workers[w]]

Stop(c) ==
    /\ running
    /\ calls[c] = Idle
    /\ running' = FALSE
    /\ workers' = Cancelled
    /\ AwaitFrom(c, 1)
    /\ owed' = {}
    /\ UNCHANGED <<tick, panel, event_table, starts, errors, begun, runs, emitted>>

StopResumes(c) ==
    /\ calls[c].waits
    /\ ~Alive(calls[c].worker)
    /\ AwaitFrom(c, calls[c].index + 1)
    /\ UNCHANGED <<tick, panel, running, workers, event_table, starts, errors, begun,
                   owed, runs, emitted>>

----------------------------------------------------------------------------
(* Events, clients and time.                                               *)

NoEvent == [event |-> 0, fired |-> <<>>]

(* The compact programs first, then the chains, each on what the ones      *)
(* before it left.                                                         *)
FireNext(done, job) ==
    IF Passes(done.panel, job.chain)
    THEN [panel |-> FireChain(done.panel, job.chain), fired |-> Append(done.fired, job.slot)]
    ELSE done
Emission(st, table) ==
    LET after[n \in 0..Len(table)] == IF n = 0 THEN [panel |-> st, fired |-> <<>>]
                                      ELSE FireNext(after[n - 1], table[n])
    IN after[Len(table)]

EmitEvent(event) ==
    LET done == Emission(panel, event_table[event])
    IN /\ running
       /\ panel' = done.panel
       /\ emitted' = [event |-> event, fired |-> done.fired]
       /\ UNCHANGED <<tick, running, tasks, workers, event_table, calls, starts, errors,
                      begun, owed, runs>>

ClientCommand(payload) ==
    /\ panel' = HandleCommand(panel, payload).state
    /\ UNCHANGED <<tick, running, tasks, workers, event_table, calls, starts, errors,
                   begun, owed, runs, emitted>>

(* What "due" means, for the history: the wall clock and the weekday, the  *)
(* date, the sun event of a selected day, or a whole number of intervals   *)
(* since the job's worker began.                                           *)
Due(job, since, t) ==
    LET head == job.head
        OnTheClock == /\ IsTime(head.hour, head.minute)
                      /\ SecondOfDay(t) = TimeOfDay(head.hour, head.minute)
    IN \/ /\ KindOf(job) = "every"
          /\ EveryInterval(head) # 0 /\ (t - since) % EveryInterval(head) = 0
       \/ /\ KindOf(job) = "yearly"
          /\ MonthOf(DayOf(t)) = head.month /\ DayOfMonth(DayOf(t)) = head.day
          /\ OnTheClock
       \/ /\ KindOf(job) = "timed" /\ TimeKind(head) = "absolute"
          /\ MatchesDaysMask(DayOf(t), head.days) /\ OnTheClock
       \/ /\ KindOf(job) = "timed" /\ TimeKind(head) # "absolute" /\ Location # NoLocation
          /\ \E d \in (DayOf(t) - 1)..(DayOf(t) + 1) :
                 MatchesDaysMask(d, head.days) /\ SunEvent(head, Location, d) = t
DueAt(i, t) == Due(Jobs[i], begun[i], t)

(* The workers of a start begin in one pass of the loop, and no time goes  *)
(* by in the middle of a pass.                                             *)
HasBegun(w) == w \in DOMAIN workers /\ workers[w].phase # "created"
InOnePass ==
    \A v, w \in DOMAIN workers : v[1] = starts /\ w[1] = starts /\ HasBegun(v) => HasBegun(w)

(* What is due in the moment of a jump is owed by the workers that have    *)
(* begun; one that begins after it computes its time from there.           *)
Tick ==
    /\ tick < Len(Moments)
    /\ \A w \in DOMAIN workers : ~Woken(w)
    /\ running => InOnePass
    /\ tick' = tick + 1
    /\ owed' = {i \in DOMAIN Jobs :
                   running /\ HasBegun(<<starts, i>>) /\ DueAt(i, Moments[tick + 1])}
    /\ runs' = [i \in DOMAIN Jobs |-> 0]
    /\ emitted' = NoEvent
    /\ UNCHANGED <<panel, running, tasks, workers, event_table, calls, starts, errors,
                   begun>>

----------------------------------------------------------------------------

Init ==
    /\ tick = 1
    /\ panel = PanelAtStart
    /\ running = FALSE
    /\ tasks = <<>>
    /\ workers = [w \in {} |-> Ended]
    /\ event_table = [e \in Events |-> <<>>]
    /\ calls = [c \in Callers |-> Idle]
    /\ starts = 0 /\ errors = 0
    /\ begun = [i \in DOMAIN Jobs |-> now]
    /\ owed = {}
    /\ runs = [i \in DOMAIN Jobs |-> 0]
    /\ emitted = NoEvent

Next ==
    \/ Start
    \/ \E c \in Callers : Stop(c) \/ StopResumes(c)
    \/ \E w \in Workers : WorkerBegins(w) \/ WorkerFires(w) \/ WorkerEnds(w)
    \/ \E e \in Events : EmitEvent(e)
    \/ \E payload \in ClientCommands : ClientCommand(payload)
    \/ Tick

(* The event loop runs what can run.                                       *)
Fairness ==
    /\ \A w \in Workers : WF_vars(WorkerBegins(w)) /\ WF_vars(WorkerFires(w))
                          /\ WF_vars(WorkerEnds(w))
    /\ \A c \in Callers : WF_vars(StopResumes(c))

Spec == Init /\ [][Next]_vars /\ Fairness
----------------------------------------------------------------------------
(* Properties.                                                             *)

TypeOK ==
    /\ tick \in DOMAIN Moments
    /\ running \in BOOLEAN
    /\ starts \in 0..MaxStarts /\ errors \in Nat
    /\ DOMAIN workers \subseteq Workers
    /\ \A w \in DOMAIN workers :
           /\ w[1] =< starts
           /\ workers[w].phase \in {"created", "asleep", "ended"}
           /\ workers[w].cancelled \in BOOLEAN /\ workers[w].target \in Int
    /\ ToSet(tasks) \subseteq DOMAIN workers
    /\ begun \in [DOMAIN Jobs -> ToSet(Moments)] /\ owed \subseteq DOMAIN Jobs
    /\ runs \in [DOMAIN Jobs -> Nat]
    /\ \A c \in Callers : calls[c] = Idle \/ calls[c].worker \in DOMAIN workers

(* A job runs only at a moment that its schedule names (wall clock and     *)
(* weekday, date, sun event, intervals since its worker began) and once at *)
(* each; and before the clock goes on, every job that was due at this      *)
(* moment and whose worker had begun before has run.  It is about the      *)
(* next-fire functions, the sleep loops and what a stop and a start leave  *)
(* behind.  A job that falls due between start() and the first step of its *)
(* worker is not run, and not promised.                                    *)
RunsOnlyWhenDue == \A i \in DOMAIN Jobs : /\ runs[i] =< 1
                                          /\ runs[i] = 1 => DueAt(i, now)
DueHasRun == (\A w \in DOMAIN workers : ~Woken(w)) => \A i \in owed : runs[i] = 1
FiresWhenDue == RunsOnlyWhenDue /\ DueHasRun

(* An event fires each compact program that waits for it, each once and    *)
(* before the chains, and of the chains only those that wait for it:       *)
(* starting the engine again does not subscribe a program twice.           *)
EventFiresSubscribers ==
    LET EventOf(slot) == EventId((CHOOSE p \in ToSet(Programs) : p.slot = slot).rec)
        compact == {p.slot : p \in {q \in ToSet(Classify(Programs).event) :
                                         EventId(q.rec) = emitted.event}}
    IN /\ IsInjective(emitted.fired)
       /\ \A slot \in ToSet(emitted.fired) : EventOf(slot) = emitted.event
       /\ emitted.event # 0 =>
              compact = ToSet(SubSeq(emitted.fired, 1, Cardinality(compact)))

(* When the engine is stopped and no stop() is still waiting, none of the  *)
(* tasks it created is alive: a program cannot fire behind a stop, nor     *)
(* twice after the next start.                                             *)
StopLeavesNoWorker ==
    ~running /\ (\A c \in Callers : calls[c] = Idle) =>
        \A w \in DOMAIN workers : ~Alive(w)

(* Every stop() returns: no task it waits for survives its cancellation.   *)
StopReturns == \A c \in Callers : calls[c].waits ~> ~calls[c].waits

=============================================================================
