----------------------- MODULE ProgramEngineInvariant -----------------------
(***************************************************************************)
(* Why stop() leaves no worker behind and why programs fire when they are  *)
(* due: an inductive invariant of ProgramEngine about _tasks, the workers  *)
(* and the stop() calls that wait, two more about what each worker sleeps  *)
(* for, and one about the table of events.  MCProgramEngine checks them on *)
(* a small instance, ProgramEngineProofs proves them for every table of    *)
(* programs and any number of starts.                                      *)
(***************************************************************************)
EXTENDS ProgramEngine

\* A task has a phase, a time to wake and a flag.
IsTask(t) == DOMAIN t = {"phase", "target", "cancelled"}

Waiting == [waits : {TRUE}, index : Nat, worker : DOMAIN workers]

\* _tasks lists workers, and every stop() is over or waits for one of them.
Bookkeeping ==
    /\ running \in BOOLEAN
    /\ \A w \in DOMAIN workers : IsTask(workers[w])
    /\ tasks \in Seq(DOMAIN workers)
    /\ calls \in [Callers -> {Idle} \cup Waiting]

\* Whoever may still run a program is in _tasks, where stop() looks.
AliveAreListed == \A w \in DOMAIN workers : Alive(w) => w \in ToSet(tasks)

\* What stop() has passed in the list stays dead, whatever start() appends.
PassedAreDead ==
    \A c \in Callers : calls[c].waits =>
        /\ calls[c].index \in DOMAIN tasks
        /\ calls[c].worker = tasks[calls[c].index]
        /\ \A i \in DOMAIN tasks : i < calls[c].index => ~Alive(tasks[i])

\* Two calls of stop() would share one list: the first to finish clears it
\* under the other.
OneStopWaits ==
    /\ \A c, d \in Callers : calls[c].waits /\ calls[d].waits => c = d
    /\ ~Overlap /\ running => \A c \in Callers : ~calls[c].waits

IInv ==
    /\ Bookkeeping
    /\ AliveAreListed
    /\ PassedAreDead
    /\ OneStopWaits
    /\ StopLeavesNoWorker

\* start() and stop() are called in turn, or all by one task.
CalledInTurn == ~Overlap \/ \A c, d \in Callers : c = d

----------------------------------------------------------------------------
(* When programs fire.                                                     *)

LastMoment == Moments[Len(Moments)]

\* A worker that will run its program, unless it is stopped first.
Engaged(w) == Alive(w) /\ ~workers[w].cancelled

\* Whoever is engaged belongs to the latest start, and each job has one worker
\* of that start that nobody cancelled.
OneWorkerPerJob ==
    /\ \A w \in DOMAIN workers : Engaged(w) => running /\ w[1] = starts
    /\ running => \A i \in DOMAIN Jobs : /\ <<starts, i>> \in DOMAIN workers
                                         /\ ~workers[<<starts, i>>].cancelled

\* It has yet to begin, or sleeps until an instant at which its job is due and
\* has not run.
WakesWhenDue ==
    \A w \in DOMAIN workers : Engaged(w) =>
        \/ workers[w].phase = "created"
        \/ /\ workers[w].phase = "asleep"
           /\ workers[w].target \in Nat /\ workers[w].target >= now
           /\ DueAt(w[2], workers[w].target)
           /\ workers[w].target = now => runs[w[2]] = 0

DueInv ==
    /\ \A i \in DOMAIN Jobs : begun[i] \in ToSet(Moments) /\ begun[i] =< now
    /\ OneWorkerPerJob
    /\ WakesWhenDue
    /\ RunsOnlyWhenDue

\* A worker does not sleep past an instant at which its job is due, nor end
\* before the last one, and what was due at this moment has run or will.
Later == (now + 1)..LastMoment
NothingMissed ==
    /\ ~running => owed = {}
    /\ running => \A i \in DOMAIN Jobs :
           LET worker == workers[<<starts, i>>] IN
           /\ i \in owed => \/ worker.phase = "asleep" /\ worker.target = now
                            \/ worker.phase # "created" /\ runs[i] = 1
           /\ worker.phase = "asleep" =>
                  \A u \in Later : DueAt(i, u) => worker.target =< u
           /\ worker.phase = "ended" => \A u \in Later : ~DueAt(i, u)

\* A clock that passes over no instant at which a job is due.
ShowsDue(clock) ==
    \A k \in 1..(Len(clock) - 1) : \A t \in (clock[k] + 1)..(clock[k + 1] - 1) :
        \A i \in DOMAIN Jobs : \A since \in ToSet(clock) : ~Due(Jobs[i], since, t)

\* The date of a yearly program exists in each of the years that the clock
\* goes through, or in none: the search ends at a year without the date.
DatesRecur ==
    \A i \in DOMAIN Jobs : KindOf(Jobs[i]) = "yearly" =>
        LET head == Jobs[i].head IN
        \A y, z \in YearOf(DayOf(Moments[1]))..YearOf(DayOf(LastMoment)) :
            IsDate(y, head.month, head.day) => IsDate(z, head.month, head.day)

\* A sun event is computed on every day, and with its offset it falls on the
\* day that it is the event of: the search goes through the days from today.
SunStaysInDay ==
    Location # NoLocation =>
        /\ Location.raises = {}
        /\ \A i \in DOMAIN Jobs :
               KindOf(Jobs[i]) = "timed" /\ TimeKind(Jobs[i].head) # "absolute" =>
                   SunEvent(Jobs[i].head, Location, 0) \in SecondsOfDay

\* What the searches for the next time rely on.
SchedulesRecur == DatesRecur /\ SunStaysInDay

----------------------------------------------------------------------------
(* What events fire.                                                       *)

\* A running engine goes by the table that its last start built.
EventInv == (running => event_table = EventTable) /\ EventFiresSubscribers
=============================================================================
