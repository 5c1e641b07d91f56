------------------------ MODULE ProgramEngineProofs ------------------------
(***************************************************************************)
(* Proofs about ProgramEngine, for every table of programs, every panel,   *)
(* clock and location and any number of starts: its types; that a stop()   *)
(* that has returned leaves no worker alive; that every program fires when *)
(* it is due, only then and once; and that an event fires those that wait  *)
(* for it, the compact ones first.                                         *)
(***************************************************************************)
EXTENDS ProgramEngineInvariant, ScheduleProofs, TLAPS

-----------------------------------------------------------------------------
(* Positions and lists.                                                    *)

\* A set of positions that is not empty has a lowest one.
LEMMA LowestIsLeast ==
    ASSUME NEW S \in SUBSET Nat, S # {}
    PROVE  Lowest(S) \in S /\ \A y \in S : Lowest(S) =< y
BY LeastExists DEF Lowest

\* What is appended is listed, and what was listed still is.
LEMMA ConcatLists ==
    ASSUME NEW S, NEW s \in Seq(S), NEW t \in Seq(S)
    PROVE  /\ s \o t \in Seq(S)
           /\ \A i \in DOMAIN s : i \in DOMAIN (s \o t) /\ (s \o t)[i] = s[i]
           /\ ToSet(s) \subseteq ToSet(s \o t) /\ ToSet(t) \subseteq ToSet(s \o t)
<1>1. /\ s \o t \in Seq(S)
      /\ \A i \in DOMAIN s : i \in DOMAIN (s \o t) /\ (s \o t)[i] = s[i]
      /\ \A i \in DOMAIN t : Len(s) + i \in DOMAIN (s \o t) /\ (s \o t)[Len(s) + i] = t[i]
  OBVIOUS
<1>. QED BY <1>1 DEF ToSet

\* A list of a larger set.
LEMMA ListOfMore ==
    ASSUME NEW S, NEW T, S \subseteq T, NEW s \in Seq(S)
    PROVE  s \in Seq(T)
OBVIOUS

-----------------------------------------------------------------------------
(* The table of programs and its jobs.                                     *)

\* A function on 1..n is a list of n elements.
IsList(s) == s \in Seq(ToSet(s))

LEMMA ListOfLength ==
    ASSUME NEW n \in Nat, NEW s, s = [i \in 1..n |-> s[i]]
    PROVE  IsList(s) /\ Len(s) = n /\ DOMAIN s = 1..n
<1>1. s \in [1..n -> ToSet(s)]
  BY DEF ToSet
<1>. QED BY <1>1 DEF IsList

\* A list is made of those before and those after.
LEMMA ListsAppended ==
    ASSUME NEW s, NEW t, IsList(s), IsList(t)
    PROVE  /\ IsList(s \o t) /\ Len(s \o t) = Len(s) + Len(t)
           /\ Len(s) \in Nat /\ DOMAIN s = 1..Len(s)
           /\ Len(t) \in Nat /\ DOMAIN t = 1..Len(t)
           /\ \A i \in 1..Len(s) : (s \o t)[i] = s[i]
           /\ \A i \in 1..Len(t) : (s \o t)[Len(s) + i] = t[i]
           /\ \A i \in 1..(Len(s) + Len(t)) :
                  \/ i \in 1..Len(s)
                  \/ i - Len(s) \in 1..Len(t) /\ (s \o t)[i] = t[i - Len(s)]
<1>. DEFINE S == ToSet(s) \cup ToSet(t)
<1>1. s \in Seq(S) /\ t \in Seq(S)
  BY DEF IsList
<1>. HIDE DEF S
<1>2. /\ s \o t \in Seq(S) /\ Len(s \o t) = Len(s) + Len(t)
      /\ Len(s) \in Nat /\ DOMAIN s = 1..Len(s)
      /\ Len(t) \in Nat /\ DOMAIN t = 1..Len(t)
      /\ \A i \in 1..Len(s) : (s \o t)[i] = s[i]
      /\ \A i \in 1..Len(t) : (s \o t)[Len(s) + i] = t[i]
  BY <1>1
<1>3. \A i \in 1..(Len(s) + Len(t)) :
          \/ i \in 1..Len(s)
          \/ i - Len(s) \in 1..Len(t) /\ (s \o t)[i] = t[i - Len(s)]
  BY <1>1
<1>. DEFINE r == s \o t
<1>4. r \in Seq(S)
  BY <1>1
<1>5. IsList(r)
  <2>. HIDE DEF r
  <2>1. Len(r) \in Nat /\ DOMAIN r = 1..Len(r) /\ r = [i \in 1..Len(r) |-> r[i]]
    BY <1>4
  <2>. QED BY <2>1, ListOfLength
<1>. QED BY <1>2, <1>3, <1>5

\* What is kept of a list is a list of its elements, each at one place.
LEMMA KeptIsList ==
    ASSUME NEW s, Len(s) \in Nat, DOMAIN s = 1..Len(s), NEW P \in SUBSET (DOMAIN s)
    PROVE  /\ IsList(Kept(s, P)) /\ Len(Kept(s, P)) \in Nat
           /\ DOMAIN Kept(s, P) = 1..Len(Kept(s, P))
           /\ \E at \in [DOMAIN Kept(s, P) -> P] :
                 /\ \A k \in DOMAIN Kept(s, P) : Kept(s, P)[k] = s[at[k]]
                 /\ \A i \in P : \E k \in DOMAIN Kept(s, P) : at[k] = i
                 /\ \A k, l \in DOMAIN Kept(s, P) : at[k] = at[l] => k = l
<1>. DEFINE n == Cardinality(P)
            kept == Kept(s, P)
<1>1. PICK at \in [1..n -> P] :
          /\ n \in Nat
          /\ kept = [k \in 1..n |-> s[at[k]]]
          /\ \A i \in P : \E k \in 1..n : at[k] = i
          /\ \A k, l \in 1..n : k < l => at[k] < at[l]
  <2>1. P \in SUBSET (1..Len(s))
    OBVIOUS
  <2>. QED BY <2>1, KeptSelects
<1>. HIDE DEF n, kept
<1>2. IsList(kept) /\ Len(kept) = n /\ DOMAIN kept = 1..n
  BY <1>1, ListOfLength
<1>3. \A k, l \in 1..n : at[k] = at[l] => k = l
  <2>. SUFFICES ASSUME NEW k \in 1..n, NEW l \in 1..n, at[k] = at[l] PROVE k = l
    OBVIOUS
  <2>1. at[k] \in Int /\ at[l] \in Int
    BY <1>1
  <2>2. ~(k < l) /\ ~(l < k)
    BY <1>1, <2>1
  <2>. QED BY <2>2
<1>4. \A k \in 1..n : kept[k] = s[at[k]]
  BY <1>1
<1>5. /\ IsList(kept) /\ Len(kept) \in Nat /\ DOMAIN kept = 1..Len(kept)
      /\ at \in [DOMAIN kept -> P]
      /\ \A k \in DOMAIN kept : kept[k] = s[at[k]]
      /\ \A i \in P : \E k \in DOMAIN kept : at[k] = i
      /\ \A k, l \in DOMAIN kept : at[k] = at[l] => k = l
  BY <1>1, <1>2, <1>3, <1>4
<1>. QED BY <1>5 DEF kept

\* Of one of the types, a record of the table with its slot.
InTable(slot, rec, types) ==
    \E i \in DOMAIN Programs :
        /\ ~IsEmpty(Programs[i].rec) /\ Programs[i].rec.prog_type \in types
        /\ slot = Programs[i].slot /\ rec = Programs[i].rec

\* A slot names one record.
LEMMA SlotsAreDistinct ==
    ASSUME NEW slot, NEW rec, NEW types, InTable(slot, rec, types)
    PROVE  /\ (CHOOSE p \in ToSet(Programs) : p.slot = slot).rec = rec
           /\ rec.prog_type \in types /\ slot \in Nat
<1>1. PICK i \in DOMAIN Programs : /\ Programs[i].rec.prog_type \in types
                                   /\ slot = Programs[i].slot /\ rec = Programs[i].rec
  BY DEF InTable
<1>. DEFINE p == CHOOSE p \in ToSet(Programs) : p.slot = slot
<1>2. p \in ToSet(Programs) /\ p.slot = slot
  BY <1>1 DEF ToSet
<1>3. PICK j \in DOMAIN Programs : p = Programs[j]
  BY <1>2 DEF ToSet
<1>. HIDE DEF p
<1>4. i = j
  BY <1>1, <1>2, <1>3, ProgramsAssumption
<1>5. slot \in Nat
  BY <1>1, ProgramsAssumption
<1>. QED BY <1>1, <1>3, <1>4, <1>5 DEF p

\* The programs of some types, as classify() finds them.
LEMMA OfTypeFinds ==
    ASSUME NEW types
    PROVE  LET chosen == OfType(Programs, types) IN
           /\ Len(chosen) \in Nat /\ DOMAIN chosen = 1..Len(chosen)
           /\ \A k \in DOMAIN chosen : InTable(chosen[k].slot, chosen[k].rec, types)
           /\ \A k, l \in DOMAIN chosen : chosen[k].slot = chosen[l].slot => k = l
<1>. DEFINE chosen == OfType(Programs, types)
            P == {i \in DOMAIN Programs :
                     ~IsEmpty(Programs[i].rec) /\ Programs[i].rec.prog_type \in types}
<1>1. Len(Programs) \in Nat /\ DOMAIN Programs = 1..Len(Programs)
      /\ \A i, j \in DOMAIN Programs : Programs[i].slot = Programs[j].slot => i = j
  BY ProgramsAssumption
<1>2. chosen = Kept(Programs, P) /\ P \in SUBSET (DOMAIN Programs)
  BY DEF OfType
<1>. HIDE DEF chosen
<1>3. PICK at \in [DOMAIN chosen -> P] :
          /\ \A k \in DOMAIN chosen : chosen[k] = Programs[at[k]]
          /\ \A k, l \in DOMAIN chosen : at[k] = at[l] => k = l
  <2>. HIDE DEF P
  <2>. QED BY <1>1, <1>2, KeptIsList
<1>4. Len(chosen) \in Nat /\ DOMAIN chosen = 1..Len(chosen)
  <2>. HIDE DEF P
  <2>. QED BY <1>1, <1>2, KeptIsList
<1>5. \A k \in DOMAIN chosen : InTable(chosen[k].slot, chosen[k].rec, types)
  BY <1>3 DEF InTable
<1>6. \A k, l \in DOMAIN chosen : chosen[k].slot = chosen[l].slot => k = l
  BY <1>1, <1>3
<1>. QED BY <1>4, <1>5, <1>6 DEF chosen

\* Jobs of one kind, of records of some types, one of a slot.
JobList(jobs, kind, types) ==
    /\ IsList(jobs) /\ Len(jobs) \in Nat /\ DOMAIN jobs = 1..Len(jobs)
    /\ \A k \in DOMAIN jobs : /\ jobs[k].kind = kind
                              /\ InTable(jobs[k].slot, jobs[k].head, types)
    /\ \A k, l \in DOMAIN jobs : jobs[k].slot = jobs[l].slot => k = l

LEMMA CompactJobs ==
    ASSUME NEW kind, NEW types
    PROVE  JobList(JobsOf(kind, OfType(Programs, types)), kind, types)
<1>. DEFINE chosen == OfType(Programs, types)
            jobs == JobsOf(kind, chosen)
<1>1. /\ Len(chosen) \in Nat /\ DOMAIN chosen = 1..Len(chosen)
      /\ \A k \in DOMAIN chosen : InTable(chosen[k].slot, chosen[k].rec, types)
      /\ \A k, l \in DOMAIN chosen : chosen[k].slot = chosen[l].slot => k = l
  BY OfTypeFinds
<1>. HIDE DEF chosen
<1>2. jobs = [i \in 1..Len(chosen) |-> Job(kind, chosen[i], Single(chosen[i]))]
  BY <1>1 DEF JobsOf
<1>. HIDE DEF jobs
<1>3. IsList(jobs) /\ Len(jobs) = Len(chosen) /\ DOMAIN jobs = 1..Len(chosen)
  BY <1>1, <1>2, ListOfLength
<1>4. \A k \in 1..Len(chosen) : /\ jobs[k].kind = kind /\ jobs[k].slot = chosen[k].slot
                                /\ jobs[k].head = chosen[k].rec
  BY <1>2 DEF Job
<1>5. \A k \in DOMAIN jobs : /\ jobs[k].kind = kind
                             /\ InTable(jobs[k].slot, jobs[k].head, types)
  BY <1>1, <1>3, <1>4
<1>6. \A k, l \in DOMAIN jobs : jobs[k].slot = jobs[l].slot => k = l
  BY <1>1, <1>3, <1>4
<1>7. JobList(jobs, kind, types)
  BY <1>1, <1>3, <1>5, <1>6 DEF JobList
<1>. QED BY <1>7 DEF jobs, chosen

\* The chains that build_chains() finds.
LEMMA ChainsFind ==
    /\ Len(Chains) \in Nat /\ DOMAIN Chains = 1..Len(Chains)
    /\ \A k \in DOMAIN Chains : InTable(Chains[k].slot, Chains[k].head, Heads)
    /\ \A k, l \in DOMAIN Chains : Chains[k].slot = Chains[l].slot => k = l
<1>. DEFINE used == {p.slot : p \in {q \in ToSet(Programs) : ~IsEmpty(q.rec)}}
            RecordAt(s) == (CHOOSE p \in ToSet(Programs) : p.slot = s).rec
            Of(types) == {s \in used : RecordAt(s).prog_type \in types}
            Follow(h) == {s \in used : s > h /\ \A x \in (h + 1)..s :
                             x \in Of({ProgramType.AND, ProgramType.OR, ProgramType.THEN_})}
            Recs(S) == [i \in 1..Cardinality(S) |-> RecordAt(Ascending(S)[i])]
            Chain(h) == [slot |-> h, head |-> RecordAt(h),
                         conditions |-> Recs(Follow(h) \ Of({ProgramType.THEN_})),
                         actions    |-> Recs(Follow(h) \cap Of({ProgramType.THEN_}))]
            heads == {h \in Of(Heads) : Follow(h) \cap Of({ProgramType.THEN_}) # {}}
            n == Cardinality(heads)
<1>1. Chains = [i \in 1..n |-> Chain(Ascending(heads)[i])]
  BY Zenon DEF Chains, BuildChains
<1>2. ASSUME NEW h \in used
      PROVE  h \in Nat /\ InTable(h, RecordAt(h), {RecordAt(h).prog_type})
  <2>1. PICK i \in DOMAIN Programs : ~IsEmpty(Programs[i].rec) /\ h = Programs[i].slot
    BY DEF ToSet
  <2>2. InTable(h, Programs[i].rec, {Programs[i].rec.prog_type})
    BY <2>1 DEF InTable
  <2>3. RecordAt(h) = Programs[i].rec /\ h \in Nat
    BY <2>2, SlotsAreDistinct
  <2>. QED BY <2>2, <2>3
<1>3. heads \subseteq Of(Heads)
  OBVIOUS
<1>4. ASSUME NEW h \in heads
      PROVE  h \in Nat /\ InTable(h, RecordAt(h), Heads)
  <2>1. h \in used /\ RecordAt(h).prog_type \in Heads
    BY <1>3
  <2>. HIDE DEF used, RecordAt
  <2>. QED BY <1>2, <2>1 DEF InTable
<1>5. IsFiniteSet(heads)
  <2>. DEFINE m == Len(Programs)
              Slots == {Programs[i].slot : i \in 1..m}
              slotOf == [i \in 1..m |-> Programs[i].slot]
  <2>1. m \in Nat /\ DOMAIN Programs = 1..m
    BY ProgramsAssumption
  <2>2. slotOf \in Surjection(1..m, Slots)
    BY DEF Surjection
  <2>3. IsFiniteSet(1..m)
    BY <2>1, FS_Interval
  <2>4. IsFiniteSet(Slots)
    <3>. HIDE DEF slotOf, Slots, m
    <3>. QED BY <2>2, <2>3, FS_Surjection
  <2>5. heads \subseteq Slots
    <3>. SUFFICES ASSUME NEW h \in heads PROVE h \in Slots
      OBVIOUS
    <3>1. PICK i \in DOMAIN Programs : h = Programs[i].slot
      BY <1>4 DEF InTable
    <3>. QED BY <2>1, <3>1
  <2>. HIDE DEF heads, Slots
  <2>. QED BY <2>4, <2>5, FS_Subset
<1>. HIDE DEF heads
<1>6. /\ n \in Nat
      /\ \A k \in 1..n : Ascending(heads)[k] \in heads
      /\ \A k, l \in 1..n : k < l => Ascending(heads)[k] < Ascending(heads)[l]
  <2>1. heads \in SUBSET Int
    BY <1>4
  <2>. QED BY <1>5, <2>1, AscendingLists
<1>. HIDE DEF n
<1>7. \A k \in 1..n : /\ Chains[k].slot = Ascending(heads)[k]
                      /\ Chains[k].head = RecordAt(Ascending(heads)[k])
  <2>. HIDE DEF RecordAt, Recs, Follow, Of
  <2>. QED BY <1>1
<1>. HIDE DEF RecordAt, Chain
<1>8. Len(Chains) = n /\ DOMAIN Chains = 1..n
  <2>1. Chains = [i \in 1..n |-> Chains[i]]
    BY <1>1
  <2>. QED BY <1>6, <2>1, ListOfLength
<1>9. \A k, l \in 1..n : Chains[k].slot = Chains[l].slot => k = l
  <2>. SUFFICES ASSUME NEW k \in 1..n, NEW l \in 1..n, Chains[k].slot = Chains[l].slot
                PROVE  k = l
    OBVIOUS
  <2>. DEFINE a == Ascending(heads)[k]
  <2>1. a = Ascending(heads)[l] /\ a \in Nat
    BY <1>4, <1>6, <1>7
  <2>. HIDE DEF a
  <2>2. ~(k < l)
    <3>1. k < l => Ascending(heads)[k] < Ascending(heads)[l]
      BY <1>6
    <3>. QED BY <2>1, <3>1 DEF a
  <2>3. ~(l < k)
    <3>1. l < k => Ascending(heads)[l] < Ascending(heads)[k]
      BY <1>6
    <3>. QED BY <2>1, <3>1 DEF a
  <2>. QED BY <1>6, <2>2, <2>3
<1>. QED BY <1>4, <1>6, <1>7, <1>8, <1>9

\* The chains with a head of some types, as start() makes jobs of them.
LEMMA ChainJobs ==
    ASSUME NEW kind, NEW types
    PROVE  JobList(ChainsOf(kind, types), kind, types)
<1>. DEFINE P == {i \in DOMAIN Chains : Chains[i].head.prog_type \in types}
            chosen == Kept(Chains, P)
            jobs == ChainsOf(kind, types)
<1>1. /\ Len(Chains) \in Nat /\ DOMAIN Chains = 1..Len(Chains)
      /\ \A k \in DOMAIN Chains : InTable(Chains[k].slot, Chains[k].head, Heads)
      /\ \A k, l \in DOMAIN Chains : Chains[k].slot = Chains[l].slot => k = l
  BY ChainsFind
<1>2. P \in SUBSET (DOMAIN Chains)
  OBVIOUS
<1>3. /\ Len(chosen) \in Nat /\ DOMAIN chosen = 1..Len(chosen)
      /\ \E at \in [DOMAIN chosen -> P] :
            /\ \A k \in DOMAIN chosen : chosen[k] = Chains[at[k]]
            /\ \A k, l \in DOMAIN chosen : at[k] = at[l] => k = l
  <2>. HIDE DEF P
  <2>. QED BY <1>1, <1>2, KeptIsList
<1>4. PICK at \in [DOMAIN chosen -> P] :
          /\ \A k \in DOMAIN chosen : chosen[k] = Chains[at[k]]
          /\ \A k, l \in DOMAIN chosen : at[k] = at[l] => k = l
  BY <1>3
<1>5. jobs = [i \in 1..Len(chosen) |->
                Job(kind, [slot |-> chosen[i].slot, rec |-> chosen[i].head], chosen[i])]
  BY <1>3, Zenon DEF ChainsOf
<1>. HIDE DEF jobs, chosen
<1>6. IsList(jobs) /\ Len(jobs) = Len(chosen) /\ DOMAIN jobs = 1..Len(chosen)
  BY <1>3, <1>5, ListOfLength
<1>7. \A k \in 1..Len(chosen) : /\ jobs[k].kind = kind /\ jobs[k].slot = chosen[k].slot
                                /\ jobs[k].head = chosen[k].head
  BY <1>5 DEF Job
<1>8. \A k \in DOMAIN chosen : InTable(chosen[k].slot, chosen[k].head, types)
  BY <1>1, <1>4 DEF InTable
<1>9. \A k, l \in DOMAIN chosen : chosen[k].slot = chosen[l].slot => k = l
  BY <1>1, <1>4
<1>10. JobList(jobs, kind, types)
  BY <1>3, <1>6, <1>7, <1>8, <1>9 DEF JobList
<1>. QED BY <1>10 DEF jobs

\* What is known of the jobs that start() makes tasks of.
LEMMA JobsDecoded ==
    /\ Len(Jobs) \in Nat /\ DOMAIN Jobs = 1..Len(Jobs)
    /\ \A i \in DOMAIN Jobs :
           /\ Jobs[i].kind \in {"timed", "yearly"}
           /\ \A f \in {"cond", "cond2", "month", "day", "days", "hour"} :
                  Jobs[i].head[f] \in Nat
           /\ Jobs[i].head.minute \in Byte
<1>. DEFINE timed == JobsOf("timed", Classify(Programs).timed)
            yearly == JobsOf("yearly", Classify(Programs).yearly)
            chains == ChainsOf("timed", {ProgramType.AT, ProgramType.EVERY})
            IsDecoded(job) ==
                /\ job.kind \in {"timed", "yearly"}
                /\ \A f \in {"cond", "cond2", "month", "day", "days", "hour"} :
                       job.head[f] \in Nat
                /\ job.head.minute \in Byte
<1>1. /\ JobList(timed, "timed", {ProgramType.TIMED})
      /\ JobList(yearly, "yearly", {ProgramType.YEARLY})
      /\ JobList(chains, "timed", {ProgramType.AT, ProgramType.EVERY})
  BY CompactJobs, ChainJobs DEF Classify
<1>2. ASSUME NEW jobs, NEW kind \in {"timed", "yearly"}, NEW types,
             JobList(jobs, kind, types)
      PROVE  IsList(jobs) /\ \A i \in 1..Len(jobs) : IsDecoded(jobs[i])
  <2>. SUFFICES ASSUME NEW i \in 1..Len(jobs)
                PROVE  IsDecoded(jobs[i])
    BY <1>2 DEF JobList
  <2>1. jobs[i].kind = kind /\ InTable(jobs[i].slot, jobs[i].head, types)
    BY <1>2 DEF JobList
  <2>2. PICK p \in DOMAIN Programs : jobs[i].head = Programs[p].rec
    BY <2>1 DEF InTable
  <2>. QED BY <2>1, <2>2, ProgramsAssumption
<1>. HIDE DEF IsDecoded
<1>3. ASSUME NEW s, NEW t, IsList(s) /\ \A i \in 1..Len(s) : IsDecoded(s[i]),
             IsList(t) /\ \A i \in 1..Len(t) : IsDecoded(t[i])
      PROVE  IsList(s \o t) /\ \A i \in 1..Len(s \o t) : IsDecoded((s \o t)[i])
  BY <1>3, ListsAppended
<1>4. Jobs = (timed \o yearly) \o chains
  BY DEF Jobs
<1>. HIDE DEF timed, yearly, chains
<1>5. IsList(timed \o yearly)
      /\ \A i \in 1..Len(timed \o yearly) : IsDecoded((timed \o yearly)[i])
  BY <1>1, <1>2, <1>3
<1>6. IsList(Jobs) /\ \A i \in 1..Len(Jobs) : IsDecoded(Jobs[i])
  BY <1>1, <1>2, <1>3, <1>4, <1>5
<1>7. Len(Jobs) \in Nat /\ DOMAIN Jobs = 1..Len(Jobs)
  BY <1>6 DEF IsList
<1>. QED BY <1>6, <1>7 DEF IsDecoded

\* The jobs that wait for an event are some of the jobs, each still once.
LEMMA WaitingJobs ==
    ASSUME NEW jobs, NEW kind, NEW types, JobList(jobs, kind, types), NEW e
    PROVE  LET waiting == WaitingFor(e, jobs) IN
           /\ JobList(waiting, kind, types)
           /\ \A k \in DOMAIN waiting : /\ EventId(waiting[k].head) = e
                                        /\ \E i \in DOMAIN jobs : waiting[k] = jobs[i]
           /\ \A i \in DOMAIN jobs : EventId(jobs[i].head) = e =>
                  \E k \in DOMAIN waiting : waiting[k] = jobs[i]
<1>. DEFINE P == {i \in DOMAIN jobs : EventId(jobs[i].head) = e}
            waiting == Kept(jobs, P)
<1>1. /\ Len(jobs) \in Nat /\ DOMAIN jobs = 1..Len(jobs)
      /\ \A k \in DOMAIN jobs : /\ jobs[k].kind = kind
                                /\ InTable(jobs[k].slot, jobs[k].head, types)
      /\ \A k, l \in DOMAIN jobs : jobs[k].slot = jobs[l].slot => k = l
  BY DEF JobList
<1>2. P \in SUBSET (DOMAIN jobs) /\ WaitingFor(e, jobs) = waiting
  BY DEF WaitingFor
<1>3. \A i \in DOMAIN jobs : i \in P <=> EventId(jobs[i].head) = e
  OBVIOUS
<1>. HIDE DEF P
<1>4. /\ IsList(waiting) /\ Len(waiting) \in Nat /\ DOMAIN waiting = 1..Len(waiting)
      /\ \E at \in [DOMAIN waiting -> P] :
            /\ \A k \in DOMAIN waiting : waiting[k] = jobs[at[k]]
            /\ \A i \in P : \E k \in DOMAIN waiting : at[k] = i
            /\ \A k, l \in DOMAIN waiting : at[k] = at[l] => k = l
  BY <1>1, <1>2, KeptIsList
<1>. HIDE DEF waiting
<1>5. PICK at \in [DOMAIN waiting -> P] :
          /\ \A k \in DOMAIN waiting : waiting[k] = jobs[at[k]]
          /\ \A i \in P : \E k \in DOMAIN waiting : at[k] = i
          /\ \A k, l \in DOMAIN waiting : at[k] = at[l] => k = l
  BY <1>4
<1>6. \A k \in DOMAIN waiting : at[k] \in DOMAIN jobs /\ EventId(jobs[at[k]].head) = e
  BY <1>2, <1>3, <1>5
<1>7. JobList(waiting, kind, types)
  <2>1. \A k \in DOMAIN waiting : /\ waiting[k].kind = kind
                                  /\ InTable(waiting[k].slot, waiting[k].head, types)
    BY <1>1, <1>5, <1>6
  <2>2. \A k, l \in DOMAIN waiting : waiting[k].slot = waiting[l].slot => k = l
    BY <1>1, <1>5, <1>6
  <2>. QED BY <1>4, <2>1, <2>2 DEF JobList
<1>8. \A k \in DOMAIN waiting : /\ EventId(waiting[k].head) = e
                                /\ \E i \in DOMAIN jobs : waiting[k] = jobs[i]
  BY <1>5, <1>6
<1>9. \A i \in DOMAIN jobs : EventId(jobs[i].head) = e =>
          \E k \in DOMAIN waiting : waiting[k] = jobs[i]
  BY <1>3, <1>5
<1>. QED BY <1>2, <1>7, <1>8, <1>9

\* The subscribers of an event: each program once, the compact ones first.
Compact(e) == WaitingFor(e, JobsOf("event", Classify(Programs).event))

LEMMA SubscribersList ==
    ASSUME NEW e
    PROVE  LET table == Subscribers(e)
               n == Len(Compact(e)) IN
           /\ Len(table) \in Nat /\ DOMAIN table = 1..Len(table)
           /\ n \in 0..Len(table)
           /\ \A i \in 1..n : table[i] = Compact(e)[i]
           /\ \A i \in 1..Len(table) : \E types : InTable(table[i].slot, table[i].head, types)
           /\ \A i \in 1..Len(table) : EventId(table[i].head) = e
           /\ \A i, j \in 1..Len(table) : table[i].slot = table[j].slot => i = j
<1>. DEFINE s == Compact(e)
            t == WaitingFor(e, ChainsOf("event", {ProgramType.WHEN}))
            table == s \o t
<1>1. table = Subscribers(e)
  BY DEF Subscribers, Compact
<1>2. /\ JobList(s, "event", {ProgramType.EVENT})
      /\ \A k \in DOMAIN s : EventId(s[k].head) = e
  BY CompactJobs, WaitingJobs DEF Compact, Classify
<1>3. /\ JobList(t, "event", {ProgramType.WHEN})
      /\ \A k \in DOMAIN t : EventId(t[k].head) = e
  BY ChainJobs, WaitingJobs
<1>. HIDE DEF s, t
<1>4. /\ IsList(table) /\ Len(table) = Len(s) + Len(t)
      /\ Len(s) \in Nat /\ DOMAIN s = 1..Len(s)
      /\ Len(t) \in Nat /\ DOMAIN t = 1..Len(t)
      /\ \A i \in 1..Len(s) : table[i] = s[i]
      /\ \A i \in 1..(Len(s) + Len(t)) :
             \/ i \in 1..Len(s)
             \/ i - Len(s) \in 1..Len(t) /\ table[i] = t[i - Len(s)]
  BY <1>2, <1>3, ListsAppended DEF JobList
<1>5. DOMAIN table = 1..Len(table)
  BY <1>4 DEF IsList
<1>. HIDE DEF table
<1>6. \A i \in 1..Len(table) : \/ i \in 1..Len(s) /\ table[i] = s[i]
                               \/ i - Len(s) \in 1..Len(t) /\ table[i] = t[i - Len(s)]
  BY <1>4
<1>7. \A i \in 1..Len(table) : \E types : InTable(table[i].slot, table[i].head, types)
  BY <1>2, <1>3, <1>4, <1>6 DEF JobList
<1>8. \A i \in 1..Len(table) : EventId(table[i].head) = e
  BY <1>2, <1>3, <1>4, <1>6
<1>9. \A i \in 1..Len(s), j \in 1..Len(t) : s[i].slot # t[j].slot
  <2>. SUFFICES ASSUME NEW i \in 1..Len(s), NEW j \in 1..Len(t), s[i].slot = t[j].slot
                PROVE  FALSE
    OBVIOUS
  <2>1. /\ InTable(s[i].slot, s[i].head, {ProgramType.EVENT})
        /\ InTable(s[i].slot, t[j].head, {ProgramType.WHEN})
    BY <1>2, <1>3 DEF JobList
  <2>2. /\ s[i].head = t[j].head
        /\ s[i].head.prog_type = ProgramType.EVENT /\ t[j].head.prog_type = ProgramType.WHEN
    BY <2>1, SlotsAreDistinct
  <2>. QED BY <2>2 DEF ProgramType
<1>10. \A i, j \in 1..Len(table) : table[i].slot = table[j].slot => i = j
  <2>. SUFFICES ASSUME NEW i \in 1..Len(table), NEW j \in 1..Len(table),
                       table[i].slot = table[j].slot
                PROVE  i = j
    OBVIOUS
  <2>1. /\ \A k, l \in 1..Len(s) : s[k].slot = s[l].slot => k = l
        /\ \A k, l \in 1..Len(t) : t[k].slot = t[l].slot => k = l
    BY <1>2, <1>3, <1>4 DEF JobList
  <2>2. CASE i \in 1..Len(s) /\ table[i] = s[i] /\ j \in 1..Len(s) /\ table[j] = s[j]
    BY <2>1, <2>2
  <2>3. CASE /\ i - Len(s) \in 1..Len(t) /\ table[i] = t[i - Len(s)]
             /\ j - Len(s) \in 1..Len(t) /\ table[j] = t[j - Len(s)]
    <3>1. i - Len(s) = j - Len(s)
      BY <2>1, <2>3
    <3>. QED BY <3>1, <1>4
  <2>. QED BY <1>6, <1>9, <2>2, <2>3
<1>11. Len(table) \in Nat /\ Len(s) \in 0..Len(table)
  BY <1>4
<1>. QED BY <1>1, <1>4, <1>5, <1>7, <1>8, <1>10, <1>11 DEF s

\* start() makes a worker of every job.
LEMMA NewTasksType ==
    ASSUME NEW S, ToSet(NewTasks) \subseteq S
    PROVE  NewTasks \in Seq(S)
<1>1. Len(Jobs) \in Nat /\ DOMAIN NewTasks = 1..Len(Jobs)
  BY JobsDecoded DEF NewTasks
<1>2. \A i \in 1..Len(Jobs) : NewTasks[i] \in S
  BY <1>1 DEF ToSet
<1>3. NewTasks = [i \in 1..Len(Jobs) |-> NewTasks[i]]
  BY JobsDecoded DEF NewTasks
<1>. QED BY <1>1, <1>2, <1>3

-----------------------------------------------------------------------------
(* stop().                                                                 *)

\* The cancelled workers are the same workers, as alive as they were.
LEMMA CancelledKeeps ==
    ASSUME Bookkeeping
    PROVE  /\ DOMAIN Cancelled = DOMAIN workers
           /\ \A w \in DOMAIN workers : IsTask(Cancelled[w])
           /\ \A w \in DOMAIN workers : Cancelled[w].phase = workers[w].phase
BY DEF Bookkeeping, Cancelled, IsTask

\* stop() goes on to the next task that is alive, or finds that none is left.
LEMMA AwaitFromGoesOn ==
    ASSUME Bookkeeping, NEW c \in Callers, NEW k \in Nat,
           \A i \in DOMAIN tasks : i < k => ~Alive(tasks[i]),
           AwaitFrom(c, k)
    PROVE  \/ /\ tasks' = <<>> /\ calls' = [calls EXCEPT ![c] = Idle]
              /\ \A i \in DOMAIN tasks : ~Alive(tasks[i])
           \/ /\ tasks' = tasks
              /\ \E j \in DOMAIN tasks :
                    /\ calls' = [calls EXCEPT ![c] = WaitsFor(j)]
                    /\ Alive(tasks[j])
                    /\ \A i \in DOMAIN tasks : i < j => ~Alive(tasks[i])
<1>. DEFINE left == {i \in DOMAIN tasks : i >= k /\ Alive(tasks[i])}
<1>1. left \in SUBSET Nat /\ DOMAIN tasks \subseteq Nat
  BY DEF Bookkeeping
<1>2. CASE left = {}
  <2>1. tasks' = <<>> /\ calls' = [calls EXCEPT ![c] = Idle]
    BY <1>2 DEF AwaitFrom
  <2>2. \A i \in DOMAIN tasks : ~Alive(tasks[i])
    BY <1>1, <1>2
  <2>. QED BY <2>1, <2>2
<1>3. CASE left # {}
  <2>. DEFINE j == Lowest(left)
  <2>1. j \in left /\ \A i \in left : j =< i
    BY <1>1, <1>3, LowestIsLeast
  <2>2. tasks' = tasks /\ calls' = [calls EXCEPT ![c] = WaitsFor(j)]
    BY <1>3 DEF AwaitFrom
  <2>3. \A i \in DOMAIN tasks : i < j => ~Alive(tasks[i])
    BY <1>1, <2>1
  <2>. HIDE DEF j
  <2>. QED BY <2>1, <2>2, <2>3
<1>. QED BY <1>2, <1>3

-----------------------------------------------------------------------------
(* The invariant.                                                          *)

\* When nobody has started, nobody is alive.
LEMMA InitIInv == Init => IInv
<1>. SUFFICES ASSUME Init PROVE IInv
  OBVIOUS
<1>1. /\ running = FALSE /\ tasks = <<>> /\ DOMAIN workers = {}
      /\ calls = [c \in Callers |-> Idle]
  BY DEF Init
<1>2. \A c \in Callers : ~calls[c].waits
  BY <1>1 DEF Idle
<1>3. Bookkeeping
  <2>1. tasks \in Seq(DOMAIN workers)
    <3>1. \A S : <<>> \in Seq(S)
      OBVIOUS
    <3>. QED BY <1>1, <3>1
  <2>2. calls \in [Callers -> {Idle} \cup Waiting]
    BY <1>1
  <2>. QED BY <1>1, <2>1, <2>2 DEF Bookkeeping
<1>. QED BY <1>1, <1>2, <1>3 DEF IInv, AliveAreListed, PassedAreDead, OneStopWaits, StopLeavesNoWorker

\* A step after which no one is alive who was not before, with the list and
\* the calls as they are, keeps it.
LEMMA WorkerStepKeeps ==
    ASSUME IInv, UNCHANGED <<running, tasks, calls>>,
           DOMAIN workers' = DOMAIN workers,
           \A w \in DOMAIN workers : IsTask(workers'[w]) /\ (Alive(w)' => Alive(w))
    PROVE  IInv'
<1>. USE DEF IInv
<1>1. Bookkeeping'
  BY DEF Bookkeeping, Waiting
<1>2. AliveAreListed'
  BY DEF AliveAreListed
<1>3. PassedAreDead'
  <2>1. \A i \in DOMAIN tasks : tasks[i] \in DOMAIN workers
    BY DEF Bookkeeping
  <2>. QED BY <2>1 DEF PassedAreDead
<1>4. OneStopWaits'
  BY DEF OneStopWaits
<1>5. StopLeavesNoWorker'
  BY DEF StopLeavesNoWorker
<1>. QED BY <1>1, <1>2, <1>3, <1>4, <1>5

\* stop() that goes on or returns keeps it.
LEMMA AwaitKeeps ==
    ASSUME IInv, CalledInTurn, NEW c \in Callers, NEW k \in Nat,
           \A i \in DOMAIN tasks : i < k => ~Alive(tasks[i]),
           AwaitFrom(c, k),
           \A d \in Callers \ {c} : ~calls[d].waits,
           running' \in {FALSE, running},
           calls[c].waits \/ ~running',
           DOMAIN workers' = DOMAIN workers,
           \A w \in DOMAIN workers : IsTask(workers'[w]) /\ workers'[w].phase = workers[w].phase
    PROVE  IInv'
<1>. USE DEF IInv
<1>1. \A w : Alive(w)' <=> Alive(w)
  BY DEF Alive
<1>2. calls \in [Callers -> {Idle} \cup Waiting] /\ tasks \in Seq(DOMAIN workers)
      /\ Waiting' = Waiting
  BY DEF Bookkeeping, Waiting
<1>3. CASE tasks' = <<>> /\ calls' = [calls EXCEPT ![c] = Idle]
           /\ \A i \in DOMAIN tasks : ~Alive(tasks[i])
  <2>1. \A w \in DOMAIN workers : ~Alive(w)
    BY <1>2, <1>3 DEF AliveAreListed, ToSet
  <2>2. \A d \in Callers : ~calls'[d].waits
    BY <1>2, <1>3 DEF Idle
  <2>3. Bookkeeping'
    <3>1. tasks' \in Seq(DOMAIN workers')
      BY <1>3
    <3>2. calls' \in [Callers -> {Idle} \cup Waiting']
      BY <1>2, <1>3
    <3>. QED BY <3>1, <3>2 DEF Bookkeeping
  <2>. QED BY <1>1, <2>1, <2>2, <2>3
           DEF AliveAreListed, PassedAreDead, OneStopWaits, StopLeavesNoWorker
<1>4. ASSUME tasks' = tasks, NEW j \in DOMAIN tasks, calls' = [calls EXCEPT ![c] = WaitsFor(j)],
             Alive(tasks[j]), \A i \in DOMAIN tasks : i < j => ~Alive(tasks[i])
      PROVE  IInv'
  <2>1. /\ WaitsFor(j) \in Waiting /\ WaitsFor(j).index = j /\ WaitsFor(j).worker = tasks[j]
        /\ WaitsFor(j).waits
    BY <1>2, <1>4 DEF WaitsFor, Waiting
  <2>2. Bookkeeping'
    BY <1>2, <1>4, <2>1 DEF Bookkeeping
  <2>3. calls'[c] = WaitsFor(j) /\ \A d \in Callers \ {c} : ~calls'[d].waits
    BY <1>2, <1>4
  <2>4. PassedAreDead'
    BY <1>1, <1>4, <2>1, <2>3 DEF PassedAreDead
  <2>5. AliveAreListed'
    BY <1>1, <1>4 DEF AliveAreListed
  <2>6. OneStopWaits'
    <3>1. ~Overlap /\ running' => FALSE
      BY DEF OneStopWaits
    <3>. QED BY <2>3, <3>1 DEF OneStopWaits
  <2>7. StopLeavesNoWorker'
    BY <2>1, <2>3 DEF StopLeavesNoWorker, Idle
  <2>. QED BY <2>2, <2>4, <2>5, <2>6, <2>7
<1>. QED BY <1>3, <1>4, AwaitFromGoesOn

\* start() lists whom it creates.
LEMMA StartKeeps ==
    ASSUME IInv, Start
    PROVE  IInv'
<1>. USE DEF IInv
<1>0. /\ tasks \in Seq(DOMAIN workers) /\ \A w \in DOMAIN workers : IsTask(workers[w])
      /\ calls \in [Callers -> {Idle} \cup Waiting]
  BY DEF Bookkeeping
<1>1. /\ running' = TRUE /\ calls' = calls /\ tasks' = tasks \o NewTasks
      /\ workers' = [w \in DOMAIN workers \cup ToSet(NewTasks) |->
                        IF w \in DOMAIN workers THEN workers[w] ELSE Created]
      /\ Overlap \/ \A c \in Callers : calls[c] = Idle
  BY DEF Start
<1>2. /\ DOMAIN workers' = DOMAIN workers \cup ToSet(NewTasks)
      /\ \A w \in DOMAIN workers : workers'[w] = workers[w]
      /\ \A w \in DOMAIN workers' : w \in DOMAIN workers \/ workers'[w] = Created
  BY <1>1
<1>3. /\ tasks \in Seq(DOMAIN workers') /\ NewTasks \in Seq(DOMAIN workers')
  BY <1>0, <1>2, NewTasksType, ListOfMore
<1>4. /\ tasks' \in Seq(DOMAIN workers')
      /\ \A i \in DOMAIN tasks : i \in DOMAIN tasks' /\ tasks'[i] = tasks[i]
      /\ ToSet(tasks) \subseteq ToSet(tasks') /\ ToSet(NewTasks) \subseteq ToSet(tasks')
  BY <1>1, <1>3, ConcatLists
<1>5. Bookkeeping'
  <2>1. \A w \in DOMAIN workers' : IsTask(workers'[w])
    BY <1>0, <1>2 DEF IsTask, Created
  <2>2. calls' \in [Callers -> {Idle} \cup Waiting']
    BY <1>0, <1>1, <1>2 DEF Waiting
  <2>. QED BY <1>1, <1>4, <2>1, <2>2 DEF Bookkeeping
<1>6. AliveAreListed'
  BY <1>2, <1>4 DEF AliveAreListed, Alive
<1>7. PassedAreDead'
  <2>. SUFFICES ASSUME NEW c \in Callers, calls[c].waits
                PROVE  /\ calls[c].index \in DOMAIN tasks'
                       /\ calls[c].worker = tasks'[calls[c].index]
                       /\ \A i \in DOMAIN tasks' : i < calls[c].index => ~Alive(tasks[i])'
    BY <1>1 DEF PassedAreDead
  <2>1. /\ calls[c].index \in DOMAIN tasks /\ calls[c].worker = tasks[calls[c].index]
        /\ \A i \in DOMAIN tasks : i < calls[c].index => ~Alive(tasks[i])
    BY DEF PassedAreDead
  <2>2. \A i \in DOMAIN tasks' : i < calls[c].index => i \in DOMAIN tasks
    BY <1>0, <1>4, <2>1
  <2>3. \A i \in DOMAIN tasks : tasks[i] \in DOMAIN workers
    BY <1>0
  <2>4. \A i \in DOMAIN tasks : Alive(tasks[i])' <=> Alive(tasks[i])
    BY <1>2, <1>4, <2>3 DEF Alive
  <2>. QED BY <1>4, <2>1, <2>2, <2>3, <2>4
<1>8. OneStopWaits'
  BY <1>1 DEF OneStopWaits, Idle
<1>9. StopLeavesNoWorker'
  BY <1>1 DEF StopLeavesNoWorker
<1>. QED BY <1>5, <1>6, <1>7, <1>8, <1>9

\* A worker that begins, fires or ends wakes no one else.
LEMMA WorkerKeeps ==
    ASSUME IInv, NEW w, WorkerBegins(w) \/ WorkerFires(w) \/ WorkerEnds(w)
    PROVE  IInv'
<1>1. Alive(w) /\ UNCHANGED <<running, tasks, calls>>
  BY DEF WorkerBegins, WorkerFires, WorkerEnds, Runnable
<1>2. \E t : IsTask(t) /\ workers' = [workers EXCEPT ![w] = t]
  BY DEF WorkerBegins, WorkerFires, WorkerEnds, Rest, IsTask, Ended, Asleep
<1>3. /\ DOMAIN workers' = DOMAIN workers
      /\ \A v \in DOMAIN workers : IsTask(workers'[v]) /\ (Alive(v)' => Alive(v))
  BY <1>1, <1>2 DEF IInv, Bookkeeping, Alive
<1>. QED BY <1>1, <1>3, WorkerStepKeeps

\* Every step keeps it.
LEMMA StepIInv == CalledInTurn /\ IInv /\ [Next]_vars => IInv'
<1>. SUFFICES ASSUME CalledInTurn, IInv, [Next]_vars PROVE IInv'
  OBVIOUS
<1>0. /\ tasks \in Seq(DOMAIN workers) /\ calls \in [Callers -> {Idle} \cup Waiting]
      /\ \A w \in DOMAIN workers : IsTask(workers[w])
  BY DEF IInv, Bookkeeping
<1>1. CASE Start
  BY <1>1, StartKeeps
<1>2. ASSUME NEW c \in Callers, Stop(c) PROVE IInv'
  <2>1. \A d \in Callers \ {c} : ~calls[d].waits
    BY <1>2 DEF Stop, CalledInTurn, IInv, OneStopWaits
  <2>2. running' = FALSE /\ workers' = Cancelled /\ AwaitFrom(c, 1)
    BY <1>2 DEF Stop
  <2>3. \A i \in DOMAIN tasks : i < 1 => ~Alive(tasks[i])
    BY <1>0
  <2>. QED BY <2>1, <2>2, <2>3, CancelledKeeps, AwaitKeeps DEF IInv
<1>3. ASSUME NEW c \in Callers, StopResumes(c) PROVE IInv'
  <2>1. /\ calls[c].waits /\ ~Alive(calls[c].worker) /\ AwaitFrom(c, calls[c].index + 1)
        /\ UNCHANGED <<running, workers>>
    BY <1>3 DEF StopResumes
  <2>2. /\ calls[c].index \in DOMAIN tasks /\ calls[c].worker = tasks[calls[c].index]
        /\ \A i \in DOMAIN tasks : i < calls[c].index => ~Alive(tasks[i])
    BY <2>1 DEF IInv, PassedAreDead
  <2>3. /\ calls[c].index + 1 \in Nat
        /\ \A i \in DOMAIN tasks : i < calls[c].index + 1 => ~Alive(tasks[i])
    BY <1>0, <2>1, <2>2
  <2>4. \A d \in Callers \ {c} : ~calls[d].waits
    BY <2>1 DEF IInv, OneStopWaits
  <2>. QED BY <1>0, <2>1, <2>3, <2>4, AwaitKeeps
<1>4. ASSUME NEW w, WorkerBegins(w) \/ WorkerFires(w) \/ WorkerEnds(w) PROVE IInv'
  BY <1>4, WorkerKeeps
<1>5. CASE UNCHANGED <<running, tasks, calls, workers>>
  BY <1>0, <1>5, WorkerStepKeeps DEF Alive
<1>6. ASSUME NEW e, EmitEvent(e) PROVE UNCHANGED <<running, tasks, calls, workers>>
  BY <1>6 DEF EmitEvent
<1>. QED BY <1>1, <1>2, <1>3, <1>4, <1>5, <1>6 DEF Next, ClientCommand, Tick, vars

\* The invariant holds throughout, when start() and stop() are called in
\* turn.
THEOREM Invariance == Spec => [](CalledInTurn => IInv)
<1>1. (CalledInTurn => IInv) /\ [Next]_vars => (CalledInTurn => IInv)'
  BY StepIInv DEF CalledInTurn
<1>. QED BY <1>1, InitIInv, PTL DEF Spec

\* After a stop() that has returned no worker is alive: no program fires
\* behind it, nor twice after the next start().
THEOREM StoppedMeansStopped == Spec => [](CalledInTurn => StopLeavesNoWorker)
<1>1. (CalledInTurn => IInv) => (CalledInTurn => StopLeavesNoWorker)
  BY DEF IInv
<1>. QED BY <1>1, Invariance, PTL

-----------------------------------------------------------------------------
(* When a job is due, and when its worker wakes.                           *)

DueInstants(i, since) == {u \in Nat : Due(Jobs[i], since, u)}

\* The clock goes from its first instant to its last one.
LEMMA MomentsInOrder ==
    ASSUME NEW t \in ToSet(Moments)
    PROVE  /\ t \in Nat /\ Moments[1] \in Nat /\ LastMoment \in Nat
           /\ Moments[1] =< t /\ t =< LastMoment
<1>1. PICK n \in Nat : n = Len(Moments) /\ n # 0 /\ DOMAIN Moments = 1..n
  BY MomentsAssumption
<1>2. /\ \A i \in 1..n : Moments[i] \in Nat
      /\ \A i, j \in 1..n : i < j => Moments[i] < Moments[j]
  BY <1>1, MomentsAssumption
<1>3. PICK k \in 1..n : t = Moments[k]
  BY <1>1 DEF ToSet
<1>4. 1 \in 1..n /\ n \in 1..n /\ (k = 1 \/ 1 < k) /\ (k = n \/ k < n)
  BY <1>1
<1>. QED BY <1>1, <1>2, <1>3, <1>4 DEF LastMoment

\* What is known of a job and of the program at its head.
LEMMA JobTypes ==
    ASSUME NEW i \in DOMAIN Jobs
    PROVE  LET head == Jobs[i].head IN
           /\ KindOf(Jobs[i]) \in {"every", "yearly", "timed"}
           /\ head.hour \in Nat /\ head.minute \in Nat /\ head.minute \in Byte
           /\ EveryInterval(head) \in Nat
<1>1. /\ Jobs[i].kind \in {"timed", "yearly"}
      /\ Jobs[i].head.cond \in Nat /\ Jobs[i].head.cond2 \in Nat /\ Jobs[i].head.hour \in Nat
      /\ Jobs[i].head.minute \in Byte
  BY JobsDecoded
<1>2. KindOf(Jobs[i]) \in {"every", "yearly", "timed"}
  BY <1>1 DEF KindOf
<1>3. Jobs[i].head.minute \in Nat
  BY <1>1 DEF Byte
<1>4. EveryInterval(Jobs[i].head) \in Nat
  BY <1>1 DEF EveryInterval, Word, LowByte, HighByte
<1>. QED BY <1>1, <1>2, <1>3, <1>4

\* A whole number of intervals.
LEMMA Intervals ==
    ASSUME NEW n \in Nat \ {0}, NEW a \in Int
    PROVE  a % n = 0 <=> \E k \in Int : a = k * n
<1>1. a \div n \in Int /\ a % n \in 0..(n - 1) /\ a = n * (a \div n) + (a % n)
  OBVIOUS
<1>2. ASSUME a % n = 0 PROVE a = (a \div n) * n
  BY <1>1, <1>2
<1>3. ASSUME NEW k \in Int, a = k * n PROVE a % n = 0
  BY <1>3
<1>. QED BY <1>1, <1>2, <1>3

\* The next interval begins n later, and none in between.
LEMMA NextInterval ==
    ASSUME NEW n \in Nat \ {0}, NEW a \in Int, a % n = 0
    PROVE  /\ (a + n) % n = 0
           /\ \A b \in Int : b > a /\ b % n = 0 => a + n =< b
<1>1. PICK k \in Int : a = k * n
  BY Intervals
<1>2. a + n = (k + 1) * n /\ k + 1 \in Int /\ a + n \in Int
  BY <1>1
<1>3. (a + n) % n = 0
  BY <1>2, Intervals, Zenon
<1>4. ASSUME NEW b \in Int, b > a, b % n = 0 PROVE a + n =< b
  <2>1. PICK j \in Int : b = j * n
    BY <1>4, Intervals
  <2>2. j > k
    BY <1>1, <1>4, <2>1
  <2>3. (k + 1) * n =< j * n
    BY <2>2
  <2>. QED BY <1>2, <2>1, <2>3
<1>. QED BY <1>3, <1>4

\* What a worker sleeps for is due, whether it begins when the engine starts
\* or goes on from an instant that was due.
LEMMA NextFireFinds ==
    ASSUME NEW i \in DOMAIN Jobs, NEW t \in Nat, NEW s \in Nat, t = s \/ Due(Jobs[i], s, t)
    PROVE  Finds(NextFire(Jobs[i], t), t, DueInstants(i, s))
<1>. DEFINE job == Jobs[i]
            head == job.head
            n == EveryInterval(head)
            r == NextFire(job, t)
<1>0. /\ KindOf(job) \in {"every", "yearly", "timed"}
      /\ head.hour \in Nat /\ head.minute \in Nat /\ head.minute \in Byte /\ n \in Nat
  BY JobTypes
<1>1. CASE KindOf(job) = "every"
  <2>1. CASE n = 0
    BY <1>1, <2>1 DEF NextFire, Finds
  <2>2. CASE n # 0
    <3>1. r = t + n
      BY <1>1, <2>2 DEF NextFire
    <3>2. (t - s) % n = 0
      BY <1>0, <1>1, <2>2 DEF Due
    <3>3. (t - s) + n = (t + n) - s /\ n \in Nat \ {0} /\ t - s \in Int /\ t + n \in Nat /\ t + n > t
      BY <1>0, <2>2
    <3>4. ((t + n) - s) % n = 0
      BY <3>2, <3>3, NextInterval, Zenon
    <3>5. Due(job, s, t + n)
      BY <1>1, <2>2, <3>4 DEF Due
    <3>. QED BY <3>1, <3>3, <3>5 DEF Finds, DueInstants
  <2>. QED BY <2>1, <2>2
<1>2. CASE KindOf(job) = "yearly"
  <2>1. r = NextYearlyFire(t, head)
    BY <1>2 DEF NextFire
  <2>2. YearlyInstants(head) \subseteq DueInstants(i, s)
    BY <1>2 DEF YearlyInstants, DueInstants, Due
  <2>3. Finds(r, t, YearlyInstants(head))
    BY <1>0, <2>1, YearlyFireFinds
  <2>. QED BY <2>2, <2>3 DEF Finds
<1>3. CASE KindOf(job) = "timed" /\ TimeKind(head) = "absolute"
  <2>1. r = NextAbsoluteFire(t, head)
    BY <1>3 DEF NextFire, NextTimedFire
  <2>2. AbsoluteInstants(head) \subseteq DueInstants(i, s)
    BY <1>3 DEF AbsoluteInstants, DueInstants, Due
  <2>3. Finds(r, t, AbsoluteInstants(head))
    BY <1>0, <1>3, <2>1, AbsoluteFireFinds
  <2>. QED BY <2>2, <2>3 DEF Finds
<1>4. CASE KindOf(job) = "timed" /\ TimeKind(head) # "absolute"
  <2>1. CASE Location = NoLocation
    <3>1. r = NoFire
      BY <1>4, <2>1 DEF NextFire, NextTimedFire
    <3>. QED BY <3>1 DEF Finds
  <2>2. CASE Location # NoLocation
    <3>1. r = NextSunRelativeFire(t, head, Location)
      BY <1>4, <2>2 DEF NextFire, NextTimedFire
    <3>2. Location.sunrise \in SecondsOfDay /\ Location.sunset \in SecondsOfDay
      BY <2>2, LocationAssumption
    <3>3. Finds(r, t, SunInstants(head, Location))
      BY <1>0, <3>1, <3>2, SunFireFinds
    <3>4. ASSUME NEW u \in SunInstants(head, Location) PROVE u \in DueInstants(i, s)
      <4>1. PICK d \in Int : /\ u \in Nat /\ MatchesDaysMask(d, head.days)
                             /\ SunEvent(head, Location, d) = u
        BY DEF SunInstants
      <4>2. d \in (DayOf(u) - 1)..(DayOf(u) + 1)
        BY <1>0, <3>2, <4>1, SunEventIsNear
      <4>3. Due(job, s, u)
        BY <1>4, <2>2, <4>1, <4>2 DEF Due
      <4>. QED BY <4>1, <4>3 DEF DueInstants
    <3>. QED BY <3>3, <3>4 DEF Finds
  <2>. QED BY <2>1, <2>2
<1>. QED BY <1>0, <1>1, <1>2, <1>3, <1>4

\* When a worker has nothing to wake for, or wakes later, its job is not due
\* before, up to the last instant of the clock.
LEMMA NextFireFindsFirst ==
    ASSUME SchedulesRecur, NEW i \in DOMAIN Jobs, NEW t \in ToSet(Moments), NEW s \in Nat,
           t = s \/ Due(Jobs[i], s, t)
    PROVE  FindsFirst(NextFire(Jobs[i], t), t, {u \in DueInstants(i, s) : u =< LastMoment})
<1>. DEFINE job == Jobs[i]
            head == job.head
            n == EveryInterval(head)
            r == NextFire(job, t)
            S == {u \in DueInstants(i, s) : u =< LastMoment}
<1>0. /\ KindOf(job) \in {"every", "yearly", "timed"}
      /\ head.hour \in Nat /\ head.minute \in Nat /\ head.minute \in Byte /\ n \in Nat
  BY JobTypes
<1>1. t \in Nat /\ Moments[1] \in Nat /\ LastMoment \in Nat /\ Moments[1] =< t
  BY MomentsInOrder
<1>2. CASE KindOf(job) = "every"
  <2>1. ASSUME NEW u \in S, u > t PROVE r \notin {NoFire, ValueError} /\ r =< u
    <3>1. u \in Nat /\ n # 0 /\ (u - s) % n = 0
      BY <1>2 DEF DueInstants, Due
    <3>2. r = t + n
      BY <1>2, <3>1 DEF NextFire
    <3>3. (t - s) % n = 0
      BY <1>0, <1>1, <1>2, <3>1 DEF Due
    <3>4. (t - s) + n =< u - s
      <4>1. n \in Nat \ {0} /\ t - s \in Int /\ u - s \in Int /\ u - s > t - s
        BY <1>0, <1>1, <2>1, <3>1
      <4>. QED BY <3>1, <3>3, <4>1, NextInterval, Zenon
    <3>5. t + n =< u /\ t + n \in Nat
      BY <1>0, <1>1, <3>1, <3>4
    <3>. QED BY <3>2, <3>5 DEF NoFire, ValueError
  <2>. QED BY <2>1 DEF FindsFirst
<1>3. CASE KindOf(job) = "yearly"
  <2>1. r = NextYearlyFire(t, head)
    BY <1>3 DEF NextFire
  <2>2. S \subseteq {u \in YearlyInstants(head) : u =< LastMoment}
    BY <1>3 DEF YearlyInstants, DueInstants, Due
  <2>3. \A y, z \in YearOf(DayOf(t))..YearOf(DayOf(LastMoment)) :
            IsDate(y, head.month, head.day) => IsDate(z, head.month, head.day)
    <3>1. DayOf(Moments[1]) \in Nat /\ DayOf(t) \in Nat /\ DayOf(Moments[1]) =< DayOf(t)
      BY <1>1, DayOfGrows DEF DayOf, DaySecs
    <3>2. DayOf(LastMoment) \in Nat
      BY <1>1 DEF DayOf, DaySecs
    <3>3. /\ YearOf(DayOf(Moments[1])) \in Int /\ YearOf(DayOf(t)) \in Int
          /\ YearOf(DayOf(LastMoment)) \in Int /\ YearOf(DayOf(Moments[1])) =< YearOf(DayOf(t))
      BY <3>1, <3>2, YearOfDay, YearOfGrows DEF Years
    <3>4. YearOf(DayOf(t))..YearOf(DayOf(LastMoment))
              \subseteq YearOf(DayOf(Moments[1]))..YearOf(DayOf(LastMoment))
      BY <3>3
    <3>. QED BY <1>3, <3>4 DEF SchedulesRecur, DatesRecur
  <2>4. FindsFirst(r, t, {u \in YearlyInstants(head) : u =< LastMoment})
    BY <1>0, <1>1, <2>1, <2>3, YearlyFireFindsFirst
  <2>. QED BY <2>2, <2>4 DEF FindsFirst
<1>4. CASE KindOf(job) = "timed" /\ TimeKind(head) = "absolute"
  <2>1. r = NextAbsoluteFire(t, head)
    BY <1>4 DEF NextFire, NextTimedFire
  <2>2. S \subseteq AbsoluteInstants(head)
    BY <1>4 DEF AbsoluteInstants, DueInstants, Due
  <2>3. FindsFirst(r, t, AbsoluteInstants(head))
    BY <1>0, <1>1, <1>4, <2>1, AbsoluteFireFinds
  <2>. QED BY <2>2, <2>3 DEF FindsFirst
<1>5. CASE KindOf(job) = "timed" /\ TimeKind(head) # "absolute"
  <2>1. CASE Location = NoLocation
    <3>1. S = {}
      BY <1>5, <2>1 DEF DueInstants, Due
    <3>. QED BY <3>1 DEF FindsFirst
  <2>2. CASE Location # NoLocation
    <3>1. r = NextSunRelativeFire(t, head, Location)
      BY <1>5, <2>2 DEF NextFire, NextTimedFire
    <3>2. /\ Location.sunrise \in SecondsOfDay /\ Location.sunset \in SecondsOfDay
          /\ Location.raises = {} /\ SunEvent(head, Location, 0) \in SecondsOfDay
      BY <1>5, <2>2, LocationAssumption DEF SchedulesRecur, SunStaysInDay
    <3>3. FindsFirst(r, t, SunInstants(head, Location))
      BY <1>0, <1>1, <1>5, <3>1, <3>2, SunFireFindsFirst
    <3>4. ASSUME NEW u \in S PROVE u \in SunInstants(head, Location)
      <4>1. u \in Nat /\ \E d \in (DayOf(u) - 1)..(DayOf(u) + 1) :
                MatchesDaysMask(d, head.days) /\ SunEvent(head, Location, d) = u
        BY <1>5, <2>2 DEF DueInstants, Due
      <4>2. (DayOf(u) - 1)..(DayOf(u) + 1) \subseteq Int
        OBVIOUS
      <4>. QED BY <4>1, <4>2 DEF SunInstants
    <3>. QED BY <3>3, <3>4 DEF FindsFirst
  <2>. QED BY <2>1, <2>2
<1>. QED BY <1>0, <1>2, <1>3, <1>4, <1>5
-----------------------------------------------------------------------------
(* Types.                                                                  *)

\* What a worker sleeps for is an instant or a reason to end.
LEMMA NextFireType ==
    ASSUME NEW i \in DOMAIN Jobs, NEW t \in Nat
    PROVE  NextFire(Jobs[i], t) \in Int
<1>1. Finds(NextFire(Jobs[i], t), t, DueInstants(i, t))
  BY NextFireFinds
<1>. QED BY <1>1 DEF Finds, DueInstants, NoFire, ValueError

\* The clock shows whole seconds.
LEMMA NowType ==
    ASSUME NEW k \in DOMAIN Moments
    PROVE  Moments[k] \in Nat /\ Moments[k] \in ToSet(Moments) /\ k \in Nat
           /\ (k < Len(Moments) => k + 1 \in DOMAIN Moments /\ Moments[k] < Moments[k + 1])
<1>1. PICK n \in Nat : n = Len(Moments) /\ DOMAIN Moments = 1..n
  BY MomentsAssumption
<1>2. Moments[k] \in Nat
  BY MomentsAssumption
<1>3. k < n => k + 1 \in 1..n
  BY <1>1
<1>4. k < n => Moments[k] < Moments[k + 1]
  BY <1>1, <1>3, MomentsAssumption
<1>. QED BY <1>1, <1>2, <1>3, <1>4 DEF ToSet

\* A worker that goes to sleep or ends is a task, and an error is counted.
LEMMA RestType ==
    ASSUME tick \in DOMAIN Moments, NEW w \in Workers, Rest(w)
    PROVE  /\ \E t : /\ workers' = [workers EXCEPT ![w] = t]
                     /\ t = Ended \/ \E u \in Int : t = Asleep(u)
           /\ errors \in Nat => errors' \in Nat
<1>1. w[2] \in DOMAIN Jobs /\ now \in Nat
  BY NowType DEF Workers, now
<1>2. NextFire(JobOf(w), now) \in Int
  BY <1>1, NextFireType DEF JobOf
<1>. DEFINE next == NextFire(JobOf(w), now)
<1>3. /\ workers' = [workers EXCEPT ![w] = IF next \in {NoFire, ValueError}
                                         THEN Ended ELSE Asleep(next)]
      /\ errors' = errors + (IF next = ValueError THEN 1 ELSE 0)
  BY Zenon DEF Rest
<1>4. next \in Int
  BY <1>2
<1>. HIDE DEF next
<1>5. errors \in Nat => errors' \in Nat
  BY <1>3
<1>6. \E t : /\ workers' = [workers EXCEPT ![w] = t]
             /\ t = Ended \/ \E u \in Int : t = Asleep(u)
  <2>1. CASE next \in {NoFire, ValueError}
    <3>1. workers' = [workers EXCEPT ![w] = Ended]
      BY <1>3, <2>1
    <3>. QED BY <3>1
  <2>2. CASE next \notin {NoFire, ValueError}
    <3>1. workers' = [workers EXCEPT ![w] = Asleep(next)]
      BY <1>3, <2>2
    <3>. QED BY <1>4, <3>1
  <2>. QED BY <2>1, <2>2
<1>. QED BY <1>5, <1>6

\* stop() that goes on or returns leaves the list or clears it, and waits for
\* a worker in it.
LEMMA AwaitFromType ==
    ASSUME tasks \in Seq(DOMAIN workers), calls \in [Callers -> {Idle} \cup Waiting],
           NEW c \in Callers, NEW k \in Nat, AwaitFrom(c, k)
    PROVE  tasks' \in Seq(DOMAIN workers) /\ calls' \in [Callers -> {Idle} \cup Waiting]
<1>. DEFINE left == {i \in DOMAIN tasks : i >= k /\ Alive(tasks[i])}
<1>1. CASE left = {}
  <2>1. tasks' = <<>> /\ calls' = [calls EXCEPT ![c] = Idle]
    BY <1>1 DEF AwaitFrom
  <2>. QED BY <2>1
<1>2. CASE left # {}
  <2>1. left \in SUBSET Nat
    OBVIOUS
  <2>2. Lowest(left) \in left
    BY <1>2, <2>1, LowestIsLeast
  <2>3. WaitsFor(Lowest(left)) \in Waiting
    BY <2>1, <2>2 DEF WaitsFor, Waiting
  <2>4. tasks' = tasks /\ calls' = [calls EXCEPT ![c] = WaitsFor(Lowest(left))]
    BY <1>2 DEF AwaitFrom
  <2>. QED BY <2>3, <2>4
<1>. QED BY <1>1, <1>2

\* A worker and its task have their types.
WorkerTypes ==
    /\ DOMAIN workers \subseteq Workers
    /\ \A w \in DOMAIN workers :
           /\ w[1] =< starts
           /\ workers[w].phase \in {"created", "asleep", "ended"}
           /\ workers[w].cancelled \in BOOLEAN /\ workers[w].target \in Int

CounterTypes ==
    /\ tick \in DOMAIN Moments
    /\ starts \in 0..MaxStarts /\ errors \in Nat
    /\ begun \in [DOMAIN Jobs -> ToSet(Moments)] /\ owed \subseteq DOMAIN Jobs
    /\ runs \in [DOMAIN Jobs -> Nat]

TypeInv == Bookkeeping /\ WorkerTypes /\ CounterTypes

\* The counters and histories keep their types.
LEMMA StepCounterTypes == TypeInv /\ [Next]_vars => CounterTypes'
<1>. SUFFICES ASSUME TypeInv, [Next]_vars PROVE CounterTypes'
  OBVIOUS
<1>. USE DEF TypeInv, CounterTypes
<1>1. CASE Start
  BY <1>1, MaxStartsAssumption DEF Start
<1>2. ASSUME NEW c \in Callers, Stop(c) \/ StopResumes(c) PROVE CounterTypes'
  BY <1>2 DEF Stop, StopResumes
<1>3. ASSUME NEW w \in Workers, WorkerBegins(w) PROVE CounterTypes'
  <2>1. errors' \in Nat
    BY <1>3, RestType DEF WorkerBegins
  <2>2. now \in ToSet(Moments)
    BY NowType DEF now
  <2>3. begun' \in [DOMAIN Jobs -> ToSet(Moments)]
    BY <1>3, <2>2 DEF WorkerBegins
  <2>. QED BY <1>3, <2>1, <2>3 DEF WorkerBegins
<1>4. ASSUME NEW w \in Workers, WorkerFires(w) PROVE CounterTypes'
  <2>1. errors' \in Nat
    BY <1>4, RestType DEF WorkerFires
  <2>2. runs' \in [DOMAIN Jobs -> Nat]
    <3>1. runs' = [runs EXCEPT ![w[2]] = @ + 1]
      BY <1>4 DEF WorkerFires
    <3>2. runs \in [DOMAIN Jobs -> Nat] /\ w[2] \in DOMAIN Jobs
      BY DEF Workers
    <3>3. runs[w[2]] + 1 \in Nat
      BY <3>2
    <3>. QED BY <3>1, <3>2, <3>3
  <2>. QED BY <1>4, <2>1, <2>2 DEF WorkerFires
<1>5. ASSUME NEW w \in Workers, WorkerEnds(w) PROVE CounterTypes'
  BY <1>5 DEF WorkerEnds
<1>6. ASSUME NEW e \in Events, EmitEvent(e) PROVE CounterTypes'
  BY <1>6 DEF EmitEvent
<1>7. ASSUME NEW payload \in ClientCommands, ClientCommand(payload) PROVE CounterTypes'
  BY <1>7 DEF ClientCommand
<1>8. CASE Tick
  <2>1. tick' \in DOMAIN Moments
    BY <1>8, NowType DEF Tick
  <2>2. owed' \subseteq DOMAIN Jobs /\ runs' \in [DOMAIN Jobs -> Nat]
    BY <1>8 DEF Tick
  <2>. QED BY <1>8, <2>1, <2>2 DEF Tick
<1>9. CASE UNCHANGED vars
  BY <1>9 DEF vars
<1>. QED BY <1>1, <1>2, <1>3, <1>4, <1>5, <1>6, <1>7, <1>8, <1>9 DEF Next

\* A worker's step gives it another task.
LEMMA WorkerStepTypes ==
    ASSUME TypeInv, NEW w \in Workers, WorkerBegins(w) \/ WorkerFires(w) \/ WorkerEnds(w)
    PROVE  Bookkeeping' /\ WorkerTypes'
<1>1. PICK t : /\ workers' = [workers EXCEPT ![w] = t]
               /\ t = Ended \/ \E u \in Int : t = Asleep(u)
  <2>1. ASSUME Rest(w)
        PROVE  \E t : /\ workers' = [workers EXCEPT ![w] = t]
                      /\ t = Ended \/ \E u \in Int : t = Asleep(u)
    BY <2>1, RestType, Zenon DEF TypeInv, CounterTypes
  <2>. QED BY <2>1 DEF WorkerBegins, WorkerFires, WorkerEnds
<1>2. /\ IsTask(t) /\ t.phase \in {"created", "asleep", "ended"}
      /\ t.cancelled \in BOOLEAN /\ t.target \in Int
  <2>1. CASE t = Ended
    BY <2>1 DEF IsTask, Ended, NoFire
  <2>2. ASSUME NEW u \in Int, t = Asleep(u)
        PROVE  /\ IsTask(t) /\ t.phase \in {"created", "asleep", "ended"}
               /\ t.cancelled \in BOOLEAN /\ t.target \in Int
    BY <2>2 DEF IsTask, Asleep
  <2>. QED BY <1>1, <2>1, <2>2
<1>3. /\ DOMAIN workers' = DOMAIN workers
      /\ \A v \in DOMAIN workers : workers'[v] \in {t, workers[v]}
  BY <1>1
<1>4. UNCHANGED <<running, tasks, calls, starts>>
  BY DEF WorkerBegins, WorkerFires, WorkerEnds
<1>5. Waiting' = Waiting
  BY <1>3 DEF Waiting
<1>6. Bookkeeping'
  BY <1>2, <1>3, <1>4, <1>5 DEF TypeInv, Bookkeeping
<1>7. WorkerTypes'
  BY <1>2, <1>3, <1>4 DEF TypeInv, WorkerTypes
<1>. QED BY <1>6, <1>7

\* start() creates workers of the start that it is.
LEMMA StartTypes ==
    ASSUME TypeInv, Start
    PROVE  Bookkeeping' /\ WorkerTypes'
<1>0. /\ tasks \in Seq(DOMAIN workers) /\ \A w \in DOMAIN workers : IsTask(workers[w])
      /\ calls \in [Callers -> {Idle} \cup Waiting]
      /\ starts \in Nat /\ starts < MaxStarts /\ starts' = starts + 1
  BY DEF TypeInv, Bookkeeping, CounterTypes, Start
<1>1. /\ running' = TRUE /\ calls' = calls /\ tasks' = tasks \o NewTasks
      /\ workers' = [w \in DOMAIN workers \cup ToSet(NewTasks) |->
                        IF w \in DOMAIN workers THEN workers[w] ELSE Created]
  BY DEF Start
<1>2. /\ DOMAIN workers' = DOMAIN workers \cup ToSet(NewTasks)
      /\ \A w \in DOMAIN workers : workers'[w] = workers[w]
      /\ \A w \in DOMAIN workers' : w \in DOMAIN workers \/ workers'[w] = Created
  BY <1>1
<1>3. tasks \in Seq(DOMAIN workers') /\ NewTasks \in Seq(DOMAIN workers')
  BY <1>0, <1>2, NewTasksType, ListOfMore
<1>4. tasks' \in Seq(DOMAIN workers')
  BY <1>1, <1>3, ConcatLists
<1>5. Bookkeeping'
  <2>1. \A w \in DOMAIN workers' : IsTask(workers'[w])
    BY <1>0, <1>2 DEF IsTask, Created
  <2>2. calls' \in [Callers -> {Idle} \cup Waiting']
    BY <1>0, <1>1, <1>2 DEF Waiting
  <2>. QED BY <1>1, <1>4, <2>1, <2>2 DEF Bookkeeping
<1>6. \A w \in ToSet(NewTasks) : \E i \in DOMAIN Jobs : w = <<starts + 1, i>>
  BY DEF NewTasks, ToSet
<1>7. ToSet(NewTasks) \subseteq Workers
  BY <1>0, <1>6, MaxStartsAssumption DEF Workers
<1>8. ASSUME NEW w \in DOMAIN workers'
      PROVE  /\ w[1] =< starts'
             /\ workers'[w].phase \in {"created", "asleep", "ended"}
             /\ workers'[w].cancelled \in BOOLEAN /\ workers'[w].target \in Int
  <2>1. CASE w \in DOMAIN workers
    <3>1. w[1] \in Nat /\ w[1] =< starts
      BY <2>1 DEF TypeInv, WorkerTypes, Workers
    <3>. QED BY <1>0, <1>2, <2>1, <3>1 DEF TypeInv, WorkerTypes
  <2>2. CASE w \notin DOMAIN workers
    <3>1. workers'[w] = Created /\ w[1] = starts + 1
      BY <1>2, <1>6, <2>2
    <3>. QED BY <1>0, <3>1 DEF Created, NoFire
  <2>. QED BY <2>1, <2>2
<1>9. WorkerTypes'
  BY <1>2, <1>7, <1>8 DEF TypeInv, WorkerTypes
<1>. QED BY <1>5, <1>9

\* Every step keeps the types.
LEMMA StepTypeInv == TypeInv /\ [Next]_vars => TypeInv'
<1>. SUFFICES ASSUME TypeInv, [Next]_vars PROVE Bookkeeping' /\ WorkerTypes'
  BY StepCounterTypes DEF TypeInv
<1>0. /\ tasks \in Seq(DOMAIN workers) /\ calls \in [Callers -> {Idle} \cup Waiting]
      /\ Bookkeeping /\ WorkerTypes
  BY DEF TypeInv, Bookkeeping
<1>1. CASE Start
  BY <1>1, StartTypes
<1>2. ASSUME NEW c \in Callers, Stop(c) PROVE Bookkeeping' /\ WorkerTypes'
  <2>1. running' = FALSE /\ workers' = Cancelled /\ starts' = starts
    BY <1>2 DEF Stop
  <2>2. tasks' \in Seq(DOMAIN workers) /\ calls' \in [Callers -> {Idle} \cup Waiting]
    BY <1>0, <1>2, AwaitFromType DEF Stop
  <2>3. /\ DOMAIN workers' = DOMAIN workers
        /\ \A w \in DOMAIN workers : IsTask(workers'[w])
    BY <1>0, <2>1, CancelledKeeps
  <2>4. ASSUME NEW w \in DOMAIN workers
        PROVE  /\ workers'[w].phase = workers[w].phase
               /\ workers'[w].cancelled \in {TRUE, workers[w].cancelled}
               /\ workers'[w].target = workers[w].target
    BY <1>0, <2>1 DEF Cancelled, Bookkeeping, IsTask
  <2>5. Waiting' = Waiting
    BY <2>3 DEF Waiting
  <2>6. Bookkeeping'
    BY <2>1, <2>2, <2>3, <2>5 DEF Bookkeeping
  <2>7. WorkerTypes'
    BY <1>0, <2>1, <2>3, <2>4 DEF WorkerTypes
  <2>. QED BY <2>6, <2>7
<1>3. ASSUME NEW c \in Callers, StopResumes(c) PROVE Bookkeeping' /\ WorkerTypes'
  <2>1. calls[c].waits /\ AwaitFrom(c, calls[c].index + 1) /\ UNCHANGED <<running, workers, starts>>
    BY <1>3 DEF StopResumes
  <2>2. calls[c].index + 1 \in Nat
    <3>1. calls[c] = Idle \/ calls[c] \in Waiting
      BY <1>0
    <3>2. calls[c] \in Waiting
      BY <2>1, <3>1 DEF Idle
    <3>3. calls[c].index \in Nat
      BY <3>2 DEF Waiting
    <3>. QED BY <3>3
  <2>3. tasks' \in Seq(DOMAIN workers) /\ calls' \in [Callers -> {Idle} \cup Waiting]
    BY <1>0, <2>1, <2>2, AwaitFromType
  <2>4. Waiting' = Waiting
    BY <2>1 DEF Waiting
  <2>. QED BY <1>0, <2>1, <2>3, <2>4 DEF Bookkeeping, WorkerTypes
<1>4. ASSUME NEW w \in Workers, WorkerBegins(w) \/ WorkerFires(w) \/ WorkerEnds(w)
      PROVE  Bookkeeping' /\ WorkerTypes'
  BY <1>4, WorkerStepTypes
<1>5. CASE UNCHANGED <<running, tasks, calls, workers, starts>>
  <2>1. Waiting' = Waiting
    BY <1>5 DEF Waiting
  <2>. QED BY <1>0, <1>5, <2>1 DEF Bookkeeping, WorkerTypes
<1>6. ASSUME NEW e, EmitEvent(e) PROVE UNCHANGED <<running, tasks, calls, workers, starts>>
  BY <1>6 DEF EmitEvent
<1>. QED BY <1>1, <1>2, <1>3, <1>4, <1>5, <1>6 DEF Next, ClientCommand, Tick, vars

\* They are there from the first state on.
LEMMA TypesHold == Spec => []TypeInv
<1>1. Init => TypeInv
  <2>. SUFFICES ASSUME Init PROVE TypeInv
    OBVIOUS
  <2>1. CounterTypes
    <3>1. 1 \in DOMAIN Moments
      BY MomentsAssumption
    <3>2. Init => now \in ToSet(Moments)
      BY <3>1, NowType DEF Init, now
    <3>3. begun \in [DOMAIN Jobs -> ToSet(Moments)]
      BY <3>2 DEF Init
    <3>. QED BY <3>1, <3>3, MaxStartsAssumption DEF Init, CounterTypes
  <2>. QED BY <2>1, InitIInv DEF Init, IInv, TypeInv, WorkerTypes
<1>. QED BY <1>1, StepTypeInv, PTL DEF Spec

\* The variables have their types in every state, whoever calls start() and
\* stop(), and whenever: workers belong to jobs and starts that there were,
\* _tasks lists workers, and a stop() waits for one of them.
THEOREM EngineTypes == Spec => []TypeOK
<1>1. TypeInv => TypeOK
  <2>. SUFFICES ASSUME TypeInv PROVE TypeOK
    OBVIOUS
  <2>1. ToSet(tasks) \subseteq DOMAIN workers
    BY DEF TypeInv, Bookkeeping, ToSet
  <2>2. \A c \in Callers : calls[c] = Idle \/ calls[c].worker \in DOMAIN workers
    BY DEF TypeInv, Bookkeeping, Waiting
  <2>. QED BY <2>1, <2>2 DEF TypeInv, TypeOK, Bookkeeping, WorkerTypes, CounterTypes
<1>. QED BY <1>1, TypesHold, PTL
-----------------------------------------------------------------------------
(* When programs run.                                                      *)

\* The types, the invariant of stop(), and what the clock shows.
LEMMA StateTypes ==
    ASSUME TypeInv
    PROVE  /\ now \in Nat /\ now \in ToSet(Moments) /\ tick \in DOMAIN Moments
           /\ starts \in Nat /\ runs \in [DOMAIN Jobs -> Nat] /\ owed \subseteq DOMAIN Jobs
           /\ \A w \in DOMAIN workers :
                  /\ w[1] \in Nat /\ w[1] =< starts /\ w[2] \in DOMAIN Jobs
                  /\ w = <<w[1], w[2]>> /\ IsTask(workers[w])
                  /\ workers[w].phase \in {"created", "asleep", "ended"}
<1>1. now \in Nat /\ now \in ToSet(Moments)
  BY NowType DEF TypeInv, CounterTypes, now
<1>2. \A w \in Workers : w[1] \in Nat /\ w[2] \in DOMAIN Jobs /\ w = <<w[1], w[2]>>
  BY DEF Workers
<1>. QED BY <1>1, <1>2 DEF TypeInv, CounterTypes, WorkerTypes, Bookkeeping

\* What is due at an instant is due at it for a worker that begins there.
LEMMA DueFromHere ==
    ASSUME NEW i \in DOMAIN Jobs, NEW s \in Nat, NEW t \in Nat, Due(Jobs[i], s, t)
    PROVE  Due(Jobs[i], t, t)
<1>1. EveryInterval(Jobs[i].head) \in Nat
  BY JobTypes
<1>2. ASSUME EveryInterval(Jobs[i].head) # 0 PROVE (t - t) % EveryInterval(Jobs[i].head) = 0
  <2>. DEFINE n == EveryInterval(Jobs[i].head)
  <2>1. n \in Nat \ {0} /\ t - t = 0 /\ 0 \in Int
    BY <1>1, <1>2
  <2>2. 0 = 0 * n
    BY <2>1
  <2>3. 0 % n = 0
    BY <2>1, <2>2, Intervals, Zenon
  <2>. QED BY <2>1, <2>3
<1>. QED BY <1>2, Zenon DEF Due

\* A step that changes nothing of this keeps it.
LEMMA DueFrame ==
    ASSUME DueInv, UNCHANGED <<tick, running, workers, starts, begun, runs>>
    PROVE  DueInv'
BY DEF DueInv, OneWorkerPerJob, WakesWhenDue, RunsOnlyWhenDue, DueAt, Engaged, Alive, now, JobOf

\* The last step of a worker at this moment: it ends or sleeps until its job
\* is due.
LEMMA RestWakesWhenDue ==
    ASSUME TypeInv, NEW since \in Nat, NEW w \in DOMAIN workers, Rest(w),
           now = since \/ Due(JobOf(w), since, now)
    PROVE  \E t : /\ workers' = [workers EXCEPT ![w] = t]
                  /\ \/ t = Ended
                     \/ \E u \in Nat : t = Asleep(u) /\ u > now /\ Due(JobOf(w), since, u)
<1>. DEFINE next == NextFire(JobOf(w), now)
<1>1. w[2] \in DOMAIN Jobs /\ now \in Nat
  BY StateTypes
<1>2. Finds(next, now, DueInstants(w[2], since))
  BY <1>1, NextFireFinds DEF JobOf
<1>3. workers' = [workers EXCEPT ![w] = IF next \in {NoFire, ValueError}
                                         THEN Ended ELSE Asleep(next)]
  BY Zenon DEF Rest
<1>. HIDE DEF next
<1>4. CASE next \in {NoFire, ValueError}
  <2>1. workers' = [workers EXCEPT ![w] = Ended]
    BY <1>3, <1>4
  <2>. QED BY <2>1
<1>5. CASE next \notin {NoFire, ValueError}
  <2>1. workers' = [workers EXCEPT ![w] = Asleep(next)]
    BY <1>3, <1>5
  <2>2. next \in Nat /\ next > now /\ Due(JobOf(w), since, next)
    BY <1>2, <1>5 DEF Finds, DueInstants, JobOf
  <2>. QED BY <2>1, <2>2
<1>. QED BY <1>4, <1>5

\* start() engages one worker of every job.
LEMMA StartWakes ==
    ASSUME TypeInv, DueInv, Start
    PROVE  DueInv'
<1>1. /\ running' = TRUE /\ ~running /\ starts' = starts + 1
      /\ UNCHANGED <<tick, begun, runs>>
      /\ workers' = [w \in DOMAIN workers \cup ToSet(NewTasks) |->
                        IF w \in DOMAIN workers THEN workers[w] ELSE Created]
  BY DEF Start
<1>2. /\ DOMAIN workers' = DOMAIN workers \cup ToSet(NewTasks)
      /\ \A w \in DOMAIN workers : workers'[w] = workers[w]
      /\ \A w \in DOMAIN workers' : w \in DOMAIN workers \/ workers'[w] = Created
  BY <1>1
<1>3. \A w \in DOMAIN workers : ~Engaged(w)
  BY <1>1 DEF DueInv, OneWorkerPerJob
<1>4. \A w \in DOMAIN workers' : Engaged(w)' => w \notin DOMAIN workers /\ workers'[w] = Created
  BY <1>2, <1>3 DEF Engaged, Alive
<1>5. \A i \in DOMAIN Jobs : <<starts + 1, i>> \in ToSet(NewTasks)
  BY DEF NewTasks, ToSet
<1>6. \A w \in ToSet(NewTasks) : w[1] = starts + 1
  BY DEF NewTasks, ToSet
<1>7. \A i \in DOMAIN Jobs : <<starts + 1, i>> \notin DOMAIN workers
  BY StateTypes
<1>8. OneWorkerPerJob'
  <2>1. \A w \in DOMAIN workers' : Engaged(w)' => running' /\ w[1] = starts'
    BY <1>1, <1>2, <1>4, <1>6
  <2>2. \A i \in DOMAIN Jobs : /\ <<starts', i>> \in DOMAIN workers'
                               /\ ~workers'[<<starts', i>>].cancelled
    BY <1>1, <1>2, <1>5, <1>7 DEF Created
  <2>. QED BY <2>1, <2>2 DEF OneWorkerPerJob
<1>9. WakesWhenDue'
  BY <1>1, <1>4 DEF WakesWhenDue, Created, now
<1>. QED BY <1>1, <1>8, <1>9 DEF DueInv, RunsOnlyWhenDue, DueAt, now

\* stop() leaves nobody engaged.
LEMMA StopDisengages ==
    ASSUME TypeInv, IInv, DueInv, NEW c \in Callers, Stop(c)
    PROVE  DueInv'
<1>1. running' = FALSE /\ workers' = Cancelled /\ UNCHANGED <<tick, begun, starts, runs>>
  BY DEF Stop
<1>2. DOMAIN workers' = DOMAIN workers
  BY <1>1 DEF Cancelled
<1>3. ASSUME NEW w \in DOMAIN workers' PROVE ~Engaged(w)'
  <2>1. CASE Alive(w)
    <3>1. w \in ToSet(tasks) /\ IsTask(workers[w])
      BY <1>2, <2>1, StateTypes DEF IInv, AliveAreListed
    <3>2. workers'[w] = [workers[w] EXCEPT !.cancelled = TRUE]
      BY <1>1, <1>2, <2>1, <3>1 DEF Cancelled
    <3>3. workers'[w].cancelled
      BY <3>1, <3>2 DEF IsTask
    <3>. QED BY <3>3 DEF Engaged
  <2>2. CASE ~Alive(w)
    <3>1. workers'[w] = workers[w]
      BY <1>1, <1>2, <2>2 DEF Cancelled
    <3>. QED BY <1>2, <2>2, <3>1 DEF Engaged, Alive
  <2>. QED BY <2>1, <2>2
<1>4. OneWorkerPerJob' /\ WakesWhenDue'
  BY <1>1, <1>3 DEF OneWorkerPerJob, WakesWhenDue
<1>. QED BY <1>1, <1>4 DEF DueInv, RunsOnlyWhenDue, DueAt, now

\* A worker that goes back to rest is disengaged or wakes for its job, counted
\* from where it began.
LEMMA WorkerRestsWhenDue ==
    ASSUME TypeInv, DueInv, NEW w \in DOMAIN workers, Engaged(w), Rest(w),
           NEW since \in Nat, begun' = [begun EXCEPT ![w[2]] = since],
           now = since \/ Due(JobOf(w), since, now),
           UNCHANGED <<tick, running, starts>>,
           \A v \in DOMAIN workers : v # w /\ Engaged(v) => runs'[v[2]] = runs[v[2]]
    PROVE  OneWorkerPerJob' /\ WakesWhenDue'
<1>1. /\ begun \in [DOMAIN Jobs -> ToSet(Moments)]
      /\ \A v \in DOMAIN workers : v = <<v[1], v[2]>> /\ v[2] \in DOMAIN Jobs
  BY StateTypes DEF TypeInv, CounterTypes
<1>2. PICK t : /\ workers' = [workers EXCEPT ![w] = t]
               /\ \/ t = Ended
                  \/ \E u \in Nat : t = Asleep(u) /\ u > now /\ Due(JobOf(w), since, u)
  BY RestWakesWhenDue, Zenon
<1>3. /\ DOMAIN workers' = DOMAIN workers /\ workers'[w] = t
      /\ \A v \in DOMAIN workers : v # w => workers'[v] = workers[v]
  BY <1>2
<1>4. now' = now
  BY DEF now
<1>5. ~t.cancelled
  BY <1>2 DEF Ended, Asleep
<1>6. \A v \in DOMAIN workers : Engaged(v)' => Engaged(v)
  BY <1>3 DEF Engaged, Alive
<1>7. OneWorkerPerJob'
  BY <1>3, <1>5, <1>6 DEF DueInv, OneWorkerPerJob
<1>8. ASSUME NEW v \in DOMAIN workers, Engaged(v)', v # w
      PROVE  \/ workers'[v].phase = "created"
             \/ /\ workers'[v].phase = "asleep"
                /\ workers'[v].target \in Nat /\ workers'[v].target >= now'
                /\ DueAt(v[2], workers[v].target)'
                /\ workers'[v].target = now' => runs'[v[2]] = 0
  <2>1. Engaged(v) /\ workers'[v] = workers[v] /\ runs'[v[2]] = runs[v[2]]
    BY <1>3, <1>6, <1>8
  <2>2. \/ workers[v].phase = "created"
        \/ /\ workers[v].phase = "asleep"
           /\ workers[v].target \in Nat /\ workers[v].target >= now
           /\ DueAt(v[2], workers[v].target)
           /\ workers[v].target = now => runs[v[2]] = 0
    BY <2>1 DEF DueInv, WakesWhenDue
  <2>3. v[1] = starts /\ w[1] = starts
    BY <2>1 DEF DueInv, OneWorkerPerJob
  <2>4. v[2] # w[2]
    BY <1>1, <1>8, <2>3
  <2>5. begun'[v[2]] = begun[v[2]]
    BY <1>1, <2>4
  <2>. QED BY <1>4, <2>1, <2>2, <2>5 DEF DueAt
<1>9. ASSUME Engaged(w)'
      PROVE  /\ workers'[w].phase = "asleep"
             /\ workers'[w].target \in Nat /\ workers'[w].target > now'
             /\ DueAt(w[2], workers[w].target)'
  <2>1. t # Ended
    BY <1>3, <1>9 DEF Engaged, Alive, Ended
  <2>2. PICK u \in Nat : t = Asleep(u) /\ u > now /\ Due(JobOf(w), since, u)
    BY <1>2, <2>1
  <2>3. workers'[w].phase = "asleep" /\ workers'[w].target = u
    BY <1>3, <2>2 DEF Asleep
  <2>4. begun'[w[2]] = since
    BY <1>1
  <2>. QED BY <1>4, <2>2, <2>3, <2>4 DEF DueAt, JobOf
<1>10. now \in Nat
  BY StateTypes
<1>11. WakesWhenDue'
  BY <1>3, <1>4, <1>8, <1>9, <1>10 DEF WakesWhenDue
<1>. QED BY <1>7, <1>11

\* A worker that begins counts from now; what ran at this instant was due for
\* it too.
LEMMA BeginWakes ==
    ASSUME TypeInv, DueInv, NEW w, WorkerBegins(w)
    PROVE  DueInv'
<1>1. /\ w \in DOMAIN workers /\ Engaged(w) /\ workers[w].phase = "created" /\ Rest(w)
      /\ UNCHANGED <<tick, running, starts, runs>> /\ begun' = [begun EXCEPT ![w[2]] = now]
  BY DEF WorkerBegins, Engaged, Alive
<1>2. /\ begun \in [DOMAIN Jobs -> ToSet(Moments)] /\ w[2] \in DOMAIN Jobs
      /\ now \in Nat /\ now \in ToSet(Moments) /\ now' = now
  BY <1>1, StateTypes DEF TypeInv, CounterTypes, now
<1>3. OneWorkerPerJob' /\ WakesWhenDue'
  BY <1>1, <1>2, WorkerRestsWhenDue
<1>4. \A i \in DOMAIN Jobs : begun'[i] = IF i = w[2] THEN now ELSE begun[i]
  BY <1>1, <1>2
<1>5. \A i \in DOMAIN Jobs : begun'[i] \in ToSet(Moments) /\ begun'[i] =< now'
  BY <1>2, <1>4 DEF DueInv
<1>6. ASSUME NEW i \in DOMAIN Jobs, runs[i] = 1 PROVE Due(Jobs[i], begun'[i], now)
  <2>1. Due(Jobs[i], begun[i], now) /\ begun[i] \in Nat
    BY <1>6, MomentsInOrder DEF DueInv, RunsOnlyWhenDue, DueAt
  <2>2. Due(Jobs[i], now, now)
    BY <1>2, <2>1, DueFromHere
  <2>. QED BY <1>4, <2>1, <2>2
<1>7. RunsOnlyWhenDue'
  BY <1>1, <1>2, <1>6 DEF DueInv, RunsOnlyWhenDue, DueAt
<1>. QED BY <1>3, <1>5, <1>7 DEF DueInv

\* A worker that fires sleeps until now, and its job has not run yet.
LEMMA FiresNow ==
    ASSUME TypeInv, DueInv, NEW w, WorkerFires(w)
    PROVE  /\ w \in DOMAIN workers /\ Engaged(w) /\ workers[w].phase = "asleep"
           /\ w[1] = starts /\ w[2] \in DOMAIN Jobs /\ running
           /\ workers[w].target = now /\ DueAt(w[2], now) /\ runs[w[2]] = 0
           /\ runs' = [runs EXCEPT ![w[2]] = 1]
<1>1. /\ w \in DOMAIN workers /\ Engaged(w) /\ workers[w].phase = "asleep" /\ running
      /\ ~workers[w].cancelled /\ Runnable(w)
      /\ runs' = [runs EXCEPT ![w[2]] = @ + 1]
  BY DEF WorkerFires, Engaged, Runnable, Alive
<1>2. workers[w].target =< now
  BY <1>1 DEF Runnable
<1>3. /\ workers[w].target \in Nat /\ workers[w].target >= now
      /\ DueAt(w[2], workers[w].target)
      /\ workers[w].target = now => runs[w[2]] = 0
  BY <1>1 DEF DueInv, WakesWhenDue
<1>4. now \in Nat /\ w[2] \in DOMAIN Jobs
  BY <1>1, StateTypes
<1>5. workers[w].target = now
  BY <1>2, <1>3, <1>4
<1>6. w[1] = starts
  BY <1>1 DEF DueInv, OneWorkerPerJob
<1>7. runs' = [runs EXCEPT ![w[2]] = 1]
  <2>1. runs[w[2]] + 1 = 1
    BY <1>3, <1>5
  <2>. QED BY <1>1, <2>1
<1>. QED BY <1>1, <1>3, <1>4, <1>5, <1>6, <1>7

\* A job runs once, since one worker is engaged for it.
LEMMA FireWakes ==
    ASSUME TypeInv, DueInv, NEW w, WorkerFires(w)
    PROVE  DueInv'
<1>1. /\ w \in DOMAIN workers /\ Engaged(w) /\ w[1] = starts /\ w[2] \in DOMAIN Jobs
      /\ DueAt(w[2], now) /\ runs' = [runs EXCEPT ![w[2]] = 1]
  BY FiresNow
<1>2. /\ Rest(w) /\ UNCHANGED <<tick, running, starts, begun>>
      /\ begun[w[2]] \in Nat /\ begun' = [begun EXCEPT ![w[2]] = begun[w[2]]]
  <2>1. begun \in [DOMAIN Jobs -> ToSet(Moments)]
    BY DEF TypeInv, CounterTypes
  <2>. QED BY <1>1, <2>1, MomentsInOrder DEF WorkerFires
<1>3. \A v \in DOMAIN workers : v = <<v[1], v[2]>>
  BY StateTypes
<1>4. ASSUME NEW v \in DOMAIN workers, v # w, Engaged(v) PROVE runs'[v[2]] = runs[v[2]]
  <2>1. v[1] = starts
    BY <1>4 DEF DueInv, OneWorkerPerJob
  <2>2. v[2] # w[2]
    BY <1>1, <1>3, <1>4, <2>1
  <2>. QED BY <1>1, <1>4, <2>2, StateTypes
<1>5. OneWorkerPerJob' /\ WakesWhenDue'
  BY <1>1, <1>2, <1>4, WorkerRestsWhenDue DEF DueAt, JobOf
<1>6. ASSUME NEW i \in DOMAIN Jobs
      PROVE  runs'[i] =< 1 /\ (runs'[i] = 1 => Due(Jobs[i], begun[i], now))
  <2>1. CASE i = w[2]
    <3>1. runs'[i] = 1
      BY <1>1, <2>1, StateTypes
    <3>. QED BY <1>1, <2>1, <3>1 DEF DueAt
  <2>2. CASE i # w[2]
    <3>1. runs'[i] = runs[i]
      BY <1>1, <2>2, StateTypes
    <3>. QED BY <3>1 DEF DueInv, RunsOnlyWhenDue, DueAt
  <2>. QED BY <2>1, <2>2
<1>7. RunsOnlyWhenDue'
  BY <1>2, <1>6 DEF RunsOnlyWhenDue, DueAt, now
<1>. QED BY <1>2, <1>5, <1>7 DEF DueInv, now

\* A worker that ends is engaged no more.
LEMMA EndDisengages ==
    ASSUME TypeInv, DueInv, NEW w, WorkerEnds(w)
    PROVE  DueInv'
<1>1. /\ workers' = [workers EXCEPT ![w] = Ended]
      /\ UNCHANGED <<tick, running, starts, begun, runs>>
  BY DEF WorkerEnds
<1>2. /\ DOMAIN workers' = DOMAIN workers
      /\ \A v \in DOMAIN workers : workers'[v] = workers[v] \/ workers'[v] = Ended
  BY <1>1
<1>3. \A v \in DOMAIN workers : Engaged(v)' => Engaged(v) /\ workers'[v] = workers[v]
  BY <1>2 DEF Engaged, Alive, Ended
<1>4. OneWorkerPerJob'
  BY <1>1, <1>2, <1>3 DEF DueInv, OneWorkerPerJob, Ended
<1>5. WakesWhenDue'
  <2>1. \A i, u : DueAt(i, u)' <=> DueAt(i, u)
    BY <1>1 DEF DueAt
  <2>2. now' = now
    BY <1>1 DEF now
  <2>3. ASSUME NEW v \in DOMAIN workers, Engaged(v)'
        PROVE  \/ workers'[v].phase = "created"
               \/ /\ workers'[v].phase = "asleep"
                  /\ workers'[v].target \in Nat /\ workers'[v].target >= now'
                  /\ DueAt(v[2], workers[v].target)'
                  /\ workers'[v].target = now' => runs'[v[2]] = 0
    <3>1. Engaged(v) /\ workers'[v] = workers[v]
      BY <1>3, <2>3
    <3>. QED BY <1>1, <2>1, <2>2, <3>1 DEF DueInv, WakesWhenDue
  <2>. QED BY <1>2, <2>3 DEF WakesWhenDue
<1>. QED BY <1>1, <1>4, <1>5 DEF DueInv, RunsOnlyWhenDue, DueAt, now

\* When the clock moves on, whoever is engaged sleeps or has yet to begin.
LEMMA NotWoken ==
    ASSUME TypeInv, DueInv, NEW w \in DOMAIN workers, ~Woken(w), Engaged(w)
    PROVE  \/ workers[w].phase = "created"
           \/ /\ workers[w].phase = "asleep" /\ workers[w].target \in Nat
              /\ workers[w].target > now /\ DueAt(w[2], workers[w].target)
<1>1. CASE workers[w].phase = "created"
  BY <1>1
<1>2. CASE workers[w].phase # "created"
  <2>1. /\ workers[w].phase = "asleep" /\ workers[w].target \in Nat
        /\ DueAt(w[2], workers[w].target)
    BY <1>2 DEF DueInv, WakesWhenDue
  <2>2. ~(workers[w].target =< now)
    BY <2>1 DEF Woken, Engaged
  <2>3. now \in Nat
    BY StateTypes
  <2>. QED BY <2>1, <2>2, <2>3
<1>. QED BY <1>1, <1>2

\* The clock does not pass over what a worker sleeps for.
LEMMA TickWakes ==
    ASSUME TypeInv, DueInv, ShowsDue(Moments), Tick
    PROVE  DueInv'
<1>1. /\ tick < Len(Moments) /\ tick' = tick + 1 /\ runs' = [i \in DOMAIN Jobs |-> 0]
      /\ \A w \in DOMAIN workers : ~Woken(w)
      /\ UNCHANGED <<running, workers, starts, begun>>
  BY DEF Tick
<1>2. /\ tick \in DOMAIN Moments /\ tick + 1 \in DOMAIN Moments
      /\ now \in Nat /\ now' \in Nat /\ now < now'
      /\ now = Moments[tick] /\ now' = Moments[tick + 1]
  BY <1>1, StateTypes, NowType DEF now
<1>3. \A i \in DOMAIN Jobs : begun[i] \in Nat /\ begun[i] \in ToSet(Moments) /\ begun[i] =< now
  BY MomentsInOrder DEF DueInv
<1>4. ASSUME NEW w \in DOMAIN workers, Engaged(w), workers[w].phase # "created"
      PROVE  /\ workers[w].phase = "asleep" /\ workers[w].target \in Nat
             /\ workers[w].target >= now' /\ DueAt(w[2], workers[w].target)
  <2>1. /\ workers[w].phase = "asleep" /\ workers[w].target \in Nat
        /\ workers[w].target > now /\ DueAt(w[2], workers[w].target)
    BY <1>1, <1>4, NotWoken
  <2>2. Due(Jobs[w[2]], begun[w[2]], workers[w].target) /\ w[2] \in DOMAIN Jobs
    BY <2>1, StateTypes DEF DueAt
  <2>3. tick \in 1..(Len(Moments) - 1)
    BY <1>1, <1>2, MomentsAssumption
  <2>4. workers[w].target \notin (Moments[tick] + 1)..(Moments[tick + 1] - 1)
    BY <1>3, <2>2, <2>3, Zenon DEF ShowsDue
  <2>. QED BY <1>2, <2>1, <2>4
<1>5. \A w \in DOMAIN workers : Engaged(w)' <=> Engaged(w)
  BY <1>1 DEF Engaged, Alive
<1>6. OneWorkerPerJob'
  BY <1>1, <1>5 DEF DueInv, OneWorkerPerJob
<1>7. \A w \in DOMAIN workers : w[2] \in DOMAIN Jobs
  BY StateTypes
<1>8. WakesWhenDue'
  BY <1>1, <1>4, <1>5, <1>7 DEF WakesWhenDue, DueAt
<1>9. RunsOnlyWhenDue'
  BY <1>1 DEF RunsOnlyWhenDue
<1>10. \A i \in DOMAIN Jobs : begun'[i] \in ToSet(Moments) /\ begun'[i] =< now'
  BY <1>1, <1>2, <1>3
<1>. QED BY <1>6, <1>8, <1>9, <1>10 DEF DueInv

\* Nobody is engaged at first.
LEMMA InitDueInv == Init => DueInv
<1>. SUFFICES ASSUME Init PROVE DueInv
  OBVIOUS
<1>1. tick \in DOMAIN Moments /\ begun = [i \in DOMAIN Jobs |-> now]
  BY MomentsAssumption DEF Init
<1>2. now \in Nat /\ now \in ToSet(Moments)
  BY <1>1, NowType DEF now
<1>. QED BY <1>1, <1>2 DEF Init, DueInv, OneWorkerPerJob, WakesWhenDue, RunsOnlyWhenDue

\* Every step keeps it.
LEMMA StepDueInv ==
    TypeInv /\ IInv /\ DueInv /\ ShowsDue(Moments) /\ [Next]_vars => DueInv'
<1>. SUFFICES ASSUME TypeInv, IInv, DueInv, ShowsDue(Moments), [Next]_vars PROVE DueInv'
  OBVIOUS
<1>1. CASE Start
  BY <1>1, StartWakes
<1>2. ASSUME NEW c \in Callers, Stop(c) PROVE DueInv'
  BY <1>2, StopDisengages
<1>3. ASSUME NEW c \in Callers, StopResumes(c) PROVE DueInv'
  BY <1>3, DueFrame DEF StopResumes
<1>4. ASSUME NEW w \in Workers, WorkerBegins(w) \/ WorkerFires(w) \/ WorkerEnds(w)
      PROVE  DueInv'
  BY <1>4, BeginWakes, FireWakes, EndDisengages
<1>5. ASSUME NEW e \in Events, EmitEvent(e) PROVE DueInv'
  <2>1. UNCHANGED <<tick, running, workers, starts, begun, runs>>
    BY <1>5 DEF EmitEvent
  <2>. QED BY <2>1, DueFrame
<1>6. ASSUME NEW payload \in ClientCommands, ClientCommand(payload) PROVE DueInv'
  BY <1>6, DueFrame DEF ClientCommand
<1>7. CASE Tick
  BY <1>7, TickWakes
<1>8. CASE UNCHANGED vars
  BY <1>8, DueFrame DEF vars
<1>. QED BY <1>1, <1>2, <1>3, <1>4, <1>5, <1>6, <1>7, <1>8 DEF Next

\* What the workers sleep for is due throughout.
LEMMA DueInvHolds == Spec => [](CalledInTurn /\ ShowsDue(Moments) => IInv /\ DueInv)
<1>. DEFINE H == CalledInTurn /\ ShowsDue(Moments)
            I == H => IInv /\ DueInv
<1>1. Init => I
  BY InitIInv, InitDueInv
<1>2. TypeInv /\ I /\ [Next]_vars => I'
  <2>1. H' = H
    BY DEF CalledInTurn, ShowsDue
  <2>2. TypeInv /\ I /\ [Next]_vars /\ H => IInv' /\ DueInv'
    BY StepIInv, StepDueInv
  <2>. QED BY <2>1, <2>2
<1>. HIDE DEF I
<1>3. Spec => []I
  BY <1>1, <1>2, TypesHold, PTL DEF Spec
<1>. QED BY <1>3, PTL DEF I

\* With a clock that shows every instant at which a program is due, a program
\* runs only at such an instant, and once: it wakes from its sleep neither
\* early nor late, does not run twice when it computes its next time, and
\* not at all behind a stop() or beside the worker of a later start().
THEOREM ProgramsRunOnlyWhenDue ==
    Spec => [](CalledInTurn /\ ShowsDue(Moments) => RunsOnlyWhenDue)
<1>1. (CalledInTurn /\ ShowsDue(Moments) => IInv /\ DueInv)
          => (CalledInTurn /\ ShowsDue(Moments) => RunsOnlyWhenDue)
  BY DEF DueInv
<1>. QED BY <1>1, DueInvHolds, PTL
-----------------------------------------------------------------------------
(* Nothing that is due is missed.                                          *)

\* What is required of the worker of a job, while the engine runs.
Attends(i) ==
    LET worker == workers[<<starts, i>>] IN
    /\ i \in owed => \/ worker.phase = "asleep" /\ worker.target = now
                     \/ worker.phase # "created" /\ runs[i] = 1
    /\ worker.phase = "asleep" =>
           \A u \in Later : DueAt(i, u) => worker.target =< u
    /\ worker.phase = "ended" => \A u \in Later : ~DueAt(i, u)

LEMMA NothingMissedByJob ==
    NothingMissed <=> (~running => owed = {}) /\ (running => \A i \in DOMAIN Jobs : Attends(i))
BY DEF NothingMissed, Attends

\* A step that does not touch the job's worker keeps what is required of it.
LEMMA AttendsFrame ==
    ASSUME NEW i, Attends(i), UNCHANGED <<tick, starts, owed>>,
           begun'[i] = begun[i], workers'[<<starts, i>>] = workers[<<starts, i>>], runs'[i] = runs[i]
    PROVE  Attends(i)'
BY DEF Attends, Later, LastMoment, DueAt, now

\* A worker that goes back to rest attends to what is due later.
LEMMA RestAttends ==
    ASSUME SchedulesRecur, TypeInv, DueInv, NEW w \in DOMAIN workers, Engaged(w), Rest(w),
           NEW since \in Nat, begun'[w[2]] = since,
           now = since \/ Due(JobOf(w), since, now),
           UNCHANGED <<tick, starts, owed>>,
           w[2] \notin owed \/ runs'[w[2]] = 1
    PROVE  Attends(w[2])'
<1>. DEFINE next == NextFire(JobOf(w), now)
            i == w[2]
<1>1. i \in DOMAIN Jobs /\ now \in Nat /\ now \in ToSet(Moments) /\ w = <<w[1], w[2]>>
  BY StateTypes
<1>2. w = <<starts, i>>
  BY <1>1 DEF DueInv, OneWorkerPerJob
<1>3. FindsFirst(next, now, {u \in DueInstants(i, since) : u =< LastMoment})
  BY <1>1, NextFireFindsFirst DEF JobOf
<1>4. LastMoment \in Nat
  BY <1>1, MomentsInOrder
<1>5. \A u \in Later : Due(Jobs[i], since, u) => next \notin {NoFire, ValueError} /\ next =< u
  <2>1. \A u \in Later : u \in Nat /\ u > now /\ u =< LastMoment
    BY <1>1, <1>4 DEF Later
  <2>. QED BY <1>3, <2>1 DEF FindsFirst, DueInstants
<1>6. /\ now' = now /\ Later' = Later
      /\ \A u : DueAt(i, u)' <=> Due(Jobs[i], since, u)
  BY DEF now, Later, LastMoment, DueAt
<1>7. workers' = [workers EXCEPT ![w] = IF next \in {NoFire, ValueError}
                                         THEN Ended ELSE Asleep(next)]
  BY Zenon DEF Rest
<1>. HIDE DEF next, i
<1>8. CASE next \in {NoFire, ValueError}
  <2>1. workers'[w] = Ended
    BY <1>7, <1>8
  <2>2. \A u \in Later : ~Due(Jobs[i], since, u)
    BY <1>5, <1>8
  <2>3. workers'[w].phase = "ended"
    BY <2>1 DEF Ended
  <2>. QED BY <1>2, <1>6, <2>2, <2>3 DEF Attends, i
<1>9. CASE next \notin {NoFire, ValueError}
  <2>1. workers'[w] = Asleep(next)
    BY <1>7, <1>9
  <2>2. workers'[w].phase = "asleep" /\ workers'[w].target = next
    BY <2>1 DEF Asleep
  <2>. QED BY <1>2, <1>5, <1>6, <2>2 DEF Attends, i
<1>. QED BY <1>8, <1>9

\* A step that changes nothing of this keeps it.
LEMMA MissedFrame ==
    ASSUME NothingMissed, UNCHANGED <<tick, running, workers, starts, begun, owed, runs>>
    PROVE  NothingMissed'
BY DEF NothingMissed, Later, LastMoment, DueAt, now

\* start() begins at an instant that owes nothing.
LEMMA StartMissesNothing ==
    ASSUME TypeInv, NothingMissed, Start
    PROVE  NothingMissed'
<1>1. /\ owed' = {} /\ running' = TRUE /\ starts' = starts + 1
      /\ workers' = [w \in DOMAIN workers \cup ToSet(NewTasks) |->
                        IF w \in DOMAIN workers THEN workers[w] ELSE Created]
  BY DEF Start, NothingMissed
<1>2. ASSUME NEW i \in DOMAIN Jobs PROVE Attends(i)'
  <2>1. <<starts + 1, i>> \notin DOMAIN workers
    BY StateTypes
  <2>2. <<starts + 1, i>> \in ToSet(NewTasks)
    BY DEF NewTasks, ToSet
  <2>3. workers'[<<starts', i>>].phase = "created"
    BY <1>1, <2>1, <2>2 DEF Created
  <2>. QED BY <1>1, <2>3 DEF Attends
<1>. QED BY <1>1, <1>2, Zenon DEF NothingMissed, Attends

\* A worker that begins or fires attends to its own job, and to no other.
LEMMA WorkerMissesNothing ==
    ASSUME SchedulesRecur, TypeInv, DueInv, NothingMissed,
           NEW w, WorkerBegins(w) \/ WorkerFires(w)
    PROVE  NothingMissed'
<1>1. /\ w \in DOMAIN workers /\ Engaged(w) /\ Rest(w) /\ running
      /\ UNCHANGED <<tick, running, starts, owed>>
  BY DEF WorkerBegins, WorkerFires, Engaged, Runnable, Alive
<1>2. w = <<starts, w[2]>> /\ w[2] \in DOMAIN Jobs
  BY <1>1, StateTypes DEF DueInv, OneWorkerPerJob
<1>3. /\ \E since \in Nat : begun'[w[2]] = since /\ (now = since \/ Due(JobOf(w), since, now))
      /\ w[2] \notin owed \/ runs'[w[2]] = 1
      /\ \A i \in DOMAIN Jobs \ {w[2]} : runs'[i] = runs[i] /\ begun'[i] = begun[i]
  <2>0. begun \in [DOMAIN Jobs -> ToSet(Moments)] /\ now \in Nat
    BY StateTypes DEF TypeInv, CounterTypes
  <2>1. CASE WorkerBegins(w)
    <3>1. /\ workers[w].phase = "created" /\ runs' = runs
          /\ begun' = [begun EXCEPT ![w[2]] = now]
      BY <2>1 DEF WorkerBegins
    <3>2. begun'[w[2]] = now /\ \A i \in DOMAIN Jobs \ {w[2]} : begun'[i] = begun[i]
      BY <1>2, <2>0, <3>1
    <3>3. w[2] \notin owed
      BY <1>1, <1>2, <3>1 DEF NothingMissed
    <3>. QED BY <2>0, <3>1, <3>2, <3>3
  <2>2. CASE WorkerFires(w)
    <3>1. DueAt(w[2], now) /\ runs' = [runs EXCEPT ![w[2]] = 1]
      BY <2>2, FiresNow
    <3>2. begun' = begun /\ begun[w[2]] \in Nat
      BY <1>2, <2>0, <2>2, MomentsInOrder DEF WorkerFires
    <3>3. Due(JobOf(w), begun[w[2]], now)
      BY <3>1 DEF DueAt, JobOf
    <3>. QED BY <1>2, <3>1, <3>2, <3>3, StateTypes
  <2>. QED BY <2>1, <2>2
<1>4. Attends(w[2])'
  <2>1. PICK since \in Nat : begun'[w[2]] = since /\ (now = since \/ Due(JobOf(w), since, now))
    BY <1>3
  <2>. QED BY <1>1, <1>3, <2>1, RestAttends
<1>5. \A v \in DOMAIN workers : v # w => workers'[v] = workers[v]
  BY DEF WorkerBegins, WorkerFires, Rest
<1>6. ASSUME NEW i \in DOMAIN Jobs, i # w[2] PROVE Attends(i)'
  <2>1. <<starts, i>> \in DOMAIN workers
    BY <1>1 DEF DueInv, OneWorkerPerJob
  <2>2. <<starts, i>> # w
    BY <1>2, <1>6
  <2>3. workers'[<<starts, i>>] = workers[<<starts, i>>]
    BY <1>5, <2>1, <2>2
  <2>4. runs'[i] = runs[i] /\ begun'[i] = begun[i] /\ Attends(i)
    BY <1>1, <1>3, <1>6, NothingMissedByJob
  <2>. QED BY <1>1, <2>3, <2>4, AttendsFrame
<1>7. \A i \in DOMAIN Jobs : Attends(i)'
  BY <1>4, <1>6
<1>. QED BY <1>1, <1>7, Zenon DEF NothingMissed, Attends

\* Only workers that are cancelled end, or behind a stop().
LEMMA EndMissesNothing ==
    ASSUME TypeInv, DueInv, NothingMissed, NEW w, WorkerEnds(w)
    PROVE  NothingMissed'
<1>1. /\ workers' = [workers EXCEPT ![w] = Ended]
      /\ workers[w].cancelled \/ ~running
      /\ UNCHANGED <<tick, running, starts, begun, owed, runs>>
  BY DEF WorkerEnds
<1>2. ASSUME running, NEW i \in DOMAIN Jobs PROVE Attends(i)'
  <2>1. <<starts, i>> \in DOMAIN workers /\ ~workers[<<starts, i>>].cancelled
    BY <1>2 DEF DueInv, OneWorkerPerJob
  <2>2. <<starts, i>> # w
    BY <1>1, <1>2, <2>1
  <2>3. \A v \in DOMAIN workers : v # w => workers'[v] = workers[v]
    BY <1>1
  <2>4. Attends(i)
    BY <1>2, NothingMissedByJob
  <2>. QED BY <1>1, <2>1, <2>2, <2>3, <2>4, AttendsFrame
<1>3. ~running' => owed' = {}
  BY <1>1 DEF NothingMissed
<1>. QED BY <1>1, <1>2, <1>3, Zenon DEF NothingMissed, Attends

\* The clock moves on when no sleeper is about to run, and what is due then is
\* what a worker sleeps for, or one that has yet to begin.
LEMMA TickMissesNothing ==
    ASSUME TypeInv, DueInv, DueInv', NothingMissed, Tick
    PROVE  NothingMissed'
<1>1. /\ tick < Len(Moments) /\ tick' = tick + 1 /\ runs' = [i \in DOMAIN Jobs |-> 0]
      /\ owed' = {i \in DOMAIN Jobs :
                     running /\ HasBegun(<<starts, i>>) /\ DueAt(i, Moments[tick + 1])}
      /\ UNCHANGED <<running, workers, starts, begun>>
  BY DEF Tick
<1>2. /\ now \in Nat /\ now' \in Nat /\ now < now' /\ now' = Moments[tick + 1]
      /\ LastMoment \in Nat /\ now' =< LastMoment
  <2>1. /\ tick + 1 \in DOMAIN Moments /\ now \in Nat /\ now < Moments[tick + 1]
        /\ Moments[tick + 1] \in ToSet(Moments) /\ now' = Moments[tick + 1]
    BY <1>1, StateTypes, NowType DEF now
  <2>. QED BY <2>1, MomentsInOrder
<1>3. Later' \subseteq Later /\ now' \in Later
  <2>1. Later = (now + 1)..LastMoment /\ Later' = (now' + 1)..LastMoment
    BY DEF Later, LastMoment
  <2>. QED BY <1>2, <2>1
<1>4. ASSUME running, NEW i \in DOMAIN Jobs PROVE Attends(i)'
  <2>. DEFINE w == <<starts, i>>
  <2>1. w \in DOMAIN workers /\ ~workers[w].cancelled /\ JobOf(w) = Jobs[i]
    BY <1>4 DEF DueInv, OneWorkerPerJob, JobOf
  <2>2. Attends(i)
    BY <1>4, NothingMissedByJob
  <2>3. \A u : DueAt(i, u)' <=> DueAt(i, u)
    BY <1>1 DEF DueAt
  <2>4. workers[w].phase \in {"created", "asleep", "ended"}
    BY <2>1, StateTypes
  <2>5. i \in owed' => DueAt(i, now') /\ workers[w].phase # "created"
    BY <1>1, <1>2 DEF HasBegun
  <2>6. CASE workers[w].phase = "asleep"
    <3>1. workers[w].target \in Nat /\ workers[w].target >= now'
      <4>1. Engaged(w)'
        BY <1>1, <2>1, <2>6 DEF Engaged, Alive
      <4>. QED BY <1>1, <2>1, <2>6, <4>1 DEF DueInv, WakesWhenDue
    <3>2. \A u \in Later : DueAt(i, u) => workers[w].target =< u
      BY <2>2, <2>6 DEF Attends
    <3>3. i \in owed' => workers[w].target = now'
      BY <1>2, <1>3, <2>5, <3>1, <3>2
    <3>. QED BY <1>1, <1>3, <2>3, <2>6, <3>2, <3>3 DEF Attends
  <2>7. CASE workers[w].phase = "ended"
    <3>1. \A u \in Later : ~DueAt(i, u)
      BY <2>2, <2>7 DEF Attends
    <3>2. i \notin owed'
      BY <1>3, <2>5, <3>1
    <3>. QED BY <1>1, <1>3, <2>3, <2>7, <3>1, <3>2 DEF Attends
  <2>8. CASE workers[w].phase = "created"
    BY <1>1, <2>5, <2>8 DEF Attends
  <2>. QED BY <2>4, <2>6, <2>7, <2>8
<1>5. ~running' => owed' = {}
  BY <1>1
<1>. QED BY <1>1, <1>4, <1>5, Zenon DEF NothingMissed, Attends

\* Every step keeps it.
LEMMA StepMissesNothing ==
    SchedulesRecur /\ TypeInv /\ DueInv /\ DueInv' /\ NothingMissed /\ [Next]_vars
        => NothingMissed'
<1>. SUFFICES ASSUME SchedulesRecur, TypeInv, DueInv, DueInv', NothingMissed, [Next]_vars
              PROVE  NothingMissed'
  OBVIOUS
<1>1. CASE Start
  BY <1>1, StartMissesNothing
<1>2. ASSUME NEW c \in Callers, Stop(c) PROVE NothingMissed'
  BY <1>2 DEF Stop, NothingMissed
<1>3. ASSUME NEW c \in Callers, StopResumes(c) PROVE NothingMissed'
  BY <1>3, MissedFrame DEF StopResumes
<1>4. ASSUME NEW w \in Workers, WorkerBegins(w) \/ WorkerFires(w) \/ WorkerEnds(w)
      PROVE  NothingMissed'
  BY <1>4, WorkerMissesNothing, EndMissesNothing
<1>5. ASSUME NEW e \in Events, EmitEvent(e) PROVE NothingMissed'
  <2>1. UNCHANGED <<tick, running, workers, starts, begun, owed, runs>>
    BY <1>5 DEF EmitEvent
  <2>. QED BY <2>1, MissedFrame
<1>6. ASSUME NEW payload \in ClientCommands, ClientCommand(payload) PROVE NothingMissed'
  BY <1>6, MissedFrame DEF ClientCommand
<1>7. CASE Tick
  BY <1>7, TickMissesNothing
<1>8. CASE UNCHANGED vars
  BY <1>8, MissedFrame DEF vars
<1>. QED BY <1>1, <1>2, <1>3, <1>4, <1>5, <1>6, <1>7, <1>8 DEF Next

\* What was due at this moment has run, once no sleeper is about to run.
LEMMA OwedHasRun == TypeInv /\ DueInv /\ NothingMissed => DueHasRun
<1>. SUFFICES ASSUME TypeInv, DueInv, NothingMissed, \A w \in DOMAIN workers : ~Woken(w),
                     NEW i \in owed
              PROVE  runs[i] = 1
  BY DEF DueHasRun
<1>1. running /\ i \in DOMAIN Jobs
  BY StateTypes DEF NothingMissed
<1>2. <<starts, i>> \in DOMAIN workers /\ ~workers[<<starts, i>>].cancelled
  BY <1>1 DEF DueInv, OneWorkerPerJob
<1>3. \/ workers[<<starts, i>>].phase = "asleep" /\ workers[<<starts, i>>].target = now
      \/ runs[i] = 1
  BY <1>1, NothingMissedByJob DEF Attends
<1>4. now =< now
  BY StateTypes
<1>. QED BY <1>2, <1>3, <1>4 DEF Woken, Alive

\* Nothing is missed throughout.
LEMMA NothingMissedHolds ==
    Spec => [](CalledInTurn /\ ShowsDue(Moments) /\ SchedulesRecur => DueInv /\ NothingMissed)
<1>. DEFINE H == CalledInTurn /\ ShowsDue(Moments)
            I == H => IInv /\ DueInv
            J == H /\ SchedulesRecur => NothingMissed
<1>1. Init => J
  BY DEF Init, NothingMissed
<1>2. TypeInv /\ I /\ I' /\ J /\ [Next]_vars => J'
  <2>1. H' = H /\ SchedulesRecur' = SchedulesRecur
    BY DEF CalledInTurn, ShowsDue, SchedulesRecur, DatesRecur, SunStaysInDay, LastMoment
  <2>. QED BY <2>1, StepMissesNothing
<1>3. I /\ J => (H /\ SchedulesRecur => DueInv /\ NothingMissed)
  OBVIOUS
<1>4. Spec => []I
  BY DueInvHolds, PTL
<1>. HIDE DEF I, J, H
<1>5. Spec => []J
  BY <1>1, <1>2, <1>4, TypesHold, PTL DEF Spec
<1>. QED BY <1>3, <1>4, <1>5, PTL DEF H

\* With a clock that shows every instant at which a program is due, dates
\* that recur and sun events that stay in their day, every program whose worker
\* has begun runs when it is due, before the clock goes on, and no program runs
\* at another time, or twice: it is not lost over a midnight, a week, a year or
\* its own firing.  What falls due between a start() and the first step of the
\* worker that it creates is not run.
THEOREM ProgramsFireWhenDue ==
    Spec => [](CalledInTurn /\ ShowsDue(Moments) /\ SchedulesRecur => FiresWhenDue)
<1>. DEFINE H == CalledInTurn /\ ShowsDue(Moments) /\ SchedulesRecur
<1>1. TypeInv /\ (H => DueInv /\ NothingMissed) => (H => FiresWhenDue)
  BY OwedHasRun DEF FiresWhenDue, DueInv
<1>. HIDE DEF H
<1>2. Spec => [](H => DueInv /\ NothingMissed)
  BY NothingMissedHolds DEF H
<1>3. Spec => [](H => FiresWhenDue)
  BY <1>1, <1>2, TypesHold, PTL
<1>. QED BY <1>3 DEF H

-----------------------------------------------------------------------------
(* What an event fires.                                                    *)

\* What has fired after the first n jobs of a table.
After(st, table, after, n) ==
    IF n = 0 THEN [panel |-> st, fired |-> <<>>] ELSE FireNext(after[n - 1], table[n])

\* The jobs of a table can be gone through one after the other.
LEMMA EmissionGoesThrough ==
    ASSUME NEW st, NEW table, Len(table) \in Nat
    PROVE  \E after : /\ after = [n \in 0..Len(table) |-> After(st, table, after, n)]
                      /\ Emission(st, table) = after[Len(table)]
<1>. DEFINE Goes(after, m) == after = [n \in 0..m |-> After(st, table, after, n)]
            Stuck == {m \in Nat : ~ \E after : Goes(after, m)}
<1>1. Stuck = {}
  <2>. SUFFICES ASSUME Stuck # {} PROVE FALSE
    OBVIOUS
  <2>1. PICK m \in Stuck : \A x \in Stuck : m =< x
    BY LeastExists
  <2>2. CASE m = 0
    <3>. DEFINE a == [n \in 0..0 |-> [panel |-> st, fired |-> <<>>]]
    <3>1. Goes(a, 0)
      BY DEF After
    <3>. QED BY <2>1, <2>2, <3>1
  <2>3. CASE m # 0
    <3>1. m - 1 \in Nat /\ m - 1 \notin Stuck /\ m \in Nat
      BY <2>1, <2>3
    <3>2. PICK b : Goes(b, m - 1)
      BY <3>1
    <3>. DEFINE a == [n \in 0..m |-> IF n = m THEN FireNext(b[m - 1], table[m]) ELSE b[n]]
    <3>3. \A n \in 0..m : a[n] = After(st, table, a, n)
      <4>. SUFFICES ASSUME NEW n \in 0..m PROVE a[n] = After(st, table, a, n)
        OBVIOUS
      <4>1. CASE n = m
        <5>1. a[m - 1] = b[m - 1] /\ a[m] = FireNext(b[m - 1], table[m])
          BY <3>1
        <5>. HIDE DEF a
        <5>. QED BY <2>3, <4>1, <5>1 DEF After
      <4>2. CASE n # m /\ n # 0
        <5>1. n \in 0..(m - 1) /\ n - 1 \in 0..m /\ n - 1 # m
          BY <3>1, <4>2
        <5>2. a[n] = b[n] /\ a[n - 1] = b[n - 1]
          BY <4>2, <5>1
        <5>3. b[n] = After(st, table, b, n)
          BY <3>2, <5>1
        <5>. HIDE DEF a
        <5>. QED BY <4>2, <5>2, <5>3 DEF After
      <4>3. CASE n = 0
        <5>1. 0 \in 0..(m - 1) /\ 0 # m
          BY <3>1, <2>3
        <5>2. a[0] = b[0]
          BY <5>1
        <5>3. b[0] = After(st, table, b, 0)
          BY <3>2, <5>1
        <5>. HIDE DEF a
        <5>. QED BY <4>3, <5>2, <5>3 DEF After
      <4>. QED BY <4>1, <4>2, <4>3
    <3>4. a = [n \in 0..m |-> a[n]]
      OBVIOUS
    <3>. HIDE DEF a
    <3>5. Goes(a, m)
      BY <3>3, <3>4
    <3>. QED BY <2>1, <3>5
  <2>. QED BY <2>2, <2>3
<1>2. PICK h : Goes(h, Len(table))
  BY <1>1
<1>. DEFINE g == CHOOSE g : g = [n \in 0..Len(table) |-> After(st, table, g, n)]
<1>3. g = [n \in 0..Len(table) |-> After(st, table, g, n)]
  BY <1>2
<1>4. Emission(st, table) = g[Len(table)]
  BY Zenon DEF Emission, After
<1>. HIDE DEF g
<1>. QED BY <1>3, <1>4

\* What fired of the first m jobs, the first n of which have no conditions.
FiredOf(fired, table, n, m) ==
    /\ fired \in Seq(Nat) /\ Len(fired) =< m
    /\ \A k \in 1..Len(fired) : \E i \in 1..m : fired[k] = table[i].slot
    /\ \A k, l \in 1..Len(fired) : fired[k] = fired[l] => k = l
    /\ \A i \in 1..n : i =< m => i =< Len(fired) /\ fired[i] = table[i].slot

LEMMA NoConditionsPass ==
    ASSUME NEW st, NEW chain, chain.conditions = <<>>
    PROVE  Passes(st, chain)
<1>1. DOMAIN chain.conditions = {}
  OBVIOUS
<1>2. \A satisfied : EvaluateConditions(chain.conditions, satisfied)
  BY <1>1 DEF EvaluateConditions
<1>. QED BY <1>2 DEF Passes

\* A job fires once what fired before it left, or is passed over.
LEMMA FireNextKeeps ==
    ASSUME NEW table, NEW n \in Nat, NEW m \in Nat, m # 0, NEW done,
           FiredOf(done.fired, table, n, m - 1),
           \A i \in 1..m : table[i].slot \in Nat,
           \A i, j \in 1..m : table[i].slot = table[j].slot => i = j,
           m =< n => table[m].chain.conditions = <<>>
    PROVE  FiredOf(FireNext(done, table[m]).fired, table, n, m)
<1>. DEFINE f == done.fired
            job == table[m]
<1>1. /\ f \in Seq(Nat) /\ Len(f) \in Nat /\ Len(f) =< m - 1
      /\ \A k \in 1..Len(f) : \E i \in 1..(m - 1) : f[k] = table[i].slot
      /\ \A k, l \in 1..Len(f) : f[k] = f[l] => k = l
      /\ \A i \in 1..n : i =< m - 1 => i =< Len(f) /\ f[i] = table[i].slot
  BY DEF FiredOf
<1>2. CASE Passes(done.panel, job.chain)
  <2>. DEFINE g == Append(f, job.slot)
  <2>1. FireNext(done, job).fired = g
    BY <1>2 DEF FireNext
  <2>2. job.slot \in Nat
    OBVIOUS
  <2>. HIDE DEF f
  <2>3. /\ g \in Seq(Nat) /\ Len(g) = Len(f) + 1 /\ g[Len(f) + 1] = job.slot
        /\ \A k \in 1..Len(f) : g[k] = f[k]
    BY <1>1, <2>2
  <2>. HIDE DEF g
  <2>4. \A k \in 1..Len(f) : f[k] # job.slot
    <3>. SUFFICES ASSUME NEW k \in 1..Len(f), f[k] = job.slot PROVE FALSE
      OBVIOUS
    <3>1. PICK i \in 1..(m - 1) : f[k] = table[i].slot
      BY <1>1
    <3>2. i \in 1..m /\ m \in 1..m /\ i # m
      OBVIOUS
    <3>. QED BY <3>1, <3>2
  <2>5. \A k \in 1..Len(g) : \E i \in 1..m : g[k] = table[i].slot
    <3>. SUFFICES ASSUME NEW k \in 1..Len(g) PROVE \E i \in 1..m : g[k] = table[i].slot
      OBVIOUS
    <3>1. CASE k \in 1..Len(f)
      <4>1. PICK i \in 1..(m - 1) : f[k] = table[i].slot
        BY <1>1, <3>1
      <4>2. i \in 1..m
        OBVIOUS
      <4>. QED BY <2>3, <3>1, <4>1, <4>2
    <3>2. CASE k = Len(f) + 1
      <4>1. m \in 1..m
        OBVIOUS
      <4>. QED BY <2>3, <3>2, <4>1
    <3>. QED BY <1>1, <2>3, <3>1, <3>2
  <2>6. \A k, l \in 1..Len(g) : g[k] = g[l] => k = l
    <3>. SUFFICES ASSUME NEW k \in 1..Len(g), NEW l \in 1..Len(g), g[k] = g[l]
                  PROVE  k = l
      OBVIOUS
    <3>. HIDE DEF job
    <3>1. /\ k \in 1..Len(f) \/ k = Len(f) + 1
          /\ l \in 1..Len(f) \/ l = Len(f) + 1
      BY <1>1, <2>3
    <3>2. CASE k \in 1..Len(f) /\ l \in 1..Len(f)
      <4>1. f[k] = f[l]
        BY <2>3, <3>2
      <4>. QED BY <1>1, <3>2, <4>1
    <3>3. ~(k \in 1..Len(f) /\ l = Len(f) + 1)
      BY <2>3, <2>4
    <3>4. ~(l \in 1..Len(f) /\ k = Len(f) + 1)
      BY <2>3, <2>4
    <3>. QED BY <3>1, <3>2, <3>3, <3>4
  <2>7. ASSUME NEW i \in 1..n, i =< m
        PROVE  i =< Len(g) /\ g[i] = table[i].slot
    <3>1. CASE i =< m - 1
      <4>1. i =< Len(f) /\ f[i] = table[i].slot
        BY <1>1, <3>1
      <4>2. i \in 1..Len(f)
        BY <1>1, <4>1
      <4>. QED BY <1>1, <2>3, <4>1, <4>2
    <3>2. CASE i = m
      <4>1. Len(f) = m - 1
        <5>1. CASE m = 1
          BY <1>1, <5>1
        <5>2. CASE m # 1
          <6>1. m - 1 \in 1..n
            BY <2>7, <3>2, <5>2
          <6>2. m - 1 =< Len(f)
            BY <1>1, <6>1
          <6>. QED BY <1>1, <6>2
        <5>. QED BY <5>1, <5>2
      <4>. QED BY <2>3, <3>2, <4>1
    <3>. QED BY <2>7, <3>1, <3>2
  <2>8. Len(g) =< m
    BY <1>1, <2>3
  <2>. QED BY <2>1, <2>3, <2>5, <2>6, <2>7, <2>8 DEF FiredOf
<1>3. CASE ~Passes(done.panel, job.chain)
  <2>1. FireNext(done, job).fired = f
    BY <1>3 DEF FireNext
  <2>2. ~(m =< n)
    BY <1>3, NoConditionsPass
  <2>3. \A i \in 1..(m - 1) : i \in 1..m
    OBVIOUS
  <2>4. \A k \in 1..Len(f) : \E i \in 1..m : f[k] = table[i].slot
    BY <1>1, <2>3
  <2>5. \A i \in 1..n : i =< m - 1
    BY <2>2
  <2>. HIDE DEF f
  <2>6. \A i \in 1..n : i =< Len(f) /\ f[i] = table[i].slot
    BY <1>1, <2>5
  <2>7. Len(f) =< m
    BY <1>1
  <2>. QED BY <1>1, <2>1, <2>4, <2>6, <2>7 DEF FiredOf
<1>. QED BY <1>2, <1>3

\* An event fires jobs of its table, each once, and first those without conditions.
LEMMA EmissionFires ==
    ASSUME NEW st, NEW table, Len(table) \in Nat, NEW n \in 0..Len(table),
           \A i \in 1..Len(table) : table[i].slot \in Nat,
           \A i, j \in 1..Len(table) : table[i].slot = table[j].slot => i = j,
           \A i \in 1..n : table[i].chain.conditions = <<>>
    PROVE  FiredOf(Emission(st, table).fired, table, n, Len(table))
<1>1. PICK after : /\ after = [m \in 0..Len(table) |-> After(st, table, after, m)]
                   /\ Emission(st, table) = after[Len(table)]
  BY EmissionGoesThrough
<1>. DEFINE Wrong == {m \in 0..Len(table) : ~FiredOf(after[m].fired, table, n, m)}
<1>2. Wrong = {}
  <2>. SUFFICES ASSUME Wrong # {} PROVE FALSE
    OBVIOUS
  <2>1. PICK m \in Wrong : \A x \in Wrong : m =< x
    <3>1. Wrong \in SUBSET Nat
      OBVIOUS
    <3>. HIDE DEF Wrong
    <3>. QED BY <3>1, LeastExists
  <2>2. m \in 0..Len(table) /\ ~FiredOf(after[m].fired, table, n, m)
    OBVIOUS
  <2>3. after[m] = After(st, table, after, m)
    BY <1>1, <2>2
  <2>4. CASE m = 0
    <3>1. after[m].fired = <<>>
      BY <2>3, <2>4 DEF After
    <3>2. FiredOf(<<>>, table, n, 0)
      BY DEF FiredOf
    <3>. QED BY <2>2, <2>4, <3>1, <3>2
  <2>5. CASE m # 0
    <3>1. m \in Nat /\ m - 1 \in 0..Len(table) /\ ~(m =< m - 1) /\ n \in Nat
      BY <2>2, <2>5
    <3>2. FiredOf(after[m - 1].fired, table, n, m - 1)
      BY <2>1, <3>1
    <3>3. \A i \in 1..m : i \in 1..Len(table)
      BY <2>2
    <3>4. m =< n => m \in 1..n
      BY <2>5, <3>1
    <3>5. FiredOf(FireNext(after[m - 1], table[m]).fired, table, n, m)
      BY <2>5, <3>1, <3>2, <3>3, <3>4, FireNextKeeps
    <3>. QED BY <2>2, <2>3, <2>5, <3>5 DEF After
  <2>. QED BY <2>4, <2>5
<1>3. Len(table) \in 0..Len(table)
  OBVIOUS
<1>. QED BY <1>1, <1>2, <1>3

\* The compact programs that wait for an event, each without conditions.
LEMMA CompactSubscribers ==
    ASSUME NEW e
    PROVE  LET waiting == Compact(e)
               slots == {p.slot : p \in {q \in ToSet(Classify(Programs).event) :
                                             EventId(q.rec) = e}} IN
           /\ Len(waiting) \in Nat
           /\ \A k \in 1..Len(waiting) : waiting[k].chain.conditions = <<>>
           /\ slots = {waiting[k].slot : k \in 1..Len(waiting)}
           /\ Cardinality(slots) = Len(waiting)
<1>. DEFINE programs == OfType(Programs, {ProgramType.EVENT})
            jobs == JobsOf("event", programs)
            waiting == WaitingFor(e, jobs)
            n == Len(waiting)
            slots == {p.slot : p \in {q \in ToSet(programs) : EventId(q.rec) = e}}
<1>1. programs = Classify(Programs).event /\ waiting = Compact(e)
  BY DEF Classify, Compact
<1>2. JobList(jobs, "event", {ProgramType.EVENT})
  BY CompactJobs
<1>3. /\ JobList(waiting, "event", {ProgramType.EVENT})
      /\ \A k \in DOMAIN waiting : /\ EventId(waiting[k].head) = e
                                   /\ \E i \in DOMAIN jobs : waiting[k] = jobs[i]
      /\ \A i \in DOMAIN jobs : EventId(jobs[i].head) = e =>
             \E k \in DOMAIN waiting : waiting[k] = jobs[i]
  <2>. HIDE DEF jobs
  <2>. QED BY <1>2, WaitingJobs
<1>4. /\ DOMAIN jobs = DOMAIN programs
      /\ \A i \in DOMAIN programs : /\ jobs[i].slot = programs[i].slot
                                    /\ jobs[i].head = programs[i].rec
                                    /\ jobs[i].chain.conditions = <<>>
  <2>. HIDE DEF programs
  <2>. QED BY DEF JobsOf, Job, Single
<1>. HIDE DEF jobs, waiting, programs
<1>5. /\ n \in Nat /\ DOMAIN waiting = 1..n
      /\ \A k, l \in 1..n : waiting[k].slot = waiting[l].slot => k = l
  BY <1>3 DEF JobList
<1>6. \A k \in 1..n : waiting[k].chain.conditions = <<>>
  BY <1>3, <1>4, <1>5
<1>7. slots = {waiting[k].slot : k \in 1..n}
  <2>1. ASSUME NEW k \in 1..n PROVE waiting[k].slot \in slots
    <3>1. PICK i \in DOMAIN jobs : waiting[k] = jobs[i]
      BY <1>3, <1>5
    <3>2. programs[i] \in ToSet(programs)
      BY <1>4, <3>1 DEF ToSet
    <3>3. EventId(programs[i].rec) = e /\ waiting[k].slot = programs[i].slot
      BY <1>3, <1>4, <1>5, <3>1
    <3>. QED BY <3>2, <3>3
  <2>2. ASSUME NEW q \in ToSet(programs), EventId(q.rec) = e
        PROVE  \E k \in 1..n : q.slot = waiting[k].slot
    <3>1. PICK i \in DOMAIN programs : q = programs[i]
      BY DEF ToSet
    <3>. QED BY <1>3, <1>4, <1>5, <2>2, <3>1
  <2>. QED BY <2>1, <2>2
<1>8. Cardinality(slots) = n
  <2>. DEFINE slotOf == [k \in 1..n |-> waiting[k].slot]
  <2>. HIDE DEF n
  <2>1. slotOf \in [1..n -> slots]
    BY <1>7
  <2>2. slotOf \in Bijection(1..n, slots)
    BY <1>5, <1>7, <2>1 DEF Bijection, Injection, Surjection, IsInjective
  <2>3. ExistsBijection(1..n, slots)
    BY <2>2 DEF ExistsBijection
  <2>. HIDE DEF slots
  <2>. QED BY <1>5, <2>3, FS_CountingElements
<1>. HIDE DEF slots
<1>9. slots = {p.slot : p \in {q \in ToSet(Classify(Programs).event) : EventId(q.rec) = e}}
  BY <1>1 DEF slots
<1>10. /\ Len(Compact(e)) \in Nat
       /\ \A k \in 1..Len(Compact(e)) : Compact(e)[k].chain.conditions = <<>>
       /\ slots = {Compact(e)[k].slot : k \in 1..Len(Compact(e))}
       /\ Cardinality(slots) = Len(Compact(e))
  BY <1>1, <1>5, <1>6, <1>7, <1>8, Zenon
<1>. QED BY <1>9, <1>10, Zenon

\* An event fires its subscribers.
LEMMA EmitsToSubscribers ==
    ASSUME NEW e \in Events, EmitEvent(e), EventInv
    PROVE  EventFiresSubscribers'
<1>. DEFINE table == Subscribers(e)
            fired == Emission(panel, table).fired
            n == Len(Compact(e))
            slots == {p.slot : p \in {q \in ToSet(Classify(Programs).event) :
                                          EventId(q.rec) = e}}
            EventOf(slot) == EventId((CHOOSE p \in ToSet(Programs) : p.slot = slot).rec)
<1>1. emitted' = [event |-> e, fired |-> fired]
  BY DEF EmitEvent, EventInv, EventTable
<1>2. /\ Len(table) \in Nat /\ DOMAIN table = 1..Len(table) /\ n \in 0..Len(table)
      /\ \A i \in 1..n : table[i] = Compact(e)[i]
      /\ \A i \in 1..Len(table) : \E types : InTable(table[i].slot, table[i].head, types)
      /\ \A i \in 1..Len(table) : EventId(table[i].head) = e
      /\ \A i, j \in 1..Len(table) : table[i].slot = table[j].slot => i = j
  BY SubscribersList
<1>3. /\ \A k \in 1..n : Compact(e)[k].chain.conditions = <<>>
      /\ slots = {Compact(e)[k].slot : k \in 1..n}
      /\ Cardinality(slots) = n
  BY CompactSubscribers
<1>4. \A i \in 1..Len(table) : table[i].slot \in Nat /\ EventOf(table[i].slot) = e
  <2>. SUFFICES ASSUME NEW i \in 1..Len(table)
                PROVE  table[i].slot \in Nat /\ EventOf(table[i].slot) = e
    OBVIOUS
  <2>1. PICK types : InTable(table[i].slot, table[i].head, types)
    BY <1>2
  <2>2. /\ (CHOOSE p \in ToSet(Programs) : p.slot = table[i].slot).rec = table[i].head
        /\ table[i].slot \in Nat
    BY <2>1, SlotsAreDistinct
  <2>. QED BY <1>2, <2>2
<1>. HIDE DEF table, slots, n, EventOf
<1>5. FiredOf(fired, table, n, Len(table))
  BY <1>2, <1>3, <1>4, EmissionFires
<1>. HIDE DEF fired
<1>6. /\ fired \in Seq(Nat) /\ Len(fired) \in Nat /\ DOMAIN fired = 1..Len(fired)
      /\ \A k \in 1..Len(fired) : \E i \in 1..Len(table) : fired[k] = table[i].slot
      /\ \A k, l \in 1..Len(fired) : fired[k] = fired[l] => k = l
      /\ \A i \in 1..n : i =< Len(fired) /\ fired[i] = table[i].slot
  <2>1. \A i \in 1..n : i =< Len(table)
    BY <1>2
  <2>2. fired \in Seq(Nat)
    BY <1>5 DEF FiredOf
  <2>3. Len(fired) \in Nat /\ DOMAIN fired = 1..Len(fired)
    BY <2>2
  <2>. QED BY <1>5, <2>1, <2>2, <2>3 DEF FiredOf
<1>7. IsInjective(fired)
  BY <1>6 DEF IsInjective
<1>8. \A slot \in ToSet(fired) : EventOf(slot) = e
  <2>. SUFFICES ASSUME NEW slot \in ToSet(fired)
                PROVE  EventOf(slot) = e
    OBVIOUS
  <2>1. PICK k \in 1..Len(fired) : slot = fired[k]
    BY <1>6 DEF ToSet
  <2>2. PICK i \in 1..Len(table) : fired[k] = table[i].slot
    BY <1>6
  <2>. QED BY <1>4, <2>1, <2>2
<1>9. slots = ToSet(SubSeq(fired, 1, n))
  <2>. DEFINE first == SubSeq(fired, 1, n)
  <2>1. n \in Nat /\ n =< Len(fired)
    <3>1. n = 0 \/ n \in 1..n
      BY <1>2
    <3>. QED BY <1>2, <1>6, <3>1
  <2>2. DOMAIN first = 1..n /\ \A i \in 1..n : first[i] = fired[i]
    BY <1>6, <2>1
  <2>. HIDE DEF first
  <2>3. \A i \in 1..n : first[i] = Compact(e)[i].slot
    BY <1>2, <1>6, <2>2
  <2>4. ToSet(first) = {Compact(e)[k].slot : k \in 1..n}
    BY <2>2, <2>3 DEF ToSet
  <2>. QED BY <1>3, <2>4 DEF first
<1>10. emitted'.event = e /\ emitted'.fired = fired
  BY <1>1
<1>. QED BY <1>3, <1>7, <1>8, <1>9, <1>10 DEF EventFiresSubscribers, slots, EventOf

\* Theorem: an event fires each compact program that waits for it, once and before
\* the chains, and of the chains only those that wait for it, whatever was started
\* and stopped before (emit_event and the tables that start() builds).
THEOREM EventsFireSubscribers == Spec => []EventFiresSubscribers
<1>1. Init => EventInv
  BY DEF Init, EventInv, EventFiresSubscribers, NoEvent, IsInjective, ToSet
<1>2. EventInv /\ [Next]_vars => EventInv'
  <2>. SUFFICES ASSUME EventInv, [Next]_vars
                PROVE  EventInv'
    OBVIOUS
  <2>1. CASE UNCHANGED <<running, event_table, emitted>>
    BY <2>1 DEF EventInv, EventFiresSubscribers, EventTable
  <2>2. CASE Start
    BY <2>2 DEF Start, EventInv, EventFiresSubscribers, EventTable
  <2>3. ASSUME NEW c \in Callers, Stop(c)
        PROVE  EventInv'
    BY <2>3 DEF Stop, EventInv, EventFiresSubscribers, EventTable
  <2>4. ASSUME NEW c \in Callers, StopResumes(c)
        PROVE  EventInv'
    BY <2>1, <2>4 DEF StopResumes
  <2>5. ASSUME NEW w \in Workers, WorkerBegins(w) \/ WorkerFires(w) \/ WorkerEnds(w)
        PROVE  EventInv'
    BY <2>1, <2>5 DEF WorkerBegins, WorkerFires, WorkerEnds
  <2>6. ASSUME NEW e \in Events, EmitEvent(e)
        PROVE  EventInv'
    <3>1. UNCHANGED <<running, event_table>>
      BY <2>6 DEF EmitEvent
    <3>2. EventFiresSubscribers'
      BY <2>6, EmitsToSubscribers
    <3>. QED BY <3>1, <3>2 DEF EventInv, EventTable
  <2>7. ASSUME NEW payload \in ClientCommands, ClientCommand(payload)
        PROVE  EventInv'
    BY <2>1, <2>7 DEF ClientCommand
  <2>8. CASE Tick
    <3>1. UNCHANGED <<running, event_table>> /\ emitted' = NoEvent
      BY <2>8 DEF Tick
    <3>2. EventFiresSubscribers'
      BY <3>1 DEF EventFiresSubscribers, NoEvent, IsInjective, ToSet
    <3>. QED BY <3>1, <3>2 DEF EventInv, EventTable
  <2>9. CASE UNCHANGED vars
    BY <2>1, <2>9 DEF vars
  <2>. QED BY <2>2, <2>3, <2>4, <2>5, <2>6, <2>7, <2>8, <2>9 DEF Next
<1>3. EventInv => EventFiresSubscribers
  BY DEF EventInv
<1>. QED BY <1>1, <1>2, <1>3, PTL DEF Spec
=============================================================================
