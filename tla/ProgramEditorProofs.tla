------------------------ MODULE ProgramEditorProofs ------------------------
(***************************************************************************)
(* Proofs about ProgramEditor: every part of IInv is preserved by every    *)
(* step, and the theorems that follow.                                     *)
(***************************************************************************)
EXTENDS ProgramEditorInvariant, FiniteSetTheorems, WellFoundedInduction, TLAPS

-----------------------------------------------------------------------------
(* Slots and plans.                                                        *)

\* A set of slots that is not empty has a first one.
LEMMA FirstSlot ==
    ASSUME NEW S \in SUBSET Slots, S # {}
    PROVE  /\ (CHOOSE s \in S : \A r \in S : s <= r) \in S
           /\ \E s \in S : \A r \in S : s <= r
  <1>1. S \subseteq Nat
    BY EditorAssumption DEF Slots
  <1>2. PICK s \in S : \A r \in S : ~(<<r, s>> \in OpToRel(<, Nat))
    BY <1>1, WFMin, NatLessThanWellFounded, Zenon
  <1>3. \A r \in S : ~(r < s)
    BY <1>1, <1>2, Zenon DEF OpToRel
  <1>4. \A r \in S : s <= r
    BY <1>1, <1>3
  <1> QED
    BY <1>4

\* A plan gives records to some of the slots.
LEMMA PlanType ==
    ASSUME NEW p
    PROVE  p \in Plans <=> DOMAIN p \subseteq Slots /\ p \in [DOMAIN p -> Record]
  BY DEF Plans

\* The first slot of a run is where it starts.
LEMMA FirstOfRun ==
    ASSUME NEW a \in Slots, NEW b \in Slots, a <= b, NEW p, DOMAIN p = a .. b
    PROVE  First(p) = a
  <1>1. a \in Nat /\ b \in Nat
    BY EditorAssumption DEF Slots
  <1>2. a \in DOMAIN p /\ \A r \in DOMAIN p : a <= r
    BY <1>1
  <1>3. \A s \in DOMAIN p : (\A r \in DOMAIN p : s <= r) => s = a
    BY <1>1, <1>2
  <1> QED
    BY <1>2, <1>3 DEF First

\* A single slot is a run.
LEMMA OneSlotRun ==
    ASSUME NEW s \in Slots
    PROVE  s <= s /\ s .. s = {s}
  BY EditorAssumption DEF Slots

\* The chain at a slot holds cached records.
LEMMA ChainType ==
    ASSUME NEW t \in Table, NEW h \in Slots
    PROVE  /\ Chain(t, h) \in Plans /\ DOMAIN Chain(t, h) = ChainSlots(t, h)
           /\ ChainSlots(t, h) \subseteq Slots
  <1>1. ChainSlots(t, h) \subseteq Slots
    BY DEF ChainSlots, Follows
  <1>2. DOMAIN Chain(t, h) = ChainSlots(t, h)
    BY DEF Chain
  <1>3. Chain(t, h) \in [ChainSlots(t, h) -> Record]
    BY <1>1 DEF Chain, Table
  <1> QED
    BY <1>1, <1>2, <1>3, PlanType

\* The records a new command makes.
LEMMA MadeType ==
    ASSUME TypeOK, commands < MaxCommands, NEW k \in Kinds
    PROVE  Made(k) \in Record
  BY EditorAssumption DEF TypeOK, Made, Record

\* An empty slot is a record.
LEMMA FreeType == Free \in Record
  BY EditorAssumption DEF Free, Record, Kinds

-----------------------------------------------------------------------------
(* What a step does.                                                       *)

\* A command is accepted: it writes a run of slots, clears what is left of the
\* chain it replaces, and takes, if it writes more than one slot, only free
\* slots beyond that chain.
AcceptsRun(e, plan, clears, old, a, b) ==
    /\ a <= b /\ DOMAIN plan = a .. b
    /\ Accepts(e, plan, clears, old)
    /\ clears = DOMAIN old \ DOMAIN plan
    /\ a = b \/ \A s \in DOMAIN plan \ DOMAIN old : cache[s] = Free

LEMMA AcceptedRun ==
    ASSUME TypeOK, NEW e \in Editors, Write(e) \/ Clear(e) \/ Clone(e) \/ ChainWrite(e)
    PROVE  \E plan \in Plans, old \in Plans, a \in Slots, b \in Slots :
               AcceptsRun(e, plan, DOMAIN old \ DOMAIN plan, old, a, b)
  <1>1. NoPlan \in Plans /\ DOMAIN NoPlan = {}
    <2>1. DOMAIN NoPlan = {} /\ NoPlan \in [{} -> Record]
      BY FreeType DEF NoPlan
    <2> QED
      BY <2>1, PlanType
  <1>2. ASSUME NEW s \in Slots, NEW r \in Record, Accepts(e, [q \in {s} |-> r], {}, NoPlan)
        PROVE  \E plan \in Plans, old \in Plans, a \in Slots, b \in Slots :
                   AcceptsRun(e, plan, DOMAIN old \ DOMAIN plan, old, a, b)
    <2> DEFINE plan == [q \in {s} |-> r]
    <2>1. DOMAIN plan = {s} /\ plan \in [{s} -> Record]
      OBVIOUS
    <2>2. plan \in Plans
      BY <2>1, PlanType
    <2>3. DOMAIN NoPlan \ DOMAIN plan = {}
      BY <1>1
    <2>4. AcceptsRun(e, plan, DOMAIN NoPlan \ DOMAIN plan, NoPlan, s, s)
      BY <1>1, <1>2, <2>1, <2>3, OneSlotRun DEF AcceptsRun
    <2> HIDE DEF plan
    <2> QED
      BY <1>1, <2>2, <2>4
  <1>3. CASE Write(e)
    <2>1. PICK s \in Slots, k \in Kinds \ {"free"} :
            Accepts(e, [q \in {s} |-> Made(k)], {}, NoPlan)
      BY <1>3 DEF Write
    <2>2. Made(k) \in Record
      BY <2>1, MadeType DEF Accepts
    <2> QED
      BY <2>1, <2>2, <1>2
  <1>4. CASE Clear(e)
    BY <1>4, <1>2, FreeType DEF Clear
  <1>5. CASE Clone(e)
    <2>1. PICK s \in Slots, t \in Slots : Accepts(e, [q \in {t} |-> cache[s]], {}, NoPlan)
      BY <1>5 DEF Clone
    <2>2. cache[s] \in Record
      BY DEF TypeOK, Table
    <2> QED
      BY <2>1, <2>2, <1>2
  <1>6. CASE ChainWrite(e)
    <2>1. PICK h \in Slots, nc \in 0 .. MaxConditions, na \in 1 .. MaxActions :
            /\ Fits(h .. h + nc + na)
            /\ MayOccupy(h .. h + nc + na, ChainSlots(cache, h))
            /\ Accepts(e, NewChain(h, nc, na), LeftOver(h .. h + nc + na, ChainSlots(cache, h)),
                       Chain(cache, h))
      BY <1>6 DEF ChainWrite
    <2> DEFINE b == h + nc + na
               plan == NewChain(h, nc, na)
               old == Chain(cache, h)
    <2>2. h \in Nat /\ b \in Nat /\ h <= b
      BY EditorAssumption DEF Slots
    <2>3. b \in Slots
      BY <2>1, <2>2 DEF Fits
    <2>4. plan \in Plans /\ DOMAIN plan = h .. b
      <3>1. DOMAIN plan = h .. b
        BY DEF NewChain
      <3>2. \A k \in Kinds : Made(k) \in Record
        BY <2>1, MadeType DEF Accepts
      <3>3. plan \in [h .. b -> Record]
        BY <3>2 DEF NewChain, Kinds
      <3> QED
        BY <2>1, <3>1, <3>3, PlanType DEF Fits
    <2>5. old \in Plans /\ DOMAIN old = ChainSlots(cache, h)
      BY ChainType DEF TypeOK
    <2>6. \A s \in DOMAIN plan \ DOMAIN old : cache[s] = Free
      BY <2>1, <2>4, <2>5 DEF MayOccupy, Occupied, Fits
    <2>7. Accepts(e, plan, DOMAIN old \ DOMAIN plan, old)
      BY <2>1, <2>4, <2>5 DEF LeftOver
    <2> HIDE DEF b, plan, old
    <2>8. AcceptsRun(e, plan, DOMAIN old \ DOMAIN plan, old, h, b)
      BY <2>2, <2>4, <2>6, <2>7 DEF AcceptsRun
    <2> QED
      BY <2>3, <2>4, <2>5, <2>8
  <1> QED
    BY <1>3, <1>4, <1>5, <1>6

\* Nothing else changes, and the command was not running.
LEMMA AcceptsFacts ==
    ASSUME TypeOK, NEW e \in Editors, NEW plan \in Plans, NEW old \in Plans,
           NEW a \in Slots, NEW b \in Slots,
           AcceptsRun(e, plan, DOMAIN old \ DOMAIN plan, old, a, b)
    PROVE  /\ ~Running(e) /\ commands' = commands + 1 /\ commands' \in 1 .. MaxCommands
           /\ \A d \in Editors \ {e} : cmd'[d] = cmd[d]
           /\ cmd' \in [Editors -> Command]
           /\ cmd'[e].pc = "writing" /\ cmd'[e].number = commands'
           /\ cmd'[e].plan = plan /\ cmd'[e].next = a /\ cmd'[e].old = old
           /\ cmd'[e].clears = DOMAIN old \ DOMAIN plan
           /\ cmd'[e].left = DOMAIN old \ DOMAIN plan
           /\ overlapped' \in BOOLEAN
           /\ ~overlapped' => ~overlapped /\ \A d \in Editors \ {e} : ~Running(d)
           /\ UNCHANGED <<panel, cache, faults, given, doubtful>>
  <1> DEFINE new == [pc |-> "writing", number |-> commands + 1, plan |-> plan, next |-> a,
                     clears |-> DOMAIN old \ DOMAIN plan, left |-> DOMAIN old \ DOMAIN plan,
                     old |-> old]
  <1>1. First(plan) = a
    BY FirstOfRun DEF AcceptsRun
  <1>2. /\ ~Running(e) /\ commands < MaxCommands /\ commands' = commands + 1
        /\ cmd' = [cmd EXCEPT ![e] = new]
        /\ overlapped' = (overlapped \/ \E d \in Editors \ {e} : Running(d))
        /\ UNCHANGED <<panel, cache, faults, given, doubtful>>
    BY <1>1 DEF AcceptsRun, Accepts
  <1>3. commands' \in 1 .. MaxCommands
    BY <1>2, EditorAssumption DEF TypeOK
  <1>4. new \in Command
    <2>1. DOMAIN old \subseteq Slots
      BY PlanType
    <2>2. a \in 1 .. NSlots + 1 /\ commands + 1 \in 0 .. MaxCommands
      BY <1>2, <1>3, EditorAssumption DEF Slots, TypeOK
    <2> QED
      BY <2>1, <2>2 DEF Command
  <1>5. cmd' \in [Editors -> Command] /\ cmd'[e] = new /\ \A d \in Editors \ {e} : cmd'[d] = cmd[d]
    BY <1>2, <1>4 DEF TypeOK
  <1>6. /\ overlapped' \in BOOLEAN
        /\ ~overlapped' => ~overlapped /\ \A d \in Editors \ {e} : ~Running(d)
    BY <1>2, Zenon DEF TypeOK
  <1> QED
    BY <1>2, <1>3, <1>5, <1>6

\* A command that goes on keeps its number and its plan; the others wait.
GoesOn(e) ==
    /\ Running(e)
    /\ \A d \in Editors \ {e} : cmd'[d] = cmd[d]
    /\ cmd' \in [Editors -> Command]
    /\ cmd'[e].number = cmd[e].number /\ cmd'[e].plan = cmd[e].plan
    /\ cmd'[e].clears = cmd[e].clears /\ cmd'[e].old = cmd[e].old
    /\ UNCHANGED <<commands, overlapped>>

\* A slot that is written or cleared is one of the panel's.
LEMMA CommandType ==
    ASSUME TypeOK, NEW e \in Editors
    PROVE  /\ cmd[e] \in Command /\ cmd[e].plan \in Plans /\ cmd[e].old \in Plans
           /\ cmd[e].number \in 0 .. MaxCommands /\ cmd[e].next \in 1 .. NSlots + 1
           /\ DOMAIN cmd[e].plan \subseteq Slots /\ DOMAIN cmd[e].old \subseteq Slots
           /\ \A s \in DOMAIN cmd[e].plan : cmd[e].plan[s] \in Record
           /\ cmd[e].clears \subseteq Slots /\ cmd[e].left \subseteq Slots
  <1>1. cmd[e] \in Command
    BY DEF TypeOK
  <1>2. cmd[e].plan \in Plans /\ cmd[e].old \in Plans
    BY <1>1 DEF Command
  <1> QED
    BY <1>1, <1>2, PlanType DEF Command

\* What the panel stores it was given.
LEMMA StoresFacts ==
    ASSUME TypeOK, NEW s \in Slots, NEW r \in Record, Stores(s, r)
    PROVE  /\ panel' \in Table /\ panel'[s] = r /\ \A q \in Slots \ {s} : panel'[q] = panel[q]
           /\ given' \subseteq Slots \X Record /\ given \subseteq given' /\ <<s, r>> \in given'
  BY DEF TypeOK, Stores, Table

\* One more record, with another or a slot to clear after it.
LEMMA WritesFacts ==
    ASSUME TypeOK, NextIsPlanned, NEW e \in Editors, Writes(e)
    PROVE  LET s == cmd[e].next IN
           /\ GoesOn(e) /\ cmd[e].pc = "writing"
           /\ s \in Slots /\ s \in DOMAIN cmd[e].plan
           /\ Stores(s, cmd[e].plan[s])
           /\ cmd'[e].next = s + 1 /\ cmd'[e].left = cmd[e].left
           /\ \/ s + 1 \in DOMAIN cmd[e].plan /\ cmd'[e].pc = "writing"
              \/ /\ s + 1 \notin DOMAIN cmd[e].plan /\ cmd[e].clears # {}
                 /\ cmd'[e].pc = "clearing"
           /\ UNCHANGED <<cache, faults, doubtful>>
  <1> DEFINE s == cmd[e].next
  <1>1. /\ cmd[e].pc = "writing" /\ s \in DOMAIN cmd[e].plan /\ s \in Slots
        /\ cmd[e] \in Command
    BY CommandType DEF Writes, NextIsPlanned
  <1>2. s + 1 \in 1 .. NSlots + 1
    BY <1>1, EditorAssumption DEF Slots
  <1> DEFINE pc2 == IF s + 1 \in DOMAIN cmd[e].plan THEN "writing" ELSE "clearing"
  <1>3. /\ cmd' = [cmd EXCEPT ![e].pc = pc2, ![e].next = s + 1]
        /\ Stores(s, cmd[e].plan[s])
        /\ s + 1 \in DOMAIN cmd[e].plan \/ cmd[e].clears # {}
        /\ UNCHANGED <<cache, commands, faults, overlapped, doubtful>>
    BY DEF Writes
  <1>4. /\ cmd'[e] = [cmd[e] EXCEPT !.pc = pc2, !.next = s + 1]
        /\ \A d \in Editors \ {e} : cmd'[d] = cmd[d]
    BY <1>3 DEF TypeOK
  <1>5. [cmd[e] EXCEPT !.pc = pc2, !.next = s + 1] \in Command
    BY <1>1, <1>2 DEF Command
  <1>6. cmd' \in [Editors -> Command]
    BY <1>3, <1>4, <1>5 DEF TypeOK
  <1>7. /\ cmd'[e].pc = pc2 /\ cmd'[e].next = s + 1 /\ cmd'[e].left = cmd[e].left
        /\ cmd'[e].number = cmd[e].number /\ cmd'[e].plan = cmd[e].plan
        /\ cmd'[e].clears = cmd[e].clears /\ cmd'[e].old = cmd[e].old
    BY <1>1, <1>4 DEF Command
  <1>8. GoesOn(e)
    BY <1>1, <1>3, <1>4, <1>6, <1>7 DEF GoesOn, Running
  <1> QED
    BY <1>1, <1>3, <1>7, <1>8

\* The last record of a command that has nothing to clear.
LEMMA WritesLastFacts ==
    ASSUME TypeOK, NextIsPlanned, NEW e \in Editors, WritesLast(e)
    PROVE  LET s == cmd[e].next IN
           /\ GoesOn(e) /\ cmd[e].pc = "writing" /\ cmd[e].clears = {}
           /\ s \in Slots /\ s \in DOMAIN cmd[e].plan /\ s + 1 \notin DOMAIN cmd[e].plan
           /\ Stores(s, cmd[e].plan[s])
           /\ cmd'[e].next = s + 1 /\ cmd'[e].left = cmd[e].left /\ cmd'[e].pc = "done"
           /\ cache' = UpdatedCache(e) /\ Settles(e) /\ UNCHANGED faults
  <1> DEFINE s == cmd[e].next
  <1>1. /\ cmd[e].pc = "writing" /\ s \in DOMAIN cmd[e].plan /\ s \in Slots
        /\ cmd[e] \in Command
    BY CommandType DEF WritesLast, NextIsPlanned
  <1>2. s + 1 \in 1 .. NSlots + 1
    BY <1>1, EditorAssumption DEF Slots
  <1>3. /\ cmd' = [cmd EXCEPT ![e].pc = "done", ![e].next = @ + 1]
        /\ Stores(s, cmd[e].plan[s])
        /\ cmd[e].clears = {} /\ s + 1 \notin DOMAIN cmd[e].plan
        /\ cache' = UpdatedCache(e) /\ Settles(e) /\ UNCHANGED <<commands, faults, overlapped>>
    BY DEF WritesLast
  <1>4. /\ cmd'[e] = [cmd[e] EXCEPT !.pc = "done", !.next = s + 1]
        /\ \A d \in Editors \ {e} : cmd'[d] = cmd[d]
    BY <1>3 DEF TypeOK
  <1>5. [cmd[e] EXCEPT !.pc = "done", !.next = s + 1] \in Command
    BY <1>1, <1>2 DEF Command
  <1>6. cmd' \in [Editors -> Command]
    BY <1>3, <1>4, <1>5 DEF TypeOK
  <1>7. /\ cmd'[e].pc = "done" /\ cmd'[e].next = s + 1 /\ cmd'[e].left = cmd[e].left
        /\ cmd'[e].number = cmd[e].number /\ cmd'[e].plan = cmd[e].plan
        /\ cmd'[e].clears = cmd[e].clears /\ cmd'[e].old = cmd[e].old
    BY <1>1, <1>4 DEF Command
  <1>8. GoesOn(e)
    BY <1>1, <1>3, <1>4, <1>6, <1>7 DEF GoesOn, Running
  <1> QED
    BY <1>1, <1>3, <1>7, <1>8

\* The first of several slots is cleared.
LEMMA ClearsFacts ==
    ASSUME TypeOK, ClearsLeftOver, NEW e \in Editors, Clears(e)
    PROVE  \E s \in Slots :
           /\ GoesOn(e) /\ cmd[e].pc = "clearing" /\ s \in cmd[e].left
           /\ Stores(s, Free)
           /\ cmd'[e].next = cmd[e].next /\ cmd'[e].left = cmd[e].left \ {s}
           /\ cmd'[e].left # {} /\ cmd'[e].pc = "clearing"
           /\ UNCHANGED <<cache, faults, doubtful>>
  <1> DEFINE s == CHOOSE r \in cmd[e].left : \A q \in cmd[e].left : r <= q
  <1>1. cmd[e].pc = "clearing" /\ cmd[e] \in Command /\ cmd[e].left \subseteq Slots
    BY CommandType DEF Clears
  <1>2. s \in cmd[e].left /\ s \in Slots
    <2>1. cmd[e].left # {}
      BY <1>1 DEF ClearsLeftOver
    <2> QED
      BY <1>1, <2>1, FirstSlot
  <1>3. Cardinality(cmd[e].left) > 1 /\ Stores(s, Free)
    BY DEF Clears
  <1>4. /\ cmd' = [cmd EXCEPT ![e].left = @ \ {s}]
        /\ UNCHANGED <<cache, commands, faults, overlapped, doubtful>>
    BY DEF Clears
  <1> HIDE DEF s
  <1>5. cmd[e].left \ {s} # {}
    <2>1. cmd[e].left \ {s} = {} => cmd[e].left = {s}
      BY <1>2
    <2>2. Cardinality({s}) = 1
      BY FS_Singleton
    <2> QED
      BY <1>3, <2>1, <2>2
  <1>6. /\ cmd'[e] = [cmd[e] EXCEPT !.left = cmd[e].left \ {s}]
        /\ \A d \in Editors \ {e} : cmd'[d] = cmd[d]
    BY <1>4 DEF TypeOK
  <1>7. [cmd[e] EXCEPT !.left = cmd[e].left \ {s}] \in Command
    BY <1>1 DEF Command
  <1>8. cmd' \in [Editors -> Command]
    BY <1>4, <1>6, <1>7 DEF TypeOK
  <1>9. /\ cmd'[e].pc = "clearing" /\ cmd'[e].next = cmd[e].next
        /\ cmd'[e].left = cmd[e].left \ {s}
        /\ cmd'[e].number = cmd[e].number /\ cmd'[e].plan = cmd[e].plan
        /\ cmd'[e].clears = cmd[e].clears /\ cmd'[e].old = cmd[e].old
    BY <1>1, <1>6 DEF Command
  <1>10. GoesOn(e)
    BY <1>1, <1>4, <1>6, <1>8, <1>9 DEF GoesOn, Running
  <1> QED
    BY <1>1, <1>2, <1>3, <1>4, <1>5, <1>9, <1>10

\* The last slot is cleared.
LEMMA ClearsLastFacts ==
    ASSUME TypeOK, NEW e \in Editors, ClearsLast(e)
    PROVE  \E s \in Slots :
           /\ GoesOn(e) /\ cmd[e].pc = "clearing" /\ cmd[e].left = {s}
           /\ Stores(s, Free)
           /\ cmd'[e].next = cmd[e].next /\ cmd'[e].left = {} /\ cmd'[e].pc = "done"
           /\ cache' = UpdatedCache(e) /\ Settles(e) /\ UNCHANGED faults
  <1>1. cmd[e].pc = "clearing" /\ cmd[e] \in Command
    BY CommandType DEF ClearsLast
  <1>2. PICK s \in Slots : cmd[e].left = {s} /\ Stores(s, Free)
    BY DEF ClearsLast
  <1>3. /\ cmd' = [cmd EXCEPT ![e].pc = "done", ![e].left = {}]
        /\ cache' = UpdatedCache(e) /\ Settles(e) /\ UNCHANGED <<commands, faults, overlapped>>
    BY DEF ClearsLast
  <1>4. /\ cmd'[e] = [cmd[e] EXCEPT !.pc = "done", !.left = {}]
        /\ \A d \in Editors \ {e} : cmd'[d] = cmd[d]
    BY <1>3 DEF TypeOK
  <1>5. [cmd[e] EXCEPT !.pc = "done", !.left = {}] \in Command
    BY <1>1 DEF Command
  <1>6. cmd' \in [Editors -> Command]
    BY <1>3, <1>4, <1>5 DEF TypeOK
  <1>7. /\ cmd'[e].pc = "done" /\ cmd'[e].next = cmd[e].next /\ cmd'[e].left = {}
        /\ cmd'[e].number = cmd[e].number /\ cmd'[e].plan = cmd[e].plan
        /\ cmd'[e].clears = cmd[e].clears /\ cmd'[e].old = cmd[e].old
    BY <1>1, <1>4 DEF Command
  <1>8. GoesOn(e)
    BY <1>1, <1>3, <1>4, <1>6, <1>7 DEF GoesOn, Running
  <1> QED
    BY <1>1, <1>2, <1>3, <1>7, <1>8

\* A request fails: the panel stored the record or did not, and the command is over.
LEMMA FailsFacts ==
    ASSUME TypeOK, NextIsPlanned, ClearsLeftOver, NEW e \in Editors, WriteFails(e) \/ ClearFails(e)
    PROVE  /\ GoesOn(e)
           /\ cmd'[e].next = cmd[e].next /\ cmd'[e].left = cmd[e].left
           /\ cmd'[e].pc = "failed"
           /\ faults' = faults + 1 /\ faults' \in 1 .. MaxFaults /\ UNCHANGED cache
           /\ \E s \in Slots, r \in Record : StoresOrNot(s, r) /\ LeavesInDoubt(e, s)
  <1>1. /\ cmd[e].pc \in {"writing", "clearing"} /\ Fault
        /\ cmd' = [cmd EXCEPT ![e].pc = "failed"]
        /\ UNCHANGED <<cache, commands, overlapped>>
    BY DEF WriteFails, ClearFails, FailureCached
  <1>2. cmd[e] \in Command
    BY CommandType
  <1>3. /\ cmd'[e] = [cmd[e] EXCEPT !.pc = "failed"]
        /\ \A d \in Editors \ {e} : cmd'[d] = cmd[d]
    BY <1>1 DEF TypeOK
  <1>4. [cmd[e] EXCEPT !.pc = "failed"] \in Command
    BY <1>2 DEF Command
  <1>5. cmd' \in [Editors -> Command]
    BY <1>1, <1>3, <1>4 DEF TypeOK
  <1>6. /\ cmd'[e].pc = "failed" /\ cmd'[e].next = cmd[e].next /\ cmd'[e].left = cmd[e].left
        /\ cmd'[e].number = cmd[e].number /\ cmd'[e].plan = cmd[e].plan
        /\ cmd'[e].clears = cmd[e].clears /\ cmd'[e].old = cmd[e].old
    BY <1>2, <1>3 DEF Command
  <1>7. GoesOn(e)
    BY <1>1, <1>3, <1>5, <1>6 DEF GoesOn, Running
  <1>8. faults' = faults + 1 /\ faults' \in 1 .. MaxFaults
    BY <1>1, EditorAssumption DEF Fault, TypeOK
  <1>9. CASE WriteFails(e)
    <2>1. cmd[e].next \in Slots /\ cmd[e].plan[cmd[e].next] \in Record
      BY <1>9, CommandType DEF WriteFails, NextIsPlanned
    <2> QED
      BY <1>1, <1>6, <1>7, <1>8, <1>9, <2>1 DEF WriteFails
  <1>10. CASE ClearFails(e)
    <2> DEFINE s == CHOOSE r \in cmd[e].left : \A q \in cmd[e].left : r <= q
    <2>1. cmd[e].left \subseteq Slots /\ cmd[e].left # {}
      BY <1>10, CommandType DEF ClearFails, ClearsLeftOver
    <2>2. s \in Slots
      BY <2>1, FirstSlot
    <2>3. StoresOrNot(s, Free) /\ LeavesInDoubt(e, s)
      BY <1>10 DEF ClearFails
    <2> HIDE DEF s
    <2> QED
      BY <1>1, <1>6, <1>7, <1>8, <2>2, <2>3, FreeType
  <1> QED
    BY <1>9, <1>10

\* The cache that a command leaves is a table of records.
LEMMA UpdatedCacheType ==
    ASSUME TypeOK, NEW e \in Editors
    PROVE  UpdatedCache(e) \in Table
  BY CommandType, FreeType DEF UpdatedCache, TypeOK, Table

\* A step of a command that runs.
Runs(e) ==
    Writes(e) \/ WritesLast(e) \/ WriteFails(e) \/ Clears(e) \/ ClearsLast(e) \/ ClearFails(e)

LEMMA RunsFacts ==
    ASSUME TypeOK, NextIsPlanned, ClearsLeftOver, NEW e \in Editors, Runs(e)
    PROVE  /\ GoesOn(e)
           /\ given \subseteq given'
           /\ cmd'[e].pc \in {"writing", "clearing", "done", "failed"}
  <1>1. CASE Writes(e)
    BY <1>1, WritesFacts DEF Stores
  <1>2. CASE WritesLast(e)
    BY <1>2, WritesLastFacts DEF Stores
  <1>3. CASE WriteFails(e) \/ ClearFails(e)
    <2>1. GoesOn(e) /\ cmd'[e].pc = "failed"
      BY <1>3, FailsFacts
    <2>2. given \subseteq given'
      BY <1>3, FailsFacts DEF StoresOrNot, Stores
    <2> QED
      BY <2>1, <2>2
  <1>4. CASE Clears(e)
    BY <1>4, ClearsFacts DEF Stores
  <1>5. CASE ClearsLast(e)
    BY <1>5, ClearsLastFacts DEF Stores
  <1> QED
    BY <1>1, <1>2, <1>3, <1>4, <1>5 DEF Runs

-----------------------------------------------------------------------------
(* Types.                                                                  *)

\* Every action keeps the types.
LEMMA TypeOKPreserved ==
    ASSUME IInv, [Next]_vars
    PROVE  TypeOK'
  <1> USE DEF IInv
  <1>1. ASSUME NEW e \in Editors, Write(e) \/ Clear(e) \/ Clone(e) \/ ChainWrite(e) PROVE TypeOK'
    <2>1. PICK plan \in Plans, old \in Plans, a \in Slots, b \in Slots :
            AcceptsRun(e, plan, DOMAIN old \ DOMAIN plan, old, a, b)
      BY <1>1, AcceptedRun
    <2>2. /\ commands' \in 1 .. MaxCommands /\ cmd' \in [Editors -> Command]
          /\ overlapped' \in BOOLEAN
          /\ UNCHANGED <<panel, cache, faults, given, doubtful>>
      BY <2>1, AcceptsFacts
    <2> QED
      BY <2>2, EditorAssumption DEF TypeOK
  <1>2. ASSUME NEW e \in Editors, Writes(e) PROVE TypeOK'
    <2>1. panel' \in Table /\ given' \subseteq Slots \X Record
      BY <1>2, WritesFacts, CommandType, StoresFacts
    <2>2. cmd' \in [Editors -> Command] /\ UNCHANGED <<cache, faults, commands, overlapped, doubtful>>
      BY <1>2, WritesFacts DEF GoesOn
    <2> QED
      BY <2>1, <2>2 DEF TypeOK
  <1>3. ASSUME NEW e \in Editors, WritesLast(e) PROVE TypeOK'
    <2>1. panel' \in Table /\ given' \subseteq Slots \X Record
      BY <1>3, WritesLastFacts, CommandType, StoresFacts
    <2>2. /\ cmd' \in [Editors -> Command] /\ UNCHANGED <<faults, commands, overlapped>>
          /\ cache' \in Table /\ Settles(e)
      BY <1>3, WritesLastFacts, UpdatedCacheType DEF GoesOn
    <2> QED
      BY <2>1, <2>2 DEF TypeOK, Settles
  <1>4. ASSUME NEW e \in Editors, WriteFails(e) \/ ClearFails(e) PROVE TypeOK'
    <2>1. PICK s \in Slots, r \in Record : StoresOrNot(s, r) /\ LeavesInDoubt(e, s)
      BY <1>4, FailsFacts
    <2>2. panel' \in Table /\ given' \subseteq Slots \X Record
      BY <2>1, StoresFacts DEF StoresOrNot, TypeOK
    <2>3. /\ cmd' \in [Editors -> Command] /\ UNCHANGED <<cache, commands, overlapped>>
          /\ faults' \in 1 .. MaxFaults
      BY <1>4, FailsFacts DEF GoesOn
    <2>4. Written(e) \subseteq Slots /\ Cleared(e) \subseteq Slots
      BY CommandType DEF Written, Cleared
    <2>5. doubtful' \subseteq Slots
      BY <2>1, <2>4 DEF LeavesInDoubt, TypeOK
    <2> QED
      BY <2>2, <2>3, <2>5, EditorAssumption DEF TypeOK
  <1>5. ASSUME NEW e \in Editors, Clears(e) PROVE TypeOK'
    <2>1. panel' \in Table /\ given' \subseteq Slots \X Record
      BY <1>5, ClearsFacts, FreeType, StoresFacts
    <2>2. cmd' \in [Editors -> Command] /\ UNCHANGED <<cache, faults, commands, overlapped, doubtful>>
      BY <1>5, ClearsFacts DEF GoesOn
    <2> QED
      BY <2>1, <2>2 DEF TypeOK
  <1>6. ASSUME NEW e \in Editors, ClearsLast(e) PROVE TypeOK'
    <2>1. panel' \in Table /\ given' \subseteq Slots \X Record
      BY <1>6, ClearsLastFacts, FreeType, StoresFacts
    <2>2. /\ cmd' \in [Editors -> Command] /\ UNCHANGED <<faults, commands, overlapped>>
          /\ cache' \in Table /\ Settles(e)
      BY <1>6, ClearsLastFacts, UpdatedCacheType DEF GoesOn
    <2> QED
      BY <2>1, <2>2 DEF TypeOK, Settles
  <1>7. CASE UNCHANGED vars
    BY <1>7 DEF TypeOK, vars
  <1> QED
    BY <1>1, <1>2, <1>3, <1>4, <1>5, <1>6, <1>7 DEF Next

-----------------------------------------------------------------------------
(* Each command by itself.                                                 *)

\* A command keeps the run of slots it was accepted with.
LEMMA PlanIsRunPreserved ==
    ASSUME IInv, [Next]_vars
    PROVE  PlanIsRun'
  <1> USE DEF IInv
  <1>1. ASSUME NEW e \in Editors, Write(e) \/ Clear(e) \/ Clone(e) \/ ChainWrite(e)
        PROVE  PlanIsRun'
    <2>1. PICK plan \in Plans, old \in Plans, a \in Slots, b \in Slots :
            AcceptsRun(e, plan, DOMAIN old \ DOMAIN plan, old, a, b)
      BY <1>1, AcceptedRun
    <2>2. cmd'[e].plan = plan /\ \A d \in Editors \ {e} : cmd'[d] = cmd[d]
      BY <2>1, AcceptsFacts
    <2>3. a <= b /\ DOMAIN plan = a .. b
      BY <2>1 DEF AcceptsRun
    <2> QED
      BY <2>2, <2>3 DEF PlanIsRun, Running
  <1>2. ASSUME NEW e \in Editors, Runs(e) PROVE PlanIsRun'
    <2>1. GoesOn(e)
      BY <1>2, RunsFacts
    <2> QED
      BY <2>1 DEF PlanIsRun, GoesOn, Running
  <1>3. CASE UNCHANGED vars
    BY <1>3 DEF PlanIsRun, vars, Running
  <1> QED
    BY <1>1, <1>2, <1>3 DEF Next, Runs

\* A command goes on to a slot only if it has a record for it.
LEMMA NextIsPlannedPreserved ==
    ASSUME IInv, [Next]_vars
    PROVE  NextIsPlanned'
  <1> USE DEF IInv
  <1>1. ASSUME NEW e \in Editors, Write(e) \/ Clear(e) \/ Clone(e) \/ ChainWrite(e)
        PROVE  NextIsPlanned'
    <2>1. PICK plan \in Plans, old \in Plans, a \in Slots, b \in Slots :
            AcceptsRun(e, plan, DOMAIN old \ DOMAIN plan, old, a, b)
      BY <1>1, AcceptedRun
    <2>2. /\ cmd'[e].plan = plan /\ cmd'[e].next = a
          /\ \A d \in Editors \ {e} : cmd'[d] = cmd[d]
      BY <2>1, AcceptsFacts, ZenonT(60)
    <2>3. a \in DOMAIN plan
      BY <2>1, EditorAssumption DEF AcceptsRun, Slots
    <2> QED
      BY <2>2, <2>3 DEF NextIsPlanned
  <1>2. ASSUME NEW e \in Editors, Runs(e) PROVE NextIsPlanned'
    <2>1. GoesOn(e)
      BY <1>2, RunsFacts
    <2>2. cmd'[e].pc = "writing" => Writes(e)
      BY <1>2, WritesLastFacts, FailsFacts, ClearsFacts, ClearsLastFacts DEF Runs
    <2>3. cmd'[e].pc = "writing" => cmd'[e].next \in DOMAIN cmd[e].plan
      BY <2>2, WritesFacts
    <2> QED
      BY <2>1, <2>3 DEF NextIsPlanned, GoesOn
  <1>3. CASE UNCHANGED vars
    BY <1>3 DEF NextIsPlanned, vars
  <1> QED
    BY <1>1, <1>2, <1>3 DEF Next, Runs

\* The slots to clear are fixed when the command is accepted.
LEMMA ClearsLeftOverPreserved ==
    ASSUME IInv, [Next]_vars
    PROVE  ClearsLeftOver'
  <1> USE DEF IInv
  <1>1. ASSUME NEW e \in Editors, Write(e) \/ Clear(e) \/ Clone(e) \/ ChainWrite(e)
        PROVE  ClearsLeftOver'
    <2>1. PICK plan \in Plans, old \in Plans, a \in Slots, b \in Slots :
            AcceptsRun(e, plan, DOMAIN old \ DOMAIN plan, old, a, b)
      BY <1>1, AcceptedRun
    <2>2. /\ cmd'[e].plan = plan /\ cmd'[e].old = old /\ cmd'[e].pc = "writing"
          /\ cmd'[e].clears = DOMAIN old \ DOMAIN plan /\ cmd'[e].left = DOMAIN old \ DOMAIN plan
          /\ \A d \in Editors \ {e} : cmd'[d] = cmd[d]
      BY <2>1, AcceptsFacts, ZenonT(60)
    <2> QED
      BY <2>2 DEF ClearsLeftOver
  <1>2. ASSUME NEW e \in Editors, Runs(e) PROVE ClearsLeftOver'
    <2>1. GoesOn(e)
      BY <1>2, RunsFacts
    <2>2. CASE Writes(e)
      <3>1. /\ cmd'[e].left = cmd[e].left /\ cmd[e].pc = "writing"
            /\ cmd'[e].pc = "clearing" => cmd[e].clears # {}
            /\ cmd'[e].pc \in {"writing", "clearing"}
        BY <2>2, WritesFacts
      <3> QED
        BY <2>1, <3>1 DEF ClearsLeftOver, GoesOn
    <2>3. CASE Clears(e)
      <3>1. /\ cmd'[e].left \subseteq cmd[e].left /\ cmd'[e].left # {}
            /\ cmd'[e].pc = "clearing"
        BY <2>3, ClearsFacts
      <3> QED
        BY <2>1, <3>1 DEF ClearsLeftOver, GoesOn
    <2>4. CASE WritesLast(e) \/ WriteFails(e) \/ ClearsLast(e) \/ ClearFails(e)
      <3>1. cmd'[e].left \subseteq cmd[e].left /\ cmd'[e].pc \in {"done", "failed"}
        BY <2>4, WritesLastFacts, FailsFacts, ClearsLastFacts
      <3> QED
        BY <2>1, <3>1 DEF ClearsLeftOver, GoesOn
    <2> QED
      BY <1>2, <2>2, <2>3, <2>4 DEF Runs
  <1>3. CASE UNCHANGED vars
    BY <1>3 DEF ClearsLeftOver, vars
  <1> QED
    BY <1>1, <1>2, <1>3 DEF Next, Runs

-----------------------------------------------------------------------------
(* How far a command has come.                                             *)

\* A slot whose successor is not planned is the last one.
LEMMA LastOfRun ==
    ASSUME IInv, NEW e \in Editors, cmd[e].pc = "writing",
           cmd[e].next + 1 \notin DOMAIN cmd[e].plan
    PROVE  DOMAIN cmd[e].plan = Written(e) \cup {cmd[e].next}
  <1>1. PICK a \in Slots, b \in Slots : a <= b /\ DOMAIN cmd[e].plan = a .. b
    BY DEF IInv, PlanIsRun, Running
  <1>2. a \in Nat /\ b \in Nat /\ cmd[e].next \in a .. b
    BY <1>1, EditorAssumption DEF Slots, IInv, NextIsPlanned
  <1>3. cmd[e].next = b
    BY <1>1, <1>2
  <1>4. \A s \in a .. b : s < b \/ s = b
    BY <1>2
  <1> QED
    BY <1>1, <1>2, <1>3, <1>4 DEF Written

\* A record that is written counts as written.
LEMMA WrittenGrows ==
    ASSUME IInv, NEW e \in Editors, Writes(e)
    PROVE  /\ Written(e)' = Written(e) \cup {cmd[e].next}
           /\ Cleared(e) = {} /\ Cleared(e)' = {}
  <1> USE DEF IInv
  <1>1. /\ GoesOn(e) /\ cmd[e].pc = "writing" /\ cmd[e].next \in DOMAIN cmd[e].plan
        /\ cmd'[e].next = cmd[e].next + 1 /\ cmd'[e].left = cmd[e].left
        /\ \/ cmd'[e].pc = "writing"
           \/ cmd[e].next + 1 \notin DOMAIN cmd[e].plan /\ cmd'[e].pc = "clearing"
    BY WritesFacts
  <1>2. cmd'[e].plan = cmd[e].plan /\ cmd'[e].clears = cmd[e].clears
    BY <1>1 DEF GoesOn
  <1>3. Cleared(e) = {} /\ Cleared(e)' = {}
    BY <1>1, <1>2 DEF Cleared, ClearsLeftOver
  <1>4. CASE cmd'[e].pc = "writing"
    <2>1. cmd[e].next \in Nat /\ \A s \in DOMAIN cmd[e].plan : s \in Nat
      BY <1>1, CommandType, EditorAssumption DEF Slots
    <2>2. \A s \in DOMAIN cmd[e].plan :
            s < cmd[e].next + 1 <=> (s < cmd[e].next \/ s = cmd[e].next)
      BY <2>1
    <2> QED
      BY <1>1, <1>2, <1>3, <1>4, <2>2 DEF Written
  <1>5. CASE cmd'[e].pc = "clearing"
    <2>1. DOMAIN cmd[e].plan = Written(e) \cup {cmd[e].next}
      BY <1>1, <1>5, LastOfRun
    <2>2. Written(e)' = DOMAIN cmd[e].plan
      BY <1>2, <1>5 DEF Written
    <2> QED
      BY <1>3, <2>1, <2>2
  <1> QED
    BY <1>1, <1>4, <1>5

\* While it clears, everything is written.
LEMMA ClearedGrows ==
    ASSUME IInv, NEW e \in Editors, NEW s \in Slots, GoesOn(e),
           cmd[e].pc = "clearing", s \in cmd[e].left, cmd'[e].left = cmd[e].left \ {s},
           cmd'[e].pc # "writing"
    PROVE  /\ Written(e) = DOMAIN cmd[e].plan /\ Written(e)' = DOMAIN cmd[e].plan
           /\ Cleared(e)' = Cleared(e) \cup {s} /\ s \notin DOMAIN cmd[e].plan
  <1>1. cmd'[e].plan = cmd[e].plan /\ cmd'[e].clears = cmd[e].clears
    BY DEF GoesOn
  <1>2. s \in cmd[e].clears /\ s \notin DOMAIN cmd[e].plan
    BY DEF IInv, ClearsLeftOver
  <1> QED
    BY <1>1, <1>2 DEF Written, Cleared

\* What one command does leaves the progress of the others.
LEMMA OthersWait ==
    ASSUME NEW e \in Editors, NEW d \in Editors, cmd'[d] = cmd[d]
    PROVE  /\ Written(d)' = Written(d) /\ Cleared(d)' = Cleared(d)
           /\ Running(d)' = Running(d) /\ IsChainWrite(d)' = IsChainWrite(d)
  BY DEF Written, Cleared, Running, IsChainWrite

\* A new command has written nothing.
LEMMA NothingWrittenYet ==
    ASSUME TypeOK, NEW e \in Editors, NEW plan \in Plans, NEW old \in Plans,
           NEW a \in Slots, NEW b \in Slots,
           AcceptsRun(e, plan, DOMAIN old \ DOMAIN plan, old, a, b)
    PROVE  Written(e)' = {} /\ Cleared(e)' = {}
  <1>1. /\ cmd'[e].plan = plan /\ cmd'[e].next = a /\ cmd'[e].pc = "writing"
        /\ cmd'[e].clears = DOMAIN old \ DOMAIN plan /\ cmd'[e].left = DOMAIN old \ DOMAIN plan
    BY AcceptsFacts, ZenonT(60)
  <1>2. \A s \in DOMAIN plan : ~(s < a)
    BY EditorAssumption DEF AcceptsRun, Slots
  <1> QED
    BY <1>1, <1>2 DEF Written, Cleared

\* The panel was given what a command has written.
LEMMA WrittenWasGivenPreserved ==
    ASSUME IInv, [Next]_vars
    PROVE  WrittenWasGiven'
  <1> USE DEF IInv
  <1>1. ASSUME NEW e \in Editors, Write(e) \/ Clear(e) \/ Clone(e) \/ ChainWrite(e)
        PROVE  WrittenWasGiven'
    <2>1. PICK plan \in Plans, old \in Plans, a \in Slots, b \in Slots :
            AcceptsRun(e, plan, DOMAIN old \ DOMAIN plan, old, a, b)
      BY <1>1, AcceptedRun
    <2>2. /\ \A d \in Editors \ {e} : cmd'[d] = cmd[d]
          /\ given' = given /\ Written(e)' = {}
      BY <2>1, AcceptsFacts, NothingWrittenYet
    <2> QED
      BY <2>2, OthersWait DEF WrittenWasGiven
  <1>2. ASSUME NEW e \in Editors, Runs(e) PROVE WrittenWasGiven'
    <2>1. GoesOn(e) /\ given \subseteq given'
      BY <1>2, RunsFacts
    <2>2. \A d \in Editors \ {e} : Running(d)' =>
            \A s \in Written(d)' : <<s, cmd'[d].plan[s]>> \in given'
      BY <2>1, OthersWait DEF GoesOn, WrittenWasGiven
    <2>3. CASE Writes(e)
      <3>1. <<cmd[e].next, cmd[e].plan[cmd[e].next]>> \in given'
        BY <2>3, WritesFacts, CommandType, StoresFacts
      <3>2. Written(e)' = Written(e) \cup {cmd[e].next} /\ Running(e)
        BY <2>1, <2>3, WrittenGrows DEF GoesOn
      <3> QED
        BY <2>1, <2>2, <3>1, <3>2 DEF WrittenWasGiven, GoesOn
    <2>4. CASE Clears(e)
      <3>1. Written(e)' = Written(e) /\ Running(e)
        BY <2>1, <2>4, ClearsFacts, ClearedGrows DEF GoesOn
      <3> QED
        BY <2>1, <2>2, <3>1 DEF WrittenWasGiven, GoesOn
    <2>5. CASE WritesLast(e) \/ WriteFails(e) \/ ClearsLast(e) \/ ClearFails(e)
      <3>1. ~Running(e)'
        BY <2>5, WritesLastFacts, FailsFacts, ClearsLastFacts DEF Running
      <3> QED
        BY <2>1, <2>2, <3>1 DEF WrittenWasGiven
    <2> QED
      BY <1>2, <2>3, <2>4, <2>5 DEF Runs
  <1>3. CASE UNCHANGED vars
    BY <1>3 DEF WrittenWasGiven, vars, Running, Written
  <1> QED
    BY <1>1, <1>2, <1>3 DEF Next, Runs

\* The cache takes over what was written, and the slots that were cleared.
LEMMA CacheWasGivenPreserved ==
    ASSUME IInv, [Next]_vars
    PROVE  CacheWasGiven'
  <1> USE DEF IInv
  <1>1. ASSUME NEW e \in Editors, Write(e) \/ Clear(e) \/ Clone(e) \/ ChainWrite(e)
        PROVE  CacheWasGiven'
    BY <1>1 DEF Write, Clear, Clone, ChainWrite, Accepts, CacheWasGiven
  <1>2. ASSUME NEW e \in Editors, Runs(e) PROVE CacheWasGiven'
    <2>1. GoesOn(e) /\ given \subseteq given'
      BY <1>2, RunsFacts
    <2>2. ASSUME cache' = UpdatedCache(e),
                 \A s \in DOMAIN cmd[e].plan : <<s, cmd[e].plan[s]>> \in given'
          PROVE  CacheWasGiven'
      <3> SUFFICES ASSUME NEW s \in Slots PROVE <<s, cache'[s]>> \in given'
        BY DEF CacheWasGiven
      <3>1. <<s, cache[s]>> \in given' /\ <<s, Free>> \in given'
        BY <2>1 DEF CacheWasGiven, WrittenWasGiven
      <3> QED
        BY <2>2, <3>1 DEF UpdatedCache
    <2>3. CASE Writes(e) \/ WriteFails(e) \/ Clears(e) \/ ClearFails(e)
      <3>1. cache' = cache
        BY <2>3, WritesFacts, FailsFacts, ClearsFacts
      <3> QED
        BY <2>1, <3>1 DEF CacheWasGiven
    <2>4. CASE WritesLast(e)
      <3>1. <<cmd[e].next, cmd[e].plan[cmd[e].next]>> \in given'
        BY <2>4, WritesLastFacts, CommandType, StoresFacts
      <3>2. /\ DOMAIN cmd[e].plan = Written(e) \cup {cmd[e].next} /\ Running(e)
            /\ cache' = UpdatedCache(e)
        BY <2>1, <2>4, WritesLastFacts, LastOfRun DEF GoesOn
      <3> QED
        BY <2>1, <2>2, <3>1, <3>2 DEF WrittenWasGiven
    <2>5. CASE ClearsLast(e)
      <3>1. /\ Written(e) = DOMAIN cmd[e].plan /\ Running(e)
            /\ cache' = UpdatedCache(e)
        BY <2>1, <2>5, ClearsLastFacts DEF GoesOn, Written
      <3> QED
        BY <2>1, <2>2, <3>1 DEF WrittenWasGiven
    <2> QED
      BY <1>2, <2>3, <2>4, <2>5 DEF Runs
  <1>3. CASE UNCHANGED vars
    BY <1>3 DEF CacheWasGiven, vars
  <1> QED
    BY <1>1, <1>2, <1>3 DEF Next, Runs

-----------------------------------------------------------------------------
(* The commands among themselves.                                          *)

\* The next number is one that no command has.
LEMMA NumbersDifferPreserved ==
    ASSUME IInv, [Next]_vars
    PROVE  NumbersDiffer'
  <1> USE DEF IInv
  <1>1. ASSUME NEW e \in Editors, Write(e) \/ Clear(e) \/ Clone(e) \/ ChainWrite(e)
        PROVE  NumbersDiffer'
    <2>1. PICK plan \in Plans, old \in Plans, a \in Slots, b \in Slots :
            AcceptsRun(e, plan, DOMAIN old \ DOMAIN plan, old, a, b)
      BY <1>1, AcceptedRun
    <2>2. /\ \A d \in Editors \ {e} : cmd'[d] = cmd[d]
          /\ cmd'[e].number = commands' /\ commands' = commands + 1 /\ commands \in Nat
      <3>1. commands \in Nat
        BY DEF TypeOK
      <3> QED
        BY <2>1, <3>1, AcceptsFacts
    <2>3. \A d \in Editors : cmd[d].number \in Nat /\ cmd[d].number <= commands
      BY CommandType DEF NumbersDiffer
    <2>4. \A d \in Editors : cmd[d].number # commands + 1 /\ cmd[d].number <= commands + 1
      BY <2>2, <2>3
    <2>5. commands + 1 # 0 /\ commands + 1 <= commands + 1
      BY <2>2
    <2> QED
      BY <2>2, <2>4, <2>5 DEF NumbersDiffer
  <1>2. ASSUME NEW e \in Editors, Runs(e) PROVE NumbersDiffer'
    <2>1. GoesOn(e)
      BY <1>2, RunsFacts
    <2>2. cmd[e].pc # "idle" /\ \A d \in Editors : cmd'[d].number = cmd[d].number
      BY <2>1 DEF GoesOn, Running
    <2>3. \A d \in Editors : cmd'[d].pc # "idle" => cmd[d].pc # "idle"
      BY <2>1, <2>2 DEF GoesOn
    <2> QED
      BY <2>1, <2>2, <2>3 DEF NumbersDiffer, GoesOn
  <1>3. CASE UNCHANGED vars
    BY <1>3 DEF NumbersDiffer, vars
  <1> QED
    BY <1>1, <1>2, <1>3 DEF Next, Runs

\* A command that is accepted while another runs overlaps it.
LEMMA LatestRunsPreserved ==
    ASSUME IInv, [Next]_vars
    PROVE  LatestRuns'
  <1> USE DEF IInv
  <1>1. ASSUME NEW e \in Editors, Write(e) \/ Clear(e) \/ Clone(e) \/ ChainWrite(e)
        PROVE  LatestRuns'
    <2>1. PICK plan \in Plans, old \in Plans, a \in Slots, b \in Slots :
            AcceptsRun(e, plan, DOMAIN old \ DOMAIN plan, old, a, b)
      BY <1>1, AcceptedRun
    <2>2. /\ \A d \in Editors \ {e} : cmd'[d] = cmd[d]
          /\ cmd'[e].number = commands'
          /\ ~overlapped' => \A d \in Editors \ {e} : ~Running(d)
      BY <2>1, AcceptsFacts
    <2> QED
      BY <2>2 DEF LatestRuns, Running
  <1>2. ASSUME NEW e \in Editors, Runs(e) PROVE LatestRuns'
    <2>1. GoesOn(e)
      BY <1>2, RunsFacts
    <2> QED
      BY <2>1 DEF LatestRuns, GoesOn, Running
  <1>3. CASE UNCHANGED vars
    BY <1>3 DEF LatestRuns, vars, Running
  <1> QED
    BY <1>1, <1>2, <1>3 DEF Next, Runs

\* Of commands that do not overlap one runs at a time, and it is the latest.
LEMMA OneRuns ==
    ASSUME IInv, ~overlapped, NEW d \in Editors, NEW e \in Editors, Running(e),
           Running(d) \/ cmd[d].number = commands
    PROVE  d = e
  <1>1. cmd[e].number = commands /\ cmd[d].number = commands
    BY DEF IInv, LatestRuns
  <1>2. cmd[e].number # 0
    BY DEF IInv, NumbersDiffer, Running
  <1> QED
    BY <1>1, <1>2 DEF IInv, NumbersDiffer

\* Nothing but the command that runs changes the panel, and the cache waits.
LEMMA PanelAheadPreserved ==
    ASSUME IInv, [Next]_vars
    PROVE  PanelAhead'
  <1> USE DEF IInv
  <1>1. ASSUME NEW e \in Editors, Write(e) \/ Clear(e) \/ Clone(e) \/ ChainWrite(e)
        PROVE  PanelAhead'
    <2>1. PICK plan \in Plans, old \in Plans, a \in Slots, b \in Slots :
            AcceptsRun(e, plan, DOMAIN old \ DOMAIN plan, old, a, b)
      BY <1>1, AcceptedRun
    <2>2. /\ ~Running(e) /\ \A d \in Editors \ {e} : cmd'[d] = cmd[d]
          /\ ~overlapped' => ~overlapped /\ \A d \in Editors \ {e} : ~Running(d)
          /\ UNCHANGED <<panel, cache, doubtful>>
      BY <2>1, AcceptsFacts
    <2> SUFFICES ASSUME ~overlapped', NEW d \in Editors, Running(d)',
                        NEW s \in (Slots \ doubtful) \cup Written(d)' \cup Cleared(d)'
                 PROVE  panel[s] = IF s \in Written(d)' THEN cmd'[d].plan[s]
                                   ELSE IF s \in Cleared(d)' THEN Free
                                   ELSE cache[s]
      BY <2>2 DEF PanelAhead
    <2>3. ~overlapped /\ \A c \in Editors : ~Running(c)
      BY <2>2
    <2>4. d = e
      BY <2>2, <2>3 DEF Running
    <2>5. Written(e)' = {} /\ Cleared(e)' = {}
      BY <2>1, NothingWrittenYet
    <2>6. cache[s] = panel[s]
      BY <2>3, <2>4, <2>5 DEF CacheAgrees
    <2> QED
      BY <2>4, <2>5, <2>6
  <1>2. ASSUME NEW e \in Editors, Runs(e) PROVE PanelAhead'
    <2>1. GoesOn(e) /\ overlapped' = overlapped
      BY <1>2, RunsFacts DEF GoesOn
    <2> SUFFICES ASSUME ~overlapped, NEW d \in Editors, Running(d)',
                        NEW s \in (Slots \ doubtful') \cup Written(d)' \cup Cleared(d)'
                 PROVE  panel'[s] = IF s \in Written(d)' THEN cmd'[d].plan[s]
                                    ELSE IF s \in Cleared(d)' THEN Free
                                    ELSE cache'[s]
      BY <2>1 DEF PanelAhead
    <2>2. d = e
      <3>1. Running(e) /\ (d # e => Running(d))
        BY <2>1, OthersWait DEF GoesOn
      <3> QED
        BY <3>1, OneRuns
    <2>3. s \in (Slots \ doubtful) \cup Written(e) \cup Cleared(e)
            => panel[s] = IF s \in Written(e) THEN cmd[e].plan[s]
                          ELSE IF s \in Cleared(e) THEN Free
                          ELSE cache[s]
      BY <2>1 DEF PanelAhead, GoesOn
    <2>7. s \in Slots
      BY <2>1, <2>2, CommandType DEF Written, Cleared, GoesOn
    <2>4. CASE Writes(e)
      <3>1. /\ panel'[cmd[e].next] = cmd[e].plan[cmd[e].next] /\ cache' = cache
            /\ doubtful' = doubtful
            /\ \A q \in Slots \ {cmd[e].next} : panel'[q] = panel[q]
        <4>1. /\ cmd[e].next \in Slots /\ cmd[e].plan[cmd[e].next] \in Record
              /\ Stores(cmd[e].next, cmd[e].plan[cmd[e].next])
              /\ cache' = cache /\ doubtful' = doubtful
          BY <2>4, WritesFacts, CommandType
        <4> QED
          BY <4>1, StoresFacts
      <3>2. Written(e)' = Written(e) \cup {cmd[e].next} /\ Cleared(e)' = {} /\ Cleared(e) = {}
        BY <2>4, WrittenGrows
      <3>3. cmd'[e].plan = cmd[e].plan
        BY <2>1 DEF GoesOn
      <3>4. CASE s = cmd[e].next
        BY <2>2, <3>1, <3>2, <3>3, <3>4
      <3>5. CASE s # cmd[e].next
        BY <2>7, <2>2, <2>3, <3>1, <3>2, <3>3, <3>5
      <3> QED
        BY <3>4, <3>5
    <2>5. CASE Clears(e)
      <3>1. PICK q \in Slots :
              /\ cmd[e].pc = "clearing" /\ q \in cmd[e].left /\ Stores(q, Free)
              /\ cmd'[e].left = cmd[e].left \ {q} /\ cmd'[e].pc = "clearing"
              /\ cache' = cache /\ doubtful' = doubtful
        BY <2>5, ClearsFacts
      <3>2. panel'[q] = Free /\ \A r \in Slots \ {q} : panel'[r] = panel[r]
        BY <3>1, StoresFacts, FreeType
      <3>3. /\ Written(e) = DOMAIN cmd[e].plan /\ Written(e)' = DOMAIN cmd[e].plan
            /\ Cleared(e)' = Cleared(e) \cup {q} /\ q \notin DOMAIN cmd[e].plan
        BY <2>1, <3>1, ClearedGrows
      <3>4. cmd'[e].plan = cmd[e].plan
        BY <2>1 DEF GoesOn
      <3>5. CASE s = q
        BY <2>2, <3>2, <3>3, <3>5
      <3>6. CASE s # q
        BY <2>7, <2>2, <2>3, <3>1, <3>2, <3>3, <3>4, <3>6
      <3> QED
        BY <3>5, <3>6
    <2>6. CASE WritesLast(e) \/ WriteFails(e) \/ ClearsLast(e) \/ ClearFails(e)
      BY <2>2, <2>6, WritesLastFacts, FailsFacts, ClearsLastFacts DEF Running
    <2> QED
      BY <1>2, <2>4, <2>5, <2>6 DEF Runs
  <1>3. CASE UNCHANGED vars
    BY <1>3 DEF PanelAhead, vars, Running, Written, Cleared
  <1> QED
    BY <1>1, <1>2, <1>3 DEF Next, Runs

\* The cache takes over exactly what the command did.
LEMMA CacheAgreesPreserved ==
    ASSUME IInv, [Next]_vars
    PROVE  CacheAgrees'
  <1> USE DEF IInv
  <1>1. ASSUME NEW e \in Editors, Write(e) \/ Clear(e) \/ Clone(e) \/ ChainWrite(e)
        PROVE  CacheAgrees'
    <2>1. PICK plan \in Plans, old \in Plans, a \in Slots, b \in Slots :
            AcceptsRun(e, plan, DOMAIN old \ DOMAIN plan, old, a, b)
      BY <1>1, AcceptedRun
    <2>2. Running(e)'
      BY <2>1, AcceptsFacts DEF Running
    <2> QED
      BY <2>2 DEF CacheAgrees
  <1>2. ASSUME NEW e \in Editors, Runs(e) PROVE CacheAgrees'
    <2>1. GoesOn(e) /\ overlapped' = overlapped
      BY <1>2, RunsFacts DEF GoesOn
    <2> SUFFICES ASSUME ~overlapped, ~Running(e)', NEW s \in Slots, s \notin doubtful'
                 PROVE  cache'[s] = panel'[s]
      BY <2>1 DEF CacheAgrees
    <2>2. \A r \in (Slots \ doubtful) \cup Written(e) \cup Cleared(e) :
            panel[r] = IF r \in Written(e) THEN cmd[e].plan[r]
                       ELSE IF r \in Cleared(e) THEN Free
                       ELSE cache[r]
      BY <2>1 DEF PanelAhead, GoesOn
    <2>3. CASE Writes(e) \/ Clears(e)
      BY <2>3, WritesFacts, ClearsFacts DEF Running
    <2>4. CASE WriteFails(e) \/ ClearFails(e)
      <3>1. PICK q \in Slots, r \in Record : StoresOrNot(q, r) /\ LeavesInDoubt(e, q)
        BY <2>4, FailsFacts
      <3>2. /\ s # q /\ s \notin doubtful /\ s \notin Written(e) /\ s \notin Cleared(e)
            /\ cache' = cache
        BY <2>4, <3>1, FailsFacts DEF LeavesInDoubt
      <3>3. panel'[s] = panel[s]
        BY <3>1, <3>2, StoresFacts DEF StoresOrNot
      <3> QED
        BY <2>2, <3>2, <3>3
    <2>5. CASE WritesLast(e)
      <3>1. /\ panel'[cmd[e].next] = cmd[e].plan[cmd[e].next] /\ cmd[e].next \in Slots
            /\ \A q \in Slots \ {cmd[e].next} : panel'[q] = panel[q]
        <4>1. /\ cmd[e].next \in Slots /\ cmd[e].plan[cmd[e].next] \in Record
              /\ Stores(cmd[e].next, cmd[e].plan[cmd[e].next])
          BY <2>5, WritesLastFacts, CommandType
        <4> QED
          BY <4>1, StoresFacts
      <3>2. /\ DOMAIN cmd[e].plan = Written(e) \cup {cmd[e].next}
            /\ cmd[e].clears = {} /\ cache' = UpdatedCache(e) /\ Settles(e)
        BY <2>5, WritesLastFacts, LastOfRun
      <3>3. cache'[s] = IF s \in DOMAIN cmd[e].plan THEN cmd[e].plan[s] ELSE cache[s]
        BY <3>2 DEF UpdatedCache
      <3>4. Cleared(e) = {}
        BY <3>2 DEF Cleared
      <3>5. CASE s = cmd[e].next
        BY <3>1, <3>2, <3>3, <3>5
      <3>6. CASE s # cmd[e].next
        <4>1. s \in (Slots \ doubtful) \cup Written(e)
          BY <3>2, <3>6 DEF Settles
        <4> QED
          BY <2>2, <3>1, <3>2, <3>3, <3>4, <3>6, <4>1
      <3> QED
        BY <3>5, <3>6
    <2>6. CASE ClearsLast(e)
      <3>1. PICK q \in Slots :
              /\ cmd[e].pc = "clearing" /\ cmd[e].left = {q} /\ Stores(q, Free)
              /\ cmd'[e].left = {} /\ cmd'[e].pc = "done" /\ cache' = UpdatedCache(e)
              /\ Settles(e)
        BY <2>6, ClearsLastFacts
      <3>2. panel'[q] = Free /\ \A r \in Slots \ {q} : panel'[r] = panel[r]
        BY <3>1, StoresFacts, FreeType
      <3>3. /\ Written(e) = DOMAIN cmd[e].plan /\ q \notin DOMAIN cmd[e].plan
            /\ cmd[e].clears = Cleared(e) \cup {q}
        <4>1. q \in cmd[e].clears
          BY <3>1 DEF ClearsLeftOver
        <4> QED
          BY <3>1, <4>1 DEF ClearsLeftOver, Written, Cleared
      <3>4. cache'[s] = IF s \in DOMAIN cmd[e].plan THEN cmd[e].plan[s]
                        ELSE IF s \in cmd[e].clears THEN Free ELSE cache[s]
        BY <3>1 DEF UpdatedCache
      <3>5. CASE s = q
        BY <3>2, <3>3, <3>4, <3>5
      <3>6. CASE s # q
        <4>1. s \in (Slots \ doubtful) \cup Written(e) \cup Cleared(e)
          BY <3>1, <3>3, <3>6 DEF Settles
        <4> QED
          BY <2>2, <3>2, <3>3, <3>4, <3>6, <4>1
      <3> QED
        BY <3>5, <3>6
    <2> QED
      BY <1>2, <2>3, <2>4, <2>5, <2>6 DEF Runs
  <1>3. CASE UNCHANGED vars
    BY <1>3 DEF CacheAgrees, vars, Running
  <1> QED
    BY <1>1, <1>2, <1>3 DEF Next, Runs

\* The check of the cache that chain_write makes still holds while it writes.
LEMMA ChainFitsPreserved ==
    ASSUME IInv, [Next]_vars
    PROVE  ChainFits'
  <1> USE DEF IInv
  <1>1. ASSUME NEW e \in Editors, Write(e) \/ Clear(e) \/ Clone(e) \/ ChainWrite(e)
        PROVE  ChainFits'
    <2>1. PICK plan \in Plans, old \in Plans, a \in Slots, b \in Slots :
            AcceptsRun(e, plan, DOMAIN old \ DOMAIN plan, old, a, b)
      BY <1>1, AcceptedRun
    <2>2. /\ \A d \in Editors \ {e} : cmd'[d] = cmd[d]
          /\ cmd'[e].plan = plan /\ cmd'[e].old = old
          /\ ~overlapped' => ~overlapped
          /\ UNCHANGED <<panel, cache, faults>>
      BY <2>1, AcceptsFacts, ZenonT(60)
    <2> SUFFICES ASSUME ~overlapped', NEW d \in Editors, Running(d)', IsChainWrite(d)',
                        NEW s \in DOMAIN cmd'[d].plan \ DOMAIN cmd'[d].old
                 PROVE  cache[s] = Free
      BY <2>2 DEF ChainFits
    <2>3. ~overlapped
      BY <2>2
    <2>4. CASE d # e
      BY <2>2, <2>3, <2>4, OthersWait DEF ChainFits
    <2>5. CASE d = e
      <3>1. a # b
        <4>1. a = b => DOMAIN plan = {a}
          BY <2>1, OneSlotRun DEF AcceptsRun
        <4>2. Cardinality({a}) = 1
          BY FS_Singleton
        <4>3. Cardinality(DOMAIN plan) > 1
          BY <2>2, <2>5 DEF IsChainWrite
        <4> QED
          BY <4>1, <4>2, <4>3
      <3> QED
        BY <2>1, <2>2, <2>5, <3>1 DEF AcceptsRun
    <2> QED
      BY <2>4, <2>5
  <1>2. ASSUME NEW e \in Editors, Runs(e) PROVE ChainFits'
    <2>1. GoesOn(e) /\ overlapped' = overlapped
      BY <1>2, RunsFacts DEF GoesOn
    <2> SUFFICES ASSUME ~overlapped, NEW d \in Editors, Running(d)', IsChainWrite(d)',
                        NEW s \in DOMAIN cmd'[d].plan \ DOMAIN cmd'[d].old
                 PROVE  cache'[s] = Free
      BY <2>1 DEF ChainFits
    <2>2. d = e
      <3>1. Running(e) /\ (d # e => Running(d))
        BY <2>1, OthersWait DEF GoesOn
      <3> QED
        BY <3>1, OneRuns
    <2>3. Writes(e) \/ Clears(e)
      BY <1>2, <2>2, WritesLastFacts, FailsFacts, ClearsLastFacts DEF Running, Runs
    <2>4. cache' = cache
      BY <2>3, WritesFacts, ClearsFacts
    <2>5. cmd'[e].plan = cmd[e].plan /\ cmd'[e].old = cmd[e].old /\ Running(e)
      BY <2>1 DEF GoesOn
    <2> QED
      BY <2>2, <2>4, <2>5 DEF ChainFits, IsChainWrite
  <1>3. CASE UNCHANGED vars
    BY <1>3 DEF ChainFits, vars, Running, IsChainWrite
  <1> QED
    BY <1>1, <1>2, <1>3 DEF Next, Runs

\* The last command left the slots it gave up empty, and nothing fills them but
\* a later one.
LEMMA LeftOversGonePreserved ==
    ASSUME IInv, [Next]_vars
    PROVE  LeftOversGone'
  <1> USE DEF IInv
  <1>1. ASSUME NEW e \in Editors, Write(e) \/ Clear(e) \/ Clone(e) \/ ChainWrite(e)
        PROVE  LeftOversGone'
    <2>1. PICK plan \in Plans, old \in Plans, a \in Slots, b \in Slots :
            AcceptsRun(e, plan, DOMAIN old \ DOMAIN plan, old, a, b)
      BY <1>1, AcceptedRun
    <2>2. /\ \A d \in Editors \ {e} : cmd'[d] = cmd[d]
          /\ cmd'[e].pc = "writing" /\ commands' = commands + 1
      BY <2>1, AcceptsFacts
    <2>3. \A d \in Editors : cmd[d].number \in Nat /\ cmd[d].number <= commands /\ commands \in Nat
      BY CommandType DEF NumbersDiffer, TypeOK
    <2>4. \A d \in Editors \ {e} : cmd'[d].number # commands'
      BY <2>2, <2>3
    <2> QED
      BY <2>2, <2>4 DEF LeftOversGone
  <1>2. ASSUME NEW e \in Editors, Runs(e) PROVE LeftOversGone'
    <2>1. GoesOn(e) /\ overlapped' = overlapped
      BY <1>2, RunsFacts DEF GoesOn
    <2> SUFFICES ASSUME ~overlapped, NEW d \in Editors, cmd'[d].pc = "done",
                        cmd'[d].number = commands',
                        NEW s \in DOMAIN cmd'[d].old \ DOMAIN cmd'[d].plan
                 PROVE  panel'[s] = Free
      BY <2>1 DEF LeftOversGone
    <2>2. d = e
      <3>1. Running(e) /\ cmd[d].number = commands
        BY <2>1 DEF GoesOn
      <3> QED
        BY <3>1, OneRuns
    <2>3. WritesLast(e) \/ ClearsLast(e)
      BY <1>2, <2>2, WritesFacts, FailsFacts, ClearsFacts DEF Runs
    <2>4. s \in cmd[e].clears /\ s \notin DOMAIN cmd[e].plan /\ s \in Slots
      BY <2>1, <2>2, CommandType DEF GoesOn, ClearsLeftOver
    <2>5. ClearsLast(e)
      BY <2>3, <2>4, WritesLastFacts
    <2>6. PICK q \in Slots : cmd[e].pc = "clearing" /\ cmd[e].left = {q} /\ Stores(q, Free)
      BY <2>5, ClearsLastFacts
    <2>7. panel'[q] = Free /\ \A r \in Slots \ {q} : panel'[r] = panel[r]
      BY <2>6, StoresFacts, FreeType
    <2>8. s # q => panel[s] = Free
      <3>1. Running(e) /\ Written(e) = DOMAIN cmd[e].plan
        BY <2>1, <2>6 DEF GoesOn, Written
      <3>2. s # q => s \in Cleared(e)
        BY <2>4, <2>6 DEF Cleared
      <3> QED
        BY <2>4, <3>1, <3>2 DEF PanelAhead
    <2> QED
      BY <2>4, <2>7, <2>8
  <1>3. CASE UNCHANGED vars
    BY <1>3 DEF LeftOversGone, vars
  <1> QED
    BY <1>1, <1>2, <1>3 DEF Next, Runs

-----------------------------------------------------------------------------
(* The theorems.                                                           *)

\* No command runs in the initial state, and the cache was read from the panel.
LEMMA InitEstablishes == Init => IInv
  <1> SUFFICES ASSUME Init PROVE IInv
    OBVIOUS
  <1>1. /\ NoPlan \in Plans /\ DOMAIN NoPlan = {} /\ Idle \in Command
    <2>1. DOMAIN NoPlan = {} /\ NoPlan \in [{} -> Record]
      BY FreeType DEF NoPlan
    <2>2. NoPlan \in Plans
      BY <2>1, PlanType
    <2> QED
      BY <2>1, <2>2, EditorAssumption DEF Idle, Command
  <1>2. panel \in Table /\ cache = panel
    <2>1. PICK l \in Layouts : panel = [s \in Slots |-> [kind |-> l[s], by |-> 0]]
      BY DEF Init
    <2>2. l \in [Slots -> Kinds]
      BY EditorAssumption
    <2> QED
      BY <2>1, <2>2, EditorAssumption DEF Init, Table, Record
  <1>3. cmd = [e \in Editors |-> Idle] /\ \A e \in Editors : cmd[e] = Idle
    BY DEF Init
  <1>4. \A e \in Editors : /\ cmd[e].pc = "idle" /\ cmd[e].number = 0 /\ ~Running(e)
                           /\ cmd[e].clears = {} /\ cmd[e].left = {}
                           /\ cmd[e].old = NoPlan /\ cmd[e].plan = NoPlan
    BY <1>3 DEF Idle, Running
  <1>5. given = {<<s, panel[s]>> : s \in Slots} \cup (Slots \X {Free})
    BY DEF Init
  <1>6. TypeOK
    <2>1. given \subseteq Slots \X Record
      BY <1>2, <1>5, FreeType DEF Table
    <2>2. /\ commands \in 0 .. MaxCommands /\ faults \in 0 .. MaxFaults /\ overlapped \in BOOLEAN
      <3>1. commands = 0 /\ faults = 0 /\ MaxCommands \in Nat /\ MaxFaults \in Nat
        BY EditorAssumption DEF Init
      <3>2. overlapped \in BOOLEAN
        BY DEF Init
      <3> QED
        BY <3>1, <3>2
    <2>3. doubtful \subseteq Slots
      BY DEF Init
    <2> QED
      BY <1>1, <1>2, <1>3, <2>1, <2>2, <2>3 DEF TypeOK
  <1>7. PlanIsRun /\ NextIsPlanned /\ ClearsLeftOver
    BY <1>1, <1>4 DEF PlanIsRun, NextIsPlanned, ClearsLeftOver
  <1>8. WrittenWasGiven /\ CacheWasGiven
    BY <1>2, <1>4, <1>5 DEF WrittenWasGiven, CacheWasGiven
  <1>9. NumbersDiffer /\ LatestRuns
    <2>1. commands = 0
      BY DEF Init
    <2> QED
      BY <1>4, <2>1 DEF NumbersDiffer, LatestRuns
  <1>10. PanelAhead /\ CacheAgrees /\ ChainFits /\ LeftOversGone
    BY <1>2, <1>4 DEF PanelAhead, CacheAgrees, ChainFits, LeftOversGone
  <1> QED
    BY <1>6, <1>7, <1>8, <1>9, <1>10 DEF IInv

\* The inductive invariant holds in every behaviour: how far each command has
\* come tells what the panel was given and, while none overlap, what it holds.
THEOREM Invariance == Spec => []IInv
  <1>1. Init => IInv
    BY InitEstablishes
  <1>2. IInv /\ [Next]_vars => IInv'
    <2> SUFFICES ASSUME IInv, [Next]_vars PROVE IInv'
      OBVIOUS
    <2>1. TypeOK' /\ PlanIsRun' /\ NextIsPlanned' /\ ClearsLeftOver'
      BY TypeOKPreserved, PlanIsRunPreserved, NextIsPlannedPreserved, ClearsLeftOverPreserved
    <2>2. WrittenWasGiven' /\ CacheWasGiven' /\ NumbersDiffer' /\ LatestRuns'
      BY WrittenWasGivenPreserved, CacheWasGivenPreserved, NumbersDifferPreserved,
         LatestRunsPreserved
    <2>3. PanelAhead' /\ CacheAgrees' /\ ChainFits' /\ LeftOversGone'
      BY PanelAheadPreserved, CacheAgreesPreserved, ChainFitsPreserved, LeftOversGonePreserved
    <2> QED
      BY <2>1, <2>2, <2>3 DEF IInv
  <1> QED
    BY <1>1, <1>2, PTL DEF Spec

\* Every variable keeps its type; in particular a command writes and clears
\* slots of the panel only, and records only.
THEOREM TypeCorrect == Spec => []TypeOK
  <1>1. IInv => TypeOK
    BY DEF IInv
  <1> QED
    BY <1>1, Invariance, PTL

\* What the cache shows in a slot was given to the panel for that slot, whatever
\* the commands do to each other and whatever fails.
THEOREM CacheIsGiven == Spec => []CacheWasGiven
  <1>1. IInv => CacheWasGiven
    BY DEF IInv
  <1> QED
    BY <1>1, Invariance, PTL

\* While commands do not overlap, the cache is the panel's table whenever none is
\* under way, but for the slots a failed command left in doubt.
THEOREM CacheIsPanel == Spec => []CacheAgrees
  <1>1. IInv => CacheAgrees
    BY DEF IInv
  <1> QED
    BY <1>1, Invariance, PTL

\* While commands do not overlap, a chain_write comes to a slot that holds another
\* program only where a failed command left the slot in doubt.
THEOREM NoTrampling == Spec => []NeverTramplesAlone
  <1>1. ASSUME IInv, ~overlapped, NEW e \in Editors, Tramples(e)
        PROVE  cmd[e].next \in doubtful
    <2> USE DEF IInv
    <2> SUFFICES ASSUME Running(e), IsChainWrite(e), cmd[e].pc = "writing",
                        cmd[e].next \in Slots, cmd[e].next \notin DOMAIN cmd[e].old,
                        cmd[e].next \notin doubtful
                 PROVE  panel[cmd[e].next] = Free
      BY <1>1 DEF Tramples, MayReplace
    <2>1. cmd[e].next \in DOMAIN cmd[e].plan
      BY <1>1 DEF NextIsPlanned
    <2>2. cache[cmd[e].next] = Free
      BY <1>1, <2>1 DEF ChainFits
    <2>3. cmd[e].next \notin Written(e) /\ cmd[e].next \notin Cleared(e)
      <3>1. ~(cmd[e].next < cmd[e].next)
        BY EditorAssumption DEF Slots
      <3>2. cmd[e].left = cmd[e].clears
        BY <1>1 DEF ClearsLeftOver
      <3> QED
        BY <3>1, <3>2 DEF Written, Cleared
    <2> QED
      BY <1>1, <2>2, <2>3 DEF PanelAhead
  <1>2. IInv => NeverTramplesAlone
    BY <1>1 DEF NeverTramplesAlone
  <1> QED
    BY <1>2, Invariance, PTL

\* Unless commands overlap, nothing of the old chain is left beyond the new one
\* when chain_write reports success.
THEOREM NoLeftOvers == Spec => []LeftOversGone
  <1>1. IInv => LeftOversGone
    BY DEF IInv
  <1> QED
    BY <1>1, Invariance, PTL
=============================================================================
