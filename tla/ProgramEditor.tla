--------------------------- MODULE ProgramEditor ---------------------------
(***************************************************************************)
(* The websocket commands that edit the panel's programs: write, clear,    *)
(* clone and chain_write of websocket.py, each a coroutine that checks the *)
(* cached programs, sends one DownloadProgram at a time and updates the    *)
(* cache once it is through.  Several commands may be under way.           *)
(*                                                                         *)
(* A DownloadProgram and its reply are one step: the connection answers in *)
(* order, so the cache is updated in the order the panel executes.         *)
(***************************************************************************)
EXTENDS Naturals, FiniteSets

CONSTANTS
    NSlots,        \* program slots, 1500 in the code
    Editors,       \* websocket commands that may be under way
    Layouts,       \* the kinds of records the panel's slots start with
    MaxConditions, \* bound: condition records of a new chain
    MaxActions,    \* bound: action records of a new chain
    MaxCommands,   \* bound: commands that are accepted
    MaxFaults      \* bound: requests that fail

Slots == 1 .. NSlots

\* FREE; WHEN, AT or EVERY; AND or OR; THEN; a record that is a whole program.
Kinds == {"free", "head", "condition", "action", "single"}

ASSUME EditorAssumption ==
    /\ NSlots \in Nat /\ Layouts \subseteq [Slots -> Kinds]
    /\ MaxConditions \in Nat /\ MaxActions \in Nat
    /\ MaxCommands \in Nat /\ MaxFaults \in Nat

VARIABLES
    panel,      \* the panel's program slots
    cache,      \* coordinator.data.programs; a slot it does not have is free
    cmd,        \* the command each editor runs or ran last
    commands,   \* the number of commands accepted so far
    faults,     \* the number of requests that failed
    overlapped, \* history: two commands have been under way together
    given,      \* history: every record the panel was asked to store
    doubtful    \* history: slots that a command which failed had asked the panel
                \* to change, and that no command has settled since

vars == <<panel, cache, cmd, commands, faults, overlapped, given, doubtful>>

\* A record: its kind, and the command that made it (0: there from the start).
Record == [kind : Kinds, by : 0 .. MaxCommands]
Free == [kind |-> "free", by |-> 0]
Made(kind) == [kind |-> kind, by |-> commands + 1]

Table == [Slots -> Record]
Plans == UNION {[S -> Record] : S \in SUBSET Slots}

\* plan: the records to write; next: the slot to write; clears: the slots to
\* clear afterwards; left: those still to clear; old: the chain that is replaced.
Command == [pc : {"idle", "writing", "clearing", "done", "failed"}, number : 0 .. MaxCommands,
            plan : Plans, next : 1 .. NSlots + 1,
            clears : SUBSET Slots, left : SUBSET Slots, old : Plans]

NoPlan == [s \in {} |-> Free]
Idle == [pc |-> "idle", number |-> 0, plan |-> NoPlan, next |-> 1,
         clears |-> {}, left |-> {}, old |-> NoPlan]

Running(e) == cmd[e].pc \in {"writing", "clearing"}

TypeOK ==
    /\ panel \in Table /\ cache \in Table
    /\ cmd \in [Editors -> Command]
    /\ commands \in 0 .. MaxCommands /\ faults \in 0 .. MaxFaults
    /\ overlapped \in BOOLEAN
    /\ given \subseteq Slots \X Record /\ doubtful \subseteq Slots

Init ==
    /\ \E l \in Layouts :
         panel = [s \in Slots |-> [kind |-> l[s], by |-> 0]]
    /\ cache = panel
    /\ cmd = [e \in Editors |-> Idle]
    /\ commands = 0 /\ faults = 0 /\ overlapped = FALSE
    /\ given = {<<s, panel[s]>> : s \in Slots} \cup (Slots \X {Free})
    /\ doubtful = {}

-----------------------------------------------------------------------------
(* build_chains: a head and the condition and action records after it, one *)
(* action at least.                                                        *)

Follows(t, h) ==
    {s \in Slots : s > h /\ \A i \in h + 1 .. s : t[i].kind \in {"condition", "action"}}

IsChain(t, h) == t[h].kind = "head" /\ \E s \in Follows(t, h) : t[s].kind = "action"

ChainSlots(t, h) == IF IsChain(t, h) THEN {h} \cup Follows(t, h) ELSE {}

Chain(t, h) == [s \in ChainSlots(t, h) |-> t[s]]

-----------------------------------------------------------------------------
(* A command is accepted.                                                  *)

First(plan) == CHOOSE s \in DOMAIN plan : \A r \in DOMAIN plan : s <= r

Accepts(e, plan, clears, old) ==
    /\ ~Running(e) /\ commands < MaxCommands
    /\ cmd' = [cmd EXCEPT ![e] = [pc |-> "writing", number |-> commands + 1,
                                  plan |-> plan, next |-> First(plan),
                                  clears |-> clears, left |-> clears, old |-> old]]
    /\ commands' = commands + 1
    /\ overlapped' = (overlapped \/ \E d \in Editors \ {e} : Running(d))
    /\ UNCHANGED <<panel, cache, faults, given, doubtful>>

Write(e) ==
    \E s \in Slots, k \in Kinds \ {"free"} :
        Accepts(e, [r \in {s} |-> Made(k)], {}, NoPlan)

Clear(e) == \E s \in Slots : Accepts(e, [r \in {s} |-> Free], {}, NoPlan)

\* The source is read from the cache; the target need not be free.
Clone(e) ==
    \E s, t \in Slots :
        /\ s # t /\ cache[s] # Free
        /\ Accepts(e, [r \in {t} |-> cache[s]], {}, NoPlan)

FitsOneMore(run) == run \subseteq 1 .. NSlots + 1

Fits(run) == run \subseteq Slots

\* The slots of the new run that are not the old chain's must be free.
Occupied(s) == s \in Slots /\ cache[s] # Free

MayOccupyAny(run, own) == TRUE

MayOccupy(run, own) == \A s \in run \ own : ~Occupied(s)

LeftOverKept(run, own) == {}

\* The slots of the old chain that the new run does not cover.
LeftOver(run, own) == own \ run

NewChain(h, nc, na) ==
    [s \in h .. h + nc + na |->
        Made(IF s = h THEN "head" ELSE IF s <= h + nc THEN "condition" ELSE "action")]

ChainWrite(e) ==
    \E h \in Slots, nc \in 0 .. MaxConditions, na \in 1 .. MaxActions :
        LET run == h .. h + nc + na
            own == ChainSlots(cache, h) IN
        /\ Fits(run)
        /\ MayOccupy(run, own)
        /\ Accepts(e, NewChain(h, nc, na), LeftOver(run, own), Chain(cache, h))

-----------------------------------------------------------------------------
(* A command goes on.                                                      *)

Stores(s, r) ==
    /\ panel' = [panel EXCEPT ![s] = r]
    /\ given' = given \cup {<<s, r>>}

Fault == faults < MaxFaults /\ faults' = faults + 1

UpdatedCacheKeepsCleared(e) ==
    [s \in Slots |-> IF s \in DOMAIN cmd[e].plan THEN cmd[e].plan[s] ELSE cache[s]]

UpdatedCache(e) ==
    [s \in Slots |-> IF s \in DOMAIN cmd[e].plan THEN cmd[e].plan[s]
                     ELSE IF s \in cmd[e].clears THEN Free
                     ELSE cache[s]]

\* The slots that the panel has obeyed the command in.
Written(e) == {s \in DOMAIN cmd[e].plan : cmd[e].pc = "writing" => s < cmd[e].next}

Cleared(e) == cmd[e].clears \ cmd[e].left

\* History: a command that is through has settled its slots; one that fails
\* leaves those in doubt that it had come to, slot s of the failed request included.
Settles(e) == doubtful' = doubtful \ (DOMAIN cmd[e].plan \cup cmd[e].clears)

LeavesInDoubt(e, s) == doubtful' = doubtful \cup Written(e) \cup Cleared(e) \cup {s}

\* One more record, and there is another one, or a slot to clear.
Writes(e) ==
    /\ cmd[e].pc = "writing"
    /\ LET s == cmd[e].next
           more == s + 1 \in DOMAIN cmd[e].plan IN
       /\ more \/ cmd[e].clears # {}
       /\ Stores(s, cmd[e].plan[s])
       /\ cmd' = [cmd EXCEPT ![e].pc = IF more THEN "writing" ELSE "clearing",
                             ![e].next = s + 1]
    /\ UNCHANGED <<cache, commands, faults, overlapped, doubtful>>

Clears(e) ==
    /\ cmd[e].pc = "clearing" /\ Cardinality(cmd[e].left) > 1
    /\ LET s == CHOOSE r \in cmd[e].left : \A q \in cmd[e].left : r <= q IN
       /\ Stores(s, Free)
       /\ cmd' = [cmd EXCEPT ![e].left = @ \ {s}]
    /\ UNCHANGED <<cache, commands, faults, overlapped, doubtful>>

\* The last request has been answered: the cache is updated.
WritesLast(e) ==
    /\ cmd[e].pc = "writing" /\ cmd[e].clears = {}
    /\ cmd[e].next + 1 \notin DOMAIN cmd[e].plan
    /\ Stores(cmd[e].next, cmd[e].plan[cmd[e].next])
    /\ cmd' = [cmd EXCEPT ![e].pc = "done", ![e].next = @ + 1]
    /\ cache' = UpdatedCache(e)
    /\ Settles(e)
    /\ UNCHANGED <<commands, faults, overlapped>>

ClearsLast(e) ==
    /\ cmd[e].pc = "clearing"
    /\ \E s \in Slots :
         /\ cmd[e].left = {s}
         /\ Stores(s, Free)
    /\ cmd' = [cmd EXCEPT ![e].pc = "done", ![e].left = {}]
    /\ cache' = UpdatedCache(e)
    /\ Settles(e)
    /\ UNCHANGED <<commands, faults, overlapped>>

\* A request is refused, or its answer is lost after the panel obeyed it.
StoresOrNot(s, r) == Stores(s, r) \/ UNCHANGED <<panel, given>>

FailureCachedAnyway(e) == cache' = UpdatedCache(e)

\* The handler reports the error and returns.
FailureCached(e) == UNCHANGED cache

WriteFails(e) ==
    /\ cmd[e].pc = "writing" /\ Fault
    /\ StoresOrNot(cmd[e].next, cmd[e].plan[cmd[e].next])
    /\ LeavesInDoubt(e, cmd[e].next)
    /\ cmd' = [cmd EXCEPT ![e].pc = "failed"]
    /\ FailureCached(e)
    /\ UNCHANGED <<commands, overlapped>>

\* The handler of a failed clear names a logger that does not exist: the
\* NameError ends the command before the cache is updated.
ClearFails(e) ==
    /\ cmd[e].pc = "clearing" /\ Fault
    /\ LET s == CHOOSE r \in cmd[e].left : \A q \in cmd[e].left : r <= q IN
       StoresOrNot(s, Free) /\ LeavesInDoubt(e, s)
    /\ cmd' = [cmd EXCEPT ![e].pc = "failed"]
    /\ UNCHANGED <<cache, commands, overlapped>>

-----------------------------------------------------------------------------
Next ==
    \E e \in Editors :
        \/ Write(e) \/ Clear(e) \/ Clone(e) \/ ChainWrite(e)
        \/ Writes(e) \/ WritesLast(e) \/ WriteFails(e)
        \/ Clears(e) \/ ClearsLast(e) \/ ClearFails(e)

Spec == Init /\ [][Next]_vars

-----------------------------------------------------------------------------
(* Properties.                                                             *)

\* What the cache, and so the user interface, shows in a slot is something
\* the panel was given for that slot, in every interleaving and whatever fails.
CacheWasGiven == \A s \in Slots : <<s, cache[s]>> \in given

\* Commands that do not overlap leave the cache as the panel's table, whatever
\* fails, the slots a chain grew into and those it gave up included: only what a
\* command that failed had asked for is in doubt, until a command settles it.
CacheAgrees ==
    ~overlapped /\ (\A e \in Editors : ~Running(e))
        => \A s \in Slots \ doubtful : cache[s] = panel[s]

IsChainWrite(e) == Cardinality(DOMAIN cmd[e].plan) > 1

\* A record that the running chain_write may replace: its own, one of the chain
\* it rewrites, or none.
MayReplace(e, s) ==
    panel[s] = Free \/ s \in DOMAIN cmd[e].old \/ panel[s].by = cmd[e].number

Tramples(e) ==
    /\ Running(e) /\ IsChainWrite(e) /\ cmd[e].pc = "writing"
    /\ cmd[e].next \in Slots /\ ~MayReplace(e, cmd[e].next)

\* "refuse otherwise so we never trample an adjacent program": while no two
\* commands overlap, a chain_write comes to a slot that holds another program
\* only if an earlier command failed over that very slot and left it in doubt.
NeverTramplesAlone ==
    ~overlapped => \A e \in Editors : Tramples(e) => cmd[e].next \in doubtful

\* "so leftover continuation records don't get mis-associated with the
\* now-shorter chain": unless commands overlap, nothing of the old chain is left
\* beyond the new one when the command reports success, whatever failed before.
LeftOversGone ==
    \A e \in Editors :
        ~overlapped /\ cmd[e].pc = "done" /\ cmd[e].number = commands
            => \A s \in DOMAIN cmd[e].old \ DOMAIN cmd[e].plan : panel[s] = Free
=============================================================================
