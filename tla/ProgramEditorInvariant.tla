---------------------- MODULE ProgramEditorInvariant ----------------------
(***************************************************************************)
(* The inductive invariant of ProgramEditor, in named parts: how far each  *)
(* command has come, what the panel was given by then, and who may be      *)
(* under way while no two commands overlap.                                *)
(***************************************************************************)
EXTENDS ProgramEditor

-----------------------------------------------------------------------------
(* Each command by itself.                                                 *)

\* A command writes slots that follow each other, from the first to the last.
PlanIsRun ==
    \A e \in Editors : Running(e) =>
        \E a, b \in Slots : a <= b /\ DOMAIN cmd[e].plan = a .. b

NextIsPlanned ==
    \A e \in Editors : cmd[e].pc = "writing" => cmd[e].next \in DOMAIN cmd[e].plan

\* It clears what the chain it replaces does not share with the new one.
ClearsLeftOver ==
    \A e \in Editors :
        /\ cmd[e].clears = DOMAIN cmd[e].old \ DOMAIN cmd[e].plan
        /\ cmd[e].left \subseteq cmd[e].clears
        /\ cmd[e].pc = "writing" => cmd[e].left = cmd[e].clears
        /\ cmd[e].pc = "clearing" => cmd[e].left # {}

\* What was written was given, and so was an empty slot.
WrittenWasGiven ==
    /\ \A s \in Slots : <<s, Free>> \in given
    /\ \A e \in Editors : Running(e) =>
         \A s \in Written(e) : <<s, cmd[e].plan[s]>> \in given

-----------------------------------------------------------------------------
(* The commands among themselves.                                          *)

\* Each command has a number of its own.
NumbersDiffer ==
    \A e \in Editors :
        /\ cmd[e].number <= commands
        /\ cmd[e].pc # "idle" => cmd[e].number # 0
        /\ \A d \in Editors : cmd[d].number = cmd[e].number /\ cmd[e].number # 0 => d = e

\* What is under way is the latest command, unless two have overlapped.
LatestRuns ==
    ~overlapped => \A e \in Editors : Running(e) => cmd[e].number = commands

\* Until its command is through, the panel differs from the cache by what that
\* command has done, and in slots that are in doubt.
PanelAhead ==
    ~overlapped =>
        \A e \in Editors : Running(e) =>
            \A s \in (Slots \ doubtful) \cup Written(e) \cup Cleared(e) :
                panel[s] = IF s \in Written(e) THEN cmd[e].plan[s]
                           ELSE IF s \in Cleared(e) THEN Free
                           ELSE cache[s]

\* The slots that a chain grows into are free in the cache.
ChainFits ==
    ~overlapped =>
        \A e \in Editors : Running(e) /\ IsChainWrite(e) =>
            \A s \in DOMAIN cmd[e].plan \ DOMAIN cmd[e].old : cache[s] = Free

-----------------------------------------------------------------------------
IInv ==
    /\ TypeOK
    /\ PlanIsRun /\ NextIsPlanned /\ ClearsLeftOver
    /\ WrittenWasGiven /\ CacheWasGiven
    /\ NumbersDiffer /\ LatestRuns
    /\ PanelAhead /\ CacheAgrees /\ ChainFits /\ LeftOversGone
=============================================================================
