-------------------------- MODULE MCProgramEditor --------------------------
(***************************************************************************)
(* Instances of ProgramEditor for TLC.                                     *)
(***************************************************************************)
EXTENDS ProgramEditorInvariant, Sequences, TLC

CONSTANTS e1, e2

\* Four slots: a chain of three with a program after it; two chains; a chain
\* and two free slots.
FourSlots ==
    {<<"head", "condition", "action", "single">>,
     <<"head", "action", "free", "free">>}

EditorSymmetry == Permutations(Editors)
=============================================================================
