----------------------------- MODULE MCFrontEnd -----------------------------
(***************************************************************************)
(* An instance of FrontEnd for TLC: a program and the kernel, each with    *)
(* its own instructions in the same six addresses.                         *)
(*                                                                         *)
(* The program is a loop of three instructions: a branch of two bytes, one *)
(* of three, and a branch back of one.  The kernel's handler is a branch   *)
(* of two bytes and the two bytes of its return; its branch ends in the    *)
(* middle of the program's long instruction.  The other entries describe   *)
(* the instructions found when a byte inside of one is the pc.             *)
(***************************************************************************)
EXTENDS FrontEnd

LoopSpaces == {"kernel", "program"}

LoopLength ==
    [s \in LoopSpaces |->
        IF s = "program" THEN [a \in Addrs |-> <<2, 1, 3, 2, 1, 1>>[a + 1]]
        ELSE [a \in Addrs |-> <<2, 1, 2, 1, 2, 1>>[a + 1]]]

LoopSuccessors ==
    [s \in LoopSpaces |->
        IF s = "program"
        THEN [a \in Addrs |-> <<{2, 5}, {2}, {5}, {5}, {5}, {0}>>[a + 1]]
        ELSE [a \in Addrs |-> <<{2}, {2}, {2, 4}, {4}, {}, {4}>>[a + 1]]]

LoopReturns == {4}
LoopResumes == {<<"program", 0>>, <<"program", 2>>}

\* Nothing, or the end of the long instruction, faults.
LoopFaults == {{}, {4}}

\* The last bytes of the branches of both.
LoopPredictions == {<<1, 5>>, <<1, 2>>, <<5, 0>>, <<3, 2>>}

LoopStrays == {2}
=============================================================================
