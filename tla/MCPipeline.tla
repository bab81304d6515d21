----------------------------- MODULE MCPipeline -----------------------------
(***************************************************************************)
(* Instances of Pipeline for TLC: uop sequences taken from dep.h, and the  *)
(* functional units.                                                       *)
(***************************************************************************)
EXTENDS Pipeline, TLC

\* dep.h, INT_ARITH: a register operation.
AluInst == [types |-> <<"ALU">>, links |-> {}, reader |-> 1, writer |-> 1]
\* dep.h, BRANCH: a conditional jump.
BranchInst == [types |-> <<"BRANCH">>, links |-> {}, reader |-> 1, writer |-> 0]
\* dep.h, INT_ARITH and LOAD: the address, then the load.
LoadInst == [types |-> <<"ALU", "LOAD">>, links |-> {<<2, 1>>},
             reader |-> 1, writer |-> 2]
\* dep.h, INT_ARITH and STORE: the address, then the store.
StoreInst == [types |-> <<"ALU", "STORE">>, links |-> {<<2, 1>>},
              reader |-> 1, writer |-> 0]
\* dep3.h, ADD_EB_GB_MEM: address, load, operation, store.
UpdateInst == [types |-> <<"ALU", "LOAD", "ALU", "STORE">>,
               links |-> {<<2, 1>>, <<4, 1>>, <<3, 2>>, <<4, 3>>},
               reader |-> 3, writer |-> 3]
\* dependency.cpp, INVALID: syscall, int, iret, hlt and what is not supported.
PlainInst == [types |-> <<"NONE">>, links |-> {}, reader |-> 0, writer |-> 0]

LinkInsts == {AluInst, BranchInst, LoadInst}
MemoryInsts == {BranchInst, LoadInst, StoreInst}
OrderInsts == {BranchInst, StoreInst, UpdateInst}
EventInsts == {BranchInst, LoadInst, StoreInst, PlainInst}

OneUnit == <<{"ALU", "BRANCH", "LOAD", "STORE"}>>
TwoUnits == <<{"ALU", "BRANCH"}, {"ALU", "BRANCH", "LOAD", "STORE"}>>

NoEvents == {"none"}
SyscallEvents == {"none", "trap", "flush"}
AllEvents == EventKinds
Permutable == Permutations(Slots)
=============================================================================
