------------------------------- MODULE Verify -------------------------------
(* verify.c: whether a function's bytecode is well formed, and the operand     *)
(* stack depth of each instruction, the same whichever path reaches it.        *)
(* Instructions are one cell wide, so every address is a boundary and the      *)
(* constant, cache and slot operands are in range by construction.  Addresses  *)
(* are 1-based: 1..n is the code, -1 a depth not reached.                      *)
EXTENDS Effects, FiniteSets

(* Passes 2 and 3: addresses inside the code, regions not empty. *)
Addressed(fn) ==
    LET n == Len(fn.code)
    IN  /\ n > 0
        /\ \A at \in 1..n :
             jaiOpBranchOperandAt(fn.code[at][1]) => branchTarget(fn.code, at) \in 1..n
        /\ \A i \in 1..Len(fn.exceptions) :
             LET e == fn.exceptions[i]
             IN  /\ e.start <= n /\ e.end <= n /\ e.start < e.end
                 /\ e.handler < n

(* The instruction itself is refused at depth `here`. *)
Refused(code, at, here) ==
    LET op == code[at][1]
        e  == fallEffect(code[at])
    IN  \/ here < e.pops
        \/ jaiOpFallsThrough(op) /\ at = Len(code) /\ op # "TAIL_CALL"
        \/ \E edge \in EdgesOf(code, at, here) : edge[2] < 0

(* Pass 4.  [ok, depth]: a work list follows edges and two paths must agree;    *)
(* when it is empty, the targets of the reached PUSH_HANDLER and PUSH_FINALLY   *)
(* are seeded at the depth of the PUSH, and only when there is none of those    *)
(* is the first unreached handler of the exception table seeded, at 0.          *)
RECURSIVE Flow(_, _, _), Rounds(_, _)

Flow(code, depth, work) ==
    IF work = {} THEN [ok |-> TRUE, depth |-> depth]
    ELSE LET at    == CHOOSE a \in work : TRUE
             edges == EdgesOf(code, at, depth[at])
             new   == {e[1] : e \in {x \in edges : depth[x[1]] < 0}}
             after == [a \in DOMAIN depth |->
                         IF a \in new THEN (CHOOSE e \in edges : e[1] = a)[2] ELSE depth[a]]
         IN  IF Refused(code, at, depth[at]) \/ \E e \in edges : after[e[1]] # e[2]
               THEN [ok |-> FALSE, depth |-> depth]
               ELSE Flow(code, after, (work \ {at}) \cup new)

Rounds(fn, start) ==
    LET flow     == Flow(fn.code, start.depth, start.work)
        depth    == flow.depth
        pushes   == {at \in DOMAIN depth : /\ fn.code[at][1] \in Registers
                                           /\ depth[at] >= 0
                                           /\ depth[branchTarget(fn.code, at)] < 0}
        targets  == {branchTarget(fn.code, at) : at \in pushes}
        FirstOf(a) == CHOOSE at \in pushes : /\ branchTarget(fn.code, at) = a
                                             /\ \A b \in pushes : branchTarget(fn.code, b) = a => at <= b
        tables   == {i \in 1..Len(fn.exceptions) : depth[fn.exceptions[i].handler + 1] < 0}
        first    == fn.exceptions[CHOOSE i \in tables : \A j \in tables : i <= j].handler + 1
    IN  IF ~flow.ok \/ (pushes = {} /\ tables = {}) THEN flow
        ELSE IF pushes # {}
          THEN Rounds(fn, [depth |-> [a \in DOMAIN depth |->
                                        IF a \in targets THEN depth[FirstOf(a)] ELSE depth[a]],
                           work  |-> targets])
          ELSE Rounds(fn, [depth |-> [depth EXCEPT ![first] = 0], work |-> {first}])

jaiVerifyChunk(fn) ==
    IF ~Addressed(fn) THEN [ok |-> FALSE, depth |-> <<>>]
    ELSE Rounds(fn, [depth |-> [a \in 1..Len(fn.code) |-> IF a = 1 THEN 0 ELSE -1],
                     work  |-> {1}])

(* jaiChunkCfg: the basic blocks, each named by its first instruction.          *)
Leaders(fn) ==
    LET n == Len(fn.code)
        Ends(at) == \/ jaiOpBranchOperandAt(fn.code[at][1])
                    \/ ~jaiOpFallsThrough(fn.code[at][1])
    IN  {1}
        \cup {branchTarget(fn.code, at) :
                at \in {a \in 1..n : jaiOpBranchOperandAt(fn.code[a][1])}}
        \cup {at + 1 : at \in {a \in 1..n - 1 : Ends(a)}}
        \cup {fn.exceptions[i].handler + 1 : i \in 1..Len(fn.exceptions)}

(* The block each instruction lies in. *)
blockAt(leaders, n) ==
    LET block[at \in 1..n] == IF at \in leaders THEN at ELSE block[at - 1] IN block

(* The blocks control goes to from a block whose last instruction is at `last`; *)
(* the target a PUSH_HANDLER or PUSH_FINALLY registers is one of them.          *)
Successors(code, last) ==
    LET op == code[last][1]
    IN  (IF jaiOpFallsThrough(op) /\ last < Len(code) THEN {last + 1} ELSE {})
        \cup (IF jaiOpBranchOperandAt(op) THEN {branchTarget(code, last)} ELSE {})

(* The blocks the depth-first search from the entry and the exception table's   *)
(* handlers numbers (`rpo`).                                                    *)
RECURSIVE Reached(_, _, _)
Reached(succ, done, front) ==
    IF front = {} THEN done
    ELSE Reached(succ, done \cup front, UNION {succ[b] : b \in front} \ (done \cup front))

jaiChunkCfg(fn) ==
    LET n       == Len(fn.code)
        leaders == Leaders(fn)
        lasts   == {at \in 1..n : at = n \/ at + 1 \in leaders}
        block   == blockAt(leaders, n)
        succ    == [b \in leaders |->
                      Successors(fn.code, CHOOSE at \in lasts : block[at] = b)]
        entries == {1} \cup {fn.exceptions[i].handler + 1 : i \in 1..Len(fn.exceptions)}
    IN  [blockAt |-> block, succ |-> succ, rpo |-> Reached(succ, {}, entries)]
=============================================================================
