------------------------------- MODULE Effects ------------------------------
(* What each instruction does to the operand stack and where it passes control *)
(* (op.h, verify.c), for the verifier that computes depths from it and for     *)
(* what is proved of the interpreter.  Instructions are one cell wide;         *)
(* addresses are 1-based.                                                      *)
EXTENDS Integers, Sequences

Registers == {"PUSH_FINALLY", "PUSH_HANDLER"}

(* The instruction carries a branch operand. *)
jaiOpBranchOperandAt(op) ==
    op \in {"JUMP", "JUMP_IF_TRUE", "LOOP", "FOR_ITER"} \cup Registers

opBranchIsEdge(op) == jaiOpBranchOperandAt(op) /\ op \notin Registers

jaiOpFallsThrough(op) ==
    op \notin {"JUMP", "LOOP", "RETURN", "RETURN_NULL", "THROW", "RERAISE"}

(* Pops and pushes of an instruction on its fall-through path. *)
fallEffect(ins) ==
    LET op == ins[1]
        Pop(n) == [pops |-> n, pushes |-> 0]
        Net(n) == [pops |-> 0, pushes |-> n]
    IN  CASE op = "POPN" -> Pop(ins[2])
          [] op \in {"CALL", "TAIL_CALL", "GET_ITER"} -> [pops |-> 1, pushes |-> 1]
          [] op \in {"POP", "SHOW", "JUMP_IF_TRUE", "RETURN", "THROW"} -> Pop(1)
          [] op \in {"CONST", "GET_GLOBAL", "FOR_ITER", "GET_EXC", "MATCH_EXC"} -> Net(1)
          [] OTHER -> Net(0)

(* The depth on the taken path of a branch met at depth `here`. *)
jumpDepth(op, here) == IF op \in {"JUMP_IF_TRUE", "FOR_ITER"} THEN here - 1 ELSE here

branchTarget(code, at) == at + 1 + code[at][2]

(* The edges an instruction met at depth `here` takes: <<address, depth>>. *)
EdgesOf(code, at, here) ==
    LET op    == code[at][1]
        e     == fallEffect(code[at])
    IN  (IF jaiOpFallsThrough(op) /\ at < Len(code)
           THEN {<<at + 1, here - e.pops + e.pushes>>} ELSE {})
        \cup
        (IF opBranchIsEdge(op)
           THEN {<<branchTarget(code, at), jumpDepth(op, here)>>} ELSE {})
=============================================================================
