----------------------------- MODULE MCCrossing ------------------------------
(***************************************************************************)
(* What crosses from one thread to another: functions, values, opcodes,    *)
(* resources and sockets.  They share no state, so each is examined while  *)
(* the others stand still (part).  Only safety is claimed.                 *)
(***************************************************************************)
EXTENDS FunctionCache, Values, Opcodes, Resources, Sockets, TLC

CONSTANTS main, left, right, ctx1, ctx2, fd1, fd2

Symmetry ==
  Permutations(Threads \ {Main}) \cup Permutations(Contexts) \cup Permutations(Descriptors)

-----------------------------------------------------------------------------
(* Values: arrays of up to two elements, of values behind references and   *)
(* without, and one level of arrays in arrays; constant expressions of up  *)
(* to three levels with up to two children, NULL among them.               *)

String(permanent) == [type |-> "string", id |-> 1, permanent |-> permanent, owner |-> "owner"]
Long == [type |-> "long", id |-> 1]
Threaded == [type |-> "threaded", id |-> 1, owner |-> "owner"]
Array(elements) == [type |-> "array", elements |-> elements]
Wrapped(S) == S \cup [type : {"reference", "indirect"}, val : S]

Plain == Wrapped({Long, String(TRUE), String(FALSE), Threaded,
                  [type |-> "object"], [type |-> "undef"]})
ArraysOf(S) ==
  {Array(<<>>)} \cup {Array(<<[key |-> k, val |-> v]>>) : k \in {1, 2}, v \in S}
    \cup {Array(<<[key |-> 1, val |-> v], [key |-> 2, val |-> w]>>) : v, w \in S}
    \cup {Array(<<[key |-> 2, val |-> v], [key |-> 1, val |-> w]>>) : v, w \in S}

Arrays == ArraysOf(Plain)
Nested == {Array(<<[key |-> 1, val |-> v], [key |-> 2, val |-> String(FALSE)]>>) :
             v \in Wrapped(Arrays)}

Leaves == {[kind |-> "constant", val |-> String(FALSE)],
           [kind |-> "zval", val |-> String(FALSE)],
           [kind |-> "zval", val |-> Array(<<[key |-> 1, val |-> String(FALSE)]>>)]}
NodesOf(S) ==
  {[kind |-> k, child |-> cs] :
     k \in {"list", "op"}, cs \in UNION {[1 .. n -> S \cup {Null}] : n \in 0 .. 2}}
Asts == Leaves \cup NodesOf(Leaves) \cup NodesOf(Leaves \cup NodesOf(Leaves))
Ast(tree) == [type |-> "ast", tree |-> tree]

MCInputs ==
  Plain \cup Arrays \cup Nested \cup {Ast(t) : t \in Asts}
    \cup {[v EXCEPT !.type = "statics"] : v \in Arrays}
    \cup {Array(<<[key |-> 1, val |-> Ast(t)]>>) : t \in Leaves \cup NodesOf(Leaves)}

-----------------------------------------------------------------------------
(* Opcodes: functions of two oplines with up to two literals, on 32-bit    *)
(* builds, where operands are addresses, and on 64-bit ones.               *)

NoOperand == [kind |-> "none", n |-> 0]
Const == [kind : {"const"}, n : 0 .. 1]
Target == [kind : {"jump"}, n : 1 .. 2]
Instruction(opcode, S, T, L) == [opcode : {opcode}, op1 : S, op2 : T, last : L]

Instructions ==
  Instruction("ASSIGN", Const \cup {NoOperand}, Const \cup {NoOperand}, {FALSE})
    \cup Instruction("JMP", Target, {NoOperand}, {FALSE})
    \cup Instruction("JMPZ", Const, Target, {FALSE})
    \cup Instruction("CATCH", Const, Target, {FALSE})
    \cup Instruction("CATCH", Const, {NoOperand}, {TRUE})

MCPrograms == [1 .. 2 -> Instructions]
MCOpSizes == TRUE :> 28 @@ FALSE :> 32

-----------------------------------------------------------------------------
(* One part at a time.                                                     *)

VARIABLE part

allVars == <<part, vars, valueVars, opcodeVars, resourceVars, socketVars>>

PartsInit ==
  /\ part \in {"functions", "values", "opcodes", "resources", "sockets"}
  /\ Init /\ ResourcesInit /\ SocketsInit
  /\ IF part = "values" THEN ValuesInit
     ELSE source = Nothing /\ copied = Nothing
  /\ IF part = "opcodes" THEN OpcodesInit
     ELSE absolute = FALSE /\ program = <<>> /\ from = 0 /\ to = 0 /\ oplines = <<>> /\ at = 1

PartsNext ==
  /\ UNCHANGED part
  /\ \/ /\ part = "functions" /\ Next
        /\ UNCHANGED <<valueVars, opcodeVars, resourceVars, socketVars>>
     \/ /\ part = "values" /\ ValuesNext
        /\ UNCHANGED <<vars, opcodeVars, resourceVars, socketVars>>
     \/ /\ part = "opcodes" /\ OpcodesNext
        /\ UNCHANGED <<vars, valueVars, resourceVars, socketVars>>
     \/ /\ part = "resources" /\ ResourcesNext
        /\ UNCHANGED <<vars, valueVars, opcodeVars, socketVars>>
     \/ /\ part = "sockets" /\ SocketsNext
        /\ UNCHANGED <<vars, valueVars, opcodeVars, resourceVars>>

PartsSpec == PartsInit /\ [][PartsNext]_allVars
=============================================================================
