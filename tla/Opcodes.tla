------------------------------- MODULE Opcodes -------------------------------
(***************************************************************************)
(* pthreads_copy_opcodes: the opcodes of a function are copied byte by     *)
(* byte and their operands that point to literals or to other opcodes are  *)
(* then corrected one opline at a time.  On 64-bit builds an operand is an *)
(* offset from its opline, of half the width of an address; on 32-bit      *)
(* builds it is an address.  Where operands are offsets, the literals      *)
(* follow the opcodes in one block; else they are anywhere.                *)
(***************************************************************************)
EXTENDS Integers, Sequences

CONSTANTS
  OpSizes,    \* sizeof(zend_op), by whether operands are addresses
  ZvalSize,   \* sizeof(zval)
  Word,       \* the number of values of a relative operand
  Bases,      \* addresses of the blocks
  Programs    \* the functions: what their operands refer to

ASSUME OpcodeSizesAssumption == OpSizes \in [BOOLEAN -> Nat \ {0}] /\ ZvalSize \in Nat \ {0}
ASSUME WordAssumption == Word \in Nat \ {0} /\ Word % 2 = 0
ASSUME BasesAssumption == Bases \subseteq Nat

\* What zend_compile hands over (external): only the operands that jumps use are
\* targets, and where operands are offsets a function with its literals is less
\* than half of what an offset can reach.
CompiledOperand(p, k) ==
  /\ k \in [kind : {"none", "const", "jump"}, n : Nat]
  /\ k.kind = "jump" => k.n \in 1 .. Len(p)
  /\ OpSizes[FALSE] * Len(p) + ZvalSize + ZvalSize * k.n < Word \div 2

Compiled(p) ==
  /\ p \in Seq([opcode : STRING, last : BOOLEAN, op1 : [kind : STRING, n : Nat],
                 op2 : [kind : STRING, n : Nat]])
  /\ \A i \in 1 .. Len(p) :
       /\ CompiledOperand(p, p[i].op1) /\ CompiledOperand(p, p[i].op2)
       /\ p[i].op1.kind = "jump" => p[i].opcode = "JMP"
       /\ p[i].op2.kind = "jump" =>
            p[i].opcode = "JMPZ" \/ (p[i].opcode = "CATCH" /\ ~p[i].last)

ASSUME ProgramsAssumption == \A p \in Programs : Compiled(p)

VARIABLES
  absolute,  \* ZEND_USE_ABS_CONST_ADDR and ZEND_USE_ABS_JMP_ADDR
  program,   \* per opline: opcode, and per operand a literal, a target, or none
  from, to,  \* where the source and the copy are: opcodes and literals
  oplines,   \* the oplines of the copy
  at         \* the opline to correct next

opcodeVars == <<absolute, program, from, to, oplines, at>>

OpSize == OpSizes[absolute]
LastOpline == Len(program)

\* ZEND_MM_ALIGNED_SIZE_EX: where literals that follow the opcodes begin.
Behind(base) == base + ((OpSize * LastOpline + ZvalSize - 1) \div ZvalSize) * ZvalSize

Blocks ==
  IF absolute THEN [opcodes : Bases, literals : Bases]
  ELSE {[opcodes |-> p, literals |-> Behind(p)] : p \in Bases}

Opline(block, i) == block.opcodes + OpSize * (i - 1)

Signed(x) == IF x < Word \div 2 THEN x ELSE x - Word

-----------------------------------------------------------------------------
(* What the operands are in memory (zend_compile.h, pass_two).             *)

Stored(block, i, address) == IF absolute THEN address ELSE (address - Opline(block, i)) % Word

Encode(block, i, operand) ==
  CASE operand.kind = "const" -> Stored(block, i, block.literals + ZvalSize * operand.n)
    [] operand.kind = "jump" -> Stored(block, i, Opline(block, operand.n))
    [] OTHER -> 0

Encoded(block) ==
  [i \in 1 .. LastOpline |->
     [opcode |-> program[i].opcode, last |-> program[i].last,
      op1_type |-> program[i].op1.kind, op1 |-> Encode(block, i, program[i].op1),
      op2_type |-> program[i].op2.kind, op2 |-> Encode(block, i, program[i].op2)]]

\* The address that an operand of the copy gives.
Address(i, x) == IF absolute THEN x ELSE Opline(to, i) + Signed(x)

-----------------------------------------------------------------------------
(* The corrections.                                                        *)

\* Mutant: the new offset is taken from the source's opline.
RelocatedFromOld(i, x) ==
  IF absolute THEN x
  ELSE LET index == (Opline(from, i) + Signed(x) - from.literals) \div ZvalSize
       IN (to.literals + ZvalSize * index - Opline(from, i)) % Word

\* A constant: the literal with the same index.
Relocated(i, x) ==
  IF absolute THEN x + (to.literals - from.literals)
  ELSE LET index == (Opline(from, i) + Signed(x) - from.literals) \div ZvalSize
       IN (to.literals + ZvalSize * index - Opline(to, i)) % Word

\* A jump: the opline with the same number; offsets stay as they are.
Jump(x) == IF absolute THEN to.opcodes + ((x - from.opcodes) \div OpSize) * OpSize ELSE x

\* One opline: its constants, then its jump: JMP and FAST_CALL jump by op1,
\* JMPZ and its kin by op2, and CATCH by op2 unless it is the last one.
Corrected(i, op) ==
  [op EXCEPT
     !.op1 = IF op.op1_type = "const" THEN Relocated(i, @)
             ELSE IF op.opcode = "JMP" THEN Jump(@) ELSE @,
     !.op2 = IF op.op2_type = "const" THEN Relocated(i, @)
             ELSE IF op.opcode = "JMPZ" \/ (op.opcode = "CATCH" /\ ~op.last)
             THEN Jump(@) ELSE @]

OpcodesInit ==
  /\ absolute \in BOOLEAN /\ program \in Programs
  /\ from \in Blocks /\ to \in Blocks \ {from}
  /\ oplines = Encoded(from) /\ at = 1

Correct ==
  /\ at <= LastOpline
  /\ oplines' = [oplines EXCEPT ![at] = Corrected(at, @)]
  /\ at' = at + 1
  /\ UNCHANGED <<absolute, program, from, to>>

OpcodesNext == Correct
OpcodesSpec == OpcodesInit /\ [][OpcodesNext]_opcodeVars

-----------------------------------------------------------------------------
(* Properties.                                                             *)

Operands(i) == {<<program[i].op1, oplines[i].op1>>, <<program[i].op2, oplines[i].op2>>}

\* Once an opline has been corrected its constants are the copy's literals of
\* the same index as before, and its jumps lead to the oplines of the copy that
\* correspond to those they led to.
OperandsRight ==
  \A i \in 1 .. at - 1 : \A o \in Operands(i) :
    /\ o[1].kind = "const" => Address(i, o[2]) = to.literals + ZvalSize * o[1].n
    /\ o[1].kind = "jump" => Address(i, o[2]) = Opline(to, o[1].n)
=============================================================================
