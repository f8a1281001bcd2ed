---------------------------- MODULE X86Processor ----------------------------
(***************************************************************************)
(* x86_64 instructions as records of their parts, how long the processor   *)
(* takes them to be, and what it does with those that relocation reads or  *)
(* writes.  Register 0 stands for the general registers; 30 and 31 are the *)
(* two words on the top of the stack.                                      *)
(***************************************************************************)
EXTENDS Machine, FiniteSets

CONSTANTS DispBits   \* bits of a displacement or of a branch's offset: 32

(* Opcodes whose operands are in a modrm byte.  map is 1 for one-byte opcodes,
   2 for those after 0f. *)
HasModrm(map, opcode) ==
  IF map = 1
  THEN \/ opcode < \h40 /\ opcode % 8 < 4
       \/ opcode \in {\h63, \h69, \h6B} \cup \h80 .. \h8F
       \/ opcode \in {\hC0, \hC1, \hC6, \hC7} \cup \hD0 .. \hD3 \cup \hD8 .. \hDF
       \/ opcode \in {\hF6, \hF7, \hFE, \hFF}
  ELSE opcode \notin \h05 .. \h0C \cup {\h0E} \cup \h30 .. \h37 \cup {\h77}
                     \cup \h80 .. \h8F \cup {\hA0, \hA1, \hA2, \hA8, \hA9, \hAA} \cup \hC8 .. \hCF

RexW(rex) == rex >= 0 /\ (rex \div 8) % 2 = 1
RexB(rex) == IF rex >= 0 THEN rex % 2 ELSE 0

OperandSized(prefixes, rex) == IF "66" \in prefixes /\ ~RexW(rex) THEN 2 ELSE 4

(* Bytes of an immediate, a branch's offset or an absolute address *)
ImmediateBytes(prefixes, rex, map, opcode, modrm) ==
  IF map = 1
  THEN CASE opcode < \h40 /\ opcode % 8 = 4 -> 1
         [] opcode < \h40 /\ opcode % 8 = 5 -> OperandSized(prefixes, rex)
         [] opcode \in {\h68, \h69, \h81, \hA9, \hC7} -> OperandSized(prefixes, rex)
         [] opcode \in {\hE8, \hE9} -> 4
         [] opcode \in {\h6A, \h6B, \h80, \h83, \hA8, \hC0, \hC1, \hC6, \hCD, \hEB}
                       \cup \h70 .. \h7F \cup \hB0 .. \hB7 \cup \hE0 .. \hE7 -> 1
         [] opcode \in \hB8 .. \hBF -> IF RexW(rex) THEN 8 ELSE OperandSized(prefixes, rex)
         [] opcode \in \hA0 .. \hA3 -> IF "67" \in prefixes THEN 4 ELSE 8
         [] opcode \in {\hC2, \hCA} -> 2
         [] opcode = \hC8 -> 3
         [] opcode = \hF6 /\ modrm.reg < 2 -> 1
         [] opcode = \hF7 /\ modrm.reg < 2 -> OperandSized(prefixes, rex)
         [] OTHER -> 0
  ELSE CASE opcode \in {\h70, \h71, \h72, \h73, \hA4, \hAC, \hBA, \hC2, \hC4, \hC5, \hC6} -> 1
         [] opcode \in \h80 .. \h8F -> 4
         [] OTHER -> 0

NoModrm == [mod |-> 3, reg |-> 0, rm |-> 0, base |-> 0]

HasSib(modrm) == modrm.mod # 3 /\ modrm.rm = 4
RipRelative(map, opcode, modrm) == HasModrm(map, opcode) /\ modrm.mod = 0 /\ modrm.rm = 5

DisplacementBytes(modrm) ==
  CASE modrm.mod = 1 -> 1
    [] modrm.mod = 2 -> 4
    [] modrm.mod = 0 /\ (modrm.rm = 5 \/ (HasSib(modrm) /\ modrm.base = 5)) -> 4
    [] OTHER -> 0

PrefixBytes(prefixes, rex) == Cardinality(prefixes) + IF rex >= 0 THEN 1 ELSE 0

X86(prefixes, rex, map, opcode, modrm, disp, imm) ==
  [op |-> "x86", prefixes |-> prefixes, rex |-> rex, map |-> map, opcode |-> opcode,
   modrm |-> modrm, disp |-> disp, imm |-> imm,
   len |-> PrefixBytes(prefixes, rex) + map
           + (IF HasModrm(map, opcode)
              THEN 1 + (IF HasSib(modrm) THEN 1 ELSE 0) + DisplacementBytes(modrm) ELSE 0)
           + ImmediateBytes(prefixes, rex, map, opcode, modrm)]

(* jmp *disp(%rip), call *disp(%rip), jmp rel8 *)
Rip(reg) == [mod |-> 0, reg |-> reg, rm |-> 5, base |-> 0]
JmpIndirect(disp) == X86({}, -1, 1, \hFF, Rip(4), disp, 0)
CallIndirect(disp) == X86({}, -1, 1, \hFF, Rip(2), disp, 0)
JmpShort(rel) == X86({}, -1, 1, \hEB, NoModrm, 0, rel)

-----------------------------------------------------------------------------
X86Execute(inst, pc, regs, env, data) ==
  LET next == pc + inst.len
      one == inst.map = 1
      rip == RipRelative(inst.map, inst.opcode, inst.modrm)
      ref == next + inst.disp
      GoTo(a) == [pc |-> a, regs |-> regs]
      Call(a) == [pc |-> a, regs |-> [regs EXCEPT ![30] = Address(next), ![31] = regs[30]]]
      Set(v) == [pc |-> next, regs |-> [regs EXCEPT ![0] = v]]
      Group5(reg) == one /\ inst.opcode = \hFF /\ inst.modrm.reg = reg
  IN CASE one /\ inst.opcode \in \h70 .. \h7F ->
            GoTo(IF env.holds = (inst.opcode % 2 = 0) THEN next + inst.imm ELSE next)
       [] one /\ inst.opcode = \hE8 -> Call(next + inst.imm)
       [] one /\ inst.opcode \in {\hE9, \hEB} -> GoTo(next + inst.imm)
       [] one /\ inst.opcode = \hC3 ->
            [pc |-> regs[30].v, regs |-> [regs EXCEPT ![30] = regs[31]]]
       [] Group5(4) /\ rip -> GoTo(Memory(data, ref, 8).v)
       [] Group5(2) /\ rip -> Call(Memory(data, ref, 8).v)
       [] one /\ inst.opcode = \h8D /\ rip -> Set(Address(ref))
       [] one /\ inst.opcode = \h90 -> GoTo(next)
       [] OTHER -> Set(IF rip THEN Memory(data, ref, inst.opcode)
                       ELSE Some(inst.map * 256 + inst.opcode))

X86Leave(regs) == [pc |-> regs[30].v, regs |-> [regs EXCEPT ![30] = regs[31]]]
=============================================================================
