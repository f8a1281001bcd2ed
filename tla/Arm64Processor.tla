--------------------------- MODULE Arm64Processor ---------------------------
(***************************************************************************)
(* The arm64 instructions that relocation reads or writes, as records of   *)
(* their fields, and what the processor does with them.  Register 30 is    *)
(* the link register; 32 and more are the SIMD registers.                  *)
(***************************************************************************)
EXTENDS Machine

CONSTANTS
  AdrBits,    \* bits of the immediate of adr and adrp: 21
  PageBits,   \* bits of an offset in a page of adrp: 12
  HalfBits    \* bits that movz and movk set: 16

LR == 30

(* The fields of an instruction, and how many bytes it takes *)
B(imm26) == [op |-> "b", len |-> 4, imm26 |-> imm26]
BL(imm26) == [op |-> "bl", len |-> 4, imm26 |-> imm26]
BCond(cond, imm19) == [op |-> "b.cond", len |-> 4, cond |-> cond, imm19 |-> imm19]
CompareB(bit24, imm19) == [op |-> "cbz", len |-> 4, bit24 |-> bit24, imm19 |-> imm19]
TestB(bit24, imm14) == [op |-> "tbz", len |-> 4, bit24 |-> bit24, imm14 |-> imm14]
LdrLiteral(opc, simd, rt, imm19) ==
  [op |-> "ldr literal", len |-> 4, opc |-> opc, simd |-> simd, rt |-> rt, imm19 |-> imm19]
Adr(rd, imm) == [op |-> "adr", len |-> 4, rd |-> rd, imm |-> imm]
Adrp(rd, imm) == [op |-> "adrp", len |-> 4, rd |-> rd, imm |-> imm]
LdrX(rt, rn) == [op |-> "ldr x", len |-> 4, rt |-> rt, rn |-> rn]
Br(rn) == [op |-> "br", len |-> 4, rn |-> rn]
Blr(rn) == [op |-> "blr", len |-> 4, rn |-> rn]
Ret == [op |-> "ret", len |-> 4]
AddImm(rd, rn, imm12) == [op |-> "add", len |-> 4, rd |-> rd, rn |-> rn, imm12 |-> imm12]
Movz(rd, half, shift) == [op |-> "movz", len |-> 4, rd |-> rd, half |-> half, shift |-> shift]
Movk(rd, half, shift) == [op |-> "movk", len |-> 4, rd |-> rd, half |-> half, shift |-> shift]
Other(rd, n) == [op |-> "other", len |-> 4, rd |-> rd, n |-> n]

-----------------------------------------------------------------------------
(* Conditions come in pairs of opposites; 14 and 15 always hold. *)
ConditionHolds(cond, env) == cond >= 14 \/ (env.holds = ((cond % 2) = 0))

Half(v, shift) == (v \div 2^(HalfBits * shift)) % 2^HalfBits

(* The register that ldr literal loads, and how much of it *)
Target(inst) == IF inst.simd = 1 THEN 32 + inst.rt ELSE inst.rt
LoadedBytes(inst) == <<4, 8, IF inst.simd = 1 THEN 16 ELSE -4>>[inst.opc + 1]

PageOf(a) == a - (a % 2^PageBits)

Arm64Execute(inst, pc, regs, env, data) ==
  LET GoTo(a) == [pc |-> a, regs |-> regs]
      Set(r, v) == [pc |-> pc + 4, regs |-> [regs EXCEPT ![r] = v]]
      Call(a) == [pc |-> a, regs |-> [regs EXCEPT ![LR] = Address(pc + 4)]]
      If(taken, a) == GoTo(IF taken THEN a ELSE pc + 4)
      By(field, w) == pc + 4 * Signed(field, w)
  IN CASE inst.op = "b" -> GoTo(By(inst.imm26, 26))
       [] inst.op = "bl" -> Call(By(inst.imm26, 26))
       [] inst.op = "br" -> GoTo(regs[inst.rn].v)
       [] inst.op = "blr" -> Call(regs[inst.rn].v)
       [] inst.op = "ret" -> GoTo(regs[LR].v)
       [] inst.op = "b.cond" -> If(ConditionHolds(inst.cond, env), By(inst.imm19, 19))
       [] inst.op = "cbz" -> If(env.zero = (inst.bit24 = 0), By(inst.imm19, 19))
       [] inst.op = "tbz" -> If(env.zero = (inst.bit24 = 0), By(inst.imm14, 14))
       [] inst.op = "ldr literal" ->
            IF inst.opc = 3 THEN GoTo(pc + 4)
            ELSE Set(Target(inst), Memory(data, By(inst.imm19, 19), LoadedBytes(inst)))
       [] inst.op = "ldr x" -> Set(inst.rt, Memory(data, regs[inst.rn].v, 8))
       [] inst.op = "adr" -> Set(inst.rd, Address(pc + Signed(inst.imm, AdrBits)))
       [] inst.op = "adrp" -> Set(inst.rd, Address(PageOf(pc) + Signed(inst.imm, AdrBits) * 2^PageBits))
       [] inst.op = "add" -> Set(inst.rd, Address(regs[inst.rn].v + inst.imm12))
       [] inst.op = "movz" -> Set(inst.rd, Address(inst.half * 2^(HalfBits * inst.shift)))
       [] inst.op = "movk" ->
            LET v == regs[inst.rd].v
            IN Set(inst.rd, Address(v + (inst.half - Half(v, inst.shift)) * 2^(HalfBits * inst.shift)))
       [] inst.op = "other" -> Set(inst.rd, Some(inst.n))

(* What a called function leaves behind when it returns *)
Arm64Leave(regs) == [pc |-> regs[LR].v, regs |-> regs]
=============================================================================
