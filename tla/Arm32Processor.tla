--------------------------- MODULE Arm32Processor ---------------------------
(***************************************************************************)
(* The ARM and Thumb instructions that relocation reads or writes, and     *)
(* what the processor does with them.  An address that is jumped to says   *)
(* in its lowest bit which of the two instruction sets is there; register  *)
(* 16 holds the one that is in use.                                        *)
(***************************************************************************)
EXTENDS Machine

VOLATILE_REGISTER == 12
LR == 14
PC == 15
T == 16

AL == 14   \* the condition that always holds

(* Instructions by their fields.  imm is the offset of a branch as an unsigned
   number of so many bits; off is signed. *)
LdrLiteral(thumb, len, cond, bytes, rt, off) ==
  [op |-> "ldr literal", thumb |-> thumb, len |-> len, cond |-> cond, bytes |-> bytes, rt |-> rt, off |-> off]
LdrReg(thumb, rt, rn) == [op |-> "ldr", thumb |-> thumb, len |-> 4, cond |-> AL, rt |-> rt, rn |-> rn]
Adr(thumb, len, cond, rd, off) ==
  [op |-> "adr", thumb |-> thumb, len |-> len, cond |-> cond, rd |-> rd, off |-> off]
Branch(op, thumb, len, cond, imm, bits) ==
  [op |-> op, thumb |-> thumb, len |-> len, cond |-> cond, imm |-> imm, bits |-> bits]
Cbz(nonzero, imm) == [op |-> "cbz", thumb |-> TRUE, len |-> 2, cond |-> AL, nonzero |-> nonzero, imm |-> imm]
MovPc(rd, rs) == [op |-> "mov", thumb |-> TRUE, len |-> 2, cond |-> AL, rd |-> rd, rs |-> rs]
BxPc(link) == [op |-> "bx", thumb |-> TRUE, len |-> 2, cond |-> AL, link |-> link]
Nop(thumb) == [op |-> "nop", thumb |-> thumb, len |-> IF thumb THEN 2 ELSE 4, cond |-> AL]
Other(thumb, len, rd, n) == [op |-> "other", thumb |-> thumb, len |-> len, cond |-> AL, rd |-> rd, n |-> n]

-----------------------------------------------------------------------------
Flag(thumb) == IF thumb THEN 1 ELSE 0

(* A jump to an address whose lowest bit selects the instruction set *)
Interwork(a, regs) == [pc |-> a - (a % 2), regs |-> [regs EXCEPT ![T] = Some(a % 2)]]

(* Conditions come in pairs of opposites; 14 always holds. *)
ConditionHolds(cond, env) == cond = AL \/ (env.holds = (cond % 2 = 0))

(* Code of the other instruction set is not followed. *)
Lost(regs) == [pc |-> 0, regs |-> regs]

Arm32Execute(inst, pc, regs, env, data) ==
  LET here == pc + IF inst.thumb THEN 4 ELSE 8
      aligned == here - (here % 4)
      next == pc + inst.len
      linked == [regs EXCEPT ![LR] = Address(next + Flag(inst.thumb))]
      GoTo(a) == [pc |-> a, regs |-> regs]
      Set(r, v) == IF r = PC THEN Interwork(v.v, regs)
                             ELSE [pc |-> next, regs |-> [regs EXCEPT ![r] = v]]
      By == Signed(inst.imm, inst.bits)
  IN IF regs[T] # Some(Flag(inst.thumb)) THEN Lost(regs)
     ELSE IF ~ConditionHolds(inst.cond, env) THEN GoTo(next)
     ELSE CASE inst.op = "ldr literal" -> Set(inst.rt, Memory(data, aligned + inst.off, inst.bytes))
          [] inst.op = "ldr" -> Set(inst.rt, Memory(data, regs[inst.rn].v, 4))
          [] inst.op = "adr" -> Set(inst.rd, Address(aligned + inst.off))
          [] inst.op = "b" -> GoTo(here + By)
          [] inst.op = "bl" -> [pc |-> here + By, regs |-> linked]
          [] inst.op = "blx" -> Interwork(IF inst.thumb THEN aligned + By ELSE here + By + 1, linked)
          [] inst.op = "cbz" -> GoTo(IF env.zero = (inst.nonzero = 0) THEN here + inst.imm ELSE next)
          [] inst.op = "mov" -> Set(inst.rd, IF inst.rs = PC THEN Address(here) ELSE regs[inst.rs])
          [] inst.op = "bx" -> Interwork(here, IF inst.link THEN linked ELSE regs)
          [] inst.op = "nop" -> GoTo(next)
          [] inst.op = "other" -> Set(inst.rd, Some(inst.n))

(* What a called function leaves behind when it returns *)
Arm32Leave(regs) == Interwork(regs[LR].v, regs)
=============================================================================
