--------------------------- MODULE Arm32Relocation ---------------------------
(***************************************************************************)
(* DobbyHook's trampoline and relocation on 32-bit ARM, for functions in   *)
(* ARM and in Thumb code.                                                  *)
(***************************************************************************)
EXTENDS RelocationContext, Arm32Processor

SignExtend(x, M) == IF (x \div 2^(M - 1)) % 2 = 1 THEN (x % 2^M) - 2^M ELSE x

ABSOLUTE(x) == IF x < 0 THEN -x ELSE x
ALIGN_FLOOR(a) == a - (a % 4)

Thumb == fragment.thumb

(* What pc reads as at the instruction: relo_cur_src_vmaddr of this architecture *)
relo_cur_src_pc == relo_cur_src_vmaddr + IF Thumb THEN 4 ELSE 8

-----------------------------------------------------------------------------
(* The assemblers *)
AlignThumbNop(at) == IF at % 4 = 0 THEN << >> ELSE <<Nop(TRUE)>>

ArmLdr(rt, off) == LdrLiteral(FALSE, 4, AL, 4, rt, off)
t2_ldr(rt, off) == LdrLiteral(TRUE, 4, AL, 4, rt, off)
b(cond, imm) == Branch("b", FALSE, 4, cond, imm, 26)
bl(cond, imm) == Branch("bl", FALSE, 4, cond, imm, 26)
t2_b(imm) == Branch("b", TRUE, 4, AL, imm, 25)
t2_bl(imm) == Branch("bl", TRUE, 4, AL, imm, 25)
EmitAddress(a) == Datum(a, 4)

LiteralLdrBranch(address) == <<ArmLdr(PC, -4), EmitAddress(address)>>

(* A data label, and the load that is linked to it once it is bound *)
Label(v, offset) == [v |-> v, refs |-> {offset}]

link_confused_instructions(inst, offset, bound) ==
  [inst EXCEPT !.off = bound - (offset + IF inst.thumb THEN 4 ELSE 8)]

(* RelocBind: the data follow the n bytes of code. *)
RelocBind(code, n, ls) ==
  LET bound(i) == n + 4 * (i - 1)
      linked == [o \in DOMAIN code |->
                   IF \E i \in DOMAIN ls : o \in ls[i].refs
                   THEN LET i == CHOOSE j \in DOMAIN ls : o \in ls[j].refs
                        IN link_confused_instructions(code[o], o, bound(i))
                   ELSE code[o]]
  IN Overlay(linked, Placed([i \in DOMAIN ls |-> EmitAddress(ls[i].v)], n))

(* RelocLabelFixup: a label whose value is the offset of an instruction *)
RelocLabelFixup(ls) ==
  [i \in DOMAIN ls |-> IF ls[i].v \in DOMAIN relocated_offset_map
                       THEN [ls[i] EXCEPT !.v = relocated_offset_map[ls[i].v]] ELSE ls[i]]

-----------------------------------------------------------------------------
generate_arm_trampoline(to) == LiteralLdrBranch(to)

generate_thumb_trampoline(from, to) == AlignThumbNop(from) \o <<t2_ldr(PC, 0), EmitAddress(to)>>

GenerateTrampoline ==
  /\ LET to == env.hook + env.tag
     IN Prepare(Placed(IF Thumb THEN generate_thumb_trampoline(Src, to)
                                ELSE generate_arm_trampoline(to), 0))
  /\ UNCHANGED nearby

-----------------------------------------------------------------------------
(* What comes before the copy of an instruction: in Thumb a nop, and another
   one when it takes that to align the copy *)
Lead == IF Thumb THEN <<Nop(TRUE)>> \o AlignThumbNop(size + 2) ELSE << >>

(* The loops of gen_arm_relocate_code and gen_thumb_relocate_code around each
   instruction.  From the offsets over the thread only gets to the next one. *)
Rewrite(insts, over) ==
  /\ EmitOver(Lead \o insts, {Length(Lead) + o : o \in over})
  /\ relocated_offset_map' = (cursor :> size) @@ relocated_offset_map
  /\ UNCHANGED nearby
  /\ Consume(Inst.len)

Unlabelled(insts, over) == Rewrite(insts, over) /\ UNCHANGED labels

(* Mutant of Labelled: the instruction in front of the copy is not counted. *)
LabelledWithoutLead(insts, offset, v) ==
  /\ labels' = Append(labels, Label(v, size + offset))
  /\ Rewrite(insts, {})

(* Instructions of which the one at the offset loads a label *)
Labelled(insts, offset, v) ==
  /\ labels' = Append(labels, Label(v, size + Length(Lead) + offset))
  /\ Rewrite(insts, {})

ArmInst(op) == Loop /\ ~Thumb /\ Inst.op = op
Thumb1Inst(op) == Loop /\ Thumb /\ Inst.len = 2 /\ Inst.op = op
Thumb2Inst(op) == Loop /\ Thumb /\ Inst.len = 4 /\ Inst.op = op

(* ARMRelocateSingleInsn.  The copy of a conditional load is not conditional,
   and a load of a byte becomes one of a word. *)
RelocateLdrLiteral ==
  /\ ArmInst("ldr literal")
  /\ LET r == IF Inst.rt = PC THEN VOLATILE_REGISTER ELSE Inst.rt
     IN Labelled(<<ArmLdr(r, 0), LdrReg(FALSE, Inst.rt, r)>>, 0, relo_cur_src_pc + Inst.off)

RelocateAdr ==
  /\ ArmInst("adr")
  /\ Labelled(<<ArmLdr(Inst.rd, 0)>>, 0, relo_cur_src_pc + Inst.off)

RelocateBranch ==
  /\ Loop /\ ~Thumb /\ Inst.op \in {"b", "bl", "blx"}
  /\ LET dst == relo_cur_src_pc + SignExtend(Inst.imm - (Inst.imm % 4), 26)
         dst_vmaddr == IF Inst.op = "blx" THEN dst + 1 ELSE dst
         branch == IF Inst.op = "b" THEN b(Inst.cond, 0) ELSE bl(Inst.cond, 0)
     IN Unlabelled(<<branch, b(AL, 4), ArmLdr(PC, -4), EmitAddress(dst_vmaddr), Nop(FALSE)>>, {4, 16})

RelocateCopy ==
  /\ Loop /\ ~Thumb
  /\ Inst.op \notin {"ldr literal", "adr", "b", "bl", "blx"}
  /\ Unlabelled(<<Inst>>, {})

-----------------------------------------------------------------------------
(* Thumb1RelocateSingleInsn *)
RelocateMovPc ==
  /\ Thumb1Inst("mov") /\ Inst.rs = PC
  /\ Labelled(<<t2_ldr(VOLATILE_REGISTER, 0), [Inst EXCEPT !.rs = VOLATILE_REGISTER]>>, 0, relo_cur_src_pc)

RelocateBxPc ==
  /\ Thumb1Inst("bx")
  /\ IF Inst.link
     THEN Labelled(<<t2_bl(4), t2_b(4), t2_ldr(PC, 0)>>, 8, relo_cur_src_pc)
     ELSE Labelled(<<t2_ldr(PC, 0)>>, 0, relo_cur_src_pc)

RelocateThumb1LdrLiteral ==
  /\ Thumb1Inst("ldr literal")
  /\ Labelled(<<t2_ldr(Inst.rt, 0), LdrReg(TRUE, Inst.rt, Inst.rt)>>, 0, ALIGN_FLOOR(relo_cur_src_pc + Inst.off))

RelocateThumb1Adr ==
  /\ Thumb1Inst("adr")
  /\ Labelled(<<t2_ldr(Inst.rd, 0)>>, 0, relo_cur_src_pc + Inst.off)

(* The two bytes 0xe000 | cond << 8 | 2: a branch that always is taken, or half
   of some instruction *)
BCondBytes(cond) == IF cond < 8 THEN Branch("b", TRUE, 2, AL, 2 * (cond * 256 + 2), 12) ELSE Datum(0, 2)

(* svc is encoded as a b whose condition is 15: UNREACHABLE, which in a release
   build only logs. *)
RelocateThumb1BCond ==
  /\ Loop /\ Thumb /\ Inst.len = 2
  /\ Inst.op \in {"b", "svc"} /\ Inst.cond # AL
  /\ Labelled(<<BCondBytes(Inst.cond), Nop(TRUE), t2_b(4), t2_ldr(PC, 0)>>, 8,
              relo_cur_src_pc + SignExtend(Inst.imm, 9) + 1)

RelocateCbz ==
  /\ Thumb1Inst("cbz")
  /\ Labelled(<<[Inst EXCEPT !.imm = 4], Nop(TRUE), t2_b(4), t2_ldr(PC, 0)>>, 8,
              relo_cur_src_pc + Inst.imm + 1)

RelocateThumb1B ==
  /\ Thumb1Inst("b") /\ Inst.cond = AL
  /\ Labelled(<<t2_ldr(PC, 0)>>, 0, relo_cur_src_pc + SignExtend(Inst.imm, 12) + 1)

-----------------------------------------------------------------------------
(* Thumb2RelocateSingleInsn *)
RelocateThumb2BCond ==
  /\ Thumb2Inst("b") /\ Inst.cond # AL
  /\ Unlabelled(<<BCondBytes(Inst.cond), Nop(TRUE), t2_b(8), t2_ldr(PC, 0),
                  EmitAddress(relo_cur_src_pc + SignExtend(Inst.imm, 21) + 1)>>, {})

RelocateThumb2B ==
  /\ Thumb2Inst("b") /\ Inst.cond = AL
  /\ Unlabelled(<<t2_ldr(PC, 0), EmitAddress(relo_cur_src_pc + SignExtend(Inst.imm, 25) + 1)>>, {})

(* Of the offset of blx only 24 bits are taken into account. *)
RelocateThumb2Call ==
  /\ Loop /\ Thumb /\ Inst.op \in {"bl", "blx"}
  /\ LET dst_vmaddr == IF Inst.op = "bl"
                       THEN relo_cur_src_pc + SignExtend(Inst.imm, 25) + 1
                       ELSE ALIGN_FLOOR(relo_cur_src_pc) + SignExtend(Inst.imm, 24)
     IN Unlabelled(<<t2_bl(4), t2_b(8), t2_ldr(PC, 0), EmitAddress(dst_vmaddr)>>, {4})

RelocateThumb2Adr ==
  /\ Thumb2Inst("adr")
  /\ Unlabelled(IF (ABSOLUTE(Inst.off) \div 64) % 2 = 1 THEN <<Inst>>
                ELSE <<t2_ldr(Inst.rd, 4), t2_b(0), EmitAddress(relo_cur_src_pc + Inst.off)>>, {})

RelocateThumb2LdrLiteral ==
  /\ Thumb2Inst("ldr literal") /\ Inst.bytes = 4
  /\ Unlabelled(<<t2_ldr(Inst.rt, 8), LdrReg(TRUE, Inst.rt, Inst.rt), t2_b(4),
                  EmitAddress(relo_cur_src_pc + Inst.off)>>, {})

RelocateThumbCopy ==
  /\ Loop /\ Thumb
  /\ Inst.op \in {"nop", "other"} \/ (Inst.op = "mov" /\ Inst.rs # PC)
     \/ (Inst.op = "ldr literal" /\ Inst.bytes # 4)
  /\ Unlabelled(<<Inst>>, {})

-----------------------------------------------------------------------------
(* After the last instruction comes a branch to the one after it; the labels
   are bound. *)
Finish ==
  /\ Done
  /\ labels' = RelocLabelFixup(labels)
  /\ LET rest == Src + cursor
         branch == IF Thumb THEN AlignThumbNop(size) \o <<t2_ldr(PC, 0)>> ELSE <<ArmLdr(PC, -4)>>
         n == size + Length(branch) + 4
     IN /\ out' = RelocBind(Overlay(Placed(branch \o <<EmitAddress(rest + Flag(Thumb))>>, size), out), n, labels')
        /\ size' = n + 4 * Len(labels')
        /\ BranchBack(branch)
  /\ origin_size' = cursor
  /\ relocated' = [addr |-> arena, size |-> size'] /\ arena' = arena + size'
  /\ stage' = "hooked"
  /\ UNCHANGED <<given, tramp, nearby, cursor, relocated_offset_map, machine, expected_relocated_mem_size>>

Relocate ==
  \/ GenerateTrampoline
  \/ RelocateLdrLiteral \/ RelocateAdr \/ RelocateBranch \/ RelocateCopy
  \/ RelocateMovPc \/ RelocateBxPc \/ RelocateThumb1LdrLiteral \/ RelocateThumb1Adr
  \/ RelocateThumb1BCond \/ RelocateCbz \/ RelocateThumb1B
  \/ RelocateThumb2BCond \/ RelocateThumb2B \/ RelocateThumb2Call
  \/ RelocateThumb2Adr \/ RelocateThumb2LdrLiteral \/ RelocateThumbCopy
  \/ Finish
=============================================================================
