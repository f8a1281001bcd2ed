--------------------------- MODULE Arm64Relocation ---------------------------
(***************************************************************************)
(* DobbyHook's trampoline and relocation on arm64.                         *)
(***************************************************************************)
EXTENDS RelocationContext, Arm64Processor

X17 == 17   \* TMP_REG_0

SignExtend(x, M) == IF (x \div 2^(M - 1)) % 2 = 1 THEN (x % 2^M) - 2^M ELSE x

decode_imm14_offset(inst) == SignExtend(inst.imm14 * 4, 16)
decode_imm19_offset(inst) == SignExtend(inst.imm19 * 4, 21)
decode_imm26_offset(inst) == SignExtend(inst.imm26 * 4, 28)
decode_immhi_immlo_offset(inst) == SignExtend(inst.imm, AdrBits)
decode_immhi_immlo_zero12_offset(inst) == decode_immhi_immlo_offset(inst) * 2^PageBits
encode_imm19_offset(inst, offset) == [inst EXCEPT !.imm19 = Field(offset \div 4, 19)]

TruncPage(a) == a - (a % 2^PageBits)

-----------------------------------------------------------------------------
(* The assembler's composed instructions *)
Mov(rd, imm) ==
  [i \in 1 .. 4 |-> IF i = 1 THEN Movz(rd, Half(imm, 0), 0) ELSE Movk(rd, Half(imm, i - 1), i - 1)]

AdrpAdd(rd, from, to) ==
  <<Adrp(rd, Field((TruncPage(to) - TruncPage(from)) \div 2^PageBits, AdrBits)),
    AddImm(rd, rd, to % 2^PageBits)>>

Ldr(rt) == LdrLiteral(1, 0, rt, 0)
Label(dst, offset) == [v |-> dst, refs |-> {offset}]

(* RelocBind: the data of the labels follow the n bytes of code, and the
   instructions that refer to them are linked. *)
RelocBind(code, n, ls) ==
  LET bound(i) == n + 8 * (i - 1)
      linked == [o \in DOMAIN code |->
                   IF \E i \in DOMAIN ls : o \in ls[i].refs
                   THEN LET i == CHOOSE j \in DOMAIN ls : o \in ls[j].refs
                        IN encode_imm19_offset(code[o], bound(i) - o)
                   ELSE code[o]]
  IN Overlay(linked, Placed([i \in DOMAIN ls |-> Datum(ls[i].v, 8)], n))

-----------------------------------------------------------------------------
InAdrpRange(from, to) ==
  (IF from > to THEN from - to ELSE to - from) < 2^(AdrBits + PageBits - 1)

GenerateNormalTrampolineBuffer(from, to) ==
  IF InAdrpRange(from, to)
  THEN Placed(AdrpAdd(X17, from, to) \o <<Br(X17)>>, 0)
  ELSE RelocBind(Placed(<<Ldr(X17), Br(X17)>>, 0), 8, <<Label(to, 0)>>)

GenerateTrampoline ==
  /\ Prepare(GenerateNormalTrampolineBuffer(Src, env.hook))
  /\ UNCHANGED nearby

-----------------------------------------------------------------------------
(* The head of relo_relocate's loop: where the instruction's copy starts *)
ConsumeMapped ==
  /\ relocated_offset_map' = (cursor :> size) @@ relocated_offset_map
  /\ UNCHANGED nearby
  /\ Consume(4)

(* A branch to dst by way of a label, after prefix *)
LoadAndBranch(prefix, dst, branch) ==
  /\ labels' = Append(labels, Label(dst, size + Length(prefix)))
  /\ Emit(prefix \o <<Ldr(X17), branch>>)
  /\ ConsumeMapped

RelocateBranch ==
  /\ Loop /\ Inst.op \in {"b", "bl"}
  /\ LoadAndBranch(<< >>, relo_cur_src_vmaddr + decode_imm26_offset(Inst),
                   IF Inst.op = "bl" THEN Blr(X17) ELSE Br(X17))

RelocateLdrLiteral ==
  /\ Loop /\ Inst.op = "ldr literal"
  /\ LET load == IF Inst.opc \in {0, 1} THEN <<LdrX(Inst.rt, X17)>> ELSE << >>
     IN Emit(Mov(X17, relo_cur_src_vmaddr + decode_imm19_offset(Inst)) \o load)
  /\ UNCHANGED labels
  /\ ConsumeMapped

RelocateAdr ==
  /\ Loop /\ Inst.op = "adr"
  /\ Emit(Mov(Inst.rd, relo_cur_src_vmaddr + decode_immhi_immlo_offset(Inst)))
  /\ UNCHANGED labels
  /\ ConsumeMapped

RelocateAdrp ==
  /\ Loop /\ Inst.op = "adrp"
  /\ Emit(Mov(Inst.rd, TruncPage(relo_cur_src_vmaddr + decode_immhi_immlo_zero12_offset(Inst))))
  /\ UNCHANGED labels
  /\ ConsumeMapped

(* A conditional branch becomes its opposite, over a branch to its target. *)
(* Mutant of Flip: the condition stays what it was. *)
NoFlip(bit) == bit

Flip(bit) == 1 - bit

RelocateBCond ==
  /\ Loop /\ Inst.op = "b.cond"
  /\ LET flipped == Inst.cond - (Inst.cond % 2) + Flip(Inst.cond % 2)
     IN LoadAndBranch(<<BCond(flipped, 3)>>, relo_cur_src_vmaddr + decode_imm19_offset(Inst), Br(X17))

RelocateCompareB ==
  /\ Loop /\ Inst.op = "cbz"
  /\ LoadAndBranch(<<CompareB(Flip(Inst.bit24), 3)>>,
                   relo_cur_src_vmaddr + decode_imm19_offset(Inst), Br(X17))

RelocateTestB ==
  /\ Loop /\ Inst.op = "tbz"
  /\ LoadAndBranch(<<TestB(Flip(Inst.bit24), 3)>>,
                   relo_cur_src_vmaddr + decode_imm14_offset(Inst), Br(X17))

RelocateCopy ==
  /\ Loop
  /\ Inst.op \notin {"b", "bl", "ldr literal", "adr", "adrp", "b.cond", "cbz", "tbz"}
  /\ Emit(<<Inst>>)
  /\ UNCHANGED labels
  /\ ConsumeMapped

(* After the last instruction comes a branch to the one after it; the labels
   are bound, and the trampoline is committed. *)
Finish ==
  /\ Done
  /\ labels' = Append(labels, Label(Src + cursor, size))
  /\ LET branch == <<Ldr(X17), Br(X17)>>
         n == size + Length(branch)
     IN /\ out' = RelocBind(Overlay(Placed(branch, size), out), n, labels')
        /\ size' = n + 8 * Len(labels')
        /\ BranchBack(branch)
  /\ origin_size' = cursor
  /\ relocated' = [addr |-> arena, size |-> size'] /\ arena' = arena + size'
  /\ stage' = "hooked"
  /\ UNCHANGED <<given, tramp, nearby, cursor, relocated_offset_map, machine, expected_relocated_mem_size>>

Relocate ==
  \/ GenerateTrampoline
  \/ RelocateBranch \/ RelocateLdrLiteral \/ RelocateAdr \/ RelocateAdrp
  \/ RelocateBCond \/ RelocateCompareB \/ RelocateTestB \/ RelocateCopy
  \/ Finish
=============================================================================
