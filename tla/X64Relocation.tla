---------------------------- MODULE X64Relocation ----------------------------
(***************************************************************************)
(* DobbyHook's trampoline and relocation on x86_64.  The block for the     *)
(* relocated code is allocated first; when it turns out too small a larger *)
(* one is taken and relocation starts again.                               *)
(***************************************************************************)
EXTENDS RelocationContext, X86Decode, FiniteSetsExt

(* A number in DispBits bits, as the casts to int32_t make it *)
Wrap(n) == Signed(Field(n, DispBits), DispBits)

(* Near memory is the first that is free from where the environment has some:
   at its start a whole range below pos, or at its end above.  The allocator
   goes on behind what it has given away. *)
Near(len, pos) ==
  LET start == pos + env.near
      behind == {b + nearby[b].item.len : b \in DOMAIN nearby}
  IN Min({a \in {start} \cup behind :
            a >= start /\ \A b \in DOMAIN nearby : b + nearby[b].item.len <= a \/ a + len <= b})

codegen_x64_jmp_absolute_addr(target) == <<JmpIndirect(0), Datum(target, 8)>>

(* The offset of the stub is taken from what CurrentIP() says: the address the
   code will have, and what is in the buffer already. *)

(* Mutant of JmpNearIndirect: from the start of the jump *)
JmpNearIndirectFromStart(stub, currIP) == JmpIndirect(Wrap(stub - currIP))

JmpNearIndirect(stub, currIP) == JmpIndirect(Wrap(stub - (currIP + 6)))

-----------------------------------------------------------------------------
GenerateTrampoline ==
  LET forward_stub == Near(8, Src + 6)
  IN /\ Prepare(Placed(<<JmpNearIndirect(forward_stub, Src)>>, 0))
     /\ nearby' = [a \in {forward_stub} |-> [at |-> 0, item |-> Datum(env.hook, 8)]]

(* GenRelocateCodeX86Shared: a block for the relocated code *)
AllocateRelocated ==
  /\ stage = "relocate" /\ relocated.addr = 0
  /\ relocated' = [addr |-> arena, size |-> expected_relocated_mem_size]
  /\ arena' = arena + expected_relocated_mem_size
  /\ UNCHANGED <<given, stage, tramp, origin_size, cursor, copied, labels, relocated_offset_map,
                 machine, expected_relocated_mem_size>>

-----------------------------------------------------------------------------
(* GenRelocateSingleX86Insn *)
Decoded == x86_insn_decode(Inst)

Looking == Loop /\ relocated.addr # 0

curr_relo_ip == relocated.addr + size
orig_insn_ref_addr(offset) == Src + cursor + Decoded.length + offset

ConsumeDecoded ==
  /\ UNCHANGED <<labels, relocated_offset_map>>
  /\ Consume(Decoded.length)

IsJcc(opcode) == opcode \in \h70 .. \h7F
IsJmp8(opcode) == opcode = \hEB
IsCallOrJmp32(opcode) == opcode \in {\hE8, \hE9}
IsLoop(opcode) == opcode \in \hE0 .. \hE3

(* What the processor makes of the two bytes 0x80 | condition and 2: none of
   these is a conditional jump, and the first four take bytes that follow as an
   immediate, so that what is left of these does not run. *)
JccBytes(opcode) ==
  LET group == X86({}, -1, 1, \h80 + (opcode % 16), [mod |-> 0, reg |-> 0, rm |-> 2, base |-> 0], 0, 0)
  IN [group EXCEPT !.len = 2]

RelocateJcc ==
  /\ Looking /\ IsJcc(Decoded.primary_opcode)
  /\ LET over == IF Inst.opcode % 16 < 4 THEN Datum(0, 2) ELSE JmpShort(14)
     IN Emit(<<JccBytes(Inst.opcode), over>>
             \o codegen_x64_jmp_absolute_addr(orig_insn_ref_addr(Inst.imm)))
  /\ UNCHANGED nearby
  /\ ConsumeDecoded

(* An instruction that refers to data by rip moves to memory near its data,
   and jumps back. *)
RelocateRip ==
  /\ Looking /\ ~IsJcc(Decoded.primary_opcode) /\ Decoded.rip
  /\ \E orig_rip_ref_addr \in {orig_insn_ref_addr(Inst.disp)} :
     \E rip_insn_seq \in {Near(Inst.len + 14, orig_rip_ref_addr)} :
       LET new_disp == Wrap(orig_rip_ref_addr - (rip_insn_seq + Decoded.length))
           insts == <<[Inst EXCEPT !.disp = new_disp]>> \o codegen_x64_jmp_absolute_addr(curr_relo_ip + 14)
       IN /\ \E seq \in {Placed(insts, rip_insn_seq)} :
               nearby' = Overlay([a \in DOMAIN seq |-> [at |-> cursor, item |-> seq[a]]], nearby)
          /\ Emit(codegen_x64_jmp_absolute_addr(rip_insn_seq))
  /\ ConsumeDecoded

RelocateJmp8 ==
  /\ Looking /\ ~Decoded.rip /\ IsJmp8(Decoded.primary_opcode)
  /\ Emit(codegen_x64_jmp_absolute_addr(orig_insn_ref_addr(Inst.imm)))
  /\ UNCHANGED nearby
  /\ ConsumeDecoded

(* Mutant of RelocateCallOrJmp32: nothing jumps over the address of a call. *)
RelocateCallIntoData ==
  /\ Looking /\ ~Decoded.rip /\ IsCallOrJmp32(Decoded.primary_opcode)
  /\ LET target == orig_insn_ref_addr(Inst.imm)
     IN IF Decoded.primary_opcode = \hE8
        THEN Emit(<<CallIndirect(0), Datum(target, 8)>>)
        ELSE Emit(codegen_x64_jmp_absolute_addr(target))
  /\ UNCHANGED nearby
  /\ ConsumeDecoded

(* A call returns to a jump over the address that it took its target from. *)
RelocateCallOrJmp32 ==
  /\ Looking /\ ~Decoded.rip /\ IsCallOrJmp32(Decoded.primary_opcode)
  /\ LET target == orig_insn_ref_addr(Inst.imm)
     IN IF Decoded.primary_opcode = \hE8
        THEN EmitOver(<<CallIndirect(2), JmpShort(8), Datum(target, 8)>>, {6})
        ELSE Emit(codegen_x64_jmp_absolute_addr(target))
  /\ UNCHANGED nearby
  /\ ConsumeDecoded

(* UNIMPLEMENTED: a release build emits nothing. *)
RelocateLoop ==
  /\ Looking /\ ~Decoded.rip /\ IsLoop(Decoded.primary_opcode)
  /\ UNCHANGED copied
  /\ ConsumeDecoded

RelocateCopy ==
  /\ Looking /\ ~Decoded.rip
  /\ LET c == Decoded.primary_opcode
     IN ~(IsJcc(c) \/ IsJmp8(c) \/ IsCallOrJmp32(c) \/ IsLoop(c))
  /\ Emit(<<Inst>>)
  /\ UNCHANGED nearby
  /\ ConsumeDecoded

-----------------------------------------------------------------------------
(* After the last instruction comes a jump to the one after it. *)
TailSize == 14

(* Mutant of Fits: the tail is not counted. *)
FitsWithoutTail == size <= relocated.size

Fits == size + TailSize <= relocated.size

Finish ==
  /\ Done /\ relocated.addr # 0 /\ Fits
  /\ LET stub_addr == curr_relo_ip + 6
         branch == <<JmpNearIndirect(stub_addr, curr_relo_ip)>>
     IN /\ out' = Overlay(Placed(branch \o <<Datum(Src + cursor, 8)>>, size), out)
        /\ BranchBack(branch)
  /\ size' = size + TailSize
  /\ origin_size' = cursor
  /\ relocated' = [relocated EXCEPT !.size = size']
  /\ stage' = "hooked"
  /\ UNCHANGED <<given, tramp, nearby, cursor, labels, relocated_offset_map, machine, memory>>

(* The block is too small: x86_try_again *)
TryAgain ==
  /\ Done /\ relocated.addr # 0 /\ ~Fits
  /\ expected_relocated_mem_size' = expected_relocated_mem_size + 16
  /\ relocated' = [addr |-> 0, size |-> 0]
  /\ origin_size' = cursor
  /\ cursor' = 0 /\ size' = 0 /\ out' = << >> /\ source' = << >>
  /\ UNCHANGED <<given, stage, tramp, nearby, labels, relocated_offset_map, machine, arena>>

Relocate ==
  \/ GenerateTrampoline \/ AllocateRelocated
  \/ RelocateJcc \/ RelocateRip \/ RelocateJmp8 \/ RelocateCallOrJmp32
  \/ RelocateLoop \/ RelocateCopy
  \/ Finish \/ TryAgain
=============================================================================
