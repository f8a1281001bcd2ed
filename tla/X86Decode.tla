------------------------------ MODULE X86Decode ------------------------------
(***************************************************************************)
(* Dobby's x86 instruction decoder in 64-bit mode: the tables of operand   *)
(* codes, which say whether a modrm byte and which immediate follow an     *)
(* opcode, and the length that results.                                    *)
(***************************************************************************)
EXTENDS X86Processor

(* What an entry of a table says: one of its operands has a code G, E, M or R;
   the type of its first operand with a code J, I or O; its flag; its group *)
Spec(modrm, imm, default64, group) ==
  [modrm |-> modrm, imm |-> imm, default64 |-> default64, group |-> group]

x86_opcode_map_one_byte(c) ==
  Spec(\/ c < \h40 /\ c % 8 \in 0 .. 3
       \/ c \in {\h62, \h63, \h69, \h6B} \cup \h80 .. \h8F
       \/ c \in {\hC0, \hC1} \cup \hC4 .. \hC7 \cup \hD0 .. \hD3 \cup {\hFE},
       CASE c < \h40 /\ c % 8 = 4 -> "b"
         [] c < \h40 /\ c % 8 = 5 -> "z"
         [] c \in {\h6A, \h6B, \h80, \h82, \h83, \hA0, \hA2, \hA8, \hC0, \hC1, \hC6, \hCD, \hEB} -> "b"
         [] c \in \h70 .. \h7F \cup \hB0 .. \hB7 \cup \hE0 .. \hE7 -> "b"
         [] c \in {\h68, \h69, \h81, \hA9, \hC7, \hE8, \hE9} -> "z"
         [] c \in {\hA1, \hA3} \cup \hB8 .. \hBF -> "v"
         [] c \in {\hC2, \hC8, \hCA} -> "w"
         [] OTHER -> "none",
       c \in {\h07, \h0E, \h68, \h6A, \hE8, \hE9} \cup \h50 .. \h5F,
       CASE c \in \h80 .. \h83 -> "1"
         [] c = \h8F -> "1a"
         [] c \in {\hC0, \hC1} \cup \hD0 .. \hD3 -> "2"
         [] c \in {\hC6, \hC7} -> "11"
         [] c \in {\hF6, \hF7} -> "3"
         [] c = \hFE -> "4"
         [] c = \hFF -> "5"
         [] OTHER -> "none")

x86_opcode_map_two_byte(c) ==
  Spec(\/ c \in {\h02, \h03} \cup \h10 .. \h17 \cup \h20 .. \h23 \cup \h28 .. \h2F \cup \h40 .. \h6B
       \/ c \in {\h6E, \h6F, \h70, \h74, \h75, \h76, \h7E, \h7F} \cup \h90 .. \h9F
       \/ c \in {\hA3, \hA4, \hA5, \hAB, \hAC, \hAD, \hAF} \cup \hB0 .. \hB7 \cup \hBA .. \hC7
       \/ c \in \hD1 .. \hFE \ {\hD6, \hF0},
       CASE c \in {\h70, \hA4, \hAC, \hBA, \hC2, \hC4, \hC5, \hC6} -> "b"
         [] c \in \h80 .. \h8F -> "z"
         [] OTHER -> "none",
       FALSE,
       CASE c = \h00 -> "6" [] c = \h01 -> "7" [] c = \h0D -> "p" [] c = \h18 -> "16"
         [] c = \h71 -> "12" [] c = \h72 -> "13" [] c = \h73 -> "14"
         [] c = \hAE -> "15" [] c = \hB9 -> "10" [] c = \hBA -> "8" [] c = \hC7 -> "9"
         [] OTHER -> "none")

(* The flag of an entry of a group; the group's operands are not taken over. *)
x86_insn_modrm_reg_groups(group, reg) ==
  (group = "1a" /\ reg = 0) \/ (group = "5" /\ reg \in {2, 4, 6})

(* x86_insn_decode_opcode *)
x86_insn_spec(inst) ==
  LET spec == IF inst.map = 2 THEN x86_opcode_map_two_byte(inst.opcode)
                              ELSE x86_opcode_map_one_byte(inst.opcode)
  IN IF spec.group = "none" THEN spec
     ELSE [spec EXCEPT !.default64 = x86_insn_modrm_reg_groups(spec.group, inst.modrm.reg)]

-----------------------------------------------------------------------------
(* The registers as the decoder numbers them *)
RBP == 7
R13 == 14

IpRelative(inst) == inst.modrm.mod = 0 /\ inst.modrm.rm = 5

(* x86_insn_decode_modrm_sib: the bits of the displacement *)
disp_bits(inst) ==
  LET mod == inst.modrm.mod
      base == inst.modrm.base + 8 * RexB(inst.rex)
      none == IF "67" \in inst.prefixes THEN {RBP} ELSE {RBP, R13}
  IN IF HasSib(inst.modrm) /\ base \in none
     THEN IF mod = 1 THEN 8 ELSE 32
     ELSE CASE IpRelative(inst) -> 32
            [] mod = 1 -> 8
            [] mod = 2 -> 32
            [] OTHER -> 0

(* Mutant of effective_operand_bits: without prefix 66 *)
effective_operand_bits_no_66(inst, spec) ==
  IF spec.default64 \/ (RexW(inst.rex) /\ ~(spec.modrm /\ IpRelative(inst))) THEN 64 ELSE 32

effective_operand_bits(inst, spec) ==
  IF spec.default64 \/ (RexW(inst.rex) /\ ~(spec.modrm /\ IpRelative(inst))) THEN 64
  ELSE IF "66" \in inst.prefixes THEN 16 ELSE 32

x86_insn_imm_bits(spec, operand_bits) ==
  CASE spec.imm = "b" -> 8
    [] spec.imm = "w" -> 16
    [] spec.imm = "z" -> IF operand_bits = 64 THEN 32 ELSE operand_bits
    [] spec.imm = "v" -> operand_bits
    [] OTHER -> 0

(* x86_insn_decode_number: how far a number of so many bits moves the reader *)
Advance(bits) == IF bits = 64 THEN 4 ELSE bits \div 8

x86_insn_decode(inst) ==
  LET spec == x86_insn_spec(inst)
      start == PrefixBytes(inst.prefixes, inst.rex) + inst.map
      disp == IF spec.modrm THEN disp_bits(inst) ELSE 0
      after == IF spec.modrm THEN start + 1 + IF HasSib(inst.modrm) THEN 1 ELSE 0 ELSE start
      imm == x86_insn_imm_bits(spec, effective_operand_bits(inst, spec))
  IN [length |-> after + Advance(disp) + Advance(imm),
      displacement_offset |-> IF disp = 0 THEN 0 ELSE after,
      immediate_offset |-> IF imm = 0 THEN 0 ELSE after + Advance(disp),
      rip |-> spec.modrm /\ IpRelative(inst),
      primary_opcode |-> inst.opcode]

-----------------------------------------------------------------------------
(* Opcodes whose entries in the tables do not say what follows them: some that
   are invalid in 64-bit mode, absolute moves, vex, enter, x87, groups 3 and 5 *)
Undecodable1 == {\h62, \h82, \hC4, \hC5, \hC8, \hF6, \hF7, \hFF} \cup \hA0 .. \hA3 \cup \hD8 .. \hDF
Undecodable2 ==
  {\h00, \h01, \h04, \h0D, \h0F, \h71, \h72, \h73, \hA6, \hA7, \hAE, \hB8, \hB9, \hD0, \hD6, \hF0, \hFF}
  \cup \h18 .. \h1F \cup \h24 .. \h27 \cup \h38 .. \h3F \cup {\h6C, \h6D} \cup \h78 .. \h7D

(* What comes before an opcode and is none *)
Prefixes1 == \h40 .. \h4F \cup {\h0F, \h26, \h2E, \h36, \h3E, \h64, \h65, \h66, \h67, \hF0, \hF2, \hF3}

(* The instructions that the decoder is right about.  It is not about a SIB
   byte without base or with one that it takes for none; a mov of 64 bits; and,
   after prefix 66, an operand relative to rip with rex.w, push, and near jumps
   on conditions. *)
Described(inst) ==
  /\ inst.prefixes \subseteq {"66", "67", "F0", "F2", "F3", "2E", "36", "3E", "26", "64", "65"}
  /\ inst.rex \in {-1} \cup \h40 .. \h4F
  /\ \/ inst.map = 1 /\ inst.opcode \in 0 .. 255 \ (Undecodable1 \cup Prefixes1)
     \/ inst.map = 2 /\ inst.opcode \in 0 .. 255 \ Undecodable2
  /\ inst.disp \in Int /\ inst.imm \in Int
  /\ inst.modrm \in [mod : 0 .. 3, reg : 0 .. 7, rm : 0 .. 7, base : 0 .. 7]
  /\ inst.modrm.mod = 0 /\ HasSib(inst.modrm) =>
       LET base == inst.modrm.base + 8 * RexB(inst.rex)
       IN inst.modrm.base # 5 /\ base # RBP /\ ("67" \notin inst.prefixes => base # R13)
  /\ RexW(inst.rex) => ~(inst.map = 1 /\ inst.opcode \in \hB8 .. \hBF)
  /\ "66" \in inst.prefixes =>
       IF RexW(inst.rex) THEN ~IpRelative(inst)
       ELSE ~(inst.map = 1 /\ inst.opcode = \h68) /\ ~(inst.map = 2 /\ inst.opcode \in \h80 .. \h8F)
  /\ inst.len = X86(inst.prefixes, inst.rex, inst.map, inst.opcode, inst.modrm, inst.disp, inst.imm).len
=============================================================================
