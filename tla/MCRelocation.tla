---------------------------- MODULE MCRelocation ----------------------------
(***************************************************************************)
(* Every kind of instruction that refers to an address, on its own and     *)
(* with another one.  The sizes of immediates are scaled down so that      *)
(* addresses stay in the model checker's integers.                         *)
(***************************************************************************)
EXTENDS Relocation

MCSrc == 2^28 + 4 * 5
MCArena == 2^29
Caller == 2^30

Far == {-16384, 16384}

Arm64Plain(n) == A64!Other(1, n)

Arm64Handled ==
       {A64!B(Field(o \div 4, 26)) : o \in Far \cup {-2^27, 2^27 - 4}}
  \cup {A64!BL(Field(o \div 4, 26)) : o \in Far}
  \cup {A64!LdrLiteral(1, 0, 0, Field(o \div 4, 19)) : o \in Far}
  \cup {A64!Adr(0, Field(o, AdrBits)) : o \in Far \cup {6}}
  \cup {A64!Adrp(0, Field(o, AdrBits)) : o \in {-1, 3}}
  \cup {A64!BCond(c, Field(o \div 4, 19)) : c \in {0, 11}, o \in Far \cup {2^20 - 4}}
  \cup {A64!CompareB(c, Field(o \div 4, 19)) : c \in {0, 1}, o \in Far}
  \cup {A64!TestB(c, Field(o \div 4, 14)) : c \in {0, 1}, o \in Far}
  \cup {A64!Ret, A64!Other(0, 7)}

(* Not handled: literals that are not 64 bits wide, b.al, and branches into the
   bytes that the trampoline is written over *)
Arm64Unhandled ==
       {A64!LdrLiteral(opc, simd, 0, 4096) : opc \in {0, 2, 3}, simd \in {0, 1}}
  \cup {A64!LdrLiteral(1, 1, 0, 4096), A64!BCond(14, 4096), A64!B(2)}

Arm64Fragments ==
  LET some == {A64!B(4096), A64!LdrLiteral(1, 0, 1, 4096), A64!BCond(1, 4096), Arm64Plain(1)}
      two == Arm64Handled \X some \cup some \X Arm64Handled
      Case(insts, ok) == [arch |-> "arm64", src |-> MCSrc, handled |-> ok, code |-> Placed(insts, 0)]
  IN {Case(p \o <<Arm64Plain(2)>>, TRUE) : p \in two}
     \cup {Case(<<i, Arm64Plain(1), Arm64Plain(2)>>, FALSE) : i \in Arm64Unhandled}

Arm64Env(hook, h) ==
  [hook |-> hook, caller |-> Caller, holds |-> h, zero |-> h, near |-> 0,
   regs |-> [r \in {0, 1, 17, 30} |-> IF r = 30 THEN Address(Caller) ELSE Some(r)]]

(* The trampoline takes 12 bytes to a near hook, 16 with its data to a far one. *)
Arm64Cases ==
       {[fragment |-> f, env |-> Arm64Env(MCSrc + 4000, h)] : f \in Arm64Fragments, h \in BOOLEAN}
  \cup {[fragment |-> [f EXCEPT !.code = Placed(<<Arm64Plain(3)>>, Bytes(f)) @@ @],
         env |-> Arm64Env(2^27 + 4000, TRUE)] : f \in Arm64Fragments}

-----------------------------------------------------------------------------
Modrm(mod, rm, base) == [mod |-> mod, reg |-> 4, rm |-> rm, base |-> base]
Op(map, opcode, imm) == X64!X86({}, -1, map, opcode, X64!NoModrm, 0, imm)
Push == Op(1, \h55, 0)

(* Instructions that are rewritten, and some that are copied *)
X64Handled ==
       {Op(1, c, o) : c \in {\hE8, \hE9}, o \in {4096 - 2^(DispBits - 1), 2^(DispBits - 1) - 4096}}
  \cup {X64!JmpShort(o) : o \in {-128, 127}}
  \cup {X64!X86(p, rex, 1, c, X64!Rip(0), o, 5)
          : p \in {{}, {"67"}}, rex \in {-1, \h48}, c \in {\h8B, \h8D, \h81}, o \in {-4096, 4096}}
  \cup {Op(1, \hC3, 0), X64!X86({}, \h48, 1, \h83, Modrm(3, 4, 0), 0, 8)}

(* Opcodes that are taken for those of jumps, and near jumps that are copied *)
Jumps1 == \h70 .. \h7F \cup \hE0 .. \hE3
Jumps2 == \h70 .. \h7F \cup \h80 .. \h8F \cup \hE0 .. \hE3 \cup {\hE8, \hE9, \hEB}

Opcodes1 == 0 .. 255 \ (X64!Undecodable1 \cup X64!Prefixes1)
Opcodes2 == 0 .. 255 \ X64!Undecodable2

(* The ways in which operands are given; base 5 or 7 with mod 0 are not decoded. *)
Operands ==
  {Modrm(mod, rm, 0) : mod \in 0 .. 3, rm \in {0, 4, 5}} \cup {Modrm(mod, 4, base) : mod \in {1, 2}, base \in {5, 7}}

(* Prefixes that change sizes, and the rex byte; 66 together with rex.w is not
   decoded right when the operand is relative to rip. *)
Sizes == {{}, {"66"}, {"67"}} \X {-1, \h41} \cup {{}, {"67"}} \X {\h48}

Decodings ==
       {Op(1, c, 16) : c \in Opcodes1} \cup {Op(2, c, 16) : c \in Opcodes2}
  \cup {X64!X86(s[1], s[2], map, c, m, 16, 16)
          : s \in Sizes, map \in {1, 2},
            c \in {\h03, \h69, \hC1, \hC6}, m \in Operands}

(* What follows is long enough for a decoder that reads too far to end in it. *)
Next7 == X64!X86({}, \h48, 1, \h81, Modrm(3, 0, 0), 0, 4)

X64Fragment(insts, handled) ==
  [arch |-> "x64", src |-> MCSrc, handled |-> handled, code |-> Placed(insts \o <<Next7>>, 0)]

X64Env(holds, near) ==
  [hook |-> 2^27 + 4000, caller |-> Caller, holds |-> holds, zero |-> holds, near |-> near,
   regs |-> [r \in {0, 30, 31} |-> IF r = 30 THEN Address(Caller) ELSE Some(r)]]

Lowest == -2^(DispBits - 1)
Highest == 2^(DispBits - 1) - 256

X64Cases ==
       {[fragment |-> X64Fragment(prefix \o <<i>>, TRUE), env |-> X64Env(TRUE, near)]
          : prefix \in {<< >>, <<Push>>}, i \in X64Handled, near \in {Lowest, Highest}}
  \cup {[fragment |-> X64Fragment(<<i>>, i.opcode \notin (IF i.map = 1 THEN Jumps1 ELSE Jumps2)),
         env |-> X64Env(holds, Highest)] : i \in Decodings, holds \in {TRUE}}

-----------------------------------------------------------------------------
ArmOther(n) == A32!Other(FALSE, 4, 1, n)
ThumbOther(len, n) == A32!Other(TRUE, len, 1, n)
Branch2(op, len, cond, offset, bits) == A32!Branch(op, TRUE, len, cond, Field(offset, bits), bits)

ArmHandled ==
       {A32!Branch("b", FALSE, 4, c, Field(o, 26), 26) : c \in {0, 11, 14}, o \in {-16384, 2^25 - 4}}
  \cup {A32!Branch(op, FALSE, 4, 14, Field(o, 26), 26) : op \in {"bl", "blx"}, o \in {-2^25, 16384}}
  \cup {A32!LdrLiteral(FALSE, 4, 14, 4, rt, o) : rt \in {0, 15}, o \in {-4095, 1024}}
  \cup {A32!Adr(FALSE, 4, 14, 0, o) : o \in {-4080, 255}}

(* Not handled: conditional loads, bytes, and the halfword bit of blx *)
ArmUnhandled ==
  {A32!LdrLiteral(FALSE, 4, 0, 4, 0, 64), A32!Adr(FALSE, 4, 1, 0, 64), A32!LdrLiteral(FALSE, 4, 14, 1, 0, 64),
   A32!Branch("blx", FALSE, 4, 14, 4098, 26)}

ThumbHandled ==
       {Branch2("b", 2, 14, o, 12) : o \in {-2048, 2046}}
  \cup {Branch2(op, 4, 14, o, 25) : op \in {"b", "bl"}, o \in {-2^24, 2^24 - 2}}
  \cup {Branch2("blx", 4, 14, o, 25) : o \in {-4096, 2^23 - 4}}
  \cup {A32!Cbz(n, o) : n \in {0, 1}, o \in {30, 126}}
  \cup {A32!MovPc(0, 15), A32!MovPc(0, 1), A32!LdrLiteral(TRUE, 2, 14, 4, 0, 1020)}

(* Only at an address that is a multiple of four, or one whose pc is *)
ThumbAligned ==
  {A32!Adr(TRUE, 2, 14, 0, 64)} \cup {A32!LdrLiteral(TRUE, 4, 14, 4, 0, o) : o \in {-4095, 1024}}

(* Not handled: conditional branches, svc, adr.w, blx over more than 8 MB, blx pc,
   literals of a byte or that are loaded to pc *)
ThumbUnhandled ==
       {Branch2("b", 2, c, 64, 9) : c \in {0, 9}} \cup {Branch2("b", 4, c, 4096, 21) : c \in {1, 10}}
  \cup {A32!Adr(TRUE, 4, 14, 0, o) : o \in {-64, 4}} \cup {Branch2("svc", 2, 15, 0, 9)}
  \cup {Branch2("blx", 4, 14, 3 * 2^22, 25), A32!BxPc(TRUE)}
  \cup {A32!LdrLiteral(TRUE, 4, 14, 1, 0, 64), A32!LdrLiteral(TRUE, 4, 14, 4, 15, 64)}

ArmFragment(thumb, src, insts, handled) ==
  [arch |-> "arm", thumb |-> thumb, src |-> src, handled |-> handled, code |-> Placed(insts, 0)]

ArmFragments ==
  LET arm(insts, ok) == ArmFragment(FALSE, MCSrc, insts, ok)
  IN {arm(<<i, j>>, TRUE) : i \in ArmHandled, j \in ArmHandled \cup {ArmOther(1)}}
     \cup {arm(<<ArmOther(1), i>>, TRUE) : i \in ArmHandled}
     \cup {arm(<<i, ArmOther(1)>>, FALSE) : i \in ArmUnhandled}

(* A function may start in the middle of a word. *)
ThumbFragments ==
  LET thumb(insts, ok, odd) == ArmFragment(TRUE, MCSrc + 2 * odd, insts, ok)
      rest == <<ThumbOther(2, 2), ThumbOther(4, 3), ThumbOther(4, 4)>>
      two == {<<i, j>> : i \in ThumbHandled, j \in {ThumbOther(2, 1), A32!Cbz(1, 64), Branch2("bl", 4, 14, 64, 25)}}
  IN {thumb(p \o rest, TRUE, odd) : p \in two, odd \in {0, 1}}
     \cup {thumb(<<i>> \o rest, TRUE, 0) : i \in ThumbAligned}
     \cup {thumb(<<ThumbOther(2, 1), i>> \o rest, TRUE, 1) : i \in ThumbAligned}
     \cup {thumb(<<i>> \o rest, FALSE, 1) : i \in ThumbAligned \cup ThumbUnhandled}
     \cup {thumb(<<ThumbOther(4, 1), A32!BxPc(FALSE), A32!Nop(TRUE)>>, TRUE, 0)}

ArmEnv(thumb, h) ==
  [hook |-> 2^27 + 4000, tag |-> 1, caller |-> Caller, holds |-> h, zero |-> h,
   regs |-> [r \in {0, 1, 12, 14, 16} |->
               CASE r = 14 -> Address(Caller + 1) [] r = 16 -> Some(A32!Flag(thumb)) [] OTHER -> Some(r)]]

ArmCases == {[fragment |-> f, env |-> ArmEnv(f.thumb, h)] : f \in ArmFragments \cup ThumbFragments, h \in BOOLEAN}

MCCases == Arm64Cases \cup X64Cases \cup ArmCases
=============================================================================
