----------------------------- MODULE Relocation -----------------------------
(***************************************************************************)
(* DobbyHook on the architectures that the app is built for: relocation,   *)
(* then a thread that calls the hooked function.                           *)
(***************************************************************************)
EXTENDS RelocationContext

CONSTANTS
  AdrBits, PageBits, HalfBits, DispBits,
  Cases     \* [fragment, env]: what is relocated, and where it then runs

A64 == INSTANCE Arm64Relocation
A32 == INSTANCE Arm32Relocation
X64 == INSTANCE X64Relocation

(* The code that is relocated is instructions one after the other, up to its
   last byte.  Those of arm64 take four bytes, those of x64 are among the ones
   that the decoder is right about. *)
WellFormed(f) ==
  /\ f.arch \in {"arm64", "arm", "x64"}
  /\ f.src \in Nat
  /\ 0 \in DOMAIN f.code /\ Bytes(f) \in Nat /\ DOMAIN f.code \subseteq 0 .. Bytes(f) - 1
  /\ \A o \in DOMAIN f.code :
       /\ Sized(f.code[o])
       /\ o + f.code[o].len \in DOMAIN f.code \cup {Bytes(f)}
       /\ f.arch = "arm64" => f.code[o].len = 4
       /\ f.arch = "x64" => X64!Described(f.code[o])

(* There is room for the trampoline. *)
TrampolineBytes(f, e) ==
  CASE f.arch = "arm64" -> IF A64!InAdrpRange(f.src, e.hook) THEN 12 ELSE 16
    [] f.arch = "arm" -> IF f.thumb /\ f.src % 4 # 0 THEN 10 ELSE 8
    [] f.arch = "x64" -> 6

ASSUME CasesAssumption ==
  \A c \in Cases : WellFormed(c.fragment) /\ TrampolineBytes(c.fragment, c.env) <= Bytes(c.fragment)

(* The trampoline can get to the hook.  The hook is no part of the code that the
   trampoline is written over.  On arm64 its page is not the one that adrp just
   cannot express.  On 32-bit ARM hook and function are aligned, and the call is
   in the function's instruction set.  On x64 the memory near the function is in
   the jump's reach, and neither in the function nor where copies are put. *)
HookInReach(f, e) ==
  /\ e.hook \in Nat \ (f.src .. f.src + Bytes(f) - 1)
  /\ f.arch = "arm64" =>
       /\ A64!X17 \in DOMAIN e.regs
       /\ A64!InAdrpRange(f.src, e.hook) =>
            A64!TruncPage(e.hook) - A64!TruncPage(f.src) # 2^(AdrBits - 1) * 2^PageBits
  /\ f.arch = "arm" =>
       /\ f.thumb \in BOOLEAN /\ f.src % (IF f.thumb THEN 2 ELSE 4) = 0
       /\ A32!T \in DOMAIN e.regs /\ e.regs[A32!T] = Some(A32!Flag(f.thumb))
       /\ e.hook % 2 = 0 /\ e.tag \in {0, 1}
  /\ f.arch = "x64" =>
       LET stub == f.src + 6 + e.near
       IN /\ e.near \in -2^(DispBits - 1) .. 2^(DispBits - 1) - 1
          /\ stub + 8 <= f.src \/ f.src + Bytes(f) <= stub
          /\ stub + 8 <= Arena

ASSUME BitsAssumption ==
  AdrBits \in Nat \ {0} /\ PageBits \in Nat /\ HalfBits \in Nat /\ DispBits \in Nat \ {0}

ASSUME ReachAssumption == \A c \in Cases : HookInReach(c.fragment, c.env)

(* Which processor runs the code *)
Execute(arch, inst, at, r, e, data) ==
  CASE arch = "arm64" -> A64!Arm64Execute(inst, at, r, e, data)
    [] arch = "arm" -> A32!Arm32Execute(inst, at, r, e, data)
    [] arch = "x64" -> X64!X86Execute(inst, at, r, e, data)

Leave(arch, r) ==
  CASE arch = "arm64" -> A64!Arm64Leave(r)
    [] arch = "arm" -> A32!Arm32Leave(r)
    [] arch = "x64" -> X64!X86Leave(r)

(* The pointer to the original says on 32-bit ARM which instruction set the
   copy is in. *)
CallRelocated ==
  IF fragment.arch = "arm" THEN A32!Interwork(relocated.addr + A32!Flag(fragment.thumb), regs)
                           ELSE [pc |-> relocated.addr, regs |-> regs]

(* One step of the thread.  Data, address 0 and bytes that nobody wrote do not
   run; any other code is a function that returns at once. *)
Step ==
  /\ Running
  /\ IF pc \in DOMAIN Code
     THEN ~IsData(Code[pc]) /\ Run(Execute(fragment.arch, Code[pc], pc, regs, env, Data))
     ELSE stage = "original" /\ Run(Leave(fragment.arch, regs))

GenRelocateCodeAndBranch ==
  \/ fragment.arch = "arm64" /\ A64!Relocate
  \/ fragment.arch = "arm" /\ A32!Relocate
  \/ fragment.arch = "x64" /\ X64!Relocate

Init ==
  /\ \E c \in Cases : fragment = c.fragment /\ env = c.env
  /\ Unhooked

Next == GenRelocateCodeAndBranch \/ Step \/ CallOriginal(CallRelocated)

(* A thread that hooks or calls a function gets to run. *)
Spec == Init /\ [][Next]_vars /\ WF_vars(Next)

-----------------------------------------------------------------------------
(* The thread as a caller of the original sees it: registers that the copy
   uses are none of its business, and addresses in the copy are those of the
   instructions there. *)
Scratch ==
  CASE fragment.arch = "arm64" -> {A64!X17}
    [] fragment.arch = "arm" -> {A32!VOLATILE_REGISTER}
    [] fragment.arch = "x64" -> {}

(* The lowest bit of an address that selects the instruction set *)
Tag(a) == IF fragment.arch = "arm" THEN a % 2 ELSE 0

Unrelocated(v) ==
  LET a == v.v - Tag(v.v)
  IN IF v.kind = "address" /\ Starts(a) THEN Address(Src + Current(a) + Tag(v.v)) ELSE v

Unscratched(r) == [n \in DOMAIN r \ Scratch |-> Unrelocated(r[n])]

Relocated == stage = "original" /\ InRelocated(pc)

OriginalPc ==
  CASE stage # "original" -> Src
    [] Relocated -> Src + Current(pc)
    [] OTHER -> pc

OriginalRegs ==
  CASE stage # "original" -> Unscratched(env.regs)
    [] Relocated /\ ~Starts(pc) -> Unscratched(before)
    [] OTHER -> Unscratched(regs)

Handled(f) == f.handled
SrcOf(f) == f.src

Original == INSTANCE OriginalCode WITH
  Start <- SrcOf, Size <- Bytes, InstructionAt <- Fetch,
  env <- [env EXCEPT !.regs = Unscratched(env.regs)],
  pc <- OriginalPc, regs <- OriginalRegs

-----------------------------------------------------------------------------
TypeOK ==
  /\ stage \in {"prepare", "relocate", "hooked", "original"}
  /\ cursor \in 0 .. Bytes(fragment)
  /\ size \in Nat /\ \A o \in DOMAIN out : o + out[o].len <= size
  /\ \A i \in DOMAIN labels : labels[i].refs \subseteq DOMAIN out
  /\ \A o \in DOMAIN source : source[o].at \in 0 .. Bytes(fragment)

(* The pointer that DobbyHook hands out does what the function did before it
   was hooked: instruction by instruction the same registers, the same loads
   and the same way out. *)
ImplementsOriginal == Original!Spec

(* A call of the hooked function gets to the hook, in the instruction set of
   the hook and with the registers of the call. *)
CallReachesHook ==
  stage = "hooked" =>
    /\ pc - Src \in DOMAIN tramp \/ pc = env.hook
    /\ \A n \in DOMAIN regs \ Scratch :
         regs[n] = IF fragment.arch = "arm" /\ n = A32!T /\ pc = env.hook
                   THEN Some(env.tag) ELSE env.regs[n]

OutOfCopy == pc \notin DOMAIN nearby /\ pc - relocated.addr \notin 0 .. size - 1

(* Relocation ends, however often it has to start again with a larger block; a
   thread that is on its way through the copy of an instruction, or has
   returned to it, comes to the next one or leaves the copy. *)
CallsGetThrough ==
  /\ stage = "prepare" ~> stage = "hooked"
  /\ fragment.handled /\ stage = "original" ~> Starts(pc) \/ OutOfCopy

(* The code fits the block that was allocated for it: it does not reach into
   what is allocated next. *)
CopyFitsBlock ==
  stage \in {"hooked", "original"} => relocated.addr + Extent(out) <= arena

(* Relocation is always at the start of an instruction, never in the middle of
   one that it took to be shorter or longer than the processor does. *)
AtInstruction == cursor \in DOMAIN fragment.code \cup {Bytes(fragment)}
=============================================================================
