-------------------------- MODULE RelocationContext --------------------------
(***************************************************************************)
(* What DobbyHook's routing works on, on every architecture: the first     *)
(* instructions of the function, the trampoline that is written over them, *)
(* their relocated copy, and a thread that calls the function once it is   *)
(* hooked.  The hook calls the original with the registers it was given.   *)
(***************************************************************************)
EXTENDS Machine, TLC

CONSTANT Arena   \* where executable memory is allocated from

ASSUME ArenaAssumption == Arena \in Nat \ {0}

VARIABLES
  fragment,    \* arch, src: where the function starts, and code: its first
               \* instructions by their offsets
  env,         \* the hook, the caller, what conditions depend on, registers
               \* at the call, where near memory is free
  stage,       \* "prepare", "relocate", "hooked", "original"
  tramp,       \* the trampoline buffer
  origin_size, \* origin->size
  relocated,   \* the block of the relocated code: addr and size
  nearby,      \* memory near some address: [at, item], item belongs to the
               \* instruction at offset at
  arena,       \* what is left of the code arena starts here
  expected_relocated_mem_size,
  cursor,      \* buffer_cursor - buffer
  out, size,   \* the code buffer and its GetBufferSize()
  labels,      \* data_labels_: [v, refs], the offsets of instructions that refer to it
  relocated_offset_map,
  pc, regs,    \* the thread
  before,      \* history: its registers when it came to the current instruction
  source       \* history: for an offset in the relocated code [at, start]: the
               \* instruction it belongs to, and whether that starts there

given == <<fragment, env>>
copied == <<out, size, nearby, source>>
blocks == <<origin_size, relocated>>
memory == <<arena, expected_relocated_mem_size>>
buffers == <<tramp, blocks, cursor, copied, labels, relocated_offset_map>>
machine == <<pc, regs, before>>
vars == <<given, stage, buffers, memory, machine>>

(* Nothing is hooked yet, and the thread is about to call the function. *)
Unhooked ==
  /\ stage = "prepare"
  /\ tramp = << >> /\ nearby = << >> /\ out = << >> /\ source = << >>
  /\ labels = << >> /\ relocated_offset_map = << >>
  /\ arena = Arena /\ expected_relocated_mem_size = 32
  /\ relocated = [addr |-> 0, size |-> 0]
  /\ origin_size = 0 /\ cursor = 0 /\ size = 0
  /\ pc = fragment.src /\ regs = env.regs /\ before = env.regs

-----------------------------------------------------------------------------
(* The bytes of a buffer, and the instruction of a fragment at an offset *)
Extent(buffer) == LET last == CHOOSE o \in DOMAIN buffer : \A q \in DOMAIN buffer : q <= o
                  IN last + buffer[last].len

Src == fragment.src
Bytes(f) == Extent(f.code)
Fetch(f, offset) == f.code[offset]

(* GenerateRelocatedCode starts from the size of the trampoline. *)
Prepare(trampoline) ==
  /\ stage = "prepare"
  /\ tramp' = trampoline
  /\ origin_size' = Extent(trampoline)
  /\ stage' = "relocate"
  /\ UNCHANGED <<given, relocated, cursor, out, size, source, labels, relocated_offset_map, memory, machine>>

relo_cur_src_vmaddr == Src + cursor

Loop == stage = "relocate" /\ cursor < origin_size
Done == stage = "relocate" /\ cursor >= origin_size

Inst == Fetch(fragment, cursor)

(* Instructions go to the end of the buffer.  From the offsets over the thread
   only gets to the next instruction of the function. *)
EmitOver(insts, over) ==
  \E placed \in {Placed(insts, size)} :
  LET mine == [o \in {p \in DOMAIN placed : ~IsData(placed[p])} |->
                 IF o - size \in over THEN [at |-> cursor + Inst.len, start |-> TRUE]
                 ELSE [at |-> cursor, start |-> o = size]]
  IN /\ out' = Overlay(placed, out)
     /\ size' = size + Length(insts)
     /\ source' = Overlay(mine, source)

Emit(insts) == EmitOver(insts, {})

(* The branch back stands for the instruction after the fragment. *)
BranchBack(insts) ==
  source' = Overlay([o \in DOMAIN Placed(insts, size) |-> [at |-> cursor, start |-> o = size]], source)

(* What the loop does around each instruction *)
Consume(length) ==
  /\ cursor' = cursor + length
  /\ UNCHANGED <<given, stage, tramp, blocks, memory, machine>>

-----------------------------------------------------------------------------
(* Memory, once the function is hooked: the trampoline, what is left of the
   function behind it, the copy *)
Code ==
  LET behind == {o \in DOMAIN fragment.code : o >= Extent(tramp)}
  IN IF stage \in {"hooked", "original"}
     THEN [a \in {Src + o : o \in DOMAIN tramp \cup behind}
                 \cup {relocated.addr + o : o \in DOMAIN out} \cup DOMAIN nearby |->
             IF a - Src \in DOMAIN tramp THEN tramp[a - Src]
             ELSE IF a - Src \in behind THEN Fetch(fragment, a - Src)
             ELSE IF a - relocated.addr \in DOMAIN out THEN out[a - relocated.addr]
             ELSE nearby[a].item]
     ELSE << >>

Data == LET bytes == Code
        IN [a \in {d \in DOMAIN bytes : IsData(bytes[d])} |-> bytes[a].v]

InCopy(a) == a - relocated.addr \in DOMAIN source
InRelocated(a) == InCopy(a) \/ a \in DOMAIN nearby

(* The instruction of the function that relocated code belongs to *)
Current(a) == IF InCopy(a) THEN source[a - relocated.addr].at ELSE nearby[a].at

Starts(a) == InCopy(a) /\ source[a - relocated.addr].start

(* The thread becomes what the instruction at pc makes of it. *)
Run(after) ==
  /\ \E thread \in {after} : pc' = thread.pc /\ regs' = thread.regs
  /\ before' = IF Starts(pc) THEN regs ELSE before
  /\ UNCHANGED <<given, stage, buffers, memory>>

(* The hook, called through the trampoline, calls the original: the thread
   becomes what a call of the relocated code makes of it. *)
CallOriginal(called) ==
  /\ stage = "hooked" /\ pc = env.hook
  /\ stage' = "original"
  /\ pc' = called.pc /\ regs' = called.regs /\ before' = called.regs
  /\ UNCHANGED <<given, buffers, memory>>

(* It runs until it is back in the caller. *)
Running ==
  /\ pc # env.caller
  /\ stage = "original" \/ (stage = "hooked" /\ pc # env.hook)
=============================================================================
