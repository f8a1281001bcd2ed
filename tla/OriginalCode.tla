---------------------------- MODULE OriginalCode ----------------------------
(***************************************************************************)
(* What the first instructions of a hooked function do when the processor  *)
(* runs them in their place.  The relocated copy that DobbyHook hands out  *)
(* as the pointer to the original has to do the same.                      *)
(***************************************************************************)
EXTENDS Integers

CONSTANTS
  Start(_),                  \* where the function of a fragment starts
  Size(_),                   \* the bytes of a fragment
  InstructionAt(_, _),       \* the instruction of a fragment at an offset
  Execute(_, _, _, _, _, _), \* the processor: architecture, instruction, pc,
                             \* registers, environment, known data
  Leave(_, _),               \* a called function's return, from the registers
  Handled(_)                 \* the fragments that the promise is made for

VARIABLES
  fragment,   \* the instructions that the trampoline is written over
  env,        \* what conditions depend on, and the registers at the call
  pc, regs

vars == <<fragment, env, pc, regs>>

Init == pc = Start(fragment) /\ regs = env.regs

Offset == pc - Start(fragment)

Inside == Offset \in 0 .. Size(fragment) - 1

Become(after) == pc' = after.pc /\ regs' = after.regs

Step ==
  /\ Inside
  /\ Become(Execute(fragment.arch, InstructionAt(fragment, Offset), pc, regs, env, << >>))
  /\ UNCHANGED <<fragment, env>>

(* A function that the fragment has called, or jumped to, returns. *)
Return ==
  /\ ~Inside
  /\ Become(Leave(fragment.arch, regs))
  /\ UNCHANGED <<fragment, env>>

Next == Step \/ Return

Spec == Init /\ [][Handled(fragment) => Next]_vars
=============================================================================
