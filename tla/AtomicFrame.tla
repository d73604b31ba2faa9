---------------------------- MODULE AtomicFrame ----------------------------
(***************************************************************************)
(* What a frame promises: to run as if everything it may ask for were at   *)
(* hand, each instruction in one step.                                     *)
(***************************************************************************)
EXTENDS Naturals, Sequences

CONSTANTS
  Handle(_, _),         \* what an instruction of a code makes of a frame, all steps of it
  Apply(_),             \* the frame, with what is pending put into effect
  ReturnRegion(_, _),   \* where a call wants what the callee returns
  Everything            \* all that a frame may ask for

VARIABLES code, frame, status

vars == <<code, frame, status>>

Init ==
  /\ frame.known = Everything /\ frame.pc = 0 /\ frame.spent = 0
  /\ frame.stack = <<>> /\ frame.mem = 0 /\ status = "running"

\* An instruction, with the end it may make of the frame.
Instruction ==
  /\ status = "running" /\ frame.pc < Len(code)
  /\ LET g == Handle(frame, code)
     IN  /\ frame' = IF g.out = "Ok"
                     THEN [Apply(g) EXCEPT !.pc = IF code[frame.pc + 1].op \in {"JUMP", "JUMPI"}
                                                  THEN @ ELSE @ + 1]
                     ELSE IF g.out = "Call"
                     THEN [Apply(g) EXCEPT !.target = ReturnRegion(frame, code)]
                     ELSE Apply(g)
         /\ status' = IF g.out = "Ok" THEN "running" ELSE g.out
  /\ UNCHANGED code

\* The code is at its end, a chain that is asked does not answer, or a callee
\* is done.
Elsewhere ==
  /\ \/ /\ status = "running"
        /\ status' \in {"End", "failed"} /\ UNCHANGED frame
     \/ /\ status = "Call"
        /\ status' = "running"
        /\ frame'.pc = frame.pc + 1 /\ frame'.mem = frame.mem
        /\ frame'.spent <= frame.spent /\ frame'.slot = frame.slot
        /\ frame'.warm = frame.warm /\ frame'.known = Everything
  /\ UNCHANGED code

Next == Instruction \/ Elsewhere
Spec == Init /\ [][Next]_vars
=============================================================================
