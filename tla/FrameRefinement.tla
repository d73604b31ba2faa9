-------------------------- MODULE FrameRefinement --------------------------
(***************************************************************************)
(* That the interpreter (evm.rs, run by the loop of exe.rs that answers its *)
(* fetches) keeps the promise of AtomicFrame.                               *)
(***************************************************************************)
EXTENDS Interpreter

\* The yields are invisible: a frame runs as if it held all data from the
\* start, so an instruction that was repeated has taken effect once.
Whole == INSTANCE AtomicFrame WITH
           frame <- [frame EXCEPT !.known = Everything, !.want = {}],
           status <- IF status = "fetching" THEN "running" ELSE status
RunsAsIfWhole == Whole!Spec
=============================================================================
