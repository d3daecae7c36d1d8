------------------------------ MODULE MCKernel ------------------------------
(* Model-checking instance of Kernel: a table of three slots (slot 3 is the
   MAX_NPROCESS slot), up to three pids, two MLFQ levels, a clock of five ticks. *)
EXTENDS Kernel
=============================================================================
