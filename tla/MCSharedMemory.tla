--------------------------- MODULE MCSharedMemory ---------------------------
(***************************************************************************)
(* Kernels for module SharedMemory: every list of up to three declarations *)
(* with sizes and alignments that leave gaps, fit tightly, or have none.   *)
(***************************************************************************)
EXTENDS SharedMemory

Declarations == [size : {1, 6}, align : {0, 8}]
AllKernels == UNION {[1..n -> Declarations] : n \in 0..3}
=============================================================================
