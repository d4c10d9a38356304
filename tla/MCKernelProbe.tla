---------------------------- MODULE MCKernelProbe ----------------------------
(* The process ids differ in nothing but their names. *)
EXTENDS KernelProbe, TLC

TgidSymmetry == Permutations(Tgid)
=============================================================================
