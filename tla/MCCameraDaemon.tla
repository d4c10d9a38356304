--------------------------- MODULE MCCameraDaemon ---------------------------
(* Two captures of one process, on two descriptors of one camera. *)
EXTENDS CameraDaemon

MCOneKey == {[tgid |-> 1, start |-> 1, fd |-> 1, device |-> 1]}

MCKey == {[tgid |-> 1, start |-> 1, fd |-> fd, device |-> 1] : fd \in {1, 2}}
=============================================================================
