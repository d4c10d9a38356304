--------------------------- MODULE MCV4l2Observer ---------------------------
(***************************************************************************)
(* Process tables and policies for model checking: the connected daemon's  *)
(* uid is 1.  Records list their fields in the order in which this module  *)
(* first names them, which is TLC's own order: workers that share a record *)
(* constant then never sort it at the same time.                           *)
(***************************************************************************)
EXTENDS V4l2Observer

\* An application and a broker.
MCPath       == {"/usr/bin/app", "/usr/bin/pipewire"}
MCFileNameOf == [path \in MCPath |-> IF path = "/usr/bin/app" THEN "app" ELSE "pipewire"]
MCOwned      == MCPath
MCPolicy     == [schema_version |-> 1,
                 brokers |-> {[named |-> TRUE, executable_paths |-> {"/usr/bin/pipewire"}]}]

Process(uid, tgid, exe) == [uid |-> uid, tgid |-> tgid, exe |-> exe, start |-> 1]

\* A broker of the user, whose captures are direct once it has been upgraded, and an
\* application of another user.
MCMixed == {Process(1, 11, "/usr/bin/pipewire"), Process(2, 12, "/usr/bin/app")}

\* A single application.
MCOne == {Process(1, 10, "/usr/bin/app")}

\* The CPUs differ in nothing but their buffers.
CpuSymmetry == Permutations(Cpu)

\* Every descriptor refers to a camera of its own, or all to the same one.
MCDevices == [fd \in Fd |-> fd]
MCShared  == [fd \in Fd |-> 1]
=============================================================================
