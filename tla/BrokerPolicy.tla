---------------------------- MODULE BrokerPolicy ----------------------------
(***************************************************************************)
(* Whose a capture is (observer/src/policy.rs): the trusted-broker policy, *)
(* when it is accepted, and the class that it gives to a process by the    *)
(* target of its exe link.                                                 *)
(*                                                                         *)
(* The kernel appends " (deleted)" to the target of a link whose file has  *)
(* been removed or replaced, so a link is a path and a flag; a name with   *)
(* that suffix is no broker's.                                             *)
(***************************************************************************)
EXTENDS Naturals, FiniteSets

CONSTANTS Path,        \* paths of executables
          FileNameOf,  \* [Path -> names]
          PackageOwned,\* paths of regular files that belong to root and that only root may write
          NoPolicy,    \* a policy file that is missing or malformed
          PolicyFile   \* [schema_version, brokers] or NoPolicy; a broker is
                       \* [named, executable_paths], named if its id is not blank

ASSUME PolicyAssumption ==
  /\ PackageOwned \subseteq Path
  /\ PolicyFile # NoPolicy =>
       PolicyFile \in [schema_version : Nat,
                       brokers : SUBSET [named : BOOLEAN, executable_paths : SUBSET Path]]

\* load and from_json
HasPolicy ==
  /\ PolicyFile # NoPolicy
  /\ PolicyFile.schema_version = 1
  /\ PolicyFile.brokers # {}
  /\ \A broker \in PolicyFile.brokers : broker.named /\ broker.executable_paths # {}

BrokerPaths == UNION {broker.executable_paths : broker \in PolicyFile.brokers}

Listed(link)          == ~link.deleted /\ link.path \in BrokerPaths
ResemblesBroker(link) == ~link.deleted /\ \E path \in BrokerPaths : FileNameOf[path] = FileNameOf[link.path]

\* classify_executable_with under the policy, "Unknown" without one.
OwnerOf(link) ==
  CASE ~HasPolicy                                      -> "Unknown"
    [] HasPolicy /\ Listed(link)                       -> IF link.path \in PackageOwned THEN "BrokerOwned" ELSE "Unknown"
    [] HasPolicy /\ ~Listed(link) /\ ResemblesBroker(link) -> "Unknown"
    [] OTHER                                           -> "Direct"

\* The link of a process whose executable is still in place.
Intact(path) == [path |-> path, deleted |-> FALSE]
=============================================================================
