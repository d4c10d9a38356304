---------------------------- MODULE AppIdentity ----------------------------
(***************************************************************************)
(* Where the identity of an application comes from                         *)
(* (crates/camera-app-resolver/src): the desktop entries of the standard   *)
(* directories (desktop_entry.rs), what procfs says of a process           *)
(* (procfs.rs, flatpak.rs) and the fall-backs between them and the hints   *)
(* of a request (resolver.rs).  Operators only.                            *)
(*                                                                         *)
(* Texts are values; what the code computes from their characters is given *)
(* by functions on them.                                                   *)
(***************************************************************************)
EXTENDS Naturals, Sequences, FiniteSetsExt, SequencesExt

CONSTANTS None,       \* Option::None
          Text,       \* the strings at hand
          Plain,      \* [Text -> Text \cup {None}]: plain_text
          Trimmed,    \* [Text -> Text \cup {None}]: nonempty
          Bare,       \* [Text -> Text]: strip_suffix(".desktop"), or the text
          FileName,   \* [Text -> Text \cup {None}]: Path::file_name
          Words,      \* [Text -> Seq(Text)]: split_whitespace
          AppIdLike,  \* texts with a dot and no white space: looks_like_app_id
          Assignment, \* texts with an equals sign
          Ids,        \* the ids of desktop entries in the order of their bytes
          Unknown     \* UNKNOWN_APPLICATION

PlainText(text) == IF text = None THEN None ELSE Plain[text]
NonEmpty(text)  == IF text = None THEN None ELSE Trimmed[text]

\* a.or(b).or(c)...
FirstOf(options) ==
  LET known == {i \in DOMAIN options : options[i] # None}
  IN  IF known = {} THEN None ELSE options[Min(known)]

-----------------------------------------------------------------------------
(* Desktop entries.  A file is [stem, intact, lines] and a line             *)
(* [group, key, value]; a directory is [readable, files].                   *)

\* The value of the last line with this key in the group of the entry proper:
\* the groups of its actions have names and commands of their own.
ValueOf(file, key) ==
  LET lines == SelectSeq(file.lines, LAMBDA line : line.group = "Desktop Entry" /\ line.key = key)
  IN  IF lines = <<>> THEN None ELSE Last(lines).value

ExecutableFromExec(value) ==
  LET words      == Words[value]
      executable == IF words # <<>> /\ Head(words) = "env"
                      THEN SelectSeq(Tail(words), LAMBDA word : word \notin Assignment)
                      ELSE words
  IN  IF executable = <<>> THEN None ELSE FileName[Head(executable)]

Entry(file) ==
  LET exec == ValueOf(file, "Exec")
  IN  [id              |-> file.stem,
       name            |-> NonEmpty(ValueOf(file, "Name")),
       executable_name |-> IF exec = None THEN None ELSE ExecutableFromExec(exec),
       flatpak_app_id  |-> NonEmpty(ValueOf(file, "X-Flatpak"))]

\* parse_desktop_entry: hidden and nameless files are none.
Shown(file) == ValueOf(file, "Hidden") # "true" /\ Entry(file).name # None

\* from_paths for one directory: one file that cannot be read fails it as a whole.
Intact(directory) == directory.readable /\ \A file \in directory.files : file.intact

\* The entries of the directories, each with the number of the one it is from.
EntriesOf(directories) ==
  UNION {{[from |-> i, entry |-> Entry(file)] : file \in {file \in directories[i].files : Shown(file)}} :
         i \in {i \in DOMAIN directories : Intact(directories[i])}}

Rank(id) == CHOOSE n \in DOMAIN Ids : Ids[n] = id

\* entries.sort_by goes by id and is stable: of one id, the entries of the earlier
\* directories stay ahead.
NotAfter(found) ==
  {pair \in found \X found :
     \/ Rank(pair[1].entry.id) < Rank(pair[2].entry.id)
     \/ pair[1].entry.id = pair[2].entry.id /\ pair[1].from <= pair[2].from}

\* The members of a finite set in an order.
Listed(set, order) ==
  [k \in 1..Cardinality(set) |-> CHOOSE x \in set : Cardinality({y \in set : <<y, x>> \in order}) = k]

\* retain for sequences: the entries at some indices.
Picked(entries, kept) ==
  LET at == Listed(kept, {pair \in kept \X kept : pair[1] <= pair[2]})
  IN  [k \in DOMAIN at |-> entries[at[k]]]

\* Mutant: of entries with one id the last is kept.
DedupLast(entries) ==
  Picked(entries, {i \in DOMAIN entries : i = Len(entries) \/ entries[i+1].id # entries[i].id})

\* entries.dedup_by: neighbours with the id of their predecessor go.
Dedup(entries) ==
  Picked(entries, {i \in DOMAIN entries : i = 1 \/ entries[i-1].id # entries[i].id})

\* from_standard_paths: the user's directory first.
Index(directories) ==
  LET found  == EntriesOf(directories)
      listed == Listed(found, NotAfter(found))
  IN  Dedup([k \in DOMAIN listed |-> listed[k].entry])

\* The first of the entries that is one of some.
FirstEntry(entries, some) == FirstOf([i \in DOMAIN entries |-> IF entries[i] \in some THEN entries[i] ELSE None])

\* find: by application id, else by executable.
Find(index, app_id, executable_name) ==
  FirstOf(<<
    IF app_id = None THEN None
      ELSE FirstEntry(index, {entry \in ToSet(index) : Bare[app_id] \in {entry.id, entry.flatpak_app_id}}),
    IF executable_name = None THEN None
      ELSE FirstEntry(index, {entry \in ToSet(index) : entry.executable_name = executable_name}) >>)

-----------------------------------------------------------------------------
(* A process in procfs is [comm, exe, info, cgroup]: its name, the target   *)
(* of its exe link, the lines of its .flatpak-info and the units of its     *)
(* control groups, each None where it cannot be read as text; a unit is    *)
(* None or the application [app_id, instance] that a flatpak scope is named *)
(* after.  A name is cut to 15 bytes by the kernel, perhaps in the middle   *)
(* of a character.                                                          *)

\* app_id_from_flatpak_info
AppIdFromInfo(lines) ==
  LET names == SelectSeq(lines, LAMBDA line :
                 line.group = "Application" /\ line.key = "name" /\ Trimmed[line.value] # None)
  IN  IF names = <<>> THEN None ELSE Trimmed[Head(names).value]

\* app_id_from_cgroup
AppIdFromCgroup(units) ==
  LET scopes == SelectSeq(units, LAMBDA unit : unit # None)
      named  == SelectSeq(scopes, LAMBDA unit : unit.app_id # None /\ unit.instance # None)
  IN  IF named = <<>> THEN None ELSE Head(named).app_id

FlatpakAppId(process) ==
  FirstOf(<< IF process.info = None THEN None ELSE AppIdFromInfo(process.info),
             IF process.cgroup = None THEN None ELSE AppIdFromCgroup(process.cgroup) >>)

-----------------------------------------------------------------------------
NoProcess == [comm |-> None, exe |-> None, info |-> None, cgroup |-> None]

\* What read_process tells of a program that runs throughout: nothing at all when
\* its name cannot be read, whatever else could be.
Seen(process) == IF process.comm = None THEN NoProcess ELSE process

\* Mutant: the name of the process is not fallen back to.
DisplayNameShort(metadata_name, machine_label, entry_name, process_name, executable_name, binary, app_id) ==
  FirstOf((IF machine_label THEN <<entry_name, metadata_name>> ELSE <<metadata_name, entry_name>>)
          \o <<executable_name, app_id, Unknown>>)

DisplayName(metadata_name, machine_label, entry_name, process_name, executable_name, binary, app_id) ==
  FirstOf((IF machine_label THEN <<entry_name, metadata_name>> ELSE <<metadata_name, entry_name>>)
          \o <<process_name, executable_name, binary, app_id, Unknown>>)

\* resolve_uncached; a process that could not be read is NoProcess.
ResolveUncached(index, request, process) ==
  LET metadata_name   == PlainText(request.metadata_display_name)
      inferred_app_id == IF metadata_name \in AppIdLike THEN metadata_name ELSE None
      app_id          == FirstOf(<<PlainText(request.app_id), PlainText(FlatpakAppId(process)), inferred_app_id>>)
      executable_name == IF process.exe = None THEN None ELSE PlainText(FileName[process.exe])
      process_name    == PlainText(process.comm)
      binary          == FirstOf(<<PlainText(request.binary), executable_name, process_name>>)
      entry           == Find(index, app_id, binary)
      machine_label   == metadata_name # None /\ metadata_name \in {app_id, binary} \cup AppIdLike
  IN  [pid |-> request.pid, app_id |-> app_id, binary |-> binary,
       display_name |-> DisplayName(metadata_name, machine_label, IF entry = None THEN None ELSE entry.name,
                                    process_name, executable_name, binary, app_id)]

\* ResolutionRequest::from: an unknown application has no name to go by.
RequestFrom(identity) ==
  [pid |-> identity.pid, app_id |-> identity.app_id, binary |-> identity.binary,
   metadata_display_name |-> IF identity.display_name = Unknown THEN None ELSE identity.display_name]
=============================================================================
