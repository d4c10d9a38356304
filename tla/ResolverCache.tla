--------------------------- MODULE ResolverCache ---------------------------
(***************************************************************************)
(* ApplicationResolver (crates/camera-app-resolver/src/resolver.rs): a map *)
(* from requests to identities beside a queue of the same requests in the  *)
(* order of their last use, both bounded by cache_capacity and kept in     *)
(* step by hand, and the lookups that fill them.                           *)
(*                                                                         *)
(* A lookup reads procfs file by file (procfs.rs) while processes start,   *)
(* execute other programs and exit, and ids are reused.  The daemon holds  *)
(* the resolver's lock for the whole of resolve, so there is one lookup at *)
(* a time.                                                                 *)
(***************************************************************************)
EXTENDS AppIdentity

CONSTANTS Request,     \* resolution requests: [pid, app_id, metadata_display_name, binary]
          Pid,         \* process ids
          Program,     \* what procfs says of a process: [comm, exe, info, cgroup]
          Directories, \* lists of application directories, the user's first
          Capacity,    \* cache_capacity
          MaxCalls,    \* bound: calls in one behaviour
          MaxChanges   \* bound: changes of processes in one behaviour

\* ProcessSnapshot, and a lookup under way with what it will read next.
Contents(file) == {program[file] : program \in Program} \cup {None}
Snapshot == [comm : Contents("comm"), exe : Contents("exe"),
             info : Contents("info"), cgroup : Contents("cgroup")]
Lookup   == [request : Request, at : {"dir", "comm", "exe", "info", "cgroup", "insert"}, process : Snapshot]

ASSUME CacheAssumption ==
  /\ Capacity \in Nat \ {0} /\ {MaxCalls, MaxChanges} \subseteq Nat
  /\ \A request \in Request : request.pid \in Pid \cup {None}
  /\ Program \subseteq Snapshot /\ None \notin Lookup

\* Two files of a directory have two names.
ASSUME DirectoriesAssumption ==
  /\ Ids \in Seq(Text) /\ IsInjective(Ids)
  /\ \A dirs \in Directories :
       /\ Len(dirs) \in Nat /\ DOMAIN dirs = 1..Len(dirs)
       /\ \A i \in DOMAIN dirs :
            /\ IsFiniteSet(dirs[i].files)
            /\ \A file \in dirs[i].files : file.stem \in ToSet(Ids)
            /\ \A f, g \in dirs[i].files : f.stem = g.stem => f = g

VARIABLES directories, \* as they were when the resolver was built
          index,       \* desktop_entries
          cache,       \* request -> identity, on the cached requests
          recency,     \* cached requests, least recently used first
          lookup,      \* the lookup under way, in Lookup, or None
          holder,      \* process id -> program, or None
          changes,     \* changes of holder so far
          current,     \* requests whose process has not changed since their lookup began
          history      \* the calls so far

cacheVars   == <<cache, recency>>
processVars == <<holder, changes>>
vars        == <<directories, index, cacheVars, lookup, processVars, current, history>>

Cached == DOMAIN cache

\* retain: the entries of a queue but for a request, in their order.
Without(queue, request) == Picked(queue, {i \in DOMAIN queue : queue[i] # request})

Init ==
  /\ directories \in Directories /\ index = Index(directories)
  /\ cache = [r \in {} |-> None] /\ recency = <<>>
  /\ lookup = None
  /\ holder \in [Pid -> Program \cup {None}] /\ changes = 0
  /\ current = {}
  /\ history = <<>>

Call(op, request) ==
  /\ lookup = None /\ Len(history) < MaxCalls
  /\ history' = Append(history, [op |-> op, request |-> request])

\* Mutant: a hit does not count as a use.
HitUntouched(request) ==
  /\ request \in Cached
  /\ Call("resolve", request)
  /\ UNCHANGED <<directories, index, cacheVars, lookup, processVars, current>>

\* resolve with a cached answer: touch.
Hit(request) ==
  /\ request \in Cached
  /\ Call("resolve", request)
  /\ recency' = Append(Without(recency, request), request)
  /\ UNCHANGED <<directories, index, cache, lookup, processVars, current>>

\* resolve without one: a request with a process id reads procfs first.
Miss(request) ==
  /\ request \notin Cached
  /\ Call("resolve", request)
  /\ lookup' = [request |-> request, at |-> IF request.pid = None THEN "insert" ELSE "dir", process |-> NoProcess]
  /\ current' = current \cup {request}
  /\ UNCHANGED <<directories, index, cacheVars, processVars>>

Holder == holder[lookup.request.pid]

\* read_process: without the directory or the name there is no snapshot at all, be
\* the process gone or its name unreadable.
ReadFails ==
  /\ lookup # None
  /\ \/ lookup.at \in {"dir", "comm"} /\ Holder = None
     \/ lookup.at = "comm" /\ Holder # None /\ Holder.comm = None
  /\ lookup' = [lookup EXCEPT !.at = "insert"]
  /\ UNCHANGED <<directories, index, cacheVars, processVars, current, history>>

ReadDir ==
  /\ lookup # None /\ lookup.at = "dir" /\ Holder # None
  /\ lookup' = [lookup EXCEPT !.at = "comm"]
  /\ UNCHANGED <<directories, index, cacheVars, processVars, current, history>>

\* Mutant: an unreadable or nameless .flatpak-info ends the snapshot.
AfterShort(file) == CASE file = "comm" -> "exe" [] file = "exe" -> "info"
                      [] file = "info" -> "insert" [] file = "cgroup" -> "insert"

After(file) == CASE file = "comm" -> "exe" [] file = "exe" -> "info"
                 [] file = "info" -> "cgroup" [] file = "cgroup" -> "insert"

\* One of the files; all but the name may be missing.
ReadFile(file) ==
  /\ lookup # None /\ lookup.at = file
  /\ file = "comm" => Holder # None /\ Holder.comm # None
  /\ lookup' = [lookup EXCEPT !.at = After(file),
                              !.process[file] = IF Holder = None THEN None ELSE Holder[file]]
  /\ UNCHANGED <<directories, index, cacheVars, processVars, current, history>>

\* insert_cache: the oldest entry makes room for the new one.
Evicted == IF Cardinality(Cached) = Capacity /\ recency # <<>> THEN {Head(recency)} ELSE {}

Insert ==
  /\ lookup # None /\ lookup.at = "insert"
  /\ LET request == lookup.request
     IN  /\ cache' = [r \in (Cached \ Evicted) \cup {request} |->
                        IF r = request THEN ResolveUncached(index, request, lookup.process) ELSE cache[r]]
         /\ recency' = Append(IF Evicted = {} THEN recency ELSE Tail(recency), request)
  /\ current' = current \ Evicted
  /\ lookup' = None
  /\ UNCHANGED <<directories, index, processVars, history>>

\* Mutant: the request stays in the queue.
InvalidateKeepsRecency(request) ==
  /\ Call("invalidate", request)
  /\ cache' = [r \in Cached \ {request} |-> cache[r]]
  /\ current' = current \ {request}
  /\ UNCHANGED <<directories, index, recency, lookup, processVars>>

Invalidate(request) ==
  /\ Call("invalidate", request)
  /\ recency' = Without(recency, request)
  /\ cache' = [r \in Cached \ {request} |-> cache[r]]
  /\ current' = current \ {request}
  /\ UNCHANGED <<directories, index, lookup, processVars>>

ClearCache ==
  /\ Call("clear", CHOOSE request \in Request : TRUE)
  /\ cache' = [r \in {} |-> None] /\ recency' = <<>> /\ current' = {}
  /\ UNCHANGED <<directories, index, lookup, processVars>>

\* A process starts, executes another program or exits.
ProcessChanges(pid, program) ==
  /\ changes < MaxChanges /\ holder[pid] # program
  /\ holder' = [holder EXCEPT ![pid] = program] /\ changes' = changes + 1
  /\ current' = {r \in current : r.pid # pid}
  /\ UNCHANGED <<directories, index, cacheVars, lookup, history>>

Rest == lookup = None /\ Len(history) = MaxCalls /\ UNCHANGED vars

Next ==
  \/ \E request \in Request : Hit(request) \/ Miss(request) \/ Invalidate(request)
  \/ ClearCache
  \/ ReadFails \/ ReadDir \/ \E file \in {"comm", "exe", "info", "cgroup"} : ReadFile(file)
  \/ Insert
  \/ \E pid \in Pid, program \in Program \cup {None} : ProcessChanges(pid, program)
  \/ Rest

Spec == Init /\ [][Next]_vars

-----------------------------------------------------------------------------
\* The queue lists the cached requests, each once, and never more than the
\* capacity: otherwise an eviction would find nothing to drop, or the wrong entry.
CacheConsistent ==
  /\ Cached \subseteq Request
  /\ ToSet(recency) = Cached /\ IsInjective(recency)
  /\ Cardinality(Cached) <= Capacity

\* Call i dropped the answer to a request on purpose.
Dropped(i, request) ==
  \/ history[i].op = "clear"
  \/ history[i].op = "invalidate" /\ history[i].request = request

\* The requests resolved after call i.
ResolvedAfter(i) ==
  {history[j].request : j \in {j \in (i+1)..Len(history) : history[j].op = "resolve"}}

\* Whatever was resolved last stays cached: a request is evicted only after
\* Capacity other requests were resolved since its last use.
RecentIsCached ==
  \A i \in 1..Len(history) :
    (/\ history[i].op = "resolve"
     /\ \A j \in (i+1)..Len(history) : ~Dropped(j, history[i].request)
     /\ Cardinality(ResolvedAfter(i) \ {history[i].request}) < Capacity
     /\ (lookup # None => i < Len(history)))
    => history[i].request \in Cached

\* The process behind a request now.
Behind(request) ==
  IF request.pid = None \/ holder[request.pid] = None THEN NoProcess ELSE holder[request.pid]

\* A cached answer is what a lookup would give now, unless its process has changed
\* since that lookup began: a snapshot never mixes two processes on its own account,
\* and what goes stale goes stale only with the process id.
AnswersCurrent ==
  \A request \in Cached \cap current :
    cache[request] = ResolveUncached(index, request, Seen(Behind(request)))

Hints(request) ==
  {PlainText(request.app_id), PlainText(request.metadata_display_name), PlainText(request.binary)}
Facts(process) ==
  {PlainText(process.comm), PlainText(FlatpakAppId(process)),
   IF process.exe = None THEN None ELSE PlainText(FileName[process.exe])}

\* "Resolves identity hints without making missing or inaccessible process metadata
\* fatal": an application is unknown only if neither the request nor what is seen
\* of its process says anything.  Of a process whose name cannot be read nothing is
\* seen: it may be unknown although its executable or its sandbox would tell.
UnknownSaysNothing ==
  \A request \in Cached \cap current :
    cache[request].display_name = Unknown => Hints(request) \cup Facts(Seen(Behind(request))) = {None}

\* Which entry an id leads to does not depend on how the index was sorted: it is the
\* one of the first intact directory that shows an entry with the id.
Shows(directory, id) == Intact(directory) /\ \E file \in directory.files : file.stem = id /\ Shown(file)
UserOverridesSystem ==
  \A i \in DOMAIN directories, id \in ToSet(Ids) :
    (Shows(directories[i], id) /\ \A j \in 1..(i-1) : ~Shows(directories[j], id)) =>
      {entry \in ToSet(index) : entry.id = id} =
        {Entry(file) : file \in {file \in directories[i].files : file.stem = id}}
=============================================================================
