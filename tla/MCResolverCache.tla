-------------------------- MODULE MCResolverCache --------------------------
(* Texts, requests, programs and desktop entries for model checking.  The fields of  *)
(* records are in the order of their first use, as in MCV4l2Observer.                *)
EXTENDS ResolverCache

MCUnknown == "Unknown application"
MCIds     == <<"cheese", "org.x.Snap">>
MCText    == ToSet(MCIds) \cup
  {"Cheese", "My\tCheese", "My Cheese", "New Window", "Snapshot", "snap", " ", "env A=1 cheese",
   "/usr/bin/cheese %U", "/usr/bin/cheese", "%U", "A=1", "env", "flatpak", "true", "org.x.Snap.desktop"}

MCPlain   == [text \in MCText |-> CASE text = " " -> None [] text = "My\tCheese" -> "My Cheese" [] OTHER -> text]
MCTrimmed == [text \in MCText |-> IF text = " " THEN None ELSE text]
MCBare    == [text \in MCText |-> IF text = "org.x.Snap.desktop" THEN "org.x.Snap" ELSE text]
MCFileName == [text \in MCText |-> IF text = "/usr/bin/cheese" THEN "cheese" ELSE text]
MCWords   == [text \in MCText |-> CASE text = "env A=1 cheese" -> <<"env", "A=1", "cheese">>
                                     [] text = "/usr/bin/cheese %U" -> <<"/usr/bin/cheese", "%U">>
                                     [] text = " " -> <<>>
                                     [] OTHER -> <<text>>]
MCAppIdLike  == {"org.x.Snap", "org.x.Snap.desktop"}
MCAssignment == {"A=1", "env A=1 cheese"}

\* What a V4L2 session asks, one with a name that is an id, one without a process.
Bare_ == [pid |-> 1, app_id |-> None, display_name |-> MCUnknown, binary |-> None]
MCRequest ==
  {RequestFrom(identity) : identity \in
    {Bare_, [Bare_ EXCEPT !.display_name = "org.x.Snap.desktop"], [Bare_ EXCEPT !.pid = None, !.binary = "cheese"]}}

\* A native program, one that may not be inspected, one in a sandbox, one whose
\* sandbox only its scope tells of, one whose name cannot be read as text.
MCProgram ==
  {[comm |-> "snap", exe |-> None, info |-> None, cgroup |-> None],
   [comm |-> "cheese", exe |-> "/usr/bin/cheese", info |-> None, cgroup |-> <<None>>],
   [comm |-> "snap", exe |-> None,
    info |-> <<[group |-> "Instance", key |-> "name", value |-> "snap"],
               [group |-> "Application", key |-> "name", value |-> "org.x.Snap"]>>, cgroup |-> None],
   [comm |-> " ", exe |-> None, info |-> <<>>, cgroup |-> <<None, [app_id |-> "org.x.Snap", instance |-> "1"]>>],
   [comm |-> None, exe |-> "/usr/bin/cheese", info |-> None, cgroup |-> None]}

Line(key, value) == [group |-> "Desktop Entry", key |-> key, value |-> value]
File(stem, lines) == [stem |-> stem, lines |-> lines, intact |-> TRUE]
Ours   == File("cheese", <<Line("Name", "My\tCheese"), Line("Exec", "env A=1 cheese")>>)
Hidden == File("cheese", <<Line("Name", "Cheese"), Line("Hidden", "true")>>)
Theirs == File("cheese", <<Line("Name", "Cheese"), Line("Exec", "/usr/bin/cheese %U"),
                           [group |-> "Desktop Action new", key |-> "Name", value |-> "New Window"]>>)
Sandboxed == File("org.x.Snap", <<Line("Name", "Snapshot"), Line("Exec", "flatpak"), Line("X-Flatpak", "org.x.Snap")>>)
Broken == [Sandboxed EXCEPT !.intact = FALSE]
Directory(files) == [files |-> files, readable |-> TRUE]

MCDirectories ==
  {<<user, Directory({Theirs, Sandboxed})>> : user \in
    {Directory({Ours}), Directory({Hidden}), Directory({Ours, Broken}), [Directory({}) EXCEPT !.readable = FALSE]}}
=============================================================================
