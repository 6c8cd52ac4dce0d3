---------------------------- MODULE OperatorConfig ----------------------------
(***************************************************************************)
(* Which source tree, index and settings a process works with (config.py):     *)
(* flags before the environment before the YAML before the defaults, where the  *)
(* YAML and the tree are found by walking up from the working directory to a     *)
(* YAML or an index, and from a bare index on to the YAML it was built with.     *)
(* Operators build and erase, developers edit the YAMLs, and whoever reads        *)
(* resolves anew.                                                            *)
(*                                                                         *)
(* Directories are sequences of names.  A value is [rel, up, path]: a path to be  *)
(* put behind some directory, or anything that is taken as it is.               *)
(***************************************************************************)
EXTENDS Naturals, SequencesExt, FiniteSetsExt

CONSTANTS
    None,
    Dirs,       \* the directories that processes run in
    Home,
    IndexName,  \* ".java-codebase-rag"
    Default,    \* the built-in value of each setting
    Closed,     \* of some settings, the values that are valid
    YamlSets,   \* functions from directories to what their YAML says, or None
    Builders,   \* operators: records [cwd, flags, env]
    Watchers,   \* the processes that may run `jrag watch --detach`
    MaxBuilds,  \* bound on the verbs (TLC only)
    MaxEdits    \* bound on the edits of YAMLs (TLC only)

VARIABLES
    yaml,       \* what the YAML of each directory says
    stores,     \* what is in each index directory that is not empty
    builds, edits

vars == <<yaml, stores, builds, edits>>

Keys   == DOMAIN Default
Paths  == {"source_root", "index_dir", "embedding_model"}
Unset  == [key \in Keys |-> None]
Based(base, value) ==
    IF value.rel THEN [rel |-> FALSE, up |-> 0, path |-> SubSeq(base, 1, Len(base) - value.up) \o value.path] ELSE value
PrefixesOf(dir) == {SubSeq(dir, 1, n) : n \in 0..Len(dir)}

----------------------------------------------------------------------------
(* Finding the tree and the YAML *)

HasYaml(dir)  == dir \in DOMAIN yaml /\ yaml[dir] # None
HasIndex(dir) == Append(dir, IndexName) \in DOMAIN stores
Anchors(dir)  == HasYaml(dir) \/ (dir # Home /\ HasIndex(dir))

\* The nearest anchor; from below the home directory not past it.
Discover(dir) ==
    LET up    == {d \in PrefixesOf(dir) : IsPrefix(Home, dir) => IsPrefix(Home, d)}
        found == {d \in up : Anchors(d)}
    IN  IF found = {} THEN dir ELSE CHOOSE d \in found : \A e \in found : Len(e) <= Len(d)

\* A bare index points to the YAML it was built with, unless that has gone.
Effective(dir) ==
    LET target == IF HasIndex(dir) THEN stores[Append(dir, IndexName)].pointer ELSE None
    IN  IF ~HasYaml(dir) /\ target # None /\ HasYaml(target) THEN target ELSE dir

Explicit(p) ==
    IF p.flags["source_root"] # None THEN Based(p.cwd, p.flags["source_root"]).path
    ELSE IF p.env["source_root"] # None THEN Based(p.cwd, p.env["source_root"]).path ELSE None
ConfigDir(p) == Effective(IF Explicit(p) # None THEN Explicit(p) ELSE Discover(p.cwd))

\* The YAML's directory, what the YAML says, and the tree.
Said(dir) == IF HasYaml(dir) THEN yaml[dir] ELSE Unset
LocatedAt(dir, explicit) ==
    [dir |-> dir, said |-> Said(dir),
     root |-> IF explicit # None THEN explicit
              ELSE IF Said(dir)["source_root"] # None THEN Based(dir, Said(dir)["source_root"]).path ELSE dir]
Located(p) == LocatedAt(ConfigDir(p), Explicit(p))

----------------------------------------------------------------------------
(* The settings *)

Tiers(p, said, key) == <<p.flags[key], p.env[key], said[key], Default[key]>>
Tier(tiers) == Min({4} \cup {i \in 1..3 : tiers[i] # None})

\* What the YAML says is relative to the YAML, anything else to the tree.
Placed(tiers, found) == Based(IF Tier(tiers) = 3 THEN found.dir ELSE found.root, tiers[Tier(tiers)])

\* An unknown value is as good as none.
Pick(tiers, key) ==
    LET value == tiers[Tier(tiers)]
    IN  IF key \in DOMAIN Closed /\ value \notin Closed[key] THEN Default[key] ELSE value

Setting(key, tiers, found) ==
    CASE key = "source_root" -> [rel |-> FALSE, up |-> 0, path |-> found.root]
      [] key \in {"index_dir", "embedding_model"} -> Placed(tiers, found)
      [] OTHER -> Pick(tiers, key)
SettingsAt(p, found) == [key \in Keys |-> Setting(key, Tiers(p, found.said, key), found)]
Settings(p) == SettingsAt(p, Located(p))

\* What a process that applied its settings hands over to the daemon it detaches; a
\* device that is not set is left as it was, and other settings have no variable.
Published(p, mine) ==
    [key \in Keys |->
        CASE key \in Paths \cup {"retrieval", "language"} -> mine[key]
          [] key = "embedding_device" -> IF mine[key] # None THEN mine[key] ELSE p.env[key]
          [] OTHER -> None]
Detached(p, mine) ==
    [cwd |-> p.cwd, env |-> Published(p, mine),
     flags |-> [key \in Keys |-> IF key \in {"index_dir", "debounce_ms"} THEN p.flags[key] ELSE None]]

\* The MCP server takes its root from the environment only, as if by the flag.
Server(p) == [cwd |-> p.cwd, env |-> p.env, flags |-> [Unset EXCEPT !["source_root"] = p.env["source_root"]]]

----------------------------------------------------------------------------
(* Building and erasing *)

IndexOf(p) == Settings(p)["index_dir"].path
Store(p)   == IF IndexOf(p) \in DOMAIN stores THEN stores[IndexOf(p)]
              ELSE [built |-> FALSE, steady |-> FALSE, by |-> Unset, config |-> None, yaml |-> yaml, pointer |-> None]
Write(p, store) ==
    stores' = [i \in DOMAIN stores \cup {IndexOf(p)} |-> IF i = IndexOf(p) THEN store ELSE stores[i]]

\* Mutant: a pointer that is there is kept.
RecordOnce(p, ok) ==
    IF ok /\ HasYaml(ConfigDir(p)) /\ Store(p).pointer = None THEN ConfigDir(p) ELSE Store(p).pointer

\* A build that succeeded remembers its YAML, if it had one.
Recorded(p, ok) == IF ok /\ HasYaml(ConfigDir(p)) THEN ConfigDir(p) ELSE Store(p).pointer

\* `steady`: everything in the index is by the same settings, which came from the
\* YAML and the defaults only, and the YAMLs were the same.
Build(p, full, ok) ==
    /\ builds < MaxBuilds
    /\ builds' = builds + 1
    /\ LET plain == p.flags = Unset /\ p.env = Unset
           now   == Settings(p)
           old   == Store(p)
           kept  == IF full THEN ok ELSE old.steady /\ old.by = now /\ old.yaml = yaml
       IN  Write(p, [built |-> TRUE, steady |-> plain /\ kept, by |-> now, config |-> ConfigDir(p),
                     yaml |-> yaml, pointer |-> Recorded(p, ok)])
    /\ UNCHANGED <<yaml, edits>>

\* init refuses an index that is there; reprocess builds all of it again.
InitIndex(p, ok) == ~Store(p).built /\ Build(p, TRUE, ok)
ReprocessIndex(p, ok) == Store(p).built /\ Build(p, TRUE, ok)
IncrementIndex(p, ok) == Store(p).built /\ Build(p, FALSE, ok)

\* The vocabulary of the graph is on nobody's list and stays behind, if it could be built.
EraseIndex(p, left) ==
    /\ builds < MaxBuilds /\ Store(p).built
    /\ builds' = builds + 1
    /\ IF left THEN Write(p, [built |-> FALSE, steady |-> FALSE, by |-> Store(p).by, config |-> Store(p).config,
                              yaml |-> Store(p).yaml, pointer |-> None])
       ELSE stores' = [i \in DOMAIN stores \ {IndexOf(p)} |-> stores[i]]
    /\ UNCHANGED <<yaml, edits>>

EditYaml(ys) ==
    /\ edits < MaxEdits /\ ys # yaml
    /\ yaml' = ys /\ edits' = edits + 1
    /\ UNCHANGED <<stores, builds>>

----------------------------------------------------------------------------
Start(ys) == yaml = ys /\ stores = <<>> /\ builds = 0 /\ edits = 0
Init == \E ys \in YamlSets : Start(ys)

Next ==
    \/ \E p \in Builders, ok \in BOOLEAN : InitIndex(p, ok) \/ ReprocessIndex(p, ok) \/ IncrementIndex(p, ok)
    \/ \E p \in Builders, left \in BOOLEAN : EraseIndex(p, left)
    \/ \E ys \in YamlSets : EditYaml(ys)

Spec == Init /\ [][Next]_vars

----------------------------------------------------------------------------
(* Properties *)

\* Whoever runs in the tree of an index that lies in it, below no anchor of its own (and
\* not below a home directory that lies in that tree, which discovery does not leave),
\* works with that index and with the settings everything in it is by, wherever the
\* YAML was found when it was built: the tree may have one only if it is that one
\* ("an agent working from microservice-a/ cannot reach the config by walking up. To
\* bridge this, init / reprocess / increment ... write a one-line pointer").
IndexIsFound ==
    \A i \in DOMAIN stores :
        LET store == stores[i]  root == store.by["source_root"].path
        IN  store.steady /\ store.yaml = yaml /\ i = Append(root, IndexName)
            /\ (HasYaml(root) => store.config = root) /\ (root = Home => HasYaml(Home))
            => \A cwd \in {d \in Dirs : IsPrefix(root, d) /\ (IsPrefix(Home, d) => IsPrefix(Home, root))} :
                (\A d \in PrefixesOf(cwd) : IsStrictPrefix(root, d) => ~HasYaml(d) /\ ~HasIndex(d))
                => Settings([cwd |-> cwd, flags |-> Unset, env |-> Unset]) = store.by

HandsOver(p, mine, daemon, its) ==
    /\ \A key \in Paths \cup {"retrieval", "language"} : its[key] = mine[key]
    /\ mine["embedding_device"] # None => its["embedding_device"] = mine["embedding_device"]
    /\ ConfigDir(daemon) = ConfigDir(p) => its = mine
    /\ p.flags = Unset => Settings(Server(p)) = mine
Detaches(p, mine) == HandsOver(p, mine, Detached(p, mine), Settings(Detached(p, mine)))

\* A daemon that is detached, which resolves for itself in the environment it is given,
\* works with the tree, index, model, mode and language of the command that detached it
\* and with its device if it set one, and with its other settings unless it finds another
\* YAML; and the MCP server with what the commands work with (apply_to_os_environ,
\* _cmd_watch_detach, _source_root_for_operator_config).
SettingsAreHandedOver == \A p \in Watchers : Detaches(p, Settings(p))

ConfigIsShared == IndexIsFound /\ SettingsAreHandedOver
=============================================================================
