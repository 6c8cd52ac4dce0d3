------------------------------ MODULE Installer ------------------------------
(***************************************************************************)
(* `jrag install` and `jrag update`: what they put into the directories of the  *)
(* agent hosts, the marker that remembers it, the project's configuration file   *)
(* and the index.  Either surface ships a skill and an agent file; the MCP one    *)
(* also an entry in the host's configuration.  Any step may fail on its own, and *)
(* the command may be killed between two.  The vector stack is installed.      *)
(*                                                                         *)
(* A place is a host at a scope (the project's or the user's directory).         *)
(***************************************************************************)
EXTENDS Naturals, SequencesExt, FiniteSetsExt

CONSTANTS
    None, Broken,
    Places,
    FileKinds,      \* the sequence of files a surface ships: a skill and an agent, handled alike
    Selections,     \* the sequences of places one install may be asked for, all of one scope
    MaxCommands, MaxEvents      \* bounds

VARIABLES
    config,     \* per place the host's configuration: "absent", "broken", "plain", or our entry "stale" or "current"
    files,      \* per place, surface and kind the file: "absent", "current" or "other"
    marker,     \* None, Broken, or the surface of each place installed
    yaml,       \* the project's retrieval mode: None, "broken", "vectors" or "bm25"
    index,      \* "absent", "graph" (no vectors) or "whole"
    cmd,        \* None, or the command that runs
    todo,       \* its artifacts still to handle
    stage,      \* what it is at: "artifacts", "marker", "index" or "ended"
    failed, critical,   \* whether an artifact, an MCP entry of install, failed
    unmarked,   \* whether the marker could not be written
    code,       \* None, or the exit code of the command that ended last
    before,     \* the disk when a dry run started
    commands, events

disk == <<config, files, marker, yaml, index>>
run  == <<cmd, todo, stage, failed, critical, unmarked, code, before>>
vars == <<disk, run, commands, events>>

Surfaces == {"mcp", "cli"}
ShippedKinds == ToSet(FileKinds)
Opposite(s) == CHOOSE t \in Surfaces : t # s

\* ARTIFACT_MANIFEST
Manifest(s) == (IF s = "mcp" THEN <<"mcp">> ELSE <<>>) \o FileKinds
Ops(do, at, s) == [i \in DOMAIN Manifest(s) |-> [do |-> do, at |-> at, surface |-> s, kind |-> Manifest(s)[i]]]

Init ==
    /\ config \in [Places -> {"absent", "plain"}]
    /\ files = [a \in Places \X Surfaces \X ShippedKinds |-> "absent"]
    /\ marker = None /\ yaml = None /\ index = "absent"
    /\ cmd = None /\ todo = <<>> /\ stage = "artifacts"
    /\ failed = FALSE /\ critical = FALSE /\ unmarked = FALSE /\ code = None
    /\ before = <<>> /\ commands = 0 /\ events = 0

Begin(exit) ==
    /\ cmd = None /\ commands < MaxCommands
    /\ code' = exit
    /\ stage' = IF exit = None THEN "artifacts" ELSE "ended"
    /\ failed' = FALSE /\ critical' = FALSE /\ unmarked' = FALSE
    /\ before' = (IF cmd'.dry THEN disk ELSE <<>>) /\ commands' = commands + 1
    /\ UNCHANGED <<disk, events>>

End(exit) == stage' = "ended" /\ code' = exit

Running == cmd # None /\ stage # "ended"

----------------------------------------------------------------------------
(* install *)

\* The command line asks for known hosts; that the binary is not found ends it here, with nothing done.
StartInstall ==
    \E places \in Selections, s \in Surfaces, interactive \in BOOLEAN, mode \in {"vectors", "bm25"} :
        /\ cmd' = [verb |-> "install", surface |-> s, interactive |-> interactive, mode |-> mode, dry |-> FALSE,
                   hosts |-> places, moved |-> {}]
        /\ todo' = FlattenSeq([i \in DOMAIN places |-> Ops("deploy", places[i], s)])
        /\ Begin(None)

----------------------------------------------------------------------------
(* update *)

\* detect_configured_hosts: the marker, or without a readable one the MCP entries that are there.
Detected ==
    IF marker \notin {None, Broken} THEN marker
    ELSE [p \in {q \in Places : config[q] \in {"stale", "current"}} |-> "mcp"]

\* Mutant: a host whose surface is switched keeps the artifacts of the old one.
DeployOnly(p, old, new) == Ops("deploy", p, new)

Migrate(p, old, new) == Ops("remove", p, old) \o Ops("deploy", p, new)

\* A surface is given, or chosen at the prompt; None keeps each host on its own.  No host is found, or no
\* binary of the surface that is switched to: the command ends here.
StartUpdate ==
    \E s \in Surfaces \cup {None}, dry, found \in BOOLEAN :
        LET hosts == SetToSeq(DOMAIN Detected)
            moved == {p \in DOMAIN Detected : s # None /\ Detected[p] # s}
            opsOf(p) == IF p \notin moved THEN Ops("refresh", p, Detected[p])
                        ELSE IF dry THEN <<>> ELSE Migrate(p, Detected[p], s)
            refused == hosts = <<>> \/ (moved # {} /\ ~dry /\ ~found)
        IN  /\ found \/ refused
            /\ cmd' = [verb |-> "update", surface |-> s, interactive |-> FALSE, dry |-> dry, hosts |-> hosts,
                       detected |-> Detected, moved |-> moved]
            /\ todo' = IF refused THEN <<>> ELSE FlattenSeq([i \in DOMAIN hosts |-> opsOf(hosts[i])])
            /\ Begin(IF hosts = <<>> THEN 2 ELSE IF refused THEN 1 ELSE None)

----------------------------------------------------------------------------
(* One artifact *)

Op == Head(todo)
FileOf(op) == <<op.at, op.surface, op.kind>>

Done(failure, newConfig, newFile) ==
    /\ todo' = Tail(todo)
    /\ failed' = (failed \/ failure)
    /\ critical' = (critical \/ (failure /\ cmd.verb = "install" /\ Op.kind = "mcp"))
    /\ config' = IF Op.kind = "mcp" /\ ~failure THEN [config EXCEPT ![Op.at] = newConfig] ELSE config
    /\ files' = IF Op.kind # "mcp" /\ ~failure THEN [files EXCEPT ![FileOf(Op)] = newFile] ELSE files
    /\ UNCHANGED <<marker, yaml, index, cmd, stage, unmarked, code, before, commands, events>>

\* A directory that cannot be written, a file that cannot be read or removed.
ArtifactFails == Running /\ todo # <<>> /\ Done(TRUE, None, None)

\* merge_mcp_config, _refresh_mcp_config, _remove_mcp_entry: a configuration that cannot be parsed is not touched.
HandleEntry ==
    /\ Running /\ todo # <<>> /\ Op.kind = "mcp"
    /\ IF config[Op.at] = "broken" THEN Done(TRUE, None, None)
       ELSE IF cmd.dry THEN Done(FALSE, config[Op.at], None)
       ELSE IF Op.do = "remove" THEN Done(FALSE, IF config[Op.at] = "absent" THEN "absent" ELSE "plain", None)
       ELSE Done(FALSE, "current", None)

\* _deploy_file leaves a file that differs, unless the user says to overwrite it; _refresh_file does not.
HandleFile ==
    /\ Running /\ todo # <<>> /\ Op.kind # "mcp"
    /\ LET file == files[FileOf(Op)] IN
        IF cmd.dry THEN Done(FALSE, None, file)
        ELSE IF Op.do = "remove" THEN Done(FALSE, None, "absent")
        ELSE IF Op.do = "deploy" /\ file = "other" /\ ~cmd.interactive THEN Done(TRUE, None, None)
        ELSE Done(FALSE, None, "current")

\* At the prompt for a file that differs the user aborts: install ends with nothing more done.
Abort ==
    /\ Running /\ todo # <<>> /\ Op.kind # "mcp" /\ Op.do = "deploy" /\ cmd.interactive /\ files[FileOf(Op)] = "other"
    /\ End(2)
    /\ UNCHANGED <<disk, cmd, todo, failed, critical, unmarked, before, commands, events>>

----------------------------------------------------------------------------
(* The marker, the configuration and the index *)

SurfaceAfter(p) == IF cmd.verb = "install" \/ p \in cmd.moved THEN cmd.surface ELSE cmd.detected[p]

\* install stops on an MCP entry that failed; else it writes the marker, update only after a switch.
\* A marker that cannot be written is a warning.
WriteMarker ==
    /\ Running /\ todo = <<>> /\ stage = "artifacts"
    /\ IF critical THEN End(1) /\ UNCHANGED <<marker, unmarked>>
       ELSE /\ stage' = "marker" /\ UNCHANGED code
            /\ IF cmd.verb = "install" \/ (cmd.moved # {} /\ ~cmd.dry)
               THEN \/ marker' = [p \in ToSet(cmd.hosts) |-> SurfaceAfter(p)] /\ UNCHANGED unmarked
                    \/ unmarked' = TRUE /\ UNCHANGED marker
               ELSE UNCHANGED <<marker, unmarked>>
    /\ UNCHANGED <<config, files, yaml, index, cmd, todo, failed, critical, before, commands, events>>

\* generate_yaml_config; what cannot be parsed is replaced.
WriteYaml ==
    /\ Running /\ stage = "marker"
    /\ yaml' = IF cmd.verb = "install" THEN cmd.mode ELSE yaml
    /\ stage' = "index"
    /\ UNCHANGED <<config, files, marker, index, cmd, todo, failed, critical, unmarked, code, before, commands, events>>

\* run_init_if_needed builds only an index that is not there.
InstallIndex ==
    /\ Running /\ stage = "index" /\ cmd.verb = "install"
    /\ IF index # "absent" THEN End(0) /\ UNCHANGED index
       ELSE \/ index' = (IF yaml = "bm25" THEN "graph" ELSE "whole") /\ End(0)
            \/ index' \in {"absent", "graph"} /\ End(1)
    /\ UNCHANGED <<config, files, marker, yaml, cmd, todo, failed, critical, unmarked, before, commands, events>>

\* The catch-up of an index that is there; that of the graph may fail, that of the vectors may not.
UpdateIndex ==
    /\ Running /\ stage = "index" /\ cmd.verb = "update"
    /\ LET exit == IF failed THEN 1 ELSE 0
       IN  \/ /\ yaml \in {None, "broken"} \/ index = "absent" \/ cmd.dry
              /\ End(exit) /\ UNCHANGED index
           \/ /\ yaml \notin {None, "broken"} /\ index # "absent" /\ ~cmd.dry
              /\ \/ index' = (IF yaml = "vectors" THEN "whole" ELSE index) /\ End(exit)
                 \/ yaml = "vectors" /\ End(1) /\ UNCHANGED index
    /\ UNCHANGED <<config, files, marker, yaml, cmd, todo, failed, critical, unmarked, before, commands, events>>

Clear ==
    /\ cmd' = None /\ todo' = <<>> /\ stage' = "artifacts" /\ code' = None /\ before' = <<>>
    /\ failed' = FALSE /\ critical' = FALSE /\ unmarked' = FALSE
    /\ UNCHANGED <<disk, commands, events>>

Killed == Running /\ Clear
Leave  == cmd # None /\ stage = "ended" /\ Clear

Event ==
    /\ cmd = None /\ events < MaxEvents /\ events' = events + 1
    /\ UNCHANGED <<run, commands>>

\* A new release: other files, another path of the binary.
Upgrade ==
    /\ Event
    /\ files' = [a \in DOMAIN files |-> IF files[a] = "current" THEN "other" ELSE files[a]]
    /\ config' = [p \in Places |-> IF config[p] = "current" THEN "stale" ELSE config[p]]
    /\ UNCHANGED <<marker, yaml, index>>

\* The user's own edits, of a host's configuration, the marker and a file that was shipped.
Edit ==
    /\ Event
    /\ \/ \E p \in Places : config' = [config EXCEPT ![p] = "broken"] /\ UNCHANGED <<files, marker>>
       \/ marker # None /\ marker' \in {None, Broken} /\ UNCHANGED <<config, files>>
       \/ \E a \in DOMAIN files :
            files[a] # "absent" /\ files' = [files EXCEPT ![a] = "absent"] /\ UNCHANGED <<config, marker>>
    /\ UNCHANGED <<yaml, index>>

Next ==
    \/ StartInstall \/ StartUpdate \/ ArtifactFails \/ HandleEntry \/ HandleFile \/ Abort \/ WriteMarker \/ WriteYaml
    \/ InstallIndex \/ UpdateIndex \/ Killed \/ Leave \/ Upgrade \/ Edit

Spec == Init /\ [][Next]_vars

----------------------------------------------------------------------------
Shipped(p, s) == (s = "mcp" => config[p] = "current") /\ \A k \in ShippedKinds : files[<<p, s, k>>] = "current"
Gone(p, s)    == (s = "mcp" => config[p] \in {"absent", "plain"}) /\ \A k \in ShippedKinds : files[<<p, s, k>>] = "absent"

\* What `jrag update` tells by its exit code is true of what earlier installs and updates, whole, failed
\* or killed, left behind: after 0 every host it found has all of its surface as this release ships it, one
\* that was switched has nothing of the other surface, the marker, where it could be written, says so, and
\* an index of the vectors mode has vectors; a dry run has changed nothing, whatever it told.
UpdateTellsTruth ==
    cmd # None /\ stage = "ended" /\ cmd.verb = "update" =>
        /\ cmd.dry => disk = before
        /\ ~cmd.dry /\ code = 0 =>
            /\ \A p \in ToSet(cmd.hosts) : Shipped(p, SurfaceAfter(p))
            /\ \A p \in cmd.moved : Gone(p, Opposite(cmd.surface))
            /\ cmd.moved # {} /\ ~unmarked => Detected = [p \in ToSet(cmd.hosts) |-> SurfaceAfter(p)]
            /\ yaml = "vectors" => index \in {"absent", "whole"}
=============================================================================
