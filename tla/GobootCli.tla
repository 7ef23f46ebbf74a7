----------------------------- MODULE GobootCli ------------------------------
(***************************************************************************)
(* The commands of cli/ that change files: generate, with the bootstrap of *)
(* a CLI that links the configured plugins, and clean.  Processes run them *)
(* at the same time, fail or die between any two calls, while the          *)
(* developer edits the sources and goboot.yaml.  The go tool is external.  *)
(***************************************************************************)
EXTENDS Integers, FiniteSets

CONSTANTS
  Procs,
  Plugins,      \* each emits one file, named after it
  Prefixed,     \* the plugins whose file has the generated-file prefix,
  Marked,       \*   those whose file holds the generated marker,
  GoSource,     \*   those whose file is Go: a JSON document is not
  Configs,      \* the plugin lists of goboot.yaml: [subset of Plugins -> Versions]
  Versions,     \* of plugin modules
  Root,         \* whether the composition root under the patterns imports the output
  MaxEdits,     \* bound: edits of the sources and of goboot.yaml
  MaxCommands,  \* bound: commands started
  None

Wiring == "wiring"   \* generatedFileName
Helper == "helper"   \* some other Go file of the output directory
Names == {Wiring, Helper} \cup Plugins

GoFiles == {Wiring, Helper} \cup GoSource
Removable == {Wiring} \cup (Prefixed \cap Marked)

\* A file of the output directory; what a binary of the CLI links.
Files == [kind : {"hand"}, version : {0}] \cup [kind : {"gen"}, version : Nat]
Links == UNION {[qs -> Versions \cup {None}] : qs \in SUBSET Plugins}

\* Each plugin's file has a name of its own, goboot.yaml lists plugins that
\* exist at versions that exist, and None is none of the values it stands
\* beside.
ASSUME CliAssumption ==
  /\ Wiring \notin Plugins /\ Helper \notin Plugins
  /\ Prefixed \subseteq Plugins /\ Marked \subseteq Plugins /\ GoSource \subseteq Plugins
  /\ \A c \in Configs : DOMAIN c \subseteq Plugins /\ \A q \in DOMAIN c : c[q] \in Versions
  /\ None \notin Files

VARIABLES
  sources,   \* [version, ok]: ok when they analyse without an error
  conf,      \* goboot.yaml's plugins
  gomod,     \* go.mod: the version it requires of each plugin module, or None
  tool,      \* .goboot/tool/main.go: the plugins it imports, or None
  cache,     \* .goboot/bin: what the binary of a key links, or None
  out,       \* the output directory: None, Hand or Gen(version)
  proc,      \* the processes
  commands, edits, \* how many so far, for the bounds
  overlapped \* history: two builds of the tool have overlapped

project == <<sources, conf>>
bootstrap == <<gomod, tool, cache, overlapped>>
vars == <<project, bootstrap, out, proc, commands, edits>>

Hand == [kind |-> "hand", version |-> 0]
Gen(v) == [kind |-> "gen", version |-> v]

Idle == [pc |-> "idle", cmd |-> "none", conf |-> None, linked |-> {}, clean |-> FALSE,
         todo |-> {}, version |-> 0, exit |-> "none", disturbed |-> FALSE]

Running(p) == proc[p].pc # "idle"

Init ==
  /\ sources = [version |-> 1, ok |-> TRUE] /\ conf \in Configs
  /\ gomod = [q \in Plugins |-> None] /\ tool = None
  /\ cache = [k \in Configs |-> None] /\ overlapped = FALSE
  /\ out \in {[n \in Names |-> IF n \in hand THEN Hand ELSE None] : hand \in {{}, {Wiring}, {Helper}}}
  /\ proc = [p \in Procs |-> Idle] /\ commands = 0 /\ edits = 0

\* p's next state is r; whoever else is running has been disturbed.
Step(p, r) ==
  /\ proc' = [x \in Procs |-> IF x = p THEN r
                             ELSE [proc[x] EXCEPT !.disturbed = @ \/ Running(x)]]
  /\ UNCHANGED <<commands, edits>>

Goto(p, l) == Step(p, [proc[p] EXCEPT !.pc = l])

\* What the properties compare with stays of a process that has ended; a
\* failure leaves nothing.
Exit(p, e) ==
  Step(p, IF e = "failed" THEN Idle
          ELSE [Idle EXCEPT !.exit = e, !.clean = proc[p].clean, !.disturbed = proc[p].disturbed])

-----------------------------------------------------------------------------
(* Plausible bugs (the manifest's mutants).                                *)

\* The marker is not looked for.
AnyPresent(n) == out[n] # None

\* Every plugin list has the same key.
KeyIgnoresPlugins(c) == CHOOSE k \in Configs : k # <<>>

\* -clean removes the wiring only.
ListWiring == {Wiring}

\* A file that is there already is not written again.
WriteIfAbsent(p) ==
  /\ proc[p].pc = "write"
  /\ \E n \in proc[p].todo :
       LET rest == proc[p].todo \ {n}
       IN /\ out' = IF out[n] = None THEN [out EXCEPT ![n] = Gen(proc[p].version)] ELSE out
          /\ IF rest = {} THEN Exit(p, "ok") ELSE Step(p, [proc[p] EXCEPT !.todo = rest])
  /\ UNCHANGED <<project, bootstrap>>

-----------------------------------------------------------------------------
(* maybeBootstrap and ensurePluginBinary                                   *)

Key(c) == c

\* The stock binary reads goboot.yaml; without plugins it does the work itself.
Generate(p, clean) ==
  /\ ~Running(p) /\ commands < MaxCommands
  /\ proc' = [x \in Procs |->
       IF x = p
       THEN [Idle EXCEPT !.cmd = "generate", !.clean = clean, !.conf = conf,
                         !.pc = IF conf = <<>> THEN "clean" ELSE "stat"]
       ELSE [proc[x] EXCEPT !.disturbed = @ \/ Running(x)]]
  /\ commands' = commands + 1
  /\ UNCHANGED <<project, bootstrap, out, edits>>

Stat(p) ==
  /\ proc[p].pc = "stat"
  /\ Goto(p, IF cache[Key(proc[p].conf)] # None THEN "exec" ELSE "tool")
  /\ UNCHANGED <<project, bootstrap, out>>

Building(p) == proc[p].pc \in {"build", "get", "rebuild"}

\* Import paths only: the versions are go.mod's.
toolMain(c) == DOMAIN c

WriteTool(p) ==
  /\ proc[p].pc = "tool"
  /\ tool' = toolMain(proc[p].conf)
  /\ overlapped' = (overlapped \/ \E x \in Procs : Building(x))
  /\ Goto(p, "build")
  /\ UNCHANGED <<project, gomod, cache, out>>

\* go build -mod=mod: a module go.mod lacks is added, at whatever version is
\* the latest, when it can be fetched.
Builds(p) ==
  /\ \E latest \in [tool -> Versions] :
       gomod' = [q \in Plugins |-> IF q \in tool /\ gomod[q] = None THEN latest[q] ELSE gomod[q]]
  /\ cache' = [cache EXCEPT ![Key(proc[p].conf)] = [q \in tool |-> gomod'[q]]]
  /\ Goto(p, "exec")
  /\ UNCHANGED <<project, tool, overlapped, out>>

Build(p) ==
  /\ proc[p].pc = "build"
  /\ \/ Builds(p)
     \/ Goto(p, "get") /\ UNCHANGED <<project, bootstrap, out>>

\* goGetPlugins: each may fail.
GoGet(p) ==
  /\ proc[p].pc = "get"
  /\ \E got \in SUBSET DOMAIN proc[p].conf :
       gomod' = [q \in Plugins |-> IF q \in got THEN proc[p].conf[q] ELSE gomod[q]]
  /\ Goto(p, "rebuild")
  /\ UNCHANGED <<project, tool, cache, overlapped, out>>

Rebuild(p) == proc[p].pc = "rebuild" /\ Builds(p)

\* The child runs the same command with the plugins it links.
Exec(p) ==
  /\ proc[p].pc = "exec"
  /\ Step(p, [proc[p] EXCEPT !.pc = "clean", !.conf = None,
                          !.linked = DOMAIN cache[Key(proc[p].conf)]])
  /\ UNCHANGED <<project, bootstrap, out>>

-----------------------------------------------------------------------------
(* cmdClean, cleanDir and removeGeneratedFile                              *)

\* Prefix and marker: generated artifacts without one of them stay.
isGeneratedFile(n) == n \in Removable /\ out[n] # None /\ out[n].kind = "gen"

Listed == {n \in Names : out[n] # None}

\* Without -clean only the wiring goes, and a failure to remove it is ignored.
CleanFirst(p) ==
  /\ proc[p].pc = "clean"
  /\ IF proc[p].clean
     THEN Step(p, [proc[p] EXCEPT !.pc = "cleaning", !.todo = Listed]) /\ UNCHANGED out
     ELSE /\ Goto(p, "load")
          /\ \/ isGeneratedFile(Wiring) /\ out' = [out EXCEPT ![Wiring] = None]
             \/ UNCHANGED out
  /\ UNCHANGED <<project, bootstrap>>

Clean(p) ==
  /\ ~Running(p) /\ commands < MaxCommands
  /\ proc' = [x \in Procs |->
       IF x = p THEN [Idle EXCEPT !.cmd = "clean", !.pc = "cleaning", !.todo = Listed]
       ELSE [proc[x] EXCEPT !.disturbed = @ \/ Running(x)]]
  /\ commands' = commands + 1
  /\ UNCHANGED <<project, bootstrap, out, edits>>

RemoveListed(p) ==
  /\ proc[p].pc = "cleaning"
  /\ \E n \in proc[p].todo :
       /\ Step(p, [proc[p] EXCEPT !.todo = @ \ {n}])
       /\ out' = IF isGeneratedFile(n) THEN [out EXCEPT ![n] = None] ELSE out
  /\ UNCHANGED <<project, bootstrap>>

Cleaned(p) ==
  /\ proc[p].pc = "cleaning" /\ proc[p].todo = {}
  /\ IF proc[p].cmd = "clean" THEN Exit(p, "ok") ELSE Goto(p, "load")
  /\ UNCHANGED <<project, bootstrap, out>>

-----------------------------------------------------------------------------
(* analyzeCommon, the generators and writeFileAtomic                       *)

\* The output package's own errors are ignored, and so is a failed import of
\* it.  But when other Go files make it importable without the wiring, the
\* root refers to names it does not declare, which is an ordinary error.
RootBroken == Root /\ out[Wiring] = None /\ \E n \in GoFiles : out[n] # None

\* Old wiring, left by a failed removal or another process, may be broken too.
StaleWiring == Root /\ isGeneratedFile(Wiring) /\ out[Wiring].version # sources.version

Load(p) ==
  /\ proc[p].pc = "load"
  /\ \/ sources.ok /\ ~RootBroken
        /\ Step(p, [proc[p] EXCEPT !.pc = "generate", !.version = sources.version])
     \/ ~sources.ok /\ Exit(p, "failed")
     \/ (RootBroken \/ StaleWiring) /\ Exit(p, "blocked")
  /\ UNCHANGED <<project, bootstrap, out>>

\* Registry.Generate: what the linked plugins emit; one that fails or panics is
\* an error, and then nothing is written.
PluginFiles(p) == proc[p].linked

EmitFiles(p) ==
  /\ proc[p].pc = "generate"
  /\ Step(p, [proc[p] EXCEPT !.pc = "write", !.todo = {Wiring} \cup PluginFiles(p)])
  /\ UNCHANGED <<project, bootstrap, out>>

\* The wiring is written first.
NextFile(p) == IF Wiring \in proc[p].todo THEN {Wiring} ELSE proc[p].todo

\* writeFileAtomic: the temporary file is complete when it is renamed, and
\* nothing else reads it.
WriteFile(p) ==
  /\ proc[p].pc = "write"
  /\ \E n \in NextFile(p) :
       LET rest == proc[p].todo \ {n}
       IN /\ out' = [out EXCEPT ![n] = Gen(proc[p].version)]
          /\ IF rest = {} THEN Exit(p, "ok")
             ELSE Step(p, [proc[p] EXCEPT !.todo = rest, !.pc = "write"])
  /\ UNCHANGED <<project, bootstrap>>

-----------------------------------------------------------------------------
(* Failures and edits                                                      *)

\* Any call into the system or the go tool may fail (exit status 1; the
\* deferred Remove takes the temporary file away), and the process may be killed.
Fails(p) ==
  /\ proc[p].pc \in {"tool", "rebuild", "exec", "cleaning", "load", "generate", "write"}
  /\ Exit(p, "failed")
  /\ UNCHANGED <<project, bootstrap, out>>

Crash(p) ==
  /\ Running(p)
  /\ Exit(p, "failed")
  /\ UNCHANGED <<project, bootstrap, out>>

Edit ==
  /\ edits < MaxEdits /\ edits' = edits + 1
  /\ proc' = [x \in Procs |-> [proc[x] EXCEPT !.disturbed = @ \/ Running(x)]]

EditSources ==
  /\ \E ok \in BOOLEAN : sources' = [version |-> sources.version + 1, ok |-> ok]
  /\ Edit
  /\ UNCHANGED <<conf, bootstrap, out, commands>>

EditConfig ==
  /\ conf' \in Configs \ {conf}
  /\ Edit
  /\ UNCHANGED <<sources, bootstrap, out, commands>>

Next ==
  \/ \E p \in Procs :
       \/ \E clean \in BOOLEAN : Generate(p, clean)
       \/ Stat(p) \/ WriteTool(p) \/ Build(p) \/ GoGet(p) \/ Rebuild(p) \/ Exec(p)
       \/ CleanFirst(p) \/ Clean(p) \/ RemoveListed(p) \/ Cleaned(p)
       \/ Load(p) \/ EmitFiles(p) \/ WriteFile(p)
       \/ Fails(p) \/ Crash(p)
  \/ EditSources \/ EditConfig

Spec == Init /\ [][Next]_vars

-----------------------------------------------------------------------------
(* Properties                                                              *)

\* No command removes a file that goboot did not generate, and only output of
\* the same name ever replaces one.
HandWrittenKept ==
  [][\A n \in Names : out[n] = Hand => (out'[n] = Hand \/ (n = Wiring /\ out'[n] # None))]_vars

\* Whatever earlier commands, failures and crashes have left behind: an
\* undisturbed generate that reports success leaves wiring and plugin files of
\* the sources as they are, the files that clean does not remove included, and
\* with -clean no other file that carries prefix and marker; a clean that
\* reports success leaves none of these.
SuccessIsCurrent ==
  [][\A p \in Procs :
       Running(p) /\ proc'[p].exit = "ok" /\ ~proc'[p].disturbed =>
         LET written == IF proc[p].cmd = "clean" THEN {} ELSE {Wiring} \cup proc[p].linked
         IN /\ \A n \in written : out'[n] = Gen(sources.version)
            /\ proc[p].clean \/ proc[p].cmd = "clean" =>
                 \A n \in Removable \ written : out'[n] \in {None, Hand}]_vars

\* With -clean, what was generated before never blocks its own regeneration:
\* only a Go file that is not clean's to remove does, a hand-written one or a
\* plugin's without prefix or marker.
SelfHeals ==
  \A p \in Procs :
    proc[p].exit = "blocked" /\ ~proc[p].disturbed =>
      ~proc[p].clean \/ \E n \in GoFiles \ Removable : out[n] # None

\* A cached CLI links the plugins its key stands for, unless two processes have
\* built theirs at the same time (they share tool/main.go).
CacheTruthful ==
  \A k \in Configs : cache[k] # None /\ ~overlapped => DOMAIN cache[k] = DOMAIN k

\* The version goboot.yaml pins is the version that is linked.
PinnedVersionLinked ==
  \A k \in Configs : cache[k] # None => \A q \in DOMAIN cache[k] : cache[k][q] = k[q]

=============================================================================
