-------------------------- MODULE GobootCliProofs ---------------------------
(***************************************************************************)
(* What GobootCli promises for any number of processes, plugins and        *)
(* commands: hand-written files stay, a cached CLI links what its key      *)
(* stands for, a success means that the output is current, and -clean      *)
(* never leaves goboot blocked by its own output.                          *)
(***************************************************************************)
EXTENDS GobootCli, TLAPS

Places == {"idle", "stat", "tool", "build", "get", "rebuild", "exec",
           "clean", "cleaning", "load", "generate", "write"}

Processes == [pc : Places, cmd : {"none", "generate", "clean"}, conf : Configs \cup {None},
              linked : SUBSET Plugins, clean : BOOLEAN, todo : SUBSET Names, version : Nat,
              exit : {"none", "ok", "failed", "blocked"}, disturbed : BOOLEAN]

TypeOK ==
  /\ sources \in [version : Nat, ok : BOOLEAN]
  /\ conf \in Configs
  /\ gomod \in [Plugins -> Versions \cup {None}]
  /\ tool \in (SUBSET Plugins) \cup {None}
  /\ cache \in [Configs -> Links \cup {None}]
  /\ overlapped \in BOOLEAN
  /\ out \in [Names -> Files \cup {None}]
  /\ proc \in [Procs -> Processes]

Generated == {n \in Names : isGeneratedFile(n)}

\* What p is building is what its key stands for, unless a build has overlapped.
BuildInv(p) ==
  /\ proc[p].pc \in {"stat", "tool", "build", "get", "rebuild", "exec"} => proc[p].conf \in Configs
  /\ Building(p) => tool \in SUBSET Plugins /\ (overlapped \/ tool = DOMAIN proc[p].conf)
  /\ proc[p].pc = "exec" => cache[Key(proc[p].conf)] \in Links

\* The shape of a command that runs.
RunInv(p) ==
  /\ Running(p) => proc[p].exit = "none"
  /\ proc[p].cmd = "clean" => proc[p].pc = "cleaning"
  /\ proc[p].pc = "write" => proc[p].todo \subseteq {Wiring} \cup proc[p].linked

\* How far an undisturbed command has come with the output directory.
OutputInv(p) ==
  proc[p].disturbed \/
    /\ proc[p].pc = "cleaning" => Generated \subseteq proc[p].todo
    /\ proc[p].clean /\ proc[p].pc \in {"load", "generate"} => Generated = {}
    /\ proc[p].clean /\ proc[p].pc = "write" => Generated \subseteq {Wiring} \cup proc[p].linked
    /\ proc[p].pc \in {"generate", "write"} => proc[p].version = sources.version
    /\ proc[p].pc = "write" =>
         \A n \in ({Wiring} \cup proc[p].linked) \ proc[p].todo : out[n] = Gen(proc[p].version)

\* Only a Go file that no clean removes blocks an undisturbed generate -clean.
Blocker == \E n \in GoFiles \ Removable : out[n] # None

BlockInv(p) ==
  proc[p].exit = "blocked" /\ ~proc[p].disturbed /\ proc[p].clean => Blocker

HandInv == \A n \in Plugins : out[n] # Hand

IInv ==
  /\ TypeOK
  /\ HandInv
  /\ CacheTruthful
  /\ \A p \in Procs : BuildInv(p) /\ RunInv(p) /\ OutputInv(p) /\ BlockInv(p)

-----------------------------------------------------------------------------
(* Facts about the values.                                                 *)

LEMMA NameFacts ==
  /\ Wiring \in Names /\ Helper \in Names /\ Wiring # Helper /\ Plugins \subseteq Names
  /\ \A n \in Names : n = Wiring \/ n = Helper \/ n \in Plugins
  /\ GoFiles \subseteq Names /\ Removable \subseteq {Wiring} \cup Plugins
BY CliAssumption DEF Names, Wiring, Helper, GoFiles, Removable

LEMMA FileFacts ==
  /\ Hand \in Files /\ Hand.kind = "hand" /\ Hand # None
  /\ \A v \in Nat : Gen(v) \in Files /\ Gen(v).kind = "gen" /\ Gen(v) # None /\ Gen(v) # Hand
  /\ \A f \in Files : f.kind # "gen" => f = Hand
BY CliAssumption DEF Files, Hand, Gen

LEMMA IdleTyped == Idle \in Processes /\ Idle.pc = "idle"
BY DEF Idle, Processes, Places

-----------------------------------------------------------------------------
(* What one step does to the processes.                                    *)

\* What a step does to a process that does not take it.
Bystander(x) == proc'[x] = [proc[x] EXCEPT !.disturbed = proc[x].disturbed \/ Running(x)]

\* A step of p.
Act(p) ==
  \/ \E clean \in BOOLEAN : Generate(p, clean)
  \/ Stat(p) \/ WriteTool(p) \/ Build(p) \/ GoGet(p) \/ Rebuild(p) \/ Exec(p)
  \/ CleanFirst(p) \/ Clean(p) \/ RemoveListed(p) \/ Cleaned(p)
  \/ Load(p) \/ EmitFiles(p) \/ WriteFile(p)
  \/ Fails(p) \/ Crash(p)

\* p has come to r, and whoever else runs is disturbed.
Moved(p, r) ==
  proc' = [x \in Procs |-> IF x = p THEN r
                         ELSE [proc[x] EXCEPT !.disturbed = @ \/ Running(x)]]

\* A step of p leaves typed processes, p where it says and the others disturbed.
LEMMA Moves ==
  ASSUME TypeOK, NEW p \in Procs
  PROVE  \A r \in Processes :
           Moved(p, r) => /\ proc' \in [Procs -> Processes]
                          /\ proc'[p] = r
                          /\ \A x \in Procs \ {p} : Bystander(x)
<1> SUFFICES ASSUME NEW r \in Processes, Moved(p, r)
             PROVE  /\ proc' \in [Procs -> Processes]
                    /\ proc'[p] = r
                    /\ \A x \in Procs \ {p} : Bystander(x)
  OBVIOUS
<1>1. \A x \in Procs : [proc[x] EXCEPT !.disturbed = proc[x].disturbed \/ Running(x)] \in Processes
  <2> SUFFICES ASSUME NEW x \in Procs
               PROVE  [proc[x] EXCEPT !.disturbed = proc[x].disturbed \/ Running(x)] \in Processes
    OBVIOUS
  <2>1. proc[x] \in Processes
    BY DEF TypeOK
  <2> QED
    BY <2>1 DEF Processes
<1> QED
  BY <1>1 DEF Moved, Bystander

LEMMA StepMoves == \A p, r : Step(p, r) => Moved(p, r)
BY DEF Step, Moved

\* What Exit leaves of a process.
Ended(p, e) ==
  [Idle EXCEPT !.exit = e, !.clean = proc[p].clean, !.disturbed = proc[p].disturbed]

LEMMA Exits ==
  ASSUME TypeOK, NEW p \in Procs, NEW e \in {"ok", "failed", "blocked"}, Exit(p, e)
  PROVE  \E r \in Processes : /\ Moved(p, r)
                              /\ r = IF e = "failed" THEN Idle ELSE Ended(p, e)
<1>1. proc[p] \in Processes
  BY DEF TypeOK
<1>2. Ended(p, e) \in Processes
  BY <1>1 DEF Ended, Idle, Processes, Places
<1>3. Moved(p, IF e = "failed" THEN Idle ELSE Ended(p, e))
  BY StepMoves DEF Exit, Ended
<1> QED
  BY <1>2, <1>3, IdleTyped

-----------------------------------------------------------------------------
(* What one step does to the files.                                        *)

\* p's step leaves the output directory, removes a generated file or writes one.
Output(p) ==
  \/ out' = out
  \/ \E n \in Names : isGeneratedFile(n) /\ out' = [out EXCEPT ![n] = None]
  \/ \E n \in {Wiring} \cup Plugins : out' = [out EXCEPT ![n] = Gen(proc[p].version)]

LEMMA OutputKeeps ==
  ASSUME TypeOK, HandInv, NEW p \in Procs, Output(p)
  PROVE  /\ out' \in [Names -> Files \cup {None}]
         /\ HandInv'
         /\ Blocker => Blocker'
         /\ \A n \in Names : out[n] = Hand => (out'[n] = Hand \/ (n = Wiring /\ out'[n] # None))
<1> USE NameFacts, FileFacts
<1>1. out \in [Names -> Files \cup {None}] /\ proc[p].version \in Nat
  BY DEF TypeOK, Processes
<1>2. CASE out' = out
  BY <1>1, <1>2 DEF HandInv, Blocker
<1>3. ASSUME NEW n \in Names, isGeneratedFile(n), out' = [out EXCEPT ![n] = None]
      PROVE  /\ out' \in [Names -> Files \cup {None}]
             /\ HandInv'
             /\ Blocker => Blocker'
             /\ \A m \in Names : out[m] = Hand => out'[m] = Hand
  <2>1. out[n] # Hand /\ n \in Removable
    BY <1>3 DEF isGeneratedFile
  <2>2. \A m \in GoFiles \ Removable : m # n /\ m \in Names
    BY <2>1
  <2>3. Blocker => Blocker'
    BY <1>1, <1>3, <2>2 DEF Blocker
  <2> QED
    BY <1>1, <1>3, <2>1, <2>3 DEF HandInv
<1>4. ASSUME NEW n \in {Wiring} \cup Plugins, out' = [out EXCEPT ![n] = Gen(proc[p].version)]
      PROVE  /\ out' \in [Names -> Files \cup {None}]
             /\ HandInv'
             /\ Blocker => Blocker'
             /\ \A m \in Names : out[m] = Hand => (out'[m] = Hand \/ (m = Wiring /\ out'[m] # None))
  <2>1. Gen(proc[p].version) \in Files /\ Gen(proc[p].version) # None /\ Gen(proc[p].version) # Hand
    BY <1>1
  <2> HIDE DEF Gen
  <2>2. out' \in [Names -> Files \cup {None}]
    BY <1>1, <1>4, <2>1
  <2>3. HandInv'
    BY <1>1, <1>4, <2>1 DEF HandInv
  <2>4. ASSUME NEW m \in Names, out[m] = Hand
        PROVE  out'[m] = Hand \/ (m = Wiring /\ out'[m] # None)
    BY <1>1, <1>4, <2>1, <2>4 DEF HandInv
  <2>5. Blocker => Blocker'
    BY <1>1, <1>4, <2>1 DEF Blocker
  <2> QED
    BY <2>2, <2>3, <2>4, <2>5
<1> QED
  BY <1>2, <1>3, <1>4 DEF Output

\* The files a step of p may touch, action by action.
LEMMA Outputs ==
  ASSUME TypeOK, NEW p \in Procs, RunInv(p), Act(p)
  PROVE  Output(p)
<1>1. CASE CleanFirst(p)
  BY <1>1, NameFacts DEF CleanFirst, Output
<1>2. CASE RemoveListed(p)
  <2>1. proc[p].todo \subseteq Names
    BY DEF TypeOK, Processes
  <2> QED
    BY <1>2, <2>1 DEF RemoveListed, Output
<1>3. CASE WriteFile(p)
  <2>1. proc[p].todo \subseteq {Wiring} \cup Plugins
    BY <1>3 DEF WriteFile, RunInv, TypeOK, Processes
  <2>2. PICK n \in NextFile(p) : out' = [out EXCEPT ![n] = Gen(proc[p].version)]
    BY <1>3 DEF WriteFile
  <2> QED
    BY <2>1, <2>2 DEF NextFile, Output
<1>4. CASE Act(p) /\ ~(CleanFirst(p) \/ RemoveListed(p) \/ WriteFile(p))
  BY <1>4 DEF Act, Output, Generate, Stat, WriteTool, Build, Builds, GoGet, Rebuild, Exec, Clean,
             Cleaned, Load, EmitFiles, Fails, Crash, bootstrap
<1> QED
  BY <1>1, <1>2, <1>3, <1>4

-----------------------------------------------------------------------------
(* What one step does to the bootstrap of a CLI with plugins.              *)

LEMMA ConfigFacts ==
  /\ \A c \in Configs : DOMAIN c \in SUBSET Plugins
  /\ \A qs \in SUBSET Plugins : \A f \in [qs -> Versions \cup {None}] : f \in Links /\ DOMAIN f = qs
BY CliAssumption DEF Links

\* A build links what tool/main.go imports, and puts it under p's key.
LEMMA BuildsLink ==
  ASSUME TypeOK, NEW p \in Procs, BuildInv(p), Building(p), Builds(p)
  PROVE  /\ gomod' \in [Plugins -> Versions \cup {None}]
         /\ \E f \in Links : DOMAIN f = tool /\ cache' = [cache EXCEPT ![proc[p].conf] = f]
         /\ proc[p].conf \in Configs
<1>1. proc[p].conf \in Configs /\ tool \in SUBSET Plugins
  BY DEF BuildInv, Building
<1>2. PICK latest \in [tool -> Versions] :
        gomod' = [q \in Plugins |-> IF q \in tool /\ gomod[q] = None THEN latest[q] ELSE gomod[q]]
  BY DEF Builds
<1>3. gomod' \in [Plugins -> Versions \cup {None}]
  BY <1>1, <1>2 DEF TypeOK
<1>4. [q \in tool |-> gomod'[q]] \in [tool -> Versions \cup {None}]
  BY <1>1, <1>3
<1>5. cache' = [cache EXCEPT ![proc[p].conf] = [q \in tool |-> gomod'[q]]]
  BY DEF Builds, Key
<1>6. [q \in tool |-> gomod'[q]] \in Links /\ DOMAIN [q \in tool |-> gomod'[q]] = tool
  BY <1>1, <1>4, ConfigFacts
<1> QED
  BY <1>1, <1>3, <1>5, <1>6

\* What is common to the steps: nobody else's build is mixed up unless
\* overlapped says so, and what is cached stays cached.
Bootstrap(p) ==
  /\ gomod' \in [Plugins -> Versions \cup {None}]
  /\ tool' \in (SUBSET Plugins) \cup {None}
  /\ cache' \in [Configs -> Links \cup {None}]
  /\ overlapped' \in BOOLEAN
  /\ CacheTruthful'
  /\ \A k \in Configs : cache[k] \in Links => cache'[k] \in Links
  /\ \A x \in Procs : x # p /\ Building(x) =>
       \/ tool' = tool /\ overlapped' = overlapped
       \/ tool' \in SUBSET Plugins /\ overlapped'

LEMMA Bootstraps ==
  ASSUME TypeOK, CacheTruthful, NEW p \in Procs, BuildInv(p), Act(p)
  PROVE  Bootstrap(p)
<1>1. CASE UNCHANGED bootstrap
  BY <1>1 DEF bootstrap, Bootstrap, TypeOK, CacheTruthful
<1>2. CASE WriteTool(p)
  <2>1. proc[p].conf \in Configs
    BY <1>2 DEF WriteTool, BuildInv
  <2>2. tool' \in SUBSET Plugins
    BY <1>2, <2>1, ConfigFacts DEF WriteTool, toolMain
  <2>3. UNCHANGED <<gomod, cache>> /\ overlapped' = (overlapped \/ \E x \in Procs : Building(x))
    BY <1>2 DEF WriteTool
  <2>4. overlapped' \in BOOLEAN /\ (overlapped => overlapped')
        /\ \A x \in Procs : Building(x) => overlapped'
    BY <2>3
  <2> QED
    BY <2>2, <2>3, <2>4 DEF Bootstrap, TypeOK, CacheTruthful
<1>3. CASE Building(p) /\ Builds(p)
  <2>1. PICK f \in Links : DOMAIN f = tool /\ cache' = [cache EXCEPT ![proc[p].conf] = f]
    BY <1>3, BuildsLink
  <2>2. proc[p].conf \in Configs /\ gomod' \in [Plugins -> Versions \cup {None}]
    BY <1>3, BuildsLink
  <2>3. UNCHANGED <<tool, overlapped>>
    BY <1>3 DEF Builds
  <2>4. overlapped \/ DOMAIN f = DOMAIN proc[p].conf
    BY <1>3, <2>1 DEF BuildInv
  <2>5. cache' \in [Configs -> Links \cup {None}] /\ cache'[proc[p].conf] = f
        /\ \A k \in Configs : k # proc[p].conf => cache'[k] = cache[k]
    BY <2>1, <2>2 DEF TypeOK
  <2>6. CacheTruthful'
    BY <2>2, <2>3, <2>4, <2>5 DEF CacheTruthful
  <2> QED
    BY <2>2, <2>3, <2>5, <2>6 DEF Bootstrap, TypeOK
<1>4. CASE GoGet(p)
  <2>1. proc[p].conf \in Configs
    BY <1>4 DEF GoGet, BuildInv
  <2>2. PICK got \in SUBSET DOMAIN proc[p].conf :
          gomod' = [q \in Plugins |-> IF q \in got THEN proc[p].conf[q] ELSE gomod[q]]
    BY <1>4 DEF GoGet
  <2>3. gomod' \in [Plugins -> Versions \cup {None}]
    BY <2>1, <2>2, CliAssumption DEF TypeOK
  <2> QED
    BY <1>4, <2>3 DEF GoGet, Bootstrap, TypeOK, CacheTruthful
<1> QED
  <2>1. CASE Build(p) \/ Rebuild(p)
    BY <1>1, <1>3, <2>1 DEF Build, Rebuild, Building
  <2>2. CASE Act(p) /\ ~(Build(p) \/ Rebuild(p) \/ WriteTool(p) \/ GoGet(p))
    <3>1. UNCHANGED bootstrap
      BY <2>2 DEF Act, Generate, Stat, Exec, CleanFirst, Clean, RemoveListed, Cleaned, Load,
                  EmitFiles, WriteFile, Fails, Crash
    <3> QED
      BY <1>1, <3>1
  <2> QED
    BY <1>2, <1>4, <2>1, <2>2

-----------------------------------------------------------------------------
(* Whoever does not take the step keeps its invariants.                    *)

ProcInv(p) == BuildInv(p) /\ RunInv(p) /\ OutputInv(p) /\ BlockInv(p)

LEMMA BystanderKeeps ==
  ASSUME TypeOK, NEW x \in Procs, ProcInv(x), Bystander(x),
         proc' \in [Procs -> Processes],
         Blocker => Blocker',
         \A k \in Configs : cache[k] \in Links => cache'[k] \in Links,
         Building(x) => \/ tool' = tool /\ overlapped' = overlapped
                        \/ tool' \in SUBSET Plugins /\ overlapped'
  PROVE  ProcInv(x)'
<1> DEFINE a == proc[x]
           b == proc'[x]
<1>1. a \in Processes /\ b \in Processes
  BY DEF TypeOK
<1>2. /\ b.pc = a.pc /\ b.cmd = a.cmd /\ b.conf = a.conf /\ b.linked = a.linked
      /\ b.clean = a.clean /\ b.todo = a.todo /\ b.version = a.version /\ b.exit = a.exit
      /\ b.disturbed = (a.disturbed \/ Running(x))
  BY <1>1 DEF Bystander, Processes
<1>3. BuildInv(x)'
  BY <1>2 DEF ProcInv, BuildInv, Building, Key
<1>4. RunInv(x)'
  BY <1>2 DEF ProcInv, RunInv, Running
<1>5. OutputInv(x)'
  BY <1>2 DEF ProcInv, OutputInv, Running
<1>6. BlockInv(x)'
  BY <1>2 DEF ProcInv, BlockInv
<1> QED
  BY <1>3, <1>4, <1>5, <1>6 DEF ProcInv

-----------------------------------------------------------------------------
(* Whoever takes the step keeps its invariants: one lemma per phase.       *)

\* A process that has come to an end has nothing to keep but why it was blocked.
LEMMA EndKeeps ==
  ASSUME TypeOK, NEW p \in Procs, NEW e \in {"ok", "failed", "blocked"}, Exit(p, e),
         e = "blocked" /\ ~proc[p].disturbed /\ proc[p].clean => Blocker'
  PROVE  proc' \in [Procs -> Processes] /\ ProcInv(p)' /\ \A x \in Procs \ {p} : Bystander(x)
<1>1. PICK r \in Processes : Moved(p, r) /\ r = IF e = "failed" THEN Idle ELSE Ended(p, e)
  BY Exits
<1>2. proc' \in [Procs -> Processes] /\ proc'[p] = r /\ \A x \in Procs \ {p} : Bystander(x)
  BY <1>1, Moves
<1>3. r.pc = "idle" /\ r.cmd = "none"
      /\ (r.exit = "blocked" => e = "blocked" /\ r.clean = proc[p].clean /\ r.disturbed = proc[p].disturbed)
  BY <1>1 DEF Idle, Ended
<1> QED
  BY <1>2, <1>3 DEF ProcInv, BuildInv, RunInv, OutputInv, BlockInv, Running, Building

\* From the start of a command to the CLI that does the work.
LEMMA BootstrapKeeps ==
  ASSUME TypeOK, NEW p \in Procs, ProcInv(p),
         \/ \E clean \in BOOLEAN : Generate(p, clean)
         \/ Clean(p) \/ Stat(p) \/ WriteTool(p) \/ Build(p) \/ GoGet(p) \/ Rebuild(p) \/ Exec(p)
  PROVE  proc' \in [Procs -> Processes] /\ ProcInv(p)' /\ \A x \in Procs \ {p} : Bystander(x)
<1> DEFINE a == proc[p]
<1>0. a \in Processes
  BY DEF TypeOK
<1>1. ASSUME NEW clean \in BOOLEAN, Generate(p, clean)
      PROVE  proc' \in [Procs -> Processes] /\ ProcInv(p)' /\ \A x \in Procs \ {p} : Bystander(x)
  <2> DEFINE r == [Idle EXCEPT !.cmd = "generate", !.clean = clean, !.conf = conf,
                               !.pc = IF conf = <<>> THEN "clean" ELSE "stat"]
  <2>1. r \in Processes /\ r.pc \in {"clean", "stat"} /\ r.conf \in Configs /\ r.exit = "none" /\ r.cmd # "clean"
    BY DEF Idle, Processes, Places, TypeOK
  <2>2. Moved(p, r)
    BY <1>1 DEF Generate, Moved
  <2> HIDE DEF r
  <2>3. proc' \in [Procs -> Processes] /\ proc'[p] = r /\ \A x \in Procs \ {p} : Bystander(x)
    BY <2>1, <2>2, Moves
  <2> QED
    BY <2>1, <2>3 DEF ProcInv, BuildInv, RunInv, OutputInv, BlockInv, Building
<1>2. CASE Clean(p)
  <2> DEFINE r == [Idle EXCEPT !.cmd = "clean", !.pc = "cleaning", !.todo = Listed]
  <2>1. r \in Processes /\ r.pc = "cleaning" /\ r.todo = Listed /\ r.exit = "none" /\ ~r.clean
    BY DEF Idle, Processes, Places, Listed
  <2>2. Moved(p, r) /\ out' = out
    BY <1>2 DEF Clean, Moved
  <2> HIDE DEF r
  <2>3. proc' \in [Procs -> Processes] /\ proc'[p] = r /\ \A x \in Procs \ {p} : Bystander(x)
    BY <2>1, <2>2, Moves
  <2>4. Generated' \subseteq Listed
    BY <2>2 DEF Generated, isGeneratedFile, Listed
  <2> QED
    BY <2>1, <2>3, <2>4 DEF ProcInv, BuildInv, RunInv, OutputInv, BlockInv, Building
<1>3. ASSUME NEW l \in Places \ {"idle", "cleaning", "load", "generate", "write"},
             Moved(p, [a EXCEPT !.pc = l]),
             a.pc \in {"stat", "tool", "build", "get", "rebuild"},
             l \in {"build", "get", "rebuild"} =>
               tool' \in SUBSET Plugins /\ (overlapped' \/ tool' = DOMAIN a.conf),
             l = "exec" => cache'[a.conf] \in Links
      PROVE  proc' \in [Procs -> Processes] /\ ProcInv(p)' /\ \A x \in Procs \ {p} : Bystander(x)
  <2> DEFINE r == [a EXCEPT !.pc = l]
  <2>1. r \in Processes
    BY <1>0 DEF Processes
  <2>2. r.pc = l /\ r.conf = a.conf /\ r.exit = a.exit /\ r.cmd = a.cmd
    BY <1>0 DEF Processes
  <2>3. a.conf \in Configs /\ a.exit = "none" /\ a.cmd # "clean"
    BY <1>3 DEF ProcInv, BuildInv, RunInv, Running
  <2> HIDE DEF r
  <2>4. proc' \in [Procs -> Processes] /\ proc'[p] = r /\ \A x \in Procs \ {p} : Bystander(x)
    BY <1>3, <2>1, Moves DEF r
  <2> QED
    BY <1>3, <2>2, <2>3, <2>4 DEF ProcInv, BuildInv, RunInv, OutputInv, BlockInv, Building, Key
<1>4. CASE Stat(p)
  <2>1. a.pc = "stat" /\ UNCHANGED cache
        /\ Moved(p, [a EXCEPT !.pc = IF cache[a.conf] # None THEN "exec" ELSE "tool"])
    BY <1>4, StepMoves DEF Stat, Goto, Key, bootstrap
  <2>2. cache[a.conf] \in Links \cup {None}
    BY <2>1 DEF TypeOK, ProcInv, BuildInv
  <2>3. PICK l \in {"exec", "tool"} : l = IF cache[a.conf] # None THEN "exec" ELSE "tool"
    OBVIOUS
  <2> QED
    BY <1>3, <2>1, <2>2, <2>3 DEF Places
<1>5. CASE WriteTool(p)
  <2>1. a.pc = "tool" /\ tool' = DOMAIN a.conf /\ Moved(p, [a EXCEPT !.pc = "build"])
    BY <1>5, StepMoves DEF WriteTool, Goto, toolMain
  <2>2. tool' \in SUBSET Plugins
    BY <2>1, ConfigFacts DEF ProcInv, BuildInv
  <2> QED
    BY <1>3, <2>1, <2>2 DEF Places
<1>6. CASE Building(p) /\ Builds(p)
  <2>1. Moved(p, [a EXCEPT !.pc = "exec"])
    BY <1>6, StepMoves DEF Builds, Goto
  <2>2. cache'[a.conf] \in Links
    <3>1. PICK f \in Links : cache' = [cache EXCEPT ![proc[p].conf] = f]
      BY <1>6, BuildsLink DEF ProcInv
    <3>2. proc[p].conf \in Configs
      BY <1>6, BuildsLink DEF ProcInv
    <3> QED
      BY <3>1, <3>2 DEF TypeOK
  <2> QED
    BY <1>3, <1>6, <2>1, <2>2 DEF Places, Building
<1>7. CASE Building(p) /\ UNCHANGED <<tool, overlapped>> /\ \E l \in {"get", "rebuild"} : Goto(p, l)
  <2>1. PICK l \in {"get", "rebuild"} : Moved(p, [a EXCEPT !.pc = l])
    BY <1>7, StepMoves DEF Goto
  <2> QED
    BY <1>3, <1>7, <2>1 DEF Places, Building, ProcInv, BuildInv
<1>8. CASE Exec(p)
  <2> DEFINE r == [a EXCEPT !.pc = "clean", !.conf = None, !.linked = DOMAIN cache[Key(a.conf)]]
  <2>1. a.pc = "exec" /\ Moved(p, r)
    BY <1>8, StepMoves DEF Exec
  <2>2. cache[Key(a.conf)] \in Links
    BY <2>1 DEF ProcInv, BuildInv
  <2>3. DOMAIN cache[Key(a.conf)] \in SUBSET Plugins
    BY <2>2 DEF Links
  <2>4. r \in Processes /\ r.pc = "clean" /\ r.exit = a.exit /\ r.cmd = a.cmd
    BY <1>0, <2>3 DEF Processes, Places
  <2>5. a.exit = "none" /\ a.cmd # "clean"
    BY <2>1 DEF ProcInv, RunInv, Running
  <2> HIDE DEF r
  <2>6. proc' \in [Procs -> Processes] /\ proc'[p] = r /\ \A x \in Procs \ {p} : Bystander(x)
    BY <2>1, <2>4, Moves
  <2> QED
    BY <2>4, <2>5, <2>6 DEF ProcInv, BuildInv, RunInv, OutputInv, BlockInv, Building
<1> QED
  BY <1>1, <1>2, <1>4, <1>5, <1>6, <1>7, <1>8 DEF Build, Rebuild, GoGet, Building, bootstrap

\* Cleaning: what the listing held and is not yet removed is still to do.
LEMMA CleaningKeeps ==
  ASSUME TypeOK, NEW p \in Procs, ProcInv(p), CleanFirst(p) \/ RemoveListed(p) \/ Cleaned(p)
  PROVE  proc' \in [Procs -> Processes] /\ ProcInv(p)' /\ \A x \in Procs \ {p} : Bystander(x)
<1> DEFINE a == proc[p]
<1>0. a \in Processes
  BY DEF TypeOK
<1>1. CASE CleanFirst(p) /\ a.clean
  <2> DEFINE r == [a EXCEPT !.pc = "cleaning", !.todo = Listed]
  <2>1. a.pc = "clean" /\ Moved(p, r) /\ out' = out
    BY <1>1, StepMoves DEF CleanFirst
  <2>2. r \in Processes /\ r.pc = "cleaning" /\ r.todo = Listed /\ r.exit = a.exit
    BY <1>0 DEF Processes, Places, Listed
  <2>3. a.exit = "none"
    BY <2>1 DEF ProcInv, RunInv, Running
  <2> HIDE DEF r
  <2>4. proc' \in [Procs -> Processes] /\ proc'[p] = r /\ \A x \in Procs \ {p} : Bystander(x)
    BY <2>1, <2>2, Moves
  <2>5. Generated' \subseteq Listed
    BY <2>1 DEF Generated, isGeneratedFile, Listed
  <2> QED
    BY <2>2, <2>3, <2>4, <2>5 DEF ProcInv, BuildInv, RunInv, OutputInv, BlockInv, Building
<1>2. CASE CleanFirst(p) /\ ~a.clean
  <2> DEFINE r == [a EXCEPT !.pc = "load"]
  <2>1. a.pc = "clean" /\ Moved(p, r)
    BY <1>2, StepMoves DEF CleanFirst, Goto
  <2>2. r \in Processes /\ r.pc = "load" /\ ~r.clean /\ r.exit = a.exit /\ r.cmd = a.cmd
    BY <1>0, <1>2 DEF Processes, Places
  <2>3. a.exit = "none" /\ a.cmd # "clean"
    BY <2>1 DEF ProcInv, RunInv, Running
  <2> HIDE DEF r
  <2>4. proc' \in [Procs -> Processes] /\ proc'[p] = r /\ \A x \in Procs \ {p} : Bystander(x)
    BY <2>1, <2>2, Moves
  <2> QED
    BY <2>2, <2>3, <2>4 DEF ProcInv, BuildInv, RunInv, OutputInv, BlockInv, Building
<1>3. CASE RemoveListed(p)
  <2>1. PICK n \in a.todo :
          /\ Step(p, [a EXCEPT !.todo = @ \ {n}])
          /\ out' = IF isGeneratedFile(n) THEN [out EXCEPT ![n] = None] ELSE out
    BY <1>3 DEF RemoveListed
  <2> DEFINE r == [a EXCEPT !.todo = a.todo \ {n}]
  <2>2. a.pc = "cleaning" /\ Moved(p, r) /\ n \in Names
    BY <1>0, <1>3, <2>1, StepMoves DEF RemoveListed, Processes
  <2>3. r \in Processes /\ r.pc = "cleaning" /\ r.todo = a.todo \ {n} /\ r.exit = a.exit
        /\ r.disturbed = a.disturbed
    BY <1>0, <2>2 DEF Processes
  <2>4. a.exit = "none"
    BY <2>2 DEF ProcInv, RunInv, Running
  <2> HIDE DEF r
  <2>5. proc' \in [Procs -> Processes] /\ proc'[p] = r /\ \A x \in Procs \ {p} : Bystander(x)
    BY <2>2, <2>3, Moves
  <2>6. Generated' \subseteq Generated \ {n}
    BY <2>1, <2>2 DEF TypeOK, Generated, isGeneratedFile
  <2>7. OutputInv(p)'
    BY <2>2, <2>3, <2>5, <2>6 DEF ProcInv, OutputInv
  <2> QED
    BY <2>3, <2>4, <2>5, <2>7 DEF ProcInv, BuildInv, RunInv, BlockInv, Building
<1>4. CASE Cleaned(p) /\ a.cmd = "clean"
  BY <1>4, EndKeeps DEF Cleaned
<1>5. CASE Cleaned(p) /\ a.cmd # "clean"
  <2> DEFINE r == [a EXCEPT !.pc = "load"]
  <2>1. a.pc = "cleaning" /\ a.todo = {} /\ Moved(p, r) /\ out' = out
    BY <1>5, StepMoves DEF Cleaned, Goto
  <2>2. r \in Processes /\ r.pc = "load" /\ r.exit = a.exit /\ r.cmd = a.cmd
        /\ r.disturbed = a.disturbed
    BY <1>0 DEF Processes, Places
  <2>3. a.exit = "none" /\ (a.disturbed \/ Generated = {})
    BY <2>1 DEF ProcInv, RunInv, OutputInv, Running
  <2> HIDE DEF r
  <2>4. proc' \in [Procs -> Processes] /\ proc'[p] = r /\ \A x \in Procs \ {p} : Bystander(x)
    BY <2>1, <2>2, Moves
  <2>5. Generated' = Generated
    BY <2>1 DEF Generated, isGeneratedFile
  <2> QED
    BY <1>5, <2>2, <2>3, <2>4, <2>5 DEF ProcInv, BuildInv, RunInv, OutputInv, BlockInv, Building
<1> QED
  BY <1>1, <1>2, <1>3, <1>4, <1>5

\* Loading: an undisturbed generate -clean has nothing left that it removes, so
\* only a Go file that is not its own can block it.
LEMMA LoadKeeps ==
  ASSUME TypeOK, HandInv, NEW p \in Procs, ProcInv(p), Load(p) \/ EmitFiles(p)
  PROVE  proc' \in [Procs -> Processes] /\ ProcInv(p)' /\ \A x \in Procs \ {p} : Bystander(x)
<1> DEFINE a == proc[p]
<1>0. a \in Processes
  BY DEF TypeOK
<1>1. CASE a.pc = "load" /\ UNCHANGED <<project, out>>
           /\ Step(p, [a EXCEPT !.pc = "generate", !.version = sources.version])
  <2> DEFINE r == [a EXCEPT !.pc = "generate", !.version = sources.version]
  <2>1. Moved(p, r) /\ out' = out /\ sources' = sources
    BY <1>1, StepMoves DEF project
  <2>2. r \in Processes /\ r.pc = "generate" /\ r.version = sources.version /\ r.exit = a.exit
        /\ r.cmd = a.cmd /\ r.clean = a.clean /\ r.disturbed = a.disturbed
    BY <1>0 DEF Processes, Places, TypeOK
  <2>3. a.exit = "none" /\ a.cmd # "clean" /\ (a.disturbed \/ (a.clean => Generated = {}))
    BY <1>1 DEF ProcInv, RunInv, OutputInv, Running
  <2> HIDE DEF r
  <2>4. proc' \in [Procs -> Processes] /\ proc'[p] = r /\ \A x \in Procs \ {p} : Bystander(x)
    BY <2>1, <2>2, Moves
  <2>5. Generated' = Generated
    BY <2>1 DEF Generated, isGeneratedFile
  <2> QED
    BY <2>1, <2>2, <2>3, <2>4, <2>5 DEF ProcInv, BuildInv, RunInv, OutputInv, BlockInv, Building
<1>2. CASE Exit(p, "failed")
  BY <1>2, EndKeeps
<1>3. CASE a.pc = "load" /\ out' = out /\ (RootBroken \/ StaleWiring) /\ Exit(p, "blocked")
  <2>1. ASSUME ~a.disturbed, a.clean
        PROVE  Blocker'
    <3>1. Generated = {}
      BY <1>3, <2>1 DEF ProcInv, OutputInv
    <3>2. ~StaleWiring
      BY <3>1, NameFacts DEF Generated, StaleWiring
    <3>3. PICK n \in GoFiles : out[n] # None /\ out[Wiring] = None
      BY <1>3, <3>2 DEF RootBroken
    <3>4. n \in Removable => FALSE
      <4>1. ASSUME n \in Removable
            PROVE  out[n] \in Files /\ out[n].kind # "gen" /\ n \in Plugins
        BY <3>1, <3>3, <4>1, NameFacts DEF TypeOK, Generated, isGeneratedFile
      <4> QED
        BY <4>1, FileFacts DEF HandInv
    <3> QED
      BY <1>3, <3>3, <3>4 DEF Blocker
  <2> QED
    BY <1>3, <2>1, EndKeeps
<1>4. CASE EmitFiles(p)
  <2> DEFINE r == [a EXCEPT !.pc = "write", !.todo = {Wiring} \cup a.linked]
  <2>1. a.pc = "generate" /\ Moved(p, r) /\ out' = out /\ sources' = sources
    BY <1>4, StepMoves DEF EmitFiles, PluginFiles, project
  <2>2. r \in Processes /\ r.pc = "write" /\ r.todo = {Wiring} \cup a.linked /\ r.linked = a.linked
        /\ r.exit = a.exit /\ r.version = a.version
        /\ r.cmd = a.cmd /\ r.clean = a.clean /\ r.disturbed = a.disturbed
    BY <1>0, NameFacts DEF Processes, Places
  <2>3. a.exit = "none" /\ a.cmd # "clean"
        /\ (a.disturbed \/ (a.version = sources.version /\ (a.clean => Generated = {})))
    BY <2>1 DEF ProcInv, RunInv, OutputInv, Running
  <2> HIDE DEF r
  <2>4. proc' \in [Procs -> Processes] /\ proc'[p] = r /\ \A x \in Procs \ {p} : Bystander(x)
    BY <2>1, <2>2, Moves
  <2>5. Generated' = Generated
    BY <2>1 DEF Generated, isGeneratedFile
  <2> QED
    BY <2>1, <2>2, <2>3, <2>4, <2>5 DEF ProcInv, BuildInv, RunInv, OutputInv, BlockInv, Building
<1> QED
  BY <1>1, <1>2, <1>3, <1>4 DEF Load

\* Writing: what is written is of the version that was loaded.
LEMMA WriteKeeps ==
  ASSUME TypeOK, NEW p \in Procs, ProcInv(p), WriteFile(p)
  PROVE  proc' \in [Procs -> Processes] /\ ProcInv(p)' /\ \A x \in Procs \ {p} : Bystander(x)
<1> DEFINE a == proc[p]
<1>0. a \in Processes
  BY DEF TypeOK
<1>1. PICK n \in NextFile(p) :
        /\ out' = [out EXCEPT ![n] = Gen(a.version)]
        /\ IF a.todo \ {n} = {} THEN Exit(p, "ok")
           ELSE Step(p, [a EXCEPT !.todo = a.todo \ {n}, !.pc = "write"])
  BY DEF WriteFile
<1>2. a.pc = "write" /\ sources' = sources /\ n \in a.todo /\ n \in Names
  BY <1>0, <1>1 DEF WriteFile, project, NextFile, Processes
<1>3. CASE a.todo \ {n} = {}
  BY <1>1, <1>3, EndKeeps
<1>4. CASE a.todo \ {n} # {}
  <2> DEFINE r == [a EXCEPT !.todo = a.todo \ {n}, !.pc = "write"]
  <2>1. Moved(p, r)
    BY <1>1, <1>4, StepMoves
  <2>2. r \in Processes /\ r.pc = "write" /\ r.todo = a.todo \ {n} /\ r.linked = a.linked
        /\ r.exit = a.exit /\ r.version = a.version
        /\ r.cmd = a.cmd /\ r.clean = a.clean /\ r.disturbed = a.disturbed
    BY <1>0, <1>2 DEF Processes
  <2>3. a.exit = "none" /\ a.cmd # "clean" /\ a.todo \subseteq {Wiring} \cup a.linked
    BY <1>2 DEF ProcInv, RunInv, Running
  <2> HIDE DEF r
  <2>4. proc' \in [Procs -> Processes] /\ proc'[p] = r /\ \A x \in Procs \ {p} : Bystander(x)
    BY <2>1, <2>2, Moves
  <2>5. \A m \in Names : out'[m] = IF m = n THEN Gen(a.version) ELSE out[m]
    BY <1>1, <1>2 DEF TypeOK
  <2>6. Generated' \subseteq Generated \cup {n}
    BY <2>5 DEF Generated, isGeneratedFile
  <2>7. OutputInv(p)'
    <3>1. ASSUME ~a.disturbed
          PROVE  /\ a.clean => Generated' \subseteq {Wiring} \cup a.linked
                 /\ a.version = sources.version
                 /\ \A m \in ({Wiring} \cup a.linked) \ (a.todo \ {n}) : out'[m] = Gen(a.version)
      <4>1. {Wiring} \cup a.linked \subseteq Names
        BY <1>0, NameFacts DEF Processes
      <4> QED
        BY <1>2, <2>3, <2>5, <2>6, <3>1, <4>1 DEF ProcInv, OutputInv
    <3> QED
      BY <1>2, <2>2, <2>4, <3>1 DEF OutputInv
  <2> QED
    BY <2>2, <2>3, <2>4, <2>7 DEF ProcInv, BuildInv, RunInv, BlockInv, Building
<1> QED
  BY <1>3, <1>4

-----------------------------------------------------------------------------
(* The invariant.                                                          *)

LEMMA TypedAfter ==
  ASSUME TypeOK, NEW p \in Procs, Act(p), Bootstrap(p),
         out' \in [Names -> Files \cup {None}], proc' \in [Procs -> Processes]
  PROVE  TypeOK'
<1>1. UNCHANGED <<sources, conf>>
  BY DEF Act, Generate, Stat, WriteTool, Build, Builds, GoGet, Rebuild, Exec, CleanFirst, Clean,
         RemoveListed, Cleaned, Load, EmitFiles, WriteFile, Fails, Crash, project
<1> QED
  BY <1>1 DEF TypeOK, Bootstrap

LEMMA InitEstablishes == Init => IInv
<1> SUFFICES ASSUME Init PROVE IInv
  OBVIOUS
<1> USE NameFacts, FileFacts, IdleTyped
<1>1. PICK hand \in {{}, {Wiring}, {Helper}} : out = [n \in Names |-> IF n \in hand THEN Hand ELSE None]
  BY DEF Init
<1>2. out \in [Names -> Files \cup {None}] /\ HandInv
  BY <1>1, CliAssumption DEF HandInv
<1>3. proc = [p \in Procs |-> Idle] /\ cache = [k \in Configs |-> None]
  BY DEF Init
<1>4. TypeOK
  <2>1. /\ sources = [version |-> 1, ok |-> TRUE] /\ conf \in Configs
        /\ gomod = [q \in Plugins |-> None] /\ tool = None /\ overlapped = FALSE
    BY DEF Init
  <2>2. sources \in [version : Nat, ok : BOOLEAN] /\ gomod \in [Plugins -> Versions \cup {None}]
    BY <2>1
  <2>3. proc \in [Procs -> Processes] /\ cache \in [Configs -> Links \cup {None}]
    BY <1>3
  <2> QED
    BY <1>2, <2>1, <2>2, <2>3 DEF TypeOK
<1>5. CacheTruthful
  BY <1>3 DEF CacheTruthful
<1>6. Idle.cmd = "none" /\ Idle.exit = "none"
  BY DEF Idle
<1>7. \A p \in Procs : ProcInv(p)
  BY <1>3, <1>6 DEF ProcInv, BuildInv, RunInv, OutputInv, BlockInv, Building, Running
<1> QED
  BY <1>2, <1>4, <1>5, <1>7 DEF IInv, ProcInv

LEMMA ActKeeps ==
  ASSUME IInv, NEW p \in Procs, Act(p)
  PROVE  IInv'
<1>0. TypeOK /\ HandInv /\ CacheTruthful /\ \A x \in Procs : ProcInv(x)
  BY DEF IInv, ProcInv
<1>1. Bootstrap(p)
  BY <1>0, Bootstraps DEF ProcInv
<1>2. Output(p)
  BY <1>0, Outputs DEF ProcInv
<1>3. /\ out' \in [Names -> Files \cup {None}]
      /\ HandInv'
      /\ Blocker => Blocker'
  BY <1>0, <1>2, OutputKeeps, NameFacts
<1>4. proc' \in [Procs -> Processes] /\ ProcInv(p)' /\ \A x \in Procs \ {p} : Bystander(x)
  <2>1. CASE Fails(p) \/ Crash(p)
    BY <1>0, <2>1, EndKeeps DEF Fails, Crash
  <2> QED
    BY <1>0, <2>1, BootstrapKeeps, CleaningKeeps, LoadKeeps, WriteKeeps DEF Act
<1>5. ASSUME NEW x \in Procs \ {p}
      PROVE  ProcInv(x)'
  BY <1>0, <1>1, <1>3, <1>4, BystanderKeeps DEF Bootstrap
<1>6. TypeOK'
  BY <1>0, <1>1, <1>3, <1>4, TypedAfter
<1> QED
  BY <1>1, <1>3, <1>4, <1>5, <1>6 DEF IInv, ProcInv, Bootstrap

LEMMA EditKeeps ==
  ASSUME IInv, EditSources \/ EditConfig
  PROVE  IInv' /\ \A x \in Procs : Bystander(x)
<1>0. TypeOK /\ HandInv /\ CacheTruthful /\ \A x \in Procs : ProcInv(x)
  BY DEF IInv, ProcInv
<1>1. /\ proc' = [x \in Procs |-> [proc[x] EXCEPT !.disturbed = @ \/ Running(x)]]
      /\ UNCHANGED <<bootstrap, out>>
      /\ sources' \in [version : Nat, ok : BOOLEAN] /\ conf' \in Configs
  BY <1>0 DEF EditSources, EditConfig, Edit, TypeOK
<1>2. proc' \in [Procs -> Processes]
  <2>1. \A x \in Procs : [proc[x] EXCEPT !.disturbed = proc[x].disturbed \/ Running(x)] \in Processes
    <3> SUFFICES ASSUME NEW x \in Procs
                 PROVE  [proc[x] EXCEPT !.disturbed = proc[x].disturbed \/ Running(x)] \in Processes
      OBVIOUS
    <3>1. proc[x] \in Processes
      BY <1>0 DEF TypeOK
    <3> QED
      BY <3>1 DEF Processes
  <2> QED
    BY <1>1, <2>1
<1>3. \A x \in Procs : Bystander(x)
  BY <1>1 DEF Bystander
<1>4. TypeOK' /\ HandInv' /\ CacheTruthful'
  BY <1>0, <1>1, <1>2 DEF TypeOK, HandInv, CacheTruthful, bootstrap
<1>5. ASSUME NEW x \in Procs
      PROVE  ProcInv(x)'
  BY <1>0, <1>1, <1>2, <1>3, BystanderKeeps DEF bootstrap, Blocker
<1> QED
  BY <1>3, <1>4, <1>5 DEF IInv, ProcInv

LEMMA StutterKeeps ==
  ASSUME IInv, UNCHANGED vars
  PROVE  IInv'
BY DEF IInv, TypeOK, HandInv, CacheTruthful, BuildInv, RunInv, OutputInv, BlockInv, Blocker, Building, Running,
       Generated, isGeneratedFile, vars, project, bootstrap

LEMMA NextActs == Next => (\E p \in Procs : Act(p)) \/ EditSources \/ EditConfig
BY DEF Next, Act

LEMMA Invariance == Spec => []IInv
<1>1. IInv /\ [Next]_vars => IInv'
  BY ActKeeps, EditKeeps, StutterKeeps, NextActs
<1> QED
  BY InitEstablishes, <1>1, PTL DEF Spec

-----------------------------------------------------------------------------
(* The theorems.                                                           *)

\* Whatever commands run, fail or die, in whatever order: no command removes a
\* hand-written Go file of the output directory (removeGeneratedFile looks for
\* prefix and marker), and only the wiring ever replaces one.
THEOREM HandWrittenFilesStay == Spec => HandWrittenKept
<1>1. IInv /\ [Next]_vars =>
        [\A n \in Names : out[n] = Hand => (out'[n] = Hand \/ (n = Wiring /\ out'[n] # None))]_vars
  <2> SUFFICES ASSUME IInv, Next, NEW n \in Names, out[n] = Hand
               PROVE  out'[n] = Hand \/ (n = Wiring /\ out'[n] # None)
    OBVIOUS
  <2>1. CASE \E p \in Procs : Act(p)
    <3>1. PICK p \in Procs : Act(p)
      BY <2>1
    <3>2. Output(p)
      BY <3>1, Outputs DEF IInv
    <3> QED
      BY <3>2, OutputKeeps DEF IInv
  <2>2. CASE EditSources \/ EditConfig
    BY <2>2 DEF EditSources, EditConfig
  <2> QED
    BY <2>1, <2>2, NextActs
<1> QED
  BY Invariance, <1>1, PTL DEF Spec, HandWrittenKept

\* A CLI found under a key in .goboot/bin links the plugins of that key, for any
\* number of processes and plugin lists, as long as no two builds have shared
\* tool/main.go.
THEOREM CachedBinariesAreTruthful == Spec => []CacheTruthful
<1>1. IInv => CacheTruthful
  BY DEF IInv
<1> QED
  BY Invariance, <1>1, PTL

\* What carries goboot's prefix and marker never blocks an undisturbed generate
\* -clean: whatever blocks one is a Go file without them, hand-written or a
\* plugin's (cleanDir runs before the sources are loaded).
THEOREM CleanHeals == Spec => []SelfHeals
<1>1. IInv => SelfHeals
  BY DEF IInv, BlockInv, Blocker, SelfHeals
<1> QED
  BY Invariance, <1>1, PTL

\* A step after which a running process has succeeded is its own last one.
LEMMA OnlyTheLastStepSucceeds ==
  ASSUME IInv, NEW p \in Procs, Running(p), Next, proc'[p].exit = "ok"
  PROVE  \/ Cleaned(p) /\ proc[p].cmd = "clean" /\ Exit(p, "ok")
         \/ WriteFile(p) /\ \E n \in NextFile(p) :
              proc[p].todo \ {n} = {} /\ out' = [out EXCEPT ![n] = Gen(proc[p].version)] /\ Exit(p, "ok")
<1> DEFINE a == proc[p]
<1>1. a \in Processes /\ a.exit = "none" /\ TypeOK
  BY DEF IInv, RunInv, TypeOK
<1>2. ~Bystander(p)
  BY <1>1 DEF Bystander, Processes
<1>3. Act(p)
  <2>1. CASE EditSources \/ EditConfig
    BY <1>2, <2>1, EditKeeps
  <2>2. ASSUME NEW q \in Procs \ {p}, Act(q)
        PROVE  FALSE
    <3>1. Bystander(p)
      <4>1. CASE Fails(q) \/ Crash(q)
        BY <2>2, <4>1, EndKeeps, <1>1 DEF Fails, Crash
      <4>2. TypeOK /\ HandInv /\ ProcInv(q)
        BY DEF IInv, ProcInv
      <4> QED
        BY <2>2, <4>1, <4>2, BootstrapKeeps, CleaningKeeps, LoadKeeps, WriteKeeps DEF Act
    <3> QED
      BY <1>2, <3>1
  <2> QED
    BY <2>1, <2>2, NextActs
<1>4. ~Exit(p, "failed") /\ ~Exit(p, "blocked")
  <2>1. ASSUME NEW e \in {"failed", "blocked"}, Exit(p, e)
        PROVE  FALSE
    <3>1. PICK r \in Processes : Moved(p, r) /\ r = IF e = "failed" THEN Idle ELSE Ended(p, e)
      BY <1>1, <2>1, Exits
    <3>2. proc'[p] = r
      BY <3>1 DEF Moved
    <3> QED
      BY <3>1, <3>2 DEF Idle, Ended
  <2> QED
    BY <2>1
<1>5. ASSUME NEW r, Moved(p, r), r.exit = "none"
      PROVE  FALSE
  BY <1>5 DEF Moved
<1>6. \A l : ~Goto(p, l)
  BY <1>1, <1>5, StepMoves DEF Goto, Processes
<1>7. CASE Exec(p) \/ CleanFirst(p) \/ RemoveListed(p) \/ EmitFiles(p)
  BY <1>1, <1>5, <1>6, <1>7, StepMoves DEF Exec, CleanFirst, RemoveListed, EmitFiles, Processes
<1>8. CASE Load(p)
  BY <1>1, <1>4, <1>5, <1>8, StepMoves DEF Load, Processes
<1>9. CASE WriteFile(p)
  <2>1. PICK n \in NextFile(p) :
          /\ out' = [out EXCEPT ![n] = Gen(a.version)]
          /\ IF a.todo \ {n} = {} THEN Exit(p, "ok")
             ELSE Step(p, [a EXCEPT !.todo = a.todo \ {n}, !.pc = "write"])
    BY <1>9 DEF WriteFile
  <2>2. ~Step(p, [a EXCEPT !.todo = a.todo \ {n}, !.pc = "write"])
    BY <1>1, <1>5, StepMoves DEF Processes
  <2> QED
    BY <1>9, <2>1, <2>2
<1>10. CASE Cleaned(p)
  BY <1>6, <1>10 DEF Cleaned
<1> QED
  BY <1>3, <1>4, <1>6, <1>7, <1>8, <1>9, <1>10
     DEF Act, Generate, Clean, Stat, WriteTool, Build, Builds, GoGet, Rebuild, Fails, Crash

\* Whatever earlier commands, failures and crashes have left in the output
\* directory: a generate that reports success undisturbed has left wiring and
\* plugin files of the sources as they are, with -clean nothing else that
\* carries prefix and marker; a clean that does leaves nothing with both.
THEOREM SuccessMeansCurrent == Spec => SuccessIsCurrent
<1> DEFINE Current(p) ==
      LET written == IF proc[p].cmd = "clean" THEN {} ELSE {Wiring} \cup proc[p].linked
      IN /\ \A n \in written : out'[n] = Gen(sources.version)
         /\ proc[p].clean \/ proc[p].cmd = "clean" =>
              \A n \in Removable \ written : out'[n] \in {None, Hand}
<1>1. IInv /\ [Next]_vars =>
        [\A p \in Procs : Running(p) /\ proc'[p].exit = "ok" /\ ~proc'[p].disturbed => Current(p)]_vars
  <2> SUFFICES ASSUME IInv, Next, NEW p \in Procs,
                      Running(p), proc'[p].exit = "ok", ~proc'[p].disturbed
               PROVE  Current(p)
    OBVIOUS
  <2> DEFINE a == proc[p]
  <2>1. a \in Processes /\ TypeOK /\ RunInv(p) /\ OutputInv(p)
    BY DEF IInv, TypeOK
  <2>2. Exit(p, "ok")
    BY OnlyTheLastStepSucceeds
  <2>3. ~a.disturbed
    <3>1. PICK r \in Processes : Moved(p, r) /\ r = Ended(p, "ok")
      BY <2>1, <2>2, Exits
    <3>2. proc'[p] = r
      BY <3>1 DEF Moved
    <3> QED
      BY <3>1, <3>2 DEF Idle, Ended
  <2>4. CASE Cleaned(p) /\ a.cmd = "clean"
    <3>1. out' = out /\ Generated = {}
      BY <2>1, <2>3, <2>4 DEF Cleaned, OutputInv
    <3>2. \A n \in Removable : out'[n] \in {None, Hand}
      BY <2>1, <3>1, NameFacts, FileFacts DEF TypeOK, Generated, isGeneratedFile
    <3> QED
      BY <2>4, <3>2
  <2>5. CASE WriteFile(p) /\ \E n \in NextFile(p) :
                a.todo \ {n} = {} /\ out' = [out EXCEPT ![n] = Gen(a.version)]
    <3>1. PICK n \in NextFile(p) : a.todo \ {n} = {} /\ out' = [out EXCEPT ![n] = Gen(a.version)]
      BY <2>5
    <3>2. a.pc = "write" /\ n \in a.todo /\ n \in Names /\ a.cmd # "clean"
      BY <2>1, <2>5, <3>1 DEF WriteFile, NextFile, Processes, RunInv
    <3>3. \A m \in Names : out'[m] = IF m = n THEN Gen(a.version) ELSE out[m]
      BY <2>1, <3>1, <3>2 DEF TypeOK
    <3>4. {Wiring} \cup a.linked \subseteq Names /\ n \in {Wiring} \cup a.linked
      BY <2>1, <3>2, NameFacts DEF Processes, RunInv
    <3>5. a.version = sources.version /\ a.version \in Nat
      BY <2>1, <2>3, <3>2 DEF OutputInv, Processes
    <3>6. \A m \in {Wiring} \cup a.linked : out'[m] = Gen(sources.version)
      BY <2>1, <2>3, <3>1, <3>2, <3>3, <3>4, <3>5 DEF OutputInv
    <3>7. ASSUME a.clean, NEW m \in Removable \ ({Wiring} \cup a.linked)
          PROVE  out'[m] \in {None, Hand}
      <4>1. m \in Names /\ m \notin Generated /\ out'[m] = out[m]
        BY <2>1, <2>3, <3>2, <3>3, <3>4, <3>7, NameFacts DEF OutputInv
      <4> QED
        BY <2>1, <3>7, <4>1, FileFacts DEF TypeOK, Generated, isGeneratedFile
    <3> QED
      BY <3>2, <3>6, <3>7
  <2> QED
    BY <2>4, <2>5, OnlyTheLastStepSucceeds
<1> QED
  BY Invariance, <1>1, PTL DEF Spec, SuccessIsCurrent
=============================================================================
