------------------------------ MODULE Registry ------------------------------
(***************************************************************************)
(* The workspace and its projects: workspace.py makes the workspace,       *)
(* workspace_bridge.py adds a project and gives it a kernel,               *)
(* workspace_discovery.py registers what it finds on disk, and             *)
(* workspace_manifest.py resolves it all.  Several commands may run at     *)
(* once, and each may be killed between two of its file operations.        *)
(*                                                                         *)
(* A directory under Projects/ is its place in the order of the walk, and  *)
(* a project.yaml is the id and the repository it declares.  write_yaml    *)
(* replaces a file whole, through a temporary file whose name is fixed;    *)
(* the starter files are written in place.                                 *)
(***************************************************************************)
EXTENDS Naturals, SequencesExt

CONSTANTS
  Process,    \* commands that may run together
  Dir,        \* places under Projects/, numbered in walk order
  Name,       \* names of directories
  NameOf,     \* the name of each place
  Home,       \* the place that add_project gives a name
  Example,    \* the name of the example project
  Id, Repo,   \* identifiers and repositories
  Body,       \* what a project.yaml may declare of them
  PackFile,   \* the files of a pack
  MaxCommands, \* bound on the commands
  NoRepo, NoYaml, NoFile, Torn, NoDir

ASSUME DirsAreNumbers == Dir \subseteq Nat /\ NoDir \notin Dir
ASSUME PlacesAreNamed == NameOf \in [Dir -> Name] /\ Home \in [Name -> Dir] /\ \A n \in Name : NameOf[Home[n]] = n
ASSUME BodiesDeclare == Body \subseteq [id : Id, repo : Repo \union {NoRepo}] /\ NoYaml \notin Body
ASSUME ExampleIsName == Example \in Name
ASSUME FilesAreParts == PackFile \intersect {"manifest", "directory", "pointer"} = {}
ASSUME MarksAreNoLists == NoFile # Torn /\ {NoFile, Torn} \intersect Seq([name : Name, dir : Dir]) = {}

VARIABLES
  refs,       \* the projects that Workspace.yaml lists
  scratch,    \* its temporary file
  yaml,       \* each place's project.yaml
  packs,      \* the workspace's loadable pack: absent, torn or whole
  kernel,     \* what each place's .projectos holds
  left,       \* the pack's files that each command has still to delete or to copy
  disturbed,  \* history: kernels left by a killed command or by two at once, not made again since
  commands,   \* how many have started
  pc, work,    \* where each command is, and what it works on
  raw,        \* the list it read
  known,      \* what a discovery knows: places registered, ids and repositories claimed
  overlapped, killed, clashed   \* history: two commands together, one killed, an id declared twice by hand

registryVars == <<refs, scratch, yaml, packs, kernel, left, disturbed, commands, pc, work, raw, known, overlapped, killed, clashed>>
install == <<kernel, left, disturbed>>
files == <<refs, scratch, yaml, packs, install>>
history == <<commands, overlapped, killed, clashed>>

Ref == [name : Name, dir : Dir]
\* A kernel's parts: its manifest, the directory of its pack, that one's files, its pointer.
Parts == {"manifest", "directory", "pointer"} \union PackFile
NoJob == [dir |-> NoDir, body |-> NoYaml, force |-> FALSE]
Nobody == [dirs |-> {}, ids |-> {}, repos |-> {}]

Place == {"idle", "skeleton", "example", "starter", "read", "scratch", "replace", "yaml", "walk",
          "manifest", "remove", "removing", "pack", "copying", "spoiled", "pointer"}
Installing == {"manifest", "remove", "removing", "pack", "copying", "spoiled", "pointer"}

Lists == Seq(Ref) \union {NoFile, Torn}

RegistryTypeOK ==
  /\ refs \in Lists /\ scratch \in Seq(Ref) \union {NoFile} /\ raw \in [Process -> Lists]
  /\ yaml \in [Dir -> Body \union {NoYaml}]
  /\ packs \in {"absent", "torn", "whole"}
  /\ kernel \in [Dir -> SUBSET Parts]
  /\ left \in [Process -> SUBSET PackFile]
  /\ disturbed \subseteq Dir
  /\ commands \in 0 .. MaxCommands
  /\ pc \in [Process -> Place]
  /\ work \in [Process -> [dir : Dir \union {NoDir}, body : Body \union {NoYaml}, force : BOOLEAN]]
  /\ known \in [Process -> [dirs : SUBSET Dir, ids : SUBSET Id, repos : SUBSET Repo]]
  /\ overlapped \in BOOLEAN /\ killed \in BOOLEAN /\ clashed \in BOOLEAN

RegistryInit ==
  /\ refs = NoFile /\ scratch = NoFile
  /\ yaml = [d \in Dir |-> NoYaml]
  /\ packs = "absent"
  /\ kernel = [d \in Dir |-> {}]
  /\ left = [p \in Process |-> {}] /\ disturbed = {}
  /\ commands = 0
  /\ pc = [p \in Process |-> "idle"]
  /\ work = [p \in Process |-> NoJob]
  /\ raw = [p \in Process |-> NoFile]
  /\ known = [p \in Process |-> Nobody]
  /\ overlapped = FALSE /\ killed = FALSE /\ clashed = FALSE

-----------------------------------------------------------------------------
(* What a reader makes of Workspace.yaml.                                   *)

Listed == IF refs \in {NoFile, Torn} THEN {} ELSE ToSet(refs)
NamesUnique(list) == \A i, j \in DOMAIN list : list[i].name = list[j].name => i = j
\* load_workspace_manifest raises on a name listed twice.
Loads == refs \notin {NoFile, Torn} /\ NamesUnique(refs)
Known(d) == \E r \in Listed : r.name = NameOf[d]
KnownElsewhere(d) == \E r \in Listed : r.name = NameOf[d] /\ r.dir # d

\* resolve_workspace: every listed project has its project.yaml, no id twice.
AllPresent == \A r \in Listed : yaml[r.dir] # NoYaml
IdsUnique == \A q, r \in Listed : yaml[q.dir] # NoYaml /\ yaml[r.dir] # NoYaml /\ yaml[q.dir].id = yaml[r.dir].id => q = r
Resolves == Loads /\ AllPresent /\ IdsUnique

\* Another listed place declares the id of d's project.yaml.
SameId(d, body) == \E r \in Listed : r.dir # d /\ yaml[r.dir] # NoYaml /\ yaml[r.dir].id = body.id

Running(p) == pc[p] # "idle"

\* A command takes its first step.
Starts(p, place, what) ==
  /\ ~Running(p)
  /\ commands < MaxCommands
  /\ commands' = commands + 1
  /\ pc' = [pc EXCEPT ![p] = place]
  /\ work' = [work EXCEPT ![p] = what]
  /\ overlapped' = (overlapped \/ \E q \in Process : Running(q))

Ends(p) ==
  /\ pc' = [pc EXCEPT ![p] = "idle"]
  /\ work' = [work EXCEPT ![p] = NoJob]
  /\ raw' = [raw EXCEPT ![p] = NoFile]
  /\ known' = [known EXCEPT ![p] = Nobody]

Goes(p, place) == pc' = [pc EXCEPT ![p] = place]

-----------------------------------------------------------------------------
(* bootstrap_workspace: what exists is kept unless forced, the manifest is  *)
(* written last.                                                            *)

Bootstrap(p, force) ==
  /\ Starts(p, "skeleton", [NoJob EXCEPT !.force = force])
  /\ UNCHANGED <<files, raw, known, killed, clashed>>

Keeps(p, present) == present /\ ~work[p].force

WriteSkeleton(p) ==
  /\ pc[p] = "skeleton"
  /\ packs' = IF Keeps(p, packs # "absent") THEN packs ELSE "whole"
  /\ Goes(p, "example")
  /\ UNCHANGED <<refs, scratch, yaml, install, work, raw, known, history>>

WriteExample(p, body) ==
  /\ pc[p] = "example"
  /\ yaml' = IF Keeps(p, yaml[Home[Example]] # NoYaml) THEN yaml ELSE [yaml EXCEPT ![Home[Example]] = body]
  /\ clashed' = (clashed \/ SameId(Home[Example], yaml'[Home[Example]]))
  /\ Goes(p, "starter")
  /\ UNCHANGED <<refs, scratch, packs, install, commands, work, raw, known, overlapped, killed>>

Starter == <<[name |-> Example, dir |-> Home[Example]]>>

WriteStarter(p) ==
  /\ pc[p] = "starter"
  /\ refs' = IF Keeps(p, refs # NoFile) THEN refs ELSE Starter
  /\ Ends(p)
  /\ UNCHANGED <<scratch, yaml, packs, install, history>>

-----------------------------------------------------------------------------
(* register_project_ref: the list is loaded, read again, and replaced.      *)

\* add_project, up to the first look at the list.
Add(p, n, body, force) ==
  /\ Loads
  /\ ~KnownElsewhere(Home[n])
  /\ Starts(p, IF Known(Home[n]) THEN "yaml" ELSE "read", [dir |-> Home[n], body |-> body, force |-> force])
  /\ UNCHANGED <<files, raw, known, killed, clashed>>

ReadList(p) ==
  /\ pc[p] = "read"
  /\ raw' = [raw EXCEPT ![p] = refs]
  /\ Goes(p, "scratch")
  /\ UNCHANGED <<files, work, known, history>>

\* Mutant of WriteScratch: the list itself is opened for writing.
WriteScratchInPlace(p) ==
  /\ pc[p] = "scratch"
  /\ IF raw[p] \in {NoFile, Torn}
     THEN UNCHANGED <<refs, scratch>> /\ Ends(p)
     ELSE /\ scratch' = Append(raw[p], [name |-> NameOf[work[p].dir], dir |-> work[p].dir])
          /\ refs' = Torn
          /\ Goes(p, "replace") /\ UNCHANGED <<work, raw, known>>
  /\ UNCHANGED <<yaml, packs, install, history>>

WriteScratch(p) ==
  /\ pc[p] = "scratch"
  /\ IF raw[p] \in {NoFile, Torn}
     THEN UNCHANGED scratch /\ Ends(p)
     ELSE /\ scratch' = Append(raw[p], [name |-> NameOf[work[p].dir], dir |-> work[p].dir])
          /\ Goes(p, "replace") /\ UNCHANGED <<work, raw, known>>
  /\ UNCHANGED <<refs, yaml, packs, install, history>>

\* The temporary file is renamed over the list; it may be another command's, or gone.
Replace(p) ==
  /\ pc[p] = "replace"
  /\ IF scratch = NoFile
     THEN UNCHANGED <<refs, scratch>> /\ Ends(p)
     ELSE /\ refs' = scratch /\ scratch' = NoFile
          /\ Goes(p, IF work[p].body = NoYaml THEN "walk" ELSE "yaml")
          /\ UNCHANGED <<work, raw, known>>
  /\ UNCHANGED <<yaml, packs, install, history>>

\* add_project compares no ids: the same one may be declared by two projects.
WriteProject(p) ==
  /\ pc[p] = "yaml"
  /\ LET d == work[p].dir IN
       /\ yaml' = IF Keeps(p, yaml[d] # NoYaml) THEN yaml ELSE [yaml EXCEPT ![d] = work[p].body]
       /\ clashed' = (clashed \/ SameId(d, yaml'[d]))
  /\ Ends(p)
  /\ UNCHANGED <<refs, scratch, packs, install, commands, overlapped, killed>>

-----------------------------------------------------------------------------
(* discover_workspace in register mode.                                     *)

Claimed == {yaml[r.dir] : r \in {q \in Listed : yaml[q.dir] # NoYaml}}
Repos(bodies) == {b.repo : b \in bodies} \ {NoRepo}

Discover(p) ==
  /\ Loads
  /\ Starts(p, "walk", NoJob)
  /\ known' = [known EXCEPT ![p] = [dirs |-> {r.dir : r \in Listed}, ids |-> {b.id : b \in Claimed},
                                    repos |-> Repos(Claimed)]]
  /\ UNCHANGED <<files, raw, killed, clashed>>

\* The next place of the walk that holds a project.yaml.
Ahead(p) == {d \in Dir : yaml[d] # NoYaml /\ (work[p].dir # NoDir => d > work[p].dir)}
NextDir(p) == CHOOSE d \in Ahead(p) : \A e \in Ahead(p) : d <= e

\* Mutant of Unregistered: ids are compared, repositories stand for themselves.
UnregisteredAnyId(p, d) == d \notin known[p].dirs /\ yaml[d].repo \notin known[p].repos

Unregistered(p, d) ==
  /\ d \notin known[p].dirs
  /\ yaml[d].id \notin known[p].ids
  /\ yaml[d].repo \notin known[p].repos

\* A place that is registered, invalid or a duplicate is only reported.  One that is not
\* is registered, unless its name is listed for another place, which raises.
Walk(p) ==
  /\ pc[p] = "walk"
  /\ IF Ahead(p) = {} THEN Ends(p)
     ELSE LET d == NextDir(p) IN
          IF ~Unregistered(p, d)
          THEN work' = [work EXCEPT ![p].dir = d] /\ UNCHANGED <<pc, raw, known>>
          ELSE IF ~Loads \/ KnownElsewhere(d) THEN Ends(p)
          ELSE /\ work' = [work EXCEPT ![p].dir = d]
               /\ known' = [known EXCEPT ![p] = [dirs |-> @.dirs \union {d}, ids |-> @.ids \union {yaml[d].id},
                                                 repos |-> @.repos \union Repos({yaml[d]})]]
               /\ Goes(p, IF Known(d) THEN "walk" ELSE "read")
               /\ UNCHANGED raw
  /\ UNCHANGED <<files, history>>

-----------------------------------------------------------------------------
(* init_project_kernel: the manifest, the pack, the pointer.                *)

HasKernel(d) == "manifest" \in kernel[d]
Making(p, d) == pc[p] \in Installing /\ work[p].dir = d
Made(d) == \E p \in Process : Making(p, d)

InitKernel(p, d, force) ==
  /\ Loads
  /\ [name |-> NameOf[d], dir |-> d] \in Listed /\ yaml[d] # NoYaml
  /\ ~HasKernel(d) \/ force
  /\ packs # "absent"
  /\ Starts(p, "manifest", [dir |-> d, body |-> NoYaml, force |-> force])
  /\ disturbed' = IF Made(d) THEN disturbed \union {d} ELSE disturbed \ {d}
  /\ UNCHANGED <<refs, scratch, yaml, packs, kernel, left, raw, known, killed, clashed>>

\* A command works on the kernel of its place, and then goes on or ends.
Touches(p, parts, rest, next) ==
  /\ kernel' = [kernel EXCEPT ![work[p].dir] = parts]
  /\ left' = [left EXCEPT ![p] = rest]
  /\ IF next = "idle" THEN Ends(p) ELSE Goes(p, next) /\ UNCHANGED <<work, raw, known>>
  /\ UNCHANGED <<refs, scratch, yaml, packs, disturbed, history>>

Kernel(p) == kernel[work[p].dir]

WriteManifest(p) == pc[p] = "manifest" /\ Touches(p, Kernel(p) \union {"manifest"}, {}, "remove")

\* Mutant of FindPack: a pack that is there, whole or not, is left alone.
FindPackKeeping(p) ==
  /\ pc[p] = "remove"
  /\ IF "directory" \in Kernel(p)
     THEN Touches(p, Kernel(p), {}, "pointer")
     ELSE Touches(p, Kernel(p), {}, "pack")

\* rmtree and copytree go from file to file; what they do is chosen by a listing that
\* another command may overtake.
FindPack(p) ==
  /\ pc[p] = "remove"
  /\ IF "directory" \in Kernel(p)
     THEN Touches(p, Kernel(p), Kernel(p) \intersect PackFile, "removing")
     ELSE Touches(p, Kernel(p), {}, "pack")

\* A file that is gone by now raises.
RemoveFile(p) ==
  /\ pc[p] = "removing"
  /\ \E f \in left[p] :
       IF f \in Kernel(p)
       THEN Touches(p, Kernel(p) \ {f}, left[p] \ {f}, "removing")
       ELSE Touches(p, Kernel(p), {}, "idle")

\* So does a directory that is gone, or has files again.
RemoveDirectory(p) ==
  /\ pc[p] = "removing" /\ left[p] = {}
  /\ IF "directory" \in Kernel(p) /\ Kernel(p) \intersect PackFile = {}
     THEN Touches(p, Kernel(p) \ {"directory"}, {}, "pack")
     ELSE Touches(p, Kernel(p), {}, "idle")

\* copytree makes the directory, and raises when it is there.
MakeDirectory(p) ==
  /\ pc[p] = "pack"
  /\ IF "directory" \in Kernel(p)
     THEN Touches(p, Kernel(p), {}, "idle")
     ELSE Touches(p, Kernel(p) \union {"directory"}, PackFile, "copying")

\* A file that cannot be copied, because the directory is gone, is passed over: copytree
\* raises after the last one.
CopyFile(p) ==
  /\ pc[p] \in {"copying", "spoiled"}
  /\ \E f \in left[p] :
       IF "directory" \in Kernel(p)
       THEN Touches(p, Kernel(p) \union {f}, left[p] \ {f}, pc[p])
       ELSE Touches(p, Kernel(p), left[p] \ {f}, "spoiled")

EndCopy(p) ==
  /\ pc[p] \in {"copying", "spoiled"} /\ left[p] = {}
  /\ Touches(p, Kernel(p), {}, IF pc[p] = "copying" THEN "pointer" ELSE "idle")

WritePointer(p) == pc[p] = "pointer" /\ Touches(p, Kernel(p) \union {"pointer"}, {}, "idle")

-----------------------------------------------------------------------------
\* A command is killed; inside a starter file it leaves that file torn.
Kill(p) ==
  /\ Running(p)
  /\ killed' = TRUE
  /\ Ends(p)
  /\ \/ UNCHANGED <<packs, refs>>
     \/ pc[p] = "skeleton" /\ ~Keeps(p, packs # "absent") /\ packs' = "torn" /\ UNCHANGED refs
     \/ pc[p] = "starter" /\ ~Keeps(p, refs # NoFile) /\ refs' = Torn /\ UNCHANGED packs
  /\ left' = [left EXCEPT ![p] = {}]
  /\ disturbed' = disturbed \union {d \in Dir : Making(p, d)}
  /\ UNCHANGED <<scratch, yaml, kernel, commands, overlapped, clashed>>

\* A person puts a project on disk.
Appears(d, body) ==
  /\ yaml[d] = NoYaml
  /\ yaml' = [yaml EXCEPT ![d] = body]
  /\ clashed' = (clashed \/ ([name |-> NameOf[d], dir |-> d] \in Listed /\ SameId(d, body)))
  /\ UNCHANGED <<refs, scratch, packs, install, commands, pc, work, raw, known, overlapped, killed>>

RegistryNext ==
  \/ \E p \in Process, force \in BOOLEAN : Bootstrap(p, force)
  \/ \E p \in Process : WriteSkeleton(p) \/ WriteStarter(p) \/ \E body \in Body : WriteExample(p, body)
  \/ \E p \in Process, n \in Name, body \in Body, force \in BOOLEAN : Add(p, n, body, force)
  \/ \E p \in Process : ReadList(p) \/ WriteScratch(p) \/ Replace(p) \/ WriteProject(p)
  \/ \E p \in Process : Discover(p) \/ Walk(p)
  \/ \E p \in Process, d \in Dir, force \in BOOLEAN : InitKernel(p, d, force)
  \/ \E p \in Process : WriteManifest(p) \/ FindPack(p) \/ RemoveFile(p) \/ RemoveDirectory(p)
  \/ \E p \in Process : MakeDirectory(p) \/ CopyFile(p) \/ EndCopy(p) \/ WritePointer(p)
  \/ \E p \in Process : Kill(p)
  \/ \E d \in Dir, body \in Body : Appears(d, body)

RegistrySpec == RegistryInit /\ [][RegistryNext]_registryVars

-----------------------------------------------------------------------------
(* Properties.                                                              *)

Quiet == \A p \in Process : ~Running(p)

\* Commands that run one at a time to their end keep the workspace resolvable: every
\* listed name once, with a project.yaml, and - as long as nobody adds or writes an
\* id that is taken, which add_project does not look at - no id twice, whatever
\* discovery finds on disk.
AloneResolves ==
  ~overlapped /\ ~killed /\ ~clashed /\ Quiet /\ refs # NoFile => Resolves

\* A registration is never lost, by commands that were killed at any step or by what
\* they leave behind, unless two commands overlap or the starter list is forced.
Forcing == \E p \in Process : pc[p] = "starter" /\ work[p].force
RegistrationsKept == [][overlapped \/ Forcing \/ Listed \subseteq Listed']_registryVars

\* A kernel that counts as there is whole once no command works on it, unless one was
\* killed at it or two worked on it at once; and a forced init-project that is alone and
\* comes to its end makes it whole again, whatever those had left.
KernelIsWhole == \A d \in Dir \ disturbed : HasKernel(d) /\ ~Made(d) => kernel[d] = Parts

\* "So the kernel can operate against it": the same without the exceptions.  Two
\* creations at once leave part of a pack although nothing was killed: one finds the
\* other's directory and deletes what that one is still copying.
InitialisedIsWhole == \A d \in Dir : HasKernel(d) /\ ~Made(d) => kernel[d] = Parts
TogetherIsWhole == ~killed => InitialisedIsWhole

\* "Append a project reference if absent.  Idempotent."  Two additions that overlap
\* list a name twice, and no command can load the list again.
NamesStayUnique == refs \in {NoFile, Torn} \/ NamesUnique(refs)

\* "Duplicate identifiers are a fail-closed registration error": add_project registers
\* them, and from then on nothing resolves.
AddedIdsAreUnique == ~overlapped /\ ~killed /\ Quiet => IdsUnique
=============================================================================
