---------------------------- MODULE PlanService -----------------------------
(***************************************************************************)
(* From two commits to a plan: PlanService.generate_plan of                *)
(* api/api/services/plan_service.py and the plan command of the CLI        *)
(* (cli/cli/commands/plan.py), each with the model loader and the          *)
(* structural diff, in front of the planner of module Planner.             *)
(*                                                                         *)
(* Files are numbered in the order of their paths.  The models come from   *)
(* the working copy, which need not be the target commit.  A hash is named *)
(* by what it is computed from: the API hashes the old file as a whole,    *)
(* the loader hashes the resolved SQL without the header.                  *)
(*                                                                         *)
(* git is external: which removed and added files it shows as one rename   *)
(* depends on how alike they are, and is chosen here.                      *)
(***************************************************************************)
EXTENDS Planner

CONSTANTS
    Files,         \* 1..n
    ModelFiles,    \* the files under the models directory
    Trees,         \* what a commit may hold: functions from Files to Content or NoFile
    NoFile,
    EndsWith,      \* <<f, g>>: the path of f ends with the path of g, as git prints it
    Reads          \* [Models -> the models it reads]

\* model 0: a file without a valid header, which the loader and the version map skip.
Content == [model : 0 .. N, header : Nat, body : Nat]

ASSUME ServiceAssumption ==
    /\ Files \subseteq Nat /\ IsFiniteSet(Files) /\ ModelFiles \subseteq Files
    /\ Trees \subseteq [Files -> Content \cup {NoFile}]
    /\ \A f \in Files : <<f, f>> \in EndsWith
    /\ Reads \in [Models -> SUBSET Models] /\ \A m \in Models : m \notin Reads[m]

VARIABLES
    caller,                 \* "api" or "cli"
    base, target, checkout, \* the two commits and the working copy
    renames                 \* what git shows as renames: <<old file, new file>>

request == <<caller, base, target, checkout, renames>>
serviceVars == <<vars, request>>

Defines(tree, f, m) == tree[f] # NoFile /\ tree[f].model = m

-----------------------------------------------------------------------------
(* load_models_from_directory.                                             *)

\* Two files of one model: the later one is kept (models_by_name).
FileOf(m) == Max({f \in ModelFiles : Defines(checkout, f, m)})

Loaded == {m \in Models : \E f \in ModelFiles : Defines(checkout, f, m)}

\* content_hash: the SQL without its header.
BodyHash(m) == [of |-> "body", text |-> checkout[FileOf(m)].body]

TargetVersions == [m \in Loaded |-> BodyHash(m)]

-----------------------------------------------------------------------------
(* git diff and the version map of the base commit.                        *)

\* A rename pairs a file that is gone with one that is new.  Equal contents are
\* always paired; of others, those that are alike.
PossibleRenames(old, new) ==
    LET gone  == {f \in Files : old[f] # NoFile /\ new[f] = NoFile}
        added == {f \in Files : old[f] = NoFile /\ new[f] # NoFile}
    IN  {r \in SUBSET (gone \X added) :
            /\ \A p, q \in r : p[1] = q[1] <=> p[2] = q[2]
            /\ \A p \in gone \X added : old[p[1]] = new[p[2]] =>
                   \E q \in r : p[1] = q[1] \/ p[2] = q[2]}

RenamedFrom == {p[1] : p \in renames}
RenamedTo == {p[2] : p \in renames}

\* --name-only: of a rename, only the new name.
ChangedFiles == {f \in Files : base[f] # target[f]} \ RenamedFrom

\* --name-status, each line split once: of a rename, a path that holds both names and
\* is the path of no file.
StatusFiles == ChangedFiles \ RenamedTo

\* Mutant: the old file is hashed the way the loader does.
OldBody(c) == [of |-> "body", text |-> c.body]

OldHash(c) == [of |-> "file", text |-> <<c.header, c.body>>]

\* _build_version_map: the changed files that had a header at the base commit;
\* the later of two files of one model wins.
ApiBaseVersions ==
    LET named(m) == {f \in ChangedFiles : Defines(base, f, m)}
    IN  [m \in {n \in Models : named(n) # {}} |-> OldHash(base[Max(named(m))])]

\* The CLI takes a model as changed when its path ends with a listed one.
Matched(m) ==
    \E f \in ModelFiles, g \in StatusFiles : Defines(checkout, f, m) /\ <<f, g>> \in EndsWith

\* The old version is asked of git by the absolute path of the model, which git never
\* finds; the failure is swallowed.  Every other model gets its present hash.
CliBaseVersions == [m \in {n \in Loaded : ~Matched(n)} |-> BodyHash(m)]

BaseVersions == IF caller = "api" THEN ApiBaseVersions ELSE CliBaseVersions

\* compute_structural_diff.
StructuralDiff(m) ==
    IF m \notin Loaded THEN "none"
    ELSE IF m \notin DOMAIN BaseVersions THEN "added"
    ELSE IF BaseVersions[m] # TargetVersions[m] THEN "modified"
    ELSE "none"

\* build_dag, over the loaded models.
Edges == {e \in Loaded \X Loaded : e[1] \in Reads[e[2]]}

ServiceInit ==
    /\ caller \in {"api", "cli"}
    /\ base \in Trees /\ target \in Trees /\ checkout \in Trees
    /\ renames \in PossibleRenames(base, target)
    /\ dag = Edges
    /\ change = [m \in Models |-> StructuralDiff(m)]
    /\ kind = [m \in Models |-> "full"]
    /\ mark = [m \in Models |-> NoMark]
    /\ StartSort

ServiceNext == Next /\ UNCHANGED request

ServiceSpec == ServiceInit /\ [][ServiceNext]_serviceVars

-----------------------------------------------------------------------------
(* Properties.                                                             *)

\* What the two commits and the working copy say, without hashes: the model's
\* file differs between the commits, or is new.
Differs(f) == base[f] # target[f]
Touched(m) == \E f \in ModelFiles : Defines(checkout, f, m) /\ Differs(f)

Downstream(c) == {m \in Models : m = c \/ Reaches(c, m)}

\* "Only models whose files appear in changed_files are included": what is planned
\* was changed, or reads something that was.
OnlyChangesPlanned ==
    Built => \A m \in Planned : \E c \in Loaded : Touched(c) /\ m \in Downstream(c)

\* A change git does not show as a rename.
TouchedInPlace(m) ==
    \E f \in ModelFiles : /\ Defines(checkout, f, m) /\ Differs(f)
                          /\ f \notin RenamedFrom \cup RenamedTo

\* The path of a file of the model ends with that of a file that differs.
NamedByChange(m) ==
    \E f \in ModelFiles, g \in Files : Defines(checkout, f, m) /\ <<f, g>> \in EndsWith /\ Differs(g)

\* The API plans every model one of whose files changed between the two commits, moved
\* or not, and every loaded model that reads it, directly or not.  The CLI does so for
\* the files that git does not show as renamed, and plans only what the path of a
\* changed file names, an ending of its own path, or what reads that.
ChangesArePlanned ==
    Built =>
        /\ \A c \in Loaded :
               (IF caller = "cli" THEN TouchedInPlace(c) ELSE Touched(c)) => Downstream(c) \subseteq Planned
        /\ caller = "cli" =>
               \A m \in Planned : \E c \in Loaded : NamedByChange(c) /\ m \in Downstream(c)
=============================================================================
