------------------------------ MODULE MCMigration ------------------------------
(***************************************************************************)
(* Small instances of a migration: a folder with two files and an ignore   *)
(* policy, and programs of two steps that have every kind of step between    *)
(* them, one of them on the policy itself.  And every list of up to three   *)
(* reorganization operations from a small alphabet, drafted over every tree *)
(* of four paths.                                                           *)
(***************************************************************************)
EXTENDS Migration, TLC

CONSTANTS a, n, d, da, env

MCPaths == {a, n, d, da, env}
MCDirs == {d}
MCInitial == {a, env}
MCEnv == {env}
MCParent == [p \in MCPaths |-> IF p = da THEN d ELSE None]

Op(kind, source, target) == [kind |-> kind, source |-> source, target |-> target]
MoveInto == <<Op("mkdir", None, d), Op("move", a, da)>>
CreateInto == <<Op("mkdir", None, d), Op("create", None, da)>>
ReplaceThenCreate == <<Op("replace", None, a), Op("create", None, n)>>
UpdatePolicy == <<Op("create", None, n), Op("replace", None, env)>>

MCPrograms == {MoveInto, CreateInto, ReplaceThenCreate, UpdatePolicy}
-----------------------------------------------------------------------------
\* D is d in other case, e+ is e decomposed, and a long s folds to a plain one.
Names == {"d", "D", "e", "e+", "x", "AGENTS.md", "agents.md", "Agents.MD", ".folderbaseignore",
          ".folderba(long s)eignore", ".folderbase", ".FolderBase", "manifest.json"}
Other(forms) == [name \in Names |-> IF name \in DOMAIN forms THEN forms[name] ELSE name]
Composed == [decomposed \in {"e+"} |-> "e"]
InLower == [name \in {"D", "AGENTS.md", "Agents.MD", ".FolderBase"} |->
             CASE name = "D" -> "d" [] name = ".FolderBase" -> ".folderbase" [] OTHER -> "agents.md"]
Plans ==
  INSTANCE Reorganization WITH
    Normal <- Other(Composed), Lower <- Other(InLower),
    Fold <- Other(Composed @@ InLower @@ (".folderba(long s)eignore" :> ".folderbaseignore")),
    Reserved <- {".folderbase"}, AgentFiles <- {<<"AGENTS.md">>},
    IgnorePolicy <- <<".folderbaseignore">>, Manifest <- <<".folderbase", "manifest.json">>,
    RecordPath <- [o \in {"O"} |-> <<".folderbase", "objects", "O">>]

Outer == <<"d">>
Respelled == <<"D">>
Inner == <<"d", "e">>
RespelledInner(profile) == IF profile = "case_fold" THEN <<"D", "e">> ELSE <<"d", "e+">>
Deep == <<"d", "e", "x">>
Top == <<"x">>
Making(kind, path) == [kind |-> kind, path |-> path]
Moving(path, to) == [kind |-> "move_file", path |-> path, to |-> to, sha |-> "s", bytes |-> 1]
Alphabet(profile) ==
  LET inner == RespelledInner(profile)
  IN  {Making(kind, path) : kind \in Plans!Creates, path \in {Outer, Respelled, inner, Deep}}
      \cup {[kind |-> "replace_file", path |-> path, sha |-> "s"] : path \in {Top, Outer, inner}}
      \cup {Moving(Top, path) : path \in {Outer, inner, Deep}}
      \cup {Moving(path, Top) : path \in {Outer, inner, Deep}}
Trees ==
  {folder \in UNION {[keys -> {Plans!Directory, Plans!File("s", 1)}] :
                     keys \in SUBSET {Top, Outer, Inner, Deep}} : Plans!Tree(folder)}

Keys == <<Outer, Respelled, Inner, Deep, Top>>
FactsAbout(keys, folder) ==
  LET asked == SelectSeq(Keys, LAMBDA k : k \in keys)
  IN  [i \in DOMAIN asked |-> [path |-> asked[i], fact |-> Plans!FactAt(folder, asked[i])]]
DraftOf(profile, folder, ops, boundaries) ==
  [profile |-> profile, questions |-> <<>>, templates |-> <<>>, operations |-> ops,
   scope |-> [boundaries |-> boundaries, ignorePolicy |-> Plans!Absent, declared |-> <<>>,
              closure |-> FactsAbout({r[1] : r \in Plans!Requirements(profile, ops)}, folder)]]

PlansHold(profile, most) ==
  \A ops \in UNION {[1 .. k -> Alphabet(profile)] : k \in 1 .. most}, folder \in Trees :
    Plans!PathsAreUnique(profile, ops) =>
      \A boundaries \in {<<>>, <<RespelledInner(profile)>>} :
        \A sealed \in Plans!Sealed(DraftOf(profile, folder, ops, boundaries)) :
          /\ Plans!ValidPlan(sealed)
          /\ Plans!PlansRun(sealed, folder)
          /\ Plans!BoundariesStayClosed(sealed, folder)

ASSUME SealedPlansHold == PlansHold("case_fold", 3)
ASSUME CaseSensitivePlansHold == PlansHold("case_sensitive", 2)
ASSUME SomePlansAreSealed ==
  \A drafted \in {<<"case_fold", Respelled>>, <<"case_sensitive", Outer>>} :
    LET profile == drafted[1]
        ops == <<Making("create_directory", drafted[2]),
                 Making("create_directory", RespelledInner(profile)), Moving(Top, Deep)>>
        folder == [keys \in {Top} |-> Plans!File("s", 1)]
    IN  \E sealed \in Plans!Sealed(DraftOf(profile, folder, ops, <<>>)) :
          Plans!PlansRun(sealed, folder)

ASSUME OnlyAsciiCaseIsReserved ==
  /\ \A path \in {<<"Agents.MD">>, <<".folderbaseignore">>, <<"x", ".FolderBase">>} :
       ~ Plans!OrdinaryContentPath(path)
  /\ \A path \in {<<"d", "Agents.MD">>, <<".folderba(long s)eignore">>} :
       Plans!OrdinaryContentPath(path)
=============================================================================
