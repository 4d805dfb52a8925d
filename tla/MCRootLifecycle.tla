---------------------------- MODULE MCRootLifecycle ----------------------------
(* One root with two folders, a template of two versions and a rival of the    *)
(* second, and the paths they and people use.                                  *)
EXTENDS RootLifecycle

CONSTANTS u1, u2, s1, o1, i1, i2, e1, e2

Team(agents, mostChanges, mostCrashes) ==
  [agents |-> agents, changes |-> mostChanges, crashes |-> mostCrashes]
MCTeams ==
  {Team({u1, u2}, 2, 1), Team({u1, s1}, 2, 1), Team({u1, o1}, 1, 1),
   Team({s1, o1}, 2, 1),
   Team({i1, i2}, 0, 1), Team({i1}, 2, 1), Team({i1, e1}, 0, 1),
   Team({e1, e2}, 0, 1), Team({e1}, 2, 0), Team({e1}, 1, 1), Team({u1, e1}, 1, 0)}

Notes == << <<"notes", 0>> >>
Read == Notes \o << <<"read", 0>> >>
Shout == << <<"notes", 1>> >>
Adapter == << <<"adapter", 0>> >>
Plans == << <<"plans", 0>> >>

MCPathOrder == <<StateDir, ManifestPath, Shout, Adapter, Notes, Read, Plans>>
MCPeoplePaths == {Shout, Adapter, Notes, Plans}
MCAdapterPaths == {Adapter}
MCReservedKeys == {"con"}

Directory(p) == [target |-> p, kind |-> "directory", text |-> None, quotes |-> {}]
File(p, text, quotes) ==
  [target |-> p, kind |-> "file", text |-> text, quotes |-> quotes]
Package(version, artifacts, edges) ==
  [id |-> "project", version |-> version, artifacts |-> artifacts,
   edges |-> edges,
   questions |-> [q \in {"name"} |-> [type |-> "text", required |-> TRUE]]]

First == Package(1, {Directory(Notes), File(Read, "read1", {"name"})}, {})
Second == Package(2, {Directory(Notes), File(Plans, "plans2", {})}, {<<1, 2>>})
Third == Package(3, {File(Shout, "shout3", {})}, {<<1, 3>>})
Other == [First EXCEPT !.id = "person"]
Named == [q \in {"name"} |-> [type |-> "text", blank |-> FALSE]]
Blank == [q \in {"name"} |-> [type |-> "text", blank |-> TRUE]]

MCStartTemplates == {None, First}
MCOffers == {First, Second, Third, Other}
MCAnswers == {Named, Blank}
MCOrigins == {None, [id |-> "project", version |-> 1, digest |-> First]}
===============================================================================
