------------------------------ MODULE MCDelivery ------------------------------
(* Two callers of one operation and one of another; two receivers.  And the    *)
(* availability facts of up to two objects, with a byte counter that saturates.*)
EXTENDS Delivery

Device == INSTANCE Availability WITH MaxBytes <- 3

TheVersion ==
  [id |-> 1, root |-> [version |-> 1, content |-> "m", fits |-> TRUE],
   bindings |-> <<[path |-> "a", kind |-> "regular", object |-> "A", version |-> 2,
                   content |-> "x", executable |-> TRUE],
                  [path |-> "l", kind |-> "symlink", object |-> "L", version |-> 3,
                   content |-> "a", executable |-> FALSE]>>,
   tombstones |-> <<[path |-> "o", kind |-> "regular", object |-> "A", last |-> 2],
                    [path |-> "t", kind |-> "regular", object |-> "T", last |-> 4]>>]
ManifestOf(bytes) == [object |-> bytes, chunks |-> <<bytes>>]
TheAssociations ==
  <<[version |-> 1, manifest |-> ManifestOf("m")], [version |-> 2, manifest |-> ManifestOf("x")],
    [version |-> 4, manifest |-> ManifestOf("y")]>>
TheFidelity == <<[path |-> "o", object |-> "A", version |-> 2, executable |-> TRUE],
                 [path |-> "t", object |-> "T", version |-> 4, executable |-> FALSE]>>
TheManifests == {ManifestOf(c) : c \in {"m", "x", "y"}}
TheIndex == CHOOSE i \in Built(TheVersion, TheAssociations, TheFidelity, TheManifests) : TRUE
(* The index as built; five no planner may accept: a reference missing, one    *)
(* with another role, one of another Object, no fidelity, other bytes; and one *)
(* that says of A's Version, moved from o to a, that it was not executable.    *)
Refers(i, field, value) == [TheIndex EXCEPT !.references[i][field] = value]
TheIndexes ==
  <<TheIndex, [TheIndex EXCEPT !.references = SubSeq(@, 1, 2)],
    Refers(3, "roles", {"live_regular_file"}), Refers(2, "object", {"T"}),
    [TheIndex EXCEPT !.fidelity = <<>>], Refers(2, "manifest", ManifestOf("y")),
    [TheIndex EXCEPT !.fidelity[1].executable = FALSE]>>
PackageWith(i) ==
  LET manifests == {r.manifest : r \in Range(TheIndexes[i].references)}
  IN  [index |-> i, manifests |-> manifests, foreign |-> FALSE, apart |-> TRUE, id |-> 1,
       chunks |-> [c \in ChunksOf(manifests) |-> [id |-> 1, bytes |-> c]]]
ThePackages ==
  {PackageWith(i) : i \in DOMAIN TheIndexes} \cup {[PackageWith(1) EXCEPT !.apart = FALSE]}
TheOperationOf == [p \in Callers |-> IF p = "p3" THEN "o2" ELSE "o1"]

Scene(callers, receivers, f, d) ==
  [callers |-> callers, receivers |-> receivers, faults |-> f, deaths |-> d]
TheScenes ==
  {Scene({"p1"}, {}, 1, 2), Scene({"p1"}, {}, 2, 0),
   Scene({"p1", "p3"}, {}, 0, 1), Scene({"p1", "p2"}, {}, 0, 1),
   Scene({}, {"r1"}, 2, 2), Scene({}, {"r1", "r2"}, 1, 1)}
TheObjects == {<<>>, <<2, 2>>, <<2, 1, 2, 1, 3>>}

ObjectFacts(ids, size) ==
  {o \in Device!ObjectAvailability(ids, {size}) : o.pinned => o.required}
Facts ==
  [policy: Device!Policies, lifecycle: {"active", "archived"}, session: BOOLEAN,
   history: BOOLEAN, keepLocal: BOOLEAN,
   objects: {<<>>} \cup {<<o>> : o \in ObjectFacts({"A"}, 1)}
              \cup {<<o, q>> : o \in ObjectFacts({"A"}, 2), q \in ObjectFacts({"A", "B"}, 3)}]
Requests ==
  {Device!Manual(yes) : yes \in BOOLEAN}
  \cup {Device!Inactivity(idle, 1, automatic, proposal) :
          idle \in 0 .. 1, automatic \in BOOLEAN, proposal \in BOOLEAN}

ASSUME ReportsExplained == \A input \in Facts : Device!StateIsExplained(input)
ASSUME ArchivesExplained ==
  \A input \in {f \in Facts : f.policy = "managed" /\ f.keepLocal}, request \in Requests :
    /\ Device!DecisionIsExplained(input, request)
    /\ Device!RemovalIsRecoverable(input, request)
    /\ Device!CostIsTold(input, request)
=============================================================================
