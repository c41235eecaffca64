----------------------------- MODULE BuildOrder -----------------------------
(***************************************************************************)
(* The pure ordering of queued builds in                                    *)
(* crates/liyasa-server/src/deploy/queue.rs: order and next.                *)
(* A build is a record [id, project, priority, created]; ids are ULIDs, so  *)
(* their text sorts as the numbers do.                                      *)
(***************************************************************************)
EXTENDS Integers, Sequences, FiniteSets, SequencesExt

(* Slip: newest first.                                                      *)
Newer(a, b) == a.created > b.created \/ (a.created = b.created /\ a.id > b.id)

(* The sort key (created_at, id).                                           *)
Older(a, b) == a.created < b.created \/ (a.created = b.created /\ a.id < b.id)

(* A sort of distinct keys: the n-th has n - 1 before it.                   *)
InOrder(S, before) ==
    [n \in 1 .. Cardinality(S) |->
        CHOOSE x \in S : Cardinality({y \in S : <<y, x>> \in before}) = n - 1]

ByAge(builds) == InOrder(builds, {p \in builds \X builds : Older(p[1], p[2])})
Ascending(S) == InOrder(S, {p \in S \X S : p[1] < p[2]})
Descending(S) == InOrder(S, {p \in S \X S : p[1] > p[2]})

(* The builds of one class, one lane per project, ...                       *)
Lane(class, p) == ByAge({x \in class : x.project = p})

(* Slip: projects take turns by their identity.                             *)
TurnsByProject(class) == Ascending({x.project : x \in class})

(* ... the projects in the order of their oldest builds, ...                *)
Turns(class) ==
    LET heads == {x \in class : \A y \in class : y.project = x.project => ~Older(y, x)}
        aged == ByAge(heads)
    IN  [n \in DOMAIN aged |-> aged[n].project]

(* ... and in each round one build of every lane that reaches so far.       *)
Round(class, n) ==
    LET turns == Turns(class)
        deep == Ascending({m \in DOMAIN turns : n \in DOMAIN Lane(class, turns[m])})
    IN  [m \in DOMAIN deep |-> Lane(class, turns[deep[m]])[n]]

Rounds(class) == FlattenSeq([n \in 1 .. Cardinality(class) |-> Round(class, n)])

Order(builds) ==
    LET ranks == Descending({x.priority : x \in builds})
    IN  FlattenSeq([n \in DOMAIN ranks |-> Rounds({x \in builds : x.priority = ranks[n]})])

(* Slip: a project at its limit holds up the whole queue.                   *)
HeadOfLine(builds, running, limit) ==
    LET o == Order(builds)
    IN  IF o = <<>> \/ running[o[1].project] >= limit THEN {} ELSE {o[1].id}

(* next: the first in order whose project is under its limit; running gives *)
(* the number of builds each project has under way.                         *)
ToStart(builds, running, limit) ==
    LET o == Order(builds)
        free == {n \in DOMAIN o : running[o[n].project] < limit}
    IN  {o[n].id : n \in {m \in free : \A k \in free : m <= k}}

-----------------------------------------------------------------------------
(* The rule of the file's first lines, as a relation on builds: the class,  *)
(* then how many builds of one's own project go first, then whose project   *)
(* has waited longest.                                                      *)
Ahead(builds, x) ==
    Cardinality({y \in builds : y.priority = x.priority /\ y.project = x.project /\ Older(y, x)})

Waiting(builds, x) ==
    CHOOSE y \in builds : /\ y.priority = x.priority /\ y.project = x.project
                          /\ Ahead(builds, y) = 0

Outranks(builds, x, y) ==
    \/ x.priority > y.priority
    \/ /\ x.priority = y.priority
       /\ \/ Ahead(builds, x) < Ahead(builds, y)
          \/ /\ Ahead(builds, x) = Ahead(builds, y)
             /\ Older(Waiting(builds, x), Waiting(builds, y))

IsRanked(builds) ==
    LET o == Order(builds) IN
    /\ Len(o) = Cardinality(builds)
    /\ {o[n] : n \in DOMAIN o} = builds
    /\ \A m, n \in DOMAIN o : m < n => Outranks(builds, o[m], o[n])
=============================================================================
