----------------------------- MODULE JobGroups -----------------------------
(***************************************************************************)
(* Who is in which job group: DedupService.deduplicate() (services/        *)
(* dedup.py), run by several consumers at once on batches of postings that *)
(* discovery has just inserted or seen again.                              *)
(*                                                                         *)
(* A run is one transaction of READ COMMITTED isolation.  It loads a pool, *)
(* clusters it, and persists each cluster that holds one of its seeds:     *)
(* find the oldest group of a member, or insert one, and attach every      *)
(* member to it.  What it writes is locked, and unseen by the others until *)
(* the commit.                                                             *)
(*                                                                         *)
(* Clustering itself is module Clustering.  Here two postings cluster when *)
(* they describe the same `job`, which a new version of a posting changes. *)
(***************************************************************************)
EXTENDS Naturals, FiniteSets

CONSTANTS
  Postings,
  Jobs,       \* what clustering can tell apart
  Consumers,  \* threads of the workers
  MaxRuns,    \* bound: runs started
  MaxQueued   \* bound: tasks waiting when discovery hands over another batch

ASSUME JobGroupsAssumption ==
  /\ MaxRuns \in Nat \ {0}
  /\ MaxQueued \in Nat \ {0}

VARIABLES
  open,    \* postings whose status is 'open'; the others are closed or yet to come
  job,     \* the job a posting describes
  queue,   \* seeds of the deduplicate tasks that are waiting
  started, \* runs started so far; it orders the groups by first_seen_at
  groups,  \* job_groups
  grp,     \* job_postings.job_group_id, as committed
  \* the run of each consumer
  run,     \* its number, 0 when idle
  seeds, todo,
  found,   \* the cluster in hand and the group it goes to
  mine,    \* uncommitted job_group_id of the postings it has locked
  done,    \* history: clusters it has attached
  quiet,   \* history: nothing else has changed a posting or a group since it began
  ever     \* history: clusters committed since the groups were last rebuilt

corpus == <<open, job>>
local == <<run, seeds, todo, found, mine, done, quiet>>
vars == <<corpus, queue, started, groups, grp, local, ever>>

\* first_seen_at is the start of the inserting transaction.
GroupIds == (1..MaxRuns) \X ((SUBSET Postings) \ {{}})
NoGroup == <<0, {}>>
Clusters == (SUBSET Postings) \ {{}}
Nothing == <<{}, NoGroup>>
NotMine == [p \in Postings |-> NoGroup]

TypeOK ==
  /\ open \subseteq Postings
  /\ job \in [Postings -> Jobs]
  /\ queue \subseteq Clusters
  /\ started \in 0..MaxRuns
  /\ groups \subseteq GroupIds
  /\ grp \in [Postings -> groups \cup {NoGroup}]
  /\ run \in [Consumers -> 0..started]
  /\ seeds \in [Consumers -> SUBSET Postings]
  /\ todo \in [Consumers -> SUBSET Clusters]
  /\ found \in [Consumers -> (Clusters \X GroupIds) \cup {Nothing}]
  /\ mine \in [Consumers -> [Postings -> GroupIds \cup {NoGroup}]]
  /\ done \in [Consumers -> SUBSET Clusters]
  /\ quiet \in [Consumers -> BOOLEAN]
  /\ ever \subseteq Clusters

Init ==
  /\ open = {}
  /\ job \in [Postings -> Jobs]
  /\ queue = {}
  /\ started = 0
  /\ groups = {}
  /\ grp = [p \in Postings |-> NoGroup]
  /\ run = [t \in Consumers |-> 0]
  /\ seeds = [t \in Consumers |-> {}]
  /\ todo = [t \in Consumers |-> {}]
  /\ found = [t \in Consumers |-> Nothing]
  /\ mine = [t \in Consumers |-> NotMine]
  /\ done = [t \in Consumers |-> {}]
  /\ quiet = [t \in Consumers |-> FALSE]
  /\ ever = {}

Idle(t) == run[t] = 0

\* Something outside the run of t happened.
Disturbed(others) == quiet' = [t \in Consumers |-> quiet[t] /\ t \notin others]

-----------------------------------------------------------------------------
(* The corpus *)

\* A discovery run commits what it fetched, new or not, and hands all of it over.
Discover(S) ==
  /\ Cardinality(queue) < MaxQueued
  /\ \E j \in [S -> Jobs] :
       job' = [p \in Postings |-> IF p \in S THEN j[p] ELSE job[p]]
  /\ open' = open \cup S
  /\ queue' = queue \cup {S}
  /\ Disturbed(Consumers)
  /\ UNCHANGED <<started, groups, grp, run, seeds, todo, found, mine, done, ever>>

Close(p) ==
  /\ p \in open
  /\ open' = open \ {p}
  /\ Disturbed(Consumers)
  /\ UNCHANGED <<job, queue, started, groups, grp, run, seeds, todo, found, mine, done, ever>>

Ungrouped == [p \in Postings |-> NoGroup]

\* `careerpilot redo-dedup`: every group is dropped and every open posting queued,
\* in batches.  Its UPDATE waits for the row locks of the runs.  (Bound: only while
\* no other task waits.)
RedoDedup(batches) ==
  /\ open # {} /\ queue = {}
  /\ UNION batches = open
  /\ \A S, T \in batches : S = T \/ S \cap T = {}
  /\ \A t \in Consumers : mine[t] = NotMine
  /\ grp' = Ungrouped
  /\ groups' = {}
  /\ ever' = {}
  /\ queue' = batches
  /\ Disturbed(Consumers)
  /\ UNCHANGED <<corpus, started, run, seeds, todo, found, mine, done>>

-----------------------------------------------------------------------------
(* A deduplication run *)

\* _load_comparison_pool: the seeds, their open neighbours, and those neighbours in
\* any state that share a canonical URL.
Pools(S) ==
  LET near(q) == \E s \in S : job[q] = job[s]
  IN {S \cup {q \in open : near(q)} \cup X : X \in SUBSET {q \in Postings \ open : near(q)}}

ClustersOf(pool) == {{q \in pool : job[q] = j} : j \in Jobs} \ {{}}

\* deduplicate(): the run begins, reads its pool and clusters it.
Start(t, S) ==
  /\ Idle(t)
  /\ started < MaxRuns
  /\ S \in queue
  /\ queue' = queue \ {S}
  /\ started' = started + 1
  /\ run' = [run EXCEPT ![t] = started + 1]
  /\ seeds' = [seeds EXCEPT ![t] = S]
  /\ \E pool \in Pools(S) :
       todo' = [todo EXCEPT ![t] = {C \in ClustersOf(pool) : C \cap S # {}}]
  /\ quiet' = [quiet EXCEPT ![t] = TRUE]
  /\ UNCHANGED <<corpus, groups, grp, found, mine, done, ever>>

Visible(t, p) == IF mine[t][p] # NoGroup THEN mine[t][p] ELSE grp[p]

\* ORDER BY min(g.first_seen_at) LIMIT 1
Oldest_Newest(G) == {g \in G : \A h \in G : h[1] <= g[1]}
Oldest(G) == {g \in G : \A h \in G : g[1] <= h[1]}

\* The groups of the members, WHERE p.id = ANY(:ids).
Existing_OfSeeds(t, C) == {Visible(t, p) : p \in seeds[t]} \ {NoGroup}
Existing(t, C) == {Visible(t, p) : p \in C} \ {NoGroup}

\* _persist: the SELECT.
Find(t, C) ==
  /\ C \in todo[t]
  /\ found[t] = Nothing
  /\ \E g \in IF Existing(t, C) = {} THEN {<<run[t], C>>} ELSE Oldest(Existing(t, C)) :
       found' = [found EXCEPT ![t] = <<C, g>>]
  /\ UNCHANGED <<corpus, queue, started, groups, grp, run, seeds, todo, mine, done, quiet, ever>>

\* The rows of a transaction that has not ended are locked.
Unlocked(t, C, g) ==
  \A u \in Consumers \ {t} : \A p \in Postings :
    mine[u][p] # NoGroup => p \notin C /\ mine[u][p] # g

\* The foreign key of job_group_id.
Exists(t, g) == g \in groups \/ g[1] = run[t]

Attached_Ungrouped(t, C, g) ==
  [p \in Postings |-> IF p \in C /\ grp[p] = NoGroup THEN g ELSE mine[t][p]]
Attached(t, C, g) == [p \in Postings |-> IF p \in C THEN g ELSE mine[t][p]]

\* _persist: the group is updated or inserted, its members are updated.
Attach(t) ==
  LET C == found[t][1]
      g == found[t][2]
  IN
  /\ found[t] # Nothing
  /\ Unlocked(t, C, g)
  /\ Exists(t, g)
  /\ mine' = [mine EXCEPT ![t] = Attached(t, C, g)]
  /\ todo' = [todo EXCEPT ![t] = @ \ {C}]
  /\ done' = [done EXCEPT ![t] = @ \cup {C}]
  /\ found' = [found EXCEPT ![t] = Nothing]
  /\ UNCHANGED <<corpus, queue, started, groups, grp, run, seeds, quiet, ever>>

EndRun(t) ==
  /\ run' = [run EXCEPT ![t] = 0]
  /\ seeds' = [seeds EXCEPT ![t] = {}]
  /\ todo' = [todo EXCEPT ![t] = {}]
  /\ found' = [found EXCEPT ![t] = Nothing]
  /\ mine' = [mine EXCEPT ![t] = NotMine]
  /\ done' = [done EXCEPT ![t] = {}]

Commit(t) ==
  /\ ~Idle(t)
  /\ todo[t] = {}
  /\ grp' = [p \in Postings |-> Visible(t, p)]
  /\ groups' = groups \cup ({grp'[p] : p \in Postings} \ {NoGroup})
  /\ ever' = ever \cup done[t]
  /\ EndRun(t)
  /\ quiet' = [u \in Consumers |-> FALSE]
  /\ UNCHANGED <<corpus, queue, started>>

\* The handler raises, loses a deadlock, breaks the foreign key, or its process dies:
\* its transaction is rolled back and the task is retried.
Abort(t) ==
  /\ ~Idle(t)
  /\ queue' = queue \cup {seeds[t]}
  /\ EndRun(t)
  /\ quiet' = [quiet EXCEPT ![t] = FALSE]
  /\ UNCHANGED <<corpus, started, groups, grp, ever>>

Next ==
  \/ \E S \in Clusters : Discover(S)
  \/ \E p \in Postings : Close(p)
  \/ \E batches \in SUBSET Clusters : RedoDedup(batches)
  \/ \E t \in Consumers : Attach(t) \/ Commit(t) \/ Abort(t)
  \/ \E t \in Consumers, C \in Clusters : Start(t, C) \/ Find(t, C)

Spec == Init /\ [][Next]_vars

-----------------------------------------------------------------------------
(* Properties *)

\* Linked by clusters that runs have committed.
Linked(p, q) ==
  \A S \in SUBSET Postings :
    p \in S /\ (\A C \in ever : C \cap S # {} => C \subseteq S) => q \in S

\* Two postings share a group only through a chain of clusters, however the runs
\* overlapped and whatever the postings became: the duplicate-application guard acts
\* on the group.
GroupsHaveClusters ==
  \A p, q \in Postings : grp[p] = grp[q] /\ grp[p] # NoGroup => Linked(p, q)

\* t commits, and neither a posting nor a group changed under it.
CommitsQuietly(t) == quiet[t] /\ Commit(t)

\* "Groups are stable across runs": a run that nothing overlapped moves a posting out
\* of its group never into a younger one, so that repeated runs settle.
StableGroups ==
  [][\A t \in Consumers, p \in Postings :
       CommitsQuietly(t) /\ grp[p] # NoGroup => grp'[p][1] <= grp[p][1]]_vars

\* Such a run unites every seed with every open posting of the same job, whatever
\* overlapping runs, closings and rebuilds had made of their groups before.
QuietRunUnites ==
  [][\A t \in Consumers : \A s \in seeds[t], q \in open :
       CommitsQuietly(t) /\ job[q] = job[s] => grp'[q] = grp'[s]]_vars

=============================================================================
