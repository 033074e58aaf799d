-------------------------- MODULE JobGroupsProofs --------------------------
(***************************************************************************)
(* TLAPS proofs about JobGroups, for every value of its constants.         *)
(***************************************************************************)
EXTENDS JobGroups, TLAPS

USE JobGroupsAssumption

-----------------------------------------------------------------------------
(* The inductive invariant *)

\* S takes no cluster of E apart.
Closed(E, S) == \A C \in E : C \cap S # {} => C \subseteq S

\* The clusters of E link p to the cluster the group g was founded with.
Founded(E, p, g) == \A S \in SUBSET Postings : p \in S /\ Closed(E, S) => g[2] \subseteq S

\* A consumer without a run holds nothing; one with a run was given seeds.
RunsOwn ==
  \A t \in Consumers :
    IF Idle(t) THEN todo[t] = {} /\ found[t] = Nothing /\ mine[t] = NotMine /\ done[t] = {}
    ELSE seeds[t] \in Clusters

\* No two runs under way share a number.
RunsApart == \A t, u \in Consumers : t # u /\ ~Idle(t) => run[t] # run[u]

\* A committed group was founded by a run that has ended.
GroupsOver == \A g \in groups : g[1] \in 1..started /\ \A t \in Consumers : run[t] # g[1]

\* What a run writes refers to a committed group or to one of its own.
MineKnown ==
  \A t \in Consumers, p \in Postings :
    mine[t][p] # NoGroup => mine[t][p] \in groups \/ mine[t][p][1] = run[t]

\* A run founds the group it is about to attach to, or has attached to it before, or has
\* read it: then it is committed and still linked to the cluster, or was dropped since.
ReadEarlier(C, g) ==
  /\ g[1] \in 1..started
  /\ \A u \in Consumers : run[u] # g[1]
  /\ g \in groups => \E p \in C : Founded(ever, p, g)

FoundKnown ==
  \A t \in Consumers :
    found[t] # Nothing =>
      LET C == found[t][1]
          g == found[t][2]
      IN  /\ C \in todo[t]
          /\ \/ g = <<run[t], C>>
             \/ \E p \in C : mine[t][p] = g
             \/ ReadEarlier(C, g)

GrpFounded == \A p \in Postings : grp[p] # NoGroup => Founded(ever, p, grp[p])

MineFounded ==
  \A t \in Consumers, p \in Postings :
    mine[t][p] # NoGroup => Founded(ever \cup done[t], p, mine[t][p])

RunInv == TypeOK /\ RunsOwn
GroupInv == RunsApart /\ GroupsOver /\ MineKnown /\ FoundKnown
LinkInv == GrpFounded /\ MineFounded

\* While nothing else has changed a posting or a group: a run attaches to the oldest group
\* it sees, so what it writes is never younger than what was there.
OldestFound ==
  \A t \in Consumers :
    quiet[t] =>
      /\ found[t] # Nothing =>
           \A p \in found[t][1] :
             Visible(t, p) # NoGroup => found[t][2][1] <= Visible(t, p)[1]
      /\ \A p \in Postings :
           mine[t][p] # NoGroup /\ grp[p] # NoGroup => mine[t][p][1] <= grp[p][1]

\* The clusters of a run that nothing overlapped: one for each job among its seeds, with
\* every open posting of that job; those attached are attached to one group.
SeedsCovered ==
  \A t \in Consumers :
    quiet[t] =>
      /\ \A C, D \in todo[t] \cup done[t] : \A p \in C, q \in D : job[p] = job[q] => C = D
      /\ \A s \in seeds[t] : \E C \in todo[t] \cup done[t] :
           s \in C /\ \A q \in open : job[q] = job[s] => q \in C
      /\ \A C \in done[t] : \A p, q \in C : mine[t][p] = mine[t][q] /\ mine[t][p] # NoGroup

-----------------------------------------------------------------------------
(* Helpers *)

LEMMA ReadType ==
  ASSUME TypeOK, NEW t \in Consumers, NEW p \in Postings
  PROVE  /\ mine[t][p] \in GroupIds \cup {NoGroup}
         /\ grp[p] \in groups \cup {NoGroup} /\ groups \subseteq GroupIds
         /\ Visible(t, p) \in GroupIds \cup {NoGroup}
         /\ run[t] \in 0..started /\ started \in 0..MaxRuns
BY DEF TypeOK, Visible

\* The number of a group is a run's.
LEMMA IdType ==
  ASSUME NEW g \in GroupIds
  PROVE  g[1] \in 1..MaxRuns /\ g[2] \in Clusters /\ g # NoGroup
BY DEF GroupIds, Clusters, NoGroup

\* What a cluster in hand and its group are.
LEMMA FoundType ==
  ASSUME TypeOK, NEW t \in Consumers, found[t] # Nothing
  PROVE  found[t][1] \in Clusters /\ found[t][2] \in GroupIds
BY DEF TypeOK

\* The group a run finds is one of its own, or one it reads from a member.
LEMMA FindsGroup ==
  ASSUME TypeOK, RunsOwn, NEW t \in Consumers, NEW C, C \in todo[t],
         NEW g \in IF Existing(t, C) = {} THEN {<<run[t], C>>} ELSE Oldest(Existing(t, C))
  PROVE  /\ C \in Clusters /\ ~Idle(t) /\ g \in GroupIds
         /\ \/ g = <<run[t], C>>
            \/ \E p \in C : g = Visible(t, p) /\ Visible(t, p) # NoGroup
<1>1. C \in Clusters /\ ~Idle(t)
  BY DEF TypeOK, RunsOwn
<1>2. run[t] \in 1..MaxRuns
  BY <1>1 DEF TypeOK, Idle
<1>3. CASE g = <<run[t], C>>
  BY <1>1, <1>2, <1>3 DEF GroupIds, Clusters
<1>4. CASE g \in Oldest(Existing(t, C))
  <2>1. PICK p \in C : g = Visible(t, p) /\ Visible(t, p) # NoGroup
    BY <1>4 DEF Oldest, Existing
  <2>2. p \in Postings
    BY <1>1 DEF Clusters
  <2> QED BY <1>1, <2>1, <2>2, ReadType
<1> QED BY <1>3, <1>4

-----------------------------------------------------------------------------
(* Type correctness *)

LEMMA RunInit == Init => RunInv
BY DEF Init, RunInv, TypeOK, RunsOwn, Idle, Nothing, NotMine, NoGroup, Clusters

LEMMA TypeEnd ==
  ASSUME TypeOK, NEW t \in Consumers, EndRun(t), started' = started
  PROVE  /\ run' \in [Consumers -> 0..started']
         /\ seeds' \in [Consumers -> SUBSET Postings]
         /\ todo' \in [Consumers -> SUBSET Clusters]
         /\ found' \in [Consumers -> (Clusters \X GroupIds) \cup {Nothing}]
         /\ mine' \in [Consumers -> [Postings -> GroupIds \cup {NoGroup}]]
         /\ done' \in [Consumers -> SUBSET Clusters]
<1>1. NotMine \in [Postings -> GroupIds \cup {NoGroup}] /\ 0 \in 0..started
  BY DEF NotMine, TypeOK
<1> QED BY <1>1 DEF TypeOK, EndRun

LEMMA EndsClean ==
  ASSUME TypeOK, RunsOwn, NEW t \in Consumers, EndRun(t)
  PROVE  RunsOwn'
BY DEF RunsOwn, EndRun, Idle, TypeOK

LEMMA RunStep == RunInv /\ [Next]_vars => RunInv'
<1> SUFFICES ASSUME TypeOK, RunsOwn, [Next]_vars PROVE TypeOK' /\ RunsOwn'
  BY DEF RunInv
<1>1. ASSUME NEW S \in Clusters, Discover(S)
      PROVE  TypeOK' /\ RunsOwn'
  <2>1. job' \in [Postings -> Jobs]
    BY <1>1 DEF Discover, TypeOK
  <2>2. open' \subseteq Postings /\ queue' \subseteq Clusters
    BY <1>1 DEF Discover, TypeOK, Clusters
  <2>3. quiet' \in [Consumers -> BOOLEAN]
    BY <1>1 DEF Discover, Disturbed, TypeOK
  <2> QED BY <1>1, <2>1, <2>2, <2>3 DEF Discover, TypeOK, RunsOwn, Idle
<1>2. ASSUME NEW p \in Postings, Close(p)
      PROVE  TypeOK' /\ RunsOwn'
  BY <1>2 DEF Close, Disturbed, TypeOK, RunsOwn, Idle
<1>3. ASSUME NEW batches \in SUBSET Clusters, RedoDedup(batches)
      PROVE  TypeOK' /\ RunsOwn'
  BY <1>3 DEF RedoDedup, Ungrouped, Disturbed, corpus, TypeOK, RunsOwn, Idle
<1>4. ASSUME NEW t \in Consumers, Attach(t)
      PROVE  TypeOK' /\ RunsOwn'
  <2>1. found[t][1] \in Clusters /\ found[t][2] \in GroupIds
    BY <1>4, FoundType DEF Attach
  <2>2. Attached(t, found[t][1], found[t][2]) \in [Postings -> GroupIds \cup {NoGroup}]
    BY <2>1 DEF Attached, TypeOK
  <2>3. mine' \in [Consumers -> [Postings -> GroupIds \cup {NoGroup}]]
    BY <1>4, <2>2 DEF Attach, TypeOK
  <2>4. todo' \in [Consumers -> SUBSET Clusters] /\ done' \in [Consumers -> SUBSET Clusters]
    BY <1>4, <2>1 DEF Attach, TypeOK
  <2>5. TypeOK'
    BY <1>4, <2>3, <2>4 DEF Attach, corpus, TypeOK
  <2>6. ~Idle(t)
    BY <1>4 DEF Attach, RunsOwn
  <2> QED BY <1>4, <2>5, <2>6 DEF Attach, RunsOwn, Idle, TypeOK
<1>5. ASSUME NEW t \in Consumers, Commit(t)
      PROVE  TypeOK' /\ RunsOwn'
  <2>1. \A p \in Postings : Visible(t, p) \in GroupIds \cup {NoGroup}
    BY ReadType
  <2>2. groups' \subseteq GroupIds /\ grp' \in [Postings -> groups' \cup {NoGroup}]
    BY <1>5, <2>1 DEF Commit, TypeOK
  <2>3. ever' \subseteq Clusters /\ quiet' \in [Consumers -> BOOLEAN]
    BY <1>5 DEF Commit, TypeOK
  <2> QED BY <1>5, <2>2, <2>3, TypeEnd, EndsClean DEF Commit, corpus, TypeOK
<1>6. ASSUME NEW t \in Consumers, Abort(t)
      PROVE  TypeOK' /\ RunsOwn'
  <2>1. queue' \subseteq Clusters
    BY <1>6 DEF Abort, RunsOwn, TypeOK
  <2>2. quiet' \in [Consumers -> BOOLEAN]
    BY <1>6 DEF Abort, TypeOK
  <2> QED BY <1>6, <2>1, <2>2, TypeEnd, EndsClean DEF Abort, corpus, TypeOK
<1>7. ASSUME NEW t \in Consumers, NEW S \in Clusters, Start(t, S)
      PROVE  TypeOK' /\ RunsOwn'
  <2>1. PICK pool \in Pools(S) :
          todo' = [todo EXCEPT ![t] = {C \in ClustersOf(pool) : C \cap S # {}}]
    BY <1>7 DEF Start
  <2>2. pool \subseteq Postings
    BY DEF Pools, Clusters, TypeOK
  <2>3. ClustersOf(pool) \subseteq Clusters
    BY <2>2 DEF ClustersOf, Clusters
  <2>4. todo' \in [Consumers -> SUBSET Clusters]
    BY <2>1, <2>3 DEF TypeOK
  <2>5. started' \in 0..MaxRuns /\ run' \in [Consumers -> 0..started']
    BY <1>7 DEF Start, TypeOK
  <2>6. seeds' \in [Consumers -> SUBSET Postings] /\ quiet' \in [Consumers -> BOOLEAN]
    BY <1>7 DEF Start, TypeOK, Clusters
  <2>7. TypeOK'
    BY <1>7, <2>4, <2>5, <2>6 DEF Start, corpus, TypeOK
  <2>8. run'[t] # 0 /\ seeds'[t] = S
    BY <1>7 DEF Start, TypeOK
  <2> QED BY <1>7, <2>1, <2>7, <2>8 DEF Start, RunsOwn, Idle, TypeOK
<1>8. ASSUME NEW t \in Consumers, NEW C \in Clusters, Find(t, C)
      PROVE  TypeOK' /\ RunsOwn'
  <2>1. PICK g \in IF Existing(t, C) = {} THEN {<<run[t], C>>} ELSE Oldest(Existing(t, C)) :
          found' = [found EXCEPT ![t] = <<C, g>>]
    BY <1>8 DEF Find
  <2>2. C \in Clusters /\ g \in GroupIds /\ ~Idle(t)
    BY <1>8, FindsGroup DEF Find
  <2>3. found' \in [Consumers -> (Clusters \X GroupIds) \cup {Nothing}]
    BY <2>1, <2>2 DEF TypeOK
  <2> QED BY <1>8, <2>1, <2>2, <2>3 DEF Find, corpus, TypeOK, RunsOwn, Idle
<1>9. CASE UNCHANGED vars
  BY <1>9 DEF vars, corpus, local, TypeOK, RunsOwn, Idle
<1> QED BY <1>1, <1>2, <1>3, <1>4, <1>5, <1>6, <1>7, <1>8, <1>9 DEF Next

-----------------------------------------------------------------------------
(* Links *)

LEMMA FoundedGrows ==
  ASSUME NEW E, NEW F, E \subseteq F, NEW p, NEW g, Founded(E, p, g)
  PROVE  Founded(F, p, g)
<1>1. ASSUME NEW S, Closed(F, S) PROVE Closed(E, S)
  BY <1>1 DEF Closed
<1> QED BY <1>1 DEF Founded

\* A cluster links its members to whatever one of them is linked to.
LEMMA FoundedByCluster ==
  ASSUME NEW E, NEW C \in E, NEW p \in C, NEW q \in C, NEW g, Founded(E, q, g)
  PROVE  Founded(E, p, g)
BY DEF Founded, Closed

LEMMA FoundedByOwn ==
  ASSUME NEW E, NEW C \in E, NEW p \in C, NEW n
  PROVE  Founded(E, p, <<n, C>>)
BY DEF Founded, Closed

\* A set that takes no cluster apart can be left out as a whole.
LEMMA ClosedComplement ==
  ASSUME NEW E, E \subseteq SUBSET Postings, NEW S \in SUBSET Postings, Closed(E, S)
  PROVE  Closed(E, Postings \ S)
BY DEF Closed

\* Members of one group are linked through its founding cluster.
LEMMA FoundedTogether ==
  ASSUME TypeOK, NEW p \in Postings, NEW q \in Postings, NEW g \in GroupIds,
         Founded(ever, p, g), Founded(ever, q, g)
  PROVE  Linked(p, q)
<1> SUFFICES ASSUME NEW S \in SUBSET Postings, p \in S, Closed(ever, S), q \notin S
             PROVE  FALSE
  BY DEF Linked, Closed
<1>1. g[2] \subseteq S
  BY DEF Founded
<1>2. Closed(ever, Postings \ S)
  BY ClosedComplement DEF TypeOK, Clusters
<1>3. g[2] \subseteq Postings \ S
  BY <1>2 DEF Founded
<1>4. g[2] # {}
  BY IdType DEF Clusters
<1> QED BY <1>1, <1>3, <1>4

-----------------------------------------------------------------------------
(* Where groups come from *)

LEMMA GroupInit == Init => GroupInv
BY DEF Init, GroupInv, RunsApart, GroupsOver, MineKnown, FoundKnown, NotMine, Idle

LEMMA ApartStep == RunInv /\ RunsApart /\ [Next]_vars => RunsApart'
<1> SUFFICES ASSUME TypeOK, RunsApart, [Next]_vars PROVE RunsApart'
  BY DEF RunInv
<1>1. ASSUME NEW t \in Consumers, NEW S \in Clusters, Start(t, S) PROVE RunsApart'
  BY <1>1 DEF Start, TypeOK, RunsApart, Idle
<1>2. ASSUME NEW t \in Consumers, EndRun(t) PROVE RunsApart'
  BY <1>2 DEF EndRun, TypeOK, RunsApart, Idle
<1>3. CASE UNCHANGED run
  BY <1>3 DEF RunsApart, Idle
<1> QED
  BY <1>1, <1>2, <1>3
  DEF Next, vars, local, Discover, Close, RedoDedup, Attach, Commit, Abort, Find

\* A run's groups are committed as it ends, and no later run takes its number.
LEMMA OverStep ==
  RunInv /\ RunsApart /\ GroupsOver /\ MineKnown /\ [Next]_vars => GroupsOver'
<1> SUFFICES ASSUME TypeOK, RunsOwn, RunsApart, GroupsOver, MineKnown, [Next]_vars
             PROVE  GroupsOver'
  BY DEF RunInv
<1>1. ASSUME NEW t \in Consumers, NEW S \in Clusters, Start(t, S) PROVE GroupsOver'
  <2>1. /\ started' = started + 1 /\ groups' = groups /\ started \in Nat
        /\ \A u \in Consumers : run'[u] = run[u] \/ run'[u] = started + 1
    BY <1>1 DEF Start, TypeOK
  <2>2. \A g \in groups : g[1] \in Nat /\ g[1] <= started
    BY <2>1 DEF GroupsOver
  <2> QED BY <2>1, <2>2 DEF GroupsOver
<1>2. ASSUME NEW t \in Consumers, Commit(t) PROVE GroupsOver'
  <2> SUFFICES ASSUME NEW g \in groups'
               PROVE  g[1] \in 1..started /\ \A u \in Consumers : run'[u] # g[1]
    BY <1>2 DEF GroupsOver, Commit
  <2>1. run' = [run EXCEPT ![t] = 0] /\ ~Idle(t)
    BY <1>2 DEF Commit, EndRun
  <2>2. CASE g \in groups
    BY <2>1, <2>2 DEF GroupsOver, TypeOK
  <2>3. CASE g \notin groups
    <3>1. PICK p \in Postings : g = Visible(t, p) /\ g # NoGroup
      BY <1>2, <2>3 DEF Commit
    <3>2. mine[t][p] = g /\ g[1] = run[t]
      BY <2>3, <3>1, ReadType DEF Visible, MineKnown
    <3>3. run[t] \in 1..started
      BY <2>1 DEF TypeOK, Idle
    <3> QED BY <2>1, <3>2, <3>3 DEF RunsApart, TypeOK
  <2> QED BY <2>2, <2>3
<1>3. ASSUME NEW t \in Consumers, Abort(t) PROVE GroupsOver'
  BY <1>3 DEF Abort, EndRun, GroupsOver, TypeOK
<1>4. ASSUME NEW B, RedoDedup(B) PROVE GroupsOver'
  BY <1>4 DEF RedoDedup, GroupsOver
<1>5. CASE UNCHANGED <<run, started, groups>>
  BY <1>5 DEF GroupsOver
<1> QED
  BY <1>1, <1>2, <1>3, <1>4, <1>5
  DEF Next, vars, local, Discover, Close, Attach, Find

LEMMA MineStep ==
  RunInv /\ MineKnown /\ FoundKnown /\ [Next]_vars => MineKnown'
<1> SUFFICES ASSUME TypeOK, RunsOwn, MineKnown, FoundKnown, [Next]_vars PROVE MineKnown'
  BY DEF RunInv
<1>1. ASSUME NEW t \in Consumers, NEW S \in Clusters, Start(t, S) PROVE MineKnown'
  <2>1. mine' = mine /\ groups' = groups /\ mine[t] = NotMine
    BY <1>1 DEF Start, RunsOwn
  <2>2. \A u \in Consumers \ {t} : run'[u] = run[u]
    BY <1>1 DEF Start, TypeOK
  <2> QED BY <2>1, <2>2 DEF MineKnown, NotMine
<1>2. ASSUME NEW t \in Consumers, Attach(t) PROVE MineKnown'
  <2>1. /\ mine' = [mine EXCEPT ![t] = Attached(t, found[t][1], found[t][2])]
        /\ groups' = groups /\ run' = run
        /\ found[t][2] \in groups \/ found[t][2][1] = run[t]
    BY <1>2 DEF Attach, Exists
  <2>2. \A p \in Postings : mine'[t][p] = mine[t][p] \/ mine'[t][p] = found[t][2]
    BY <2>1 DEF Attached, TypeOK
  <2>3. \A u \in Consumers \ {t} : mine'[u] = mine[u]
    BY <2>1 DEF TypeOK
  <2> QED BY <2>1, <2>2, <2>3 DEF MineKnown
<1>3. ASSUME NEW t \in Consumers, EndRun(t), groups \subseteq groups' PROVE MineKnown'
  <2>1. mine'[t] = NotMine /\ \A u \in Consumers \ {t} : mine'[u] = mine[u] /\ run'[u] = run[u]
    BY <1>3 DEF EndRun, TypeOK
  <2> QED BY <1>3, <2>1 DEF MineKnown, NotMine
<1>4. ASSUME NEW B, RedoDedup(B) PROVE MineKnown'
  BY <1>4 DEF RedoDedup, MineKnown, NotMine
<1>5. CASE UNCHANGED <<run, mine, groups>>
  BY <1>5 DEF MineKnown
<1>6. ASSUME NEW t \in Consumers, Commit(t) \/ Abort(t) PROVE MineKnown'
  BY <1>3, <1>6 DEF Commit, Abort
<1> QED
  BY <1>1, <1>2, <1>4, <1>5, <1>6
  DEF Next, vars, local, Discover, Close, Find

LEMMA FoundStep ==
  RunInv /\ GroupInv /\ GrpFounded /\ [Next]_vars => FoundKnown'
<1> SUFFICES ASSUME RunInv, TypeOK, RunsOwn, RunsApart, GroupsOver, MineKnown, FoundKnown,
                    GrpFounded, [Next]_vars
             PROVE  FoundKnown'
  BY DEF RunInv, GroupInv
<1>0. \A t \in Consumers : found[t] # Nothing => found[t][1] \in Clusters /\ found[t][2] \in GroupIds
  BY FoundType
<1>1. ASSUME NEW t \in Consumers, NEW S \in Clusters, Start(t, S) PROVE FoundKnown'
  <2>1. /\ UNCHANGED <<found, mine, groups, ever>> /\ found[t] = Nothing
        /\ started' = started + 1 /\ started \in Nat
        /\ \A u \in Consumers : run'[u] = run[u] \/ run'[u] = started + 1
        /\ \A u \in Consumers \ {t} : run'[u] = run[u] /\ todo'[u] = todo[u]
    BY <1>1 DEF Start, RunsOwn, TypeOK
  <2>2. \A C, g : ReadEarlier(C, g) => ReadEarlier(C, g)'
    BY <2>1 DEF ReadEarlier
  <2> QED BY <2>1, <2>2 DEF FoundKnown
<1>2. ASSUME NEW t \in Consumers, NEW C \in Clusters, Find(t, C) PROVE FoundKnown'
  <2>1. UNCHANGED <<started, groups, grp, run, mine, todo, ever>> /\ C \in todo[t]
    BY <1>2 DEF Find
  <2>2. PICK g \in IF Existing(t, C) = {} THEN {<<run[t], C>>} ELSE Oldest(Existing(t, C)) :
          found' = [found EXCEPT ![t] = <<C, g>>]
    BY <1>2 DEF Find
  <2>3. \A B, h : ReadEarlier(B, h) => ReadEarlier(B, h)'
    BY <2>1 DEF ReadEarlier
  <2>4. g = <<run[t], C>> \/ (\E p \in C : mine[t][p] = g) \/ ReadEarlier(C, g)
    <3>1. CASE g = <<run[t], C>>
      BY <3>1
    <3>2. ASSUME NEW p \in C, g = Visible(t, p), Visible(t, p) # NoGroup, mine[t][p] # g
          PROVE  ReadEarlier(C, g)
      <4>1. p \in Postings
        BY DEF Clusters
      <4>2. grp[p] = g /\ g \in groups /\ g # NoGroup
        BY <3>2, <4>1, ReadType DEF Visible
      <4>3. Founded(ever, p, g)
        BY <4>1, <4>2 DEF GrpFounded
      <4> QED BY <4>2, <4>3 DEF ReadEarlier, GroupsOver
    <3> QED BY <2>1, <2>2, <3>1, <3>2, FindsGroup
  <2>5. ASSUME NEW u \in Consumers \ {t}
        PROVE  found'[u] = found[u]
    BY <2>2 DEF TypeOK
  <2>6. found'[t] = <<C, g>>
    BY <2>2 DEF TypeOK
  <2> QED BY <2>1, <2>3, <2>4, <2>5, <2>6 DEF FoundKnown
<1>3. ASSUME NEW t \in Consumers, Attach(t) PROVE FoundKnown'
  <2>1. /\ UNCHANGED <<started, groups, run, ever>> /\ found'[t] = Nothing
        /\ \A u \in Consumers \ {t} :
             found'[u] = found[u] /\ mine'[u] = mine[u] /\ todo'[u] = todo[u]
    BY <1>3 DEF Attach, TypeOK
  <2>2. \A B, h : ReadEarlier(B, h) => ReadEarlier(B, h)'
    BY <2>1 DEF ReadEarlier
  <2> QED BY <2>1, <2>2 DEF FoundKnown
<1>4. ASSUME NEW t \in Consumers, Commit(t) PROVE FoundKnown'
  <2>1. /\ started' = started /\ run' = [run EXCEPT ![t] = 0] /\ found'[t] = Nothing
        /\ ever \subseteq ever' /\ run'[t] = 0
        /\ \A u \in Consumers \ {t} :
             found'[u] = found[u] /\ mine'[u] = mine[u] /\ todo'[u] = todo[u] /\ run'[u] = run[u]
    BY <1>4 DEF Commit, EndRun, TypeOK
  <2>2. ASSUME NEW g \in groups' \ groups
        PROVE  g[1] = run[t]
    <3>1. PICK p \in Postings : g = Visible(t, p) /\ g # NoGroup
      BY <1>4 DEF Commit
    <3> QED BY <3>1, ReadType DEF Visible, MineKnown
  <2>3. ASSUME NEW C, NEW g \in GroupIds, ReadEarlier(C, g)
        PROVE  ReadEarlier(C, g)'
    <3>1. g[1] \in 1..started' /\ \A u \in Consumers : run'[u] # g[1]
      BY <2>1, <2>3 DEF ReadEarlier, TypeOK
    <3>2. g \in groups' => \E p \in C : Founded(ever', p, g)
      BY <2>1, <2>2, <2>3, FoundedGrows DEF ReadEarlier
    <3>3. \A p : Founded(ever', p, g) => Founded(ever, p, g)'
      BY DEF Founded, Closed
    <3> QED BY <3>1, <3>2, <3>3 DEF ReadEarlier
  <2>4. ASSUME NEW u \in Consumers \ {t}, found[u] # Nothing
        PROVE  LET C == found[u][1]
                   g == found[u][2]
               IN  /\ C \in todo'[u]
                   /\ g = <<run'[u], C>> \/ (\E p \in C : mine'[u][p] = g) \/ ReadEarlier(C, g)'
    BY <1>0, <2>1, <2>3, <2>4 DEF FoundKnown
  <2> QED BY <2>1, <2>4 DEF FoundKnown
<1>5. ASSUME NEW t \in Consumers, Abort(t) PROVE FoundKnown'
  <2>1. /\ UNCHANGED <<started, groups, ever>> /\ found'[t] = Nothing /\ run'[t] = 0
        /\ \A u \in Consumers \ {t} :
             found'[u] = found[u] /\ mine'[u] = mine[u] /\ todo'[u] = todo[u] /\ run'[u] = run[u]
    BY <1>5 DEF Abort, EndRun, TypeOK
  <2>2. \A B, h : ReadEarlier(B, h) => ReadEarlier(B, h)'
    BY <2>1 DEF ReadEarlier
  <2> QED BY <2>1, <2>2 DEF FoundKnown
<1>6. ASSUME NEW B, RedoDedup(B) PROVE FoundKnown'
  <2>1. /\ UNCHANGED <<started, run, found, todo, mine>> /\ groups' = {}
        /\ \A u \in Consumers : mine[u] = NotMine
    BY <1>6 DEF RedoDedup
  <2>2. \A C, h : ReadEarlier(C, h) => ReadEarlier(C, h)'
    BY <2>1 DEF ReadEarlier
  <2> QED BY <2>1, <2>2 DEF FoundKnown
<1>7. CASE UNCHANGED <<started, run, found, todo, mine, groups, ever>>
  <2>1. \A C, h : ReadEarlier(C, h) => ReadEarlier(C, h)'
    BY <1>7 DEF ReadEarlier
  <2> QED BY <1>7, <2>1 DEF FoundKnown
<1> QED
  BY <1>1, <1>2, <1>3, <1>4, <1>5, <1>6, <1>7
  DEF Next, vars, local, Discover, Close

-----------------------------------------------------------------------------
(* Groups and the clusters that made them *)

LEMMA LinkInit == Init => LinkInv
BY DEF Init, LinkInv, GrpFounded, MineFounded, NotMine

\* Attaching a cluster links each of its members to the group.
LEMMA AttachFounds ==
  ASSUME RunInv, FoundKnown, LinkInv, NEW t \in Consumers, Attach(t),
         NEW p \in found[t][1]
  PROVE  Founded(ever \cup done[t] \cup {found[t][1]}, p, found[t][2])
<1> DEFINE C == found[t][1]
           g == found[t][2]
           E == ever \cup done[t] \cup {C}
<1>1. C \in Clusters /\ g \in GroupIds /\ found[t] # Nothing
  BY FoundType DEF Attach, RunInv
<1>2. CASE g = <<run[t], C>>
  BY <1>2, FoundedByOwn
<1>3. ASSUME NEW q \in C, mine[t][q] = g PROVE Founded(E, p, g)
  <2>1. Founded(ever \cup done[t], q, g)
    BY <1>1, <1>3, IdType DEF LinkInv, MineFounded, Clusters
  <2>2. Founded(E, q, g)
    BY <2>1, FoundedGrows
  <2> QED BY <2>2, FoundedByCluster
<1>4. ASSUME ReadEarlier(C, g) PROVE Founded(E, p, g)
  <2>1. CASE g \in groups
    <3>1. PICK q \in C : Founded(ever, q, g)
      BY <1>4, <2>1 DEF ReadEarlier
    <3>2. Founded(E, q, g)
      BY <3>1, FoundedGrows
    <3> QED BY <3>2, FoundedByCluster
  <2>2. CASE g[1] = run[t]
    BY <1>4, <2>2 DEF ReadEarlier
  <2> QED BY <2>1, <2>2 DEF Attach, Exists
<1> QED BY <1>1, <1>2, <1>3, <1>4 DEF FoundKnown

LEMMA LinkStep ==
  RunInv /\ FoundKnown /\ LinkInv /\ [Next]_vars => LinkInv'
<1> SUFFICES ASSUME RunInv, TypeOK, RunsOwn, FoundKnown, LinkInv, GrpFounded, MineFounded,
                    [Next]_vars
             PROVE  LinkInv'
  BY DEF RunInv, LinkInv
<1>1. ASSUME NEW t \in Consumers, Attach(t) PROVE LinkInv'
  <2> DEFINE C == found[t][1]
             g == found[t][2]
  <2>1. /\ UNCHANGED <<grp, ever>> /\ done'[t] = done[t] \cup {C}
        /\ mine'[t] = Attached(t, C, g)
        /\ \A u \in Consumers \ {t} : mine'[u] = mine[u] /\ done'[u] = done[u]
    BY <1>1 DEF Attach, TypeOK
  <2>2. ASSUME NEW p \in Postings, mine'[t][p] # NoGroup
        PROVE  Founded(ever \cup done'[t], p, mine'[t][p])
    <3>1. CASE p \in C
      <4>1. mine'[t][p] = g
        BY <2>1, <3>1 DEF Attached
      <4>2. Founded(ever \cup done[t] \cup {C}, p, g)
        BY <1>1, <3>1, AttachFounds
      <4>3. ever \cup done'[t] = ever \cup done[t] \cup {C}
        BY <2>1
      <4> QED BY <4>1, <4>2, <4>3
    <3>2. CASE p \notin C
      <4>1. mine'[t][p] = mine[t][p]
        BY <2>1, <3>2 DEF Attached
      <4>2. Founded(ever \cup done[t], p, mine[t][p])
        BY <2>2, <4>1 DEF MineFounded
      <4>3. ever \cup done[t] \subseteq ever \cup done'[t]
        BY <2>1
      <4> QED BY <4>1, <4>2, <4>3, FoundedGrows
    <3> QED BY <3>1, <3>2
  <2>3. MineFounded'
    BY <2>1, <2>2 DEF MineFounded, Founded, Closed
  <2>4. GrpFounded'
    BY <2>1 DEF GrpFounded, Founded, Closed
  <2> QED BY <2>3, <2>4 DEF LinkInv
<1>2. ASSUME NEW t \in Consumers, Commit(t) PROVE LinkInv'
  <2>1. /\ ever' = ever \cup done[t] /\ mine'[t] = NotMine
        /\ \A u \in Consumers \ {t} : mine'[u] = mine[u] /\ done'[u] = done[u]
        /\ \A p \in Postings : grp'[p] = Visible(t, p)
    BY <1>2 DEF Commit, EndRun, TypeOK
  <2>2. ASSUME NEW p \in Postings, grp'[p] # NoGroup
        PROVE  Founded(ever', p, grp'[p])
    <3>1. CASE mine[t][p] # NoGroup
      BY <2>1, <3>1 DEF Visible, MineFounded
    <3>2. CASE mine[t][p] = NoGroup
      <4>1. grp'[p] = grp[p] /\ Founded(ever, p, grp[p])
        BY <2>1, <2>2, <3>2 DEF Visible, GrpFounded
      <4> QED BY <2>1, <4>1, FoundedGrows
    <3> QED BY <3>1, <3>2
  <2>3. ASSUME NEW u \in Consumers, NEW p \in Postings, mine'[u][p] # NoGroup
        PROVE  Founded(ever' \cup done'[u], p, mine'[u][p])
    <3>1. u # t
      BY <2>1, <2>3 DEF NotMine
    <3>2. Founded(ever \cup done[u], p, mine[u][p]) /\ mine'[u] = mine[u] /\ done'[u] = done[u]
      BY <2>1, <2>3, <3>1 DEF MineFounded
    <3>3. ever \cup done[u] \subseteq ever' \cup done'[u]
      BY <2>1, <3>2
    <3> QED BY <3>2, <3>3, FoundedGrows
  <2> QED BY <2>2, <2>3 DEF LinkInv, GrpFounded, MineFounded, Founded, Closed
<1>3. ASSUME NEW t \in Consumers, Abort(t) PROVE LinkInv'
  <2>1. /\ UNCHANGED <<grp, ever>> /\ mine'[t] = NotMine
        /\ \A u \in Consumers \ {t} : mine'[u] = mine[u] /\ done'[u] = done[u]
    BY <1>3 DEF Abort, EndRun, TypeOK
  <2> QED BY <2>1 DEF LinkInv, GrpFounded, MineFounded, NotMine, Founded, Closed
<1>4. ASSUME NEW B, RedoDedup(B) PROVE LinkInv'
  BY <1>4 DEF RedoDedup, Ungrouped, LinkInv, GrpFounded, MineFounded, NotMine
<1>5. CASE UNCHANGED <<grp, ever, mine, done>>
  BY <1>5 DEF LinkInv, GrpFounded, MineFounded, Founded, Closed
<1> QED
  BY <1>1, <1>2, <1>3, <1>4, <1>5
  DEF Next, vars, local, Discover, Close, Start, Find

-----------------------------------------------------------------------------
(* Runs that nothing overlaps *)

LEMMA OldestInit == Init => OldestFound
BY DEF Init, OldestFound

LEMMA OldestStep == RunInv /\ OldestFound /\ [Next]_vars => OldestFound'
<1> SUFFICES ASSUME RunInv, TypeOK, RunsOwn, OldestFound, [Next]_vars
             PROVE  OldestFound'
  BY DEF RunInv
<1> USE DEF OldestFound
<1>1. ASSUME NEW t \in Consumers, NEW S \in Clusters, Start(t, S) PROVE OldestFound'
  <2>1. /\ UNCHANGED <<found, mine, grp>> /\ found[t] = Nothing /\ mine[t] = NotMine
        /\ \A u \in Consumers \ {t} : quiet'[u] = quiet[u]
    BY <1>1 DEF Start, RunsOwn, TypeOK
  <2> QED BY <2>1 DEF NotMine, Visible
<1>2. ASSUME NEW t \in Consumers, NEW C \in Clusters, Find(t, C) PROVE OldestFound'
  <2>1. UNCHANGED <<mine, grp, quiet>> /\ C \in todo[t]
    BY <1>2 DEF Find
  <2>2. PICK g \in IF Existing(t, C) = {} THEN {<<run[t], C>>} ELSE Oldest(Existing(t, C)) :
          found' = [found EXCEPT ![t] = <<C, g>>]
    BY <1>2 DEF Find
  <2>3. found'[t] = <<C, g>> /\ \A u \in Consumers \ {t} : found'[u] = found[u]
    BY <2>2 DEF TypeOK
  <2>4. \A p \in C : Visible(t, p) # NoGroup => g[1] <= Visible(t, p)[1]
    BY <2>2 DEF Existing, Oldest
  <2> QED BY <2>1, <2>3, <2>4 DEF Visible
<1>3. ASSUME NEW t \in Consumers, Attach(t) PROVE OldestFound'
  <2> DEFINE C == found[t][1]
             g == found[t][2]
  <2>1. /\ UNCHANGED <<grp, quiet>> /\ found[t] # Nothing /\ found'[t] = Nothing
        /\ mine'[t] = Attached(t, C, g)
        /\ \A u \in Consumers \ {t} : mine'[u] = mine[u] /\ found'[u] = found[u]
    BY <1>3 DEF Attach, TypeOK
  <2>2. ASSUME quiet[t], NEW p \in Postings, mine'[t][p] # NoGroup, grp[p] # NoGroup
        PROVE  mine'[t][p][1] <= grp[p][1]
    <3>1. CASE p \notin C
      BY <2>1, <2>2, <3>1 DEF Attached
    <3>2. CASE p \in C
      <4>1. mine'[t][p] = g
        BY <2>1, <3>2 DEF Attached
      <4>2. Visible(t, p) # NoGroup
        BY <2>2 DEF Visible
      <4>3. g[1] <= Visible(t, p)[1]
        BY <2>1, <2>2, <3>2, <4>2
      <4>4. CASE mine[t][p] = NoGroup
        BY <4>1, <4>3, <4>4 DEF Visible
      <4>5. CASE mine[t][p] # NoGroup
        <5>1. mine[t][p][1] <= grp[p][1] /\ g[1] <= mine[t][p][1]
          BY <2>2, <4>3, <4>5 DEF Visible
        <5>2. g[1] \in Nat /\ mine[t][p][1] \in Nat /\ grp[p][1] \in Nat
          BY <2>1, <2>2, <4>5, FoundType, ReadType, IdType
        <5> QED BY <4>1, <5>1, <5>2
      <4> QED BY <4>4, <4>5
    <3> QED BY <3>1, <3>2
  <2> QED BY <2>1, <2>2 DEF Visible
<1>4. ASSUME NEW t \in Consumers, Abort(t) PROVE OldestFound'
  <2>1. /\ grp' = grp /\ quiet'[t] = FALSE
        /\ \A u \in Consumers \ {t} :
             mine'[u] = mine[u] /\ found'[u] = found[u] /\ quiet'[u] = quiet[u]
    BY <1>4 DEF Abort, EndRun, TypeOK
  <2> QED BY <2>1 DEF Visible
<1>5. ASSUME \A u \in Consumers : quiet'[u] = FALSE PROVE OldestFound'
  BY <1>5
<1>6. CASE UNCHANGED <<found, mine, grp, quiet>>
  BY <1>6 DEF Visible
<1> QED
  BY <1>1, <1>2, <1>3, <1>4, <1>5, <1>6
  DEF Next, vars, local, Discover, Close, RedoDedup, Commit, Disturbed

LEMMA CoveredInit == Init => SeedsCovered
BY DEF Init, SeedsCovered

\* _load_comparison_pool and cluster_postings: at its start a run has one cluster for each
\* job among its seeds, with every open posting of that job.
LEMMA StartCovers ==
  ASSUME TypeOK, RunsOwn, NEW t \in Consumers, NEW S \in Clusters, Start(t, S)
  PROVE  /\ done'[t] = {} /\ seeds'[t] = S /\ UNCHANGED <<open, job>>
         /\ \A C, D \in todo'[t] : \A p \in C, q \in D : job[p] = job[q] => C = D
         /\ \A s \in S : \E C \in todo'[t] :
              s \in C /\ \A q \in open : job[q] = job[s] => q \in C
<1>1. PICK pool \in Pools(S) :
        todo' = [todo EXCEPT ![t] = {C \in ClustersOf(pool) : C \cap S # {}}]
  BY DEF Start
<1>2. todo'[t] = {C \in ClustersOf(pool) : C \cap S # {}}
  BY <1>1 DEF TypeOK
<1>3. done'[t] = {} /\ seeds'[t] = S /\ UNCHANGED <<open, job>>
  BY DEF Start, RunsOwn, TypeOK, corpus
<1>4. ASSUME NEW C \in todo'[t], NEW D \in todo'[t], NEW p \in C, NEW q \in D, job[p] = job[q]
      PROVE  C = D
  <2>1. PICK i \in Jobs : C = {x \in pool : job[x] = i}
    BY <1>2 DEF ClustersOf
  <2>2. PICK j \in Jobs : D = {x \in pool : job[x] = j}
    BY <1>2 DEF ClustersOf
  <2> QED BY <1>4, <2>1, <2>2
<1>5. ASSUME NEW s \in S
      PROVE  \E C \in todo'[t] : s \in C /\ \A q \in open : job[q] = job[s] => q \in C
  <2> DEFINE C == {x \in pool : job[x] = job[s]}
  <2>1. s \in Postings /\ job[s] \in Jobs
    BY DEF Clusters, TypeOK
  <2>2. s \in pool /\ \A q \in open : job[q] = job[s] => q \in pool
    BY DEF Pools
  <2>3. s \in C /\ C \in ClustersOf(pool)
    BY <2>1, <2>2 DEF ClustersOf
  <2>4. C \in todo'[t]
    BY <1>2, <2>3
  <2> QED BY <2>2, <2>3, <2>4
<1> QED BY <1>3, <1>4, <1>5

LEMMA CoveredStep == RunInv /\ FoundKnown /\ SeedsCovered /\ [Next]_vars => SeedsCovered'
<1> SUFFICES ASSUME RunInv, TypeOK, RunsOwn, FoundKnown, SeedsCovered, [Next]_vars
             PROVE  SeedsCovered'
  BY DEF RunInv
<1> USE DEF SeedsCovered
<1>1. ASSUME NEW t \in Consumers, NEW S \in Clusters, Start(t, S) PROVE SeedsCovered'
  <2>1. /\ done'[t] = {} /\ seeds'[t] = S /\ UNCHANGED <<open, job>>
        /\ \A C, D \in todo'[t] : \A p \in C, q \in D : job[p] = job[q] => C = D
        /\ \A s \in S : \E C \in todo'[t] :
             s \in C /\ \A q \in open : job[q] = job[s] => q \in C
    BY <1>1, StartCovers
  <2>2. \A u \in Consumers \ {t} :
          quiet'[u] = quiet[u] /\ todo'[u] = todo[u] /\ seeds'[u] = seeds[u]
    BY <1>1 DEF Start, TypeOK
  <2>3. UNCHANGED <<mine, done>>
    BY <1>1 DEF Start
  <2> QED BY <2>1, <2>2, <2>3
<1>2. ASSUME NEW t \in Consumers, Attach(t) PROVE SeedsCovered'
  <2> DEFINE C == found[t][1]
             g == found[t][2]
  <2>1. /\ UNCHANGED <<open, job, seeds, quiet>>
        /\ mine'[t] = Attached(t, C, g)
        /\ todo'[t] = todo[t] \ {C} /\ done'[t] = done[t] \cup {C}
        /\ \A u \in Consumers \ {t} : mine'[u] = mine[u] /\ todo'[u] = todo[u] /\ done'[u] = done[u]
    BY <1>2 DEF Attach, TypeOK, corpus
  <2>2. C \in todo[t] /\ C \in Clusters /\ g \in GroupIds
    BY <1>2, FoundType DEF Attach, FoundKnown
  <2>3. todo'[t] \cup done'[t] = todo[t] \cup done[t]
    BY <2>1, <2>2
  <2>4. ASSUME quiet[t], NEW D \in done'[t], NEW p \in D, NEW q \in D
        PROVE  mine'[t][p] = mine'[t][q] /\ mine'[t][p] # NoGroup
    <3>1. D \subseteq Postings
      BY <2>1, <2>2 DEF TypeOK, Clusters
    <3>2. CASE D = C
      BY <2>1, <2>2, <3>1, <3>2, IdType DEF Attached
    <3>3. CASE D # C
      <4>1. p \notin C /\ q \notin C
        BY <2>1, <2>2, <2>4, <3>3
      <4> QED BY <2>1, <2>4, <3>1, <3>3, <4>1 DEF Attached
    <3> QED BY <3>2, <3>3
  <2> QED BY <2>1, <2>3, <2>4
<1>3. ASSUME NEW t \in Consumers, Abort(t) PROVE SeedsCovered'
  <2>1. /\ UNCHANGED <<open, job>> /\ quiet'[t] = FALSE
        /\ \A u \in Consumers \ {t} :
             /\ mine'[u] = mine[u] /\ todo'[u] = todo[u] /\ done'[u] = done[u]
             /\ seeds'[u] = seeds[u] /\ quiet'[u] = quiet[u]
    BY <1>3 DEF Abort, EndRun, TypeOK, corpus
  <2> QED BY <2>1
<1>4. ASSUME \A u \in Consumers : quiet'[u] = FALSE PROVE SeedsCovered'
  BY <1>4
<1>5. CASE UNCHANGED <<open, job, seeds, todo, mine, done, quiet>>
  BY <1>5
<1> QED
  BY <1>1, <1>2, <1>3, <1>4, <1>5
  DEF Next, vars, corpus, local, Discover, Close, RedoDedup, Commit, Find, Disturbed

-----------------------------------------------------------------------------
(* Theorems *)

\* The inductive invariant: where groups come from, and how clusters link their members.
IInv == RunInv /\ GroupInv /\ LinkInv

LEMMA Inductive == Spec => []IInv
<1>1. Init => IInv
  BY RunInit, GroupInit, LinkInit DEF IInv
<1>2. IInv /\ [Next]_vars => IInv'
  BY RunStep, ApartStep, OverStep, MineStep, FoundStep, LinkStep
  DEF IInv, GroupInv, LinkInv
<1> QED BY <1>1, <1>2, PTL DEF Spec

\* Groups, runs and what they hold have their types, whatever overlaps.
THEOREM TypeCorrect == Spec => []TypeOK
<1>1. IInv => TypeOK
  BY DEF IInv, RunInv
<1> QED BY <1>1, Inductive, PTL

\* DedupService._persist: two postings share a group only through a chain of clusters that
\* runs committed, however runs overlap, abort or find a group that a rebuild has dropped.
THEOREM GroupsLinked == Spec => []GroupsHaveClusters
<1>1. IInv => GroupsHaveClusters
  <2> SUFFICES ASSUME IInv, NEW p \in Postings, NEW q \in Postings,
                      grp[p] = grp[q], grp[p] # NoGroup
               PROVE  Linked(p, q)
    BY DEF GroupsHaveClusters
  <2>1. grp[p] \in GroupIds /\ TypeOK
    BY DEF IInv, RunInv, TypeOK
  <2>2. Founded(ever, p, grp[p]) /\ Founded(ever, q, grp[p])
    BY DEF IInv, LinkInv, GrpFounded
  <2> QED BY <2>1, <2>2, FoundedTogether
<1> QED BY <1>1, Inductive, PTL

\* "Groups are stable across runs" (services/dedup.py): a run that nothing overlapped never
\* moves a posting into a younger group.
THEOREM GroupsSettle == Spec => StableGroups
<1> DEFINE Settles == \A t \in Consumers, p \in Postings :
                        CommitsQuietly(t) /\ grp[p] # NoGroup => grp'[p][1] <= grp[p][1]
<1>1. Init => OldestFound
  BY OldestInit
<1>2. IInv /\ OldestFound /\ [Next]_vars => OldestFound'
  BY OldestStep DEF IInv
<1>3. IInv /\ OldestFound /\ [Next]_vars => Settles
  <2> SUFFICES ASSUME IInv, OldestFound, NEW t \in Consumers, NEW p \in Postings,
                      CommitsQuietly(t), grp[p] # NoGroup
               PROVE  grp'[p][1] <= grp[p][1]
    OBVIOUS
  <2>1. grp'[p] = Visible(t, p) /\ quiet[t]
    BY DEF CommitsQuietly, Commit
  <2>2. CASE mine[t][p] = NoGroup
    <3>1. grp'[p] = grp[p]
      BY <2>1, <2>2 DEF Visible
    <3>2. grp[p][1] \in Nat
      BY ReadType, IdType DEF IInv, RunInv
    <3> QED BY <3>1, <3>2
  <2>3. CASE mine[t][p] # NoGroup
    BY <2>1, <2>3 DEF Visible, OldestFound
  <2> QED BY <2>2, <2>3
<1> QED BY <1>1, <1>2, <1>3, Inductive, PTL DEF Spec, StableGroups

\* _load_comparison_pool and _persist: such a run unites every seed with every open posting
\* of the same job, whatever overlapping runs, closings and rebuilds had done before.
THEOREM QuietRunsUnite == Spec => QuietRunUnites
<1> DEFINE Unites == \A t \in Consumers : \A s \in seeds[t], q \in open :
                       CommitsQuietly(t) /\ job[q] = job[s] => grp'[q] = grp'[s]
<1>1. Init => SeedsCovered
  BY CoveredInit
<1>2. IInv /\ SeedsCovered /\ [Next]_vars => SeedsCovered'
  BY CoveredStep DEF IInv, GroupInv
<1>3. IInv /\ SeedsCovered /\ [Next]_vars => Unites
  <2> SUFFICES ASSUME IInv, SeedsCovered, NEW t \in Consumers, NEW s \in seeds[t],
                      NEW q \in open, CommitsQuietly(t), job[q] = job[s]
               PROVE  grp'[q] = grp'[s]
    OBVIOUS
  <2>1. s \in Postings /\ q \in Postings
    BY DEF IInv, RunInv, TypeOK
  <2>2. quiet[t] /\ todo[t] = {} /\ grp'[q] = Visible(t, q) /\ grp'[s] = Visible(t, s)
    BY <2>1 DEF CommitsQuietly, Commit
  <2>3. PICK C \in done[t] : s \in C /\ q \in C
    BY <2>2 DEF SeedsCovered
  <2>4. mine[t][s] = mine[t][q] /\ mine[t][s] # NoGroup
    BY <2>2, <2>3 DEF SeedsCovered
  <2> QED BY <2>2, <2>4 DEF Visible
<1> QED BY <1>1, <1>2, <1>3, Inductive, PTL DEF Spec, QuietRunUnites
=============================================================================
