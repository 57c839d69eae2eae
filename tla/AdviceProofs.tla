---------------------------- MODULE AdviceProofs ----------------------------
(***************************************************************************)
(* What an answer by road promises, for any number of units, requests and  *)
(* candidates, any distances and any time to live of the cache.            *)
(***************************************************************************)
EXTENDS Advice, FiniteSetTheorems, WellFoundedInduction, TLAPS

\* The ranks of finitely many units have a least one.
LEMMA LeastOf ==
  ASSUME NEW S, IsFiniteSet(S), S # {}, NEW f, \A x \in S : f[x] \in Nat
  PROVE  \E x \in S : \A y \in S : f[x] <= f[y]
<1> DEFINE Below(x) == {y \in S : f[y] < f[x]}
           T == {Below(x) : x \in S}
<1>1. T \subseteq FiniteSubsetsOf(S) /\ T # {}
  <2>1. T \subseteq SUBSET S /\ T # {}
    OBVIOUS
  <2>2. QED
    BY <2>1, FS_FiniteSubsetsOfFinite
<1>2. PICK b \in T : \A c \in T : ~ (<<c, b>> \in StrictSubsetOrdering(S))
  <2> HIDE DEF T
  <2>1. IsWellFoundedOn(StrictSubsetOrdering(S), FiniteSubsetsOf(S))
    BY FS_StrictSubsetOrderingWellFounded
  <2>2. QED
    BY <1>1, <2>1, WFMin
<1>3. PICK x \in S : b = Below(x)
  BY <1>2
<1>4. SUFFICES ASSUME NEW y \in S, f[y] < f[x] PROVE FALSE
  BY <1>3
<1>5. y \in Below(x) /\ y \notin Below(y)
  BY <1>4
<1>6. Below(y) \subseteq Below(x)
  BY <1>4
<1>7. <<Below(y), Below(x)>> \in StrictSubsetOrdering(S)
  BY <1>5, <1>6 DEF StrictSubsetOrdering
<1>8. QED
  BY <1>2, <1>3, <1>7

-----------------------------------------------------------------------------
(* The invariant                                                           *)

LEMMA LookedIsARoute ==
  ASSUME TypeOK, NEW u \in Units
  PROVE  /\ Looked(u) \in Sources \union Pending
         /\ Looked(u) \in Pending => cache[u] = NoRoute
<1>1. cache[u] # NoRoute => cache[u].source \in Sources
  BY DEF TypeOK, Entry
<1>2. QED
  BY <1>1 DEF Looked, Hit, Sources, Pending

\* Of nothing, nothing is shortlisted.
LEMMA EmptyIsShortlist == {} \in Shortlists({})
  BY DEF Shortlists

LEMMA InitiallyAdviceInv == Init => AdviceInv
<1> SUFFICES ASSUME Init PROVE AdviceInv
  OBVIOUS
<1>1. NoJob \in Job
  BY DEF NoJob, Job
<1>2. TypeOK
  BY <1>1 DEF Init, TypeOK
<1>3. EntriesAreNewerThanFetches
  BY DEF Init, EntriesAreNewerThanFetches
<1>4. ShortlistIsRouted
  BY DEF Init, NoJob, ShortlistIsRouted
<1>5. ShortlistIsKept
  BY EmptyIsShortlist DEF Init, NoJob, ShortlistIsKept
<1>6. QED
  BY <1>2, <1>3, <1>4, <1>5 DEF AdviceInv

LEMMA AskKeeps ==
  ASSUME AdviceInv, NEW q \in Requests, NEW available \in SUBSET Units,
         NEW shortlist \in Shortlists(available),
         NEW severity \in 0..2, NEW targets \in SUBSET Units, shortlist \subseteq targets,
         Ask(q, [available |-> available, shortlist |-> shortlist, severity |-> severity],
             targets)
  PROVE  AdviceInv'
<1> DEFINE rows == [available |-> available, shortlist |-> shortlist, severity |-> severity]
           new == Started(rows, targets)
<1>1. /\ job' = [job EXCEPT ![q] = new]
      /\ UNCHANGED <<osrm, cache>>
  BY DEF Ask
<1>2. /\ TypeOK /\ EntriesAreNewerThanFetches /\ ShortlistIsRouted /\ ShortlistIsKept
      /\ job \in [Requests -> Job]
  BY DEF AdviceInv, TypeOK
<1>3. /\ new.available = available /\ new.shortlist = shortlist /\ new.late = FALSE
      /\ \A u \in Units : new.route[u] = IF u \in targets THEN Looked(u) ELSE NoRoute
      /\ new \in Job
  <2>1. \A u \in Units : Looked(u) \in Sources \union Pending
    BY <1>2, LookedIsARoute
  <2>2. shortlist \in SUBSET Units
    BY DEF Shortlists
  <2>3. QED
    BY <2>1, <2>2 DEF Started, Job
<1> HIDE DEF new
<1>4. job'[q] = new /\ \A p \in Requests : p # q => job'[p] = job[p]
  BY <1>1, <1>2
<1>5. TypeOK'
  BY <1>1, <1>2, <1>3 DEF TypeOK
<1>6. EntriesAreNewerThanFetches'
  <2>1. \A u \in Units : new.route[u] \in Pending => cache[u] = NoRoute
    BY <1>2, <1>3, LookedIsARoute, AdviceAssumption DEF Pending
  <2>2. QED
    BY <1>1, <1>2, <1>4, <2>1 DEF EntriesAreNewerThanFetches
<1>7. ShortlistIsRouted'
  <2>1. \A u \in targets : new.route[u] # NoRoute
    BY <1>2, <1>3, LookedIsARoute, AdviceAssumption DEF Sources, Pending
  <2>2. \A p \in Requests : job[p].shortlist \subseteq {u \in Units : job[p].route[u] # NoRoute}
    BY <1>2 DEF ShortlistIsRouted, Routed
  <2>3. new.shortlist \subseteq {u \in Units : new.route[u] # NoRoute}
    BY <1>3, <2>1
  <2>4. \A p \in Requests : job'[p].shortlist \subseteq {u \in Units : job'[p].route[u] # NoRoute}
    BY <1>4, <2>2, <2>3
  <2>5. QED
    BY <2>4 DEF ShortlistIsRouted, Routed
<1>8. ShortlistIsKept'
  <2>1. \A p \in Requests : job'[p].shortlist \in Shortlists(job'[p].available)
    BY <1>2, <1>3, <1>4 DEF ShortlistIsKept
  <2>2. QED
    BY <2>1 DEF ShortlistIsKept, Shortlists, OfType
<1>9. QED
  BY <1>5, <1>6, <1>7, <1>8 DEF AdviceInv

\* Rows that a request keeps remain a shortlist.
LEMMA KeptStays ==
  ASSUME ShortlistIsKept,
         \A p \in Requests : /\ job'[p].available = job[p].available
                             /\ job'[p].shortlist = job[p].shortlist
  PROVE  ShortlistIsKept'
<1>1. \A p \in Requests : job'[p].shortlist \in Shortlists(job'[p].available)
  BY DEF ShortlistIsKept
<1>2. QED
  BY <1>1 DEF ShortlistIsKept, Shortlists, OfType

LEMMA FetchKeeps ==
  ASSUME AdviceInv, NEW q \in Requests, NEW u \in Units, FetchEnds(q, u)
  PROVE  AdviceInv'
<1>1. PICK source \in Sources :
         /\ job[q].route[u] \in Pending
         /\ cache' = [cache EXCEPT ![u] = [source |-> source, age |-> 0]]
         /\ job' = [job EXCEPT ![q].route[u] = source]
         /\ UNCHANGED osrm
  BY DEF FetchEnds, Store
<1>2. /\ TypeOK /\ EntriesAreNewerThanFetches /\ ShortlistIsRouted /\ ShortlistIsKept
      /\ job \in [Requests -> Job] /\ cache \in [Units -> Entry \union {NoRoute}]
  BY DEF AdviceInv, TypeOK
<1>3. \A p \in Requests :
         /\ job'[p].available = job[p].available /\ job'[p].late = job[p].late
         /\ job'[p].shortlist = job[p].shortlist
         /\ \A v \in Units : job'[p].route[v] = IF p = q /\ v = u THEN source ELSE job[p].route[v]
         /\ job'[p] \in Job
  BY <1>1, <1>2 DEF Job
<1>4. \A v \in Units : cache'[v] = IF v = u THEN [source |-> source, age |-> 0] ELSE cache[v]
  BY <1>1, <1>2
<1>5. TypeOK'
  <2>1. [source |-> source, age |-> 0] \in Entry
    BY AdviceAssumption DEF Entry
  <2>2. job' \in [Requests -> Job]
    BY <1>1, <1>2, <1>3
  <2>3. QED
    BY <1>1, <1>2, <2>1, <2>2 DEF TypeOK
<1>6. EntriesAreNewerThanFetches'
  <2>1. source \notin Pending
    BY DEF Sources, Pending
  <2>2. SUFFICES ASSUME NEW p \in Requests, NEW v \in Units,
                        job'[p].route[v] \in Pending, cache'[v] # NoRoute
                 PROVE  cache'[v].age <= IF job'[p].late THEN 1 ELSE 0
    BY DEF EntriesAreNewerThanFetches
  <2>3. CASE v = u
    BY <1>4, <2>3
  <2>4. CASE v # u
    BY <1>2, <1>3, <1>4, <2>2, <2>4 DEF EntriesAreNewerThanFetches
  <2>5. QED
    BY <2>3, <2>4
<1>7. ShortlistIsRouted'
  <2>1. source # NoRoute
    BY AdviceAssumption DEF Sources
  <2>2. \A p \in Requests : Routed(p) \subseteq Routed(p)'
    BY <1>3, <2>1 DEF Routed
  <2>3. QED
    BY <1>2, <1>3, <2>2 DEF ShortlistIsRouted
<1>8. ShortlistIsKept'
  BY <1>2, <1>3, KeptStays
<1>9. QED
  BY <1>5, <1>6, <1>7, <1>8 DEF AdviceInv

LEMMA AnswerKeeps ==
  ASSUME AdviceInv, NEW q \in Requests, Answer(q)
  PROVE  AdviceInv'
<1>1. /\ job' = [job EXCEPT ![q] = NoJob] /\ UNCHANGED <<osrm, cache>>
      /\ TypeOK /\ EntriesAreNewerThanFetches /\ ShortlistIsRouted /\ ShortlistIsKept
      /\ job \in [Requests -> Job]
  BY DEF Answer, AdviceInv, TypeOK
<1>2. job'[q] = NoJob /\ \A p \in Requests : p # q => job'[p] = job[p]
  BY <1>1
<1>3. /\ NoJob \in Job /\ NoJob.available = {} /\ NoJob.shortlist = {}
      /\ \A u \in Units : NoJob.route[u] = NoRoute
  BY DEF NoJob, Job
<1>4. TypeOK'
  BY <1>1, <1>3 DEF TypeOK
<1>5. EntriesAreNewerThanFetches'
  <2>1. NoRoute \notin Pending
    BY AdviceAssumption DEF Pending
  <2>2. QED
    BY <1>1, <1>2, <1>3, <2>1 DEF EntriesAreNewerThanFetches
<1>6. ShortlistIsRouted'
  BY <1>1, <1>2, <1>3 DEF ShortlistIsRouted, Routed
<1>7. ShortlistIsKept'
  <2>1. \A p \in Requests : job'[p].shortlist \in Shortlists(job'[p].available)
    BY <1>1, <1>2, <1>3, EmptyIsShortlist DEF ShortlistIsKept
  <2>2. QED
    BY <2>1 DEF ShortlistIsKept, Shortlists, OfType
<1>8. QED
  BY <1>4, <1>5, <1>6, <1>7 DEF AdviceInv

\* A fetch that has not seen a tick has no entry older than itself, so that after
\* the tick none is older than one.
LEMMA TickKeeps == AdviceInv /\ Tick => AdviceInv'
<1> SUFFICES ASSUME AdviceInv, Tick PROVE AdviceInv'
  OBVIOUS
<1>1. /\ \A q \in Requests : Waiting(q) => ~ job[q].late
      /\ cache' = [u \in Units |-> Aged(cache[u])]
      /\ job' = [q \in Requests |->
                    IF Waiting(q) THEN [job[q] EXCEPT !.late = TRUE] ELSE job[q]]
      /\ UNCHANGED osrm
  BY DEF Tick
<1>2. /\ TypeOK /\ EntriesAreNewerThanFetches /\ ShortlistIsRouted /\ ShortlistIsKept
      /\ job \in [Requests -> Job] /\ cache \in [Units -> Entry \union {NoRoute}]
  BY DEF AdviceInv, TypeOK
<1>3. \A q \in Requests :
         /\ job'[q].available = job[q].available /\ job'[q].route = job[q].route
         /\ job'[q].shortlist = job[q].shortlist
         /\ job'[q] \in Job
         /\ Waiting(q) => job'[q].late = TRUE
  BY <1>1, <1>2 DEF Job
<1>4. \A u \in Units : /\ Aged(cache[u]) \in Entry \union {NoRoute}
                       /\ Aged(cache[u]) # NoRoute =>
                             cache[u] # NoRoute /\ Aged(cache[u]).age = cache[u].age + 1
  <2> SUFFICES ASSUME NEW u \in Units, cache[u] # NoRoute, cache[u].age + 1 # Ttl
               PROVE  /\ [cache[u] EXCEPT !.age = @ + 1] \in Entry
                      /\ [cache[u] EXCEPT !.age = @ + 1].age = cache[u].age + 1
    BY DEF Aged
  <2>1. cache[u] \in Entry
    BY <1>2
  <2>2. cache[u].age \in 0..(Ttl - 1) /\ cache[u].age + 1 \in 0..(Ttl - 1)
    BY <2>1, AdviceAssumption DEF Entry
  <2>3. QED
    BY <2>1, <2>2 DEF Entry
<1>5. TypeOK'
  BY <1>1, <1>2, <1>3, <1>4 DEF TypeOK
<1>6. EntriesAreNewerThanFetches'
  <2>1. SUFFICES ASSUME NEW q \in Requests, NEW u \in Units,
                        job'[q].route[u] \in Pending, cache'[u] # NoRoute
                 PROVE  cache'[u].age <= IF job'[q].late THEN 1 ELSE 0
    BY DEF EntriesAreNewerThanFetches
  <2>2. job[q].route[u] \in Pending /\ Waiting(q) /\ ~ job[q].late
    BY <1>1, <1>3, <2>1 DEF Waiting
  <2>3. cache[u] # NoRoute /\ cache'[u].age = cache[u].age + 1 /\ job'[q].late = TRUE
    BY <1>1, <1>3, <1>4, <2>1, <2>2
  <2>4. cache[u].age <= 0 /\ cache[u].age \in Int
    BY <1>2, <2>2, <2>3 DEF EntriesAreNewerThanFetches, Entry
  <2>5. QED
    BY <2>3, <2>4
<1>7. ShortlistIsRouted'
  BY <1>2, <1>3 DEF ShortlistIsRouted, Routed
<1>8. ShortlistIsKept'
  BY <1>2, <1>3, KeptStays
<1>9. QED
  BY <1>5, <1>6, <1>7, <1>8 DEF AdviceInv

LEMMA NextKeepsAdviceInv == AdviceInv /\ [Next]_vars => AdviceInv'
<1> SUFFICES ASSUME AdviceInv, [Next]_vars PROVE AdviceInv'
  OBVIOUS
<1>1. ASSUME NEW q \in Desks, DispatchOptions(q) PROVE AdviceInv'
  <2>1. PICK available \in SUBSET Units, severity \in Severities :
           \E shortlist \in Shortlists(available), committed \in SUBSET (Sent \ available) :
              Ask(q, [available |-> available, shortlist |-> shortlist, severity |-> severity],
                  shortlist \union committed)
    BY <1>1 DEF DispatchOptions
  <2>2. PICK shortlist \in Shortlists(available), committed \in SUBSET (Sent \ available) :
           Ask(q, [available |-> available, shortlist |-> shortlist, severity |-> severity],
               shortlist \union committed)
    BY <2>1
  <2>3. shortlist \union committed \in SUBSET Units
    BY AdviceAssumption DEF Shortlists
  <2>4. severity \in 0..2 /\ q \in Requests
    BY AdviceAssumption DEF Requests
  <2> DEFINE targets == shortlist \union committed
  <2>5. shortlist \subseteq targets
    OBVIOUS
  <2>6. /\ Ask(q, [available |-> available, shortlist |-> shortlist, severity |-> severity],
               targets)
        /\ targets \in SUBSET Units
    BY <2>2, <2>3
  <2> HIDE DEF targets
  <2>7. QED
    BY <2>4, <2>5, <2>6, AskKeeps
<1>2. ASSUME NEW q \in Assigners, AssignUnit(q) PROVE AdviceInv'
  <2>1. PICK u \in Sent :
           Ask(q, [available |-> {}, shortlist |-> {}, severity |-> 0], {u})
    BY <1>2 DEF AssignUnit
  <2>2. /\ {u} \in SUBSET Units /\ {} \in SUBSET Units /\ 0 \in 0..2 /\ q \in Requests
        /\ {} \in Shortlists({}) /\ {} \subseteq {u}
    BY EmptyIsShortlist, AdviceAssumption DEF Requests
  <2>3. QED
    BY <2>1, <2>2, AskKeeps
<1>3. CASE Outage
  <2>1. UNCHANGED <<job, cache>>
    BY <1>3 DEF Outage
  <2>2. ShortlistIsKept'
    BY <2>1, KeptStays DEF AdviceInv
  <2>3. QED
    BY <1>3, <2>2 DEF Outage, AdviceInv, TypeOK, EntriesAreNewerThanFetches,
                     ShortlistIsRouted, Routed
<1>4. CASE UNCHANGED vars
  <2>1. UNCHANGED <<job, cache>>
    BY <1>4 DEF vars
  <2>2. ShortlistIsKept'
    BY <2>1, KeptStays DEF AdviceInv
  <2>3. QED
    BY <1>4, <2>2 DEF vars, AdviceInv, TypeOK, EntriesAreNewerThanFetches,
                     ShortlistIsRouted, Routed
<1>5. QED
  BY <1>1, <1>2, <1>3, <1>4, FetchKeeps, AnswerKeeps, TickKeeps DEF Next

\* An entry of the cache is never older than a fetch that could replace it, and
\* every shortlisted unit is routed (routing.py:94, units.py:168).
THEOREM AdviceInvariance == Spec => []AdviceInv
  BY InitiallyAdviceInv, NextKeepsAdviceInv, PTL DEF Spec

\* A usable entry is never older than a fetch of the same route
\* (routing.py:94), whatever the requests and the outages.
THEOREM NobodyAsksForWhatIsKept == Spec => []EntriesAreNewerThanFetches
  BY AdviceInvariance, PTL DEF AdviceInv

-----------------------------------------------------------------------------
(* What is recommended                                                     *)

\* A unit that is available and not shortlisted has as many others of its type at
\* no greater distance as there are candidates.
LEMMA LeftOutAreFar ==
  ASSUME NEW available \in SUBSET Units, NEW shortlist \in Shortlists(available),
         NEW v \in available, v \notin shortlist
  PROVE  Cardinality({w \in OfType(available, Type[v]) \ {v} : Crow[w] <= Crow[v]}) >= Candidates
<1> DEFINE kept == OfType(shortlist, Type[v])
           near == {w \in OfType(available, Type[v]) \ {v} : Crow[w] <= Crow[v]}
<1>1. /\ shortlist \subseteq available
      /\ Cardinality(kept) = Candidates /\ \A w \in kept : Crow[w] <= Crow[v]
  BY DEF Shortlists
<1>2. kept \subseteq near
  BY <1>1 DEF OfType
<1>3. IsFiniteSet(near)
  <2>1. near \subseteq Units /\ IsFiniteSet(Units)
    BY AdviceAssumption DEF OfType
  <2>2. QED
    BY <2>1, FS_Subset
<1>4. Cardinality(kept) <= Cardinality(near) /\ Cardinality(near) \in Nat
  BY <1>2, <1>3, FS_Subset, FS_CardinalityType
<1> HIDE DEF kept, near
<1>5. Cardinality(near) >= Candidates
  BY <1>1, <1>4, AdviceAssumption
<1>6. QED
  BY <1>5 DEF near

\* Every type that is available is shortlisted.
LEMMA TypesAreShortlisted ==
  ASSUME NEW available \in SUBSET Units, NEW shortlist \in Shortlists(available),
         NEW t, OfType(available, t) # {}
  PROVE  OfType(shortlist, t) # {}
<1>1. PICK u \in available : Type[u] = t
  BY DEF OfType
<1>2. CASE u \in shortlist
  BY <1>1, <1>2 DEF OfType
<1>3. CASE u \notin shortlist
  <2>1. Cardinality(OfType(shortlist, t)) = Candidates
    BY <1>1, <1>3 DEF Shortlists
  <2>2. Candidates # 0
    BY AdviceAssumption
  <2>3. QED
    BY <2>1, <2>2, FS_EmptySet
<1>4. QED
  BY <1>2, <1>3

\* An answer by road recommends the fastest of the units that were routed, and
\* leaves out only units with enough others as near (units.py:158).
LEMMA InvGivesFastest == AdviceInv => RecommendedIsFastest
<1> SUFFICES ASSUME AdviceInv, NEW q \in Requests, Complete(q), RoutingSource(q) = "osrm",
                    NEW t \in RequiredBySeverity[job[q].severity]
             PROVE  LET fleet == OfType(job[q].available, t)
                        picks == OfType(Recommended(q), t)
                    IN  /\ fleet # {} => picks # {}
                        /\ picks \subseteq fleet
                        /\ \A u \in picks, v \in fleet :
                              Road[v] < Road[u] =>
                                 Cardinality({w \in fleet \ {v} : Crow[w] <= Crow[v]}) >= Candidates
  BY DEF RecommendedIsFastest
<1> DEFINE available == job[q].available
           shortlist == job[q].shortlist
           required == RequiredBySeverity[job[q].severity]
           fleet == OfType(available, t)
           picks == OfType(Recommended(q), t)
<1>1. /\ available \in SUBSET Units /\ shortlist \in Shortlists(available)
      /\ shortlist \subseteq available
  BY DEF AdviceInv, TypeOK, Job, ShortlistIsKept, Shortlists
<1>2. \A u \in shortlist : Eta(q, u) = Road[u]
  <2>1. {job[q].route[u] : u \in Routed(q)} = {"osrm"}
    BY DEF RoutingSource
  <2>2. shortlist \subseteq Routed(q)
    BY DEF AdviceInv, ShortlistIsRouted
  <2>3. QED
    BY <2>1, <2>2 DEF Eta
<1>3. \A s : OfType(shortlist, s) \subseteq shortlist /\ \A u \in OfType(shortlist, s) : Type[u] = s
  BY DEF OfType
<1>4. picks = RankFirst(q, OfType(shortlist, t))
  <2>1. Recommended(q) = UNION {RankFirst(q, OfType(shortlist, s)) : s \in required}
    BY DEF Recommended
  <2>2. \A s : RankFirst(q, OfType(shortlist, s)) \subseteq OfType(shortlist, s)
    BY DEF RankFirst
  <2>3. ASSUME NEW u \in picks PROVE u \in RankFirst(q, OfType(shortlist, t))
    <3>1. u \in Recommended(q) /\ Type[u] = t
      BY <2>3 DEF OfType
    <3>2. PICK s \in required : u \in RankFirst(q, OfType(shortlist, s))
      BY <2>1, <3>1
    <3>3. s = t
      BY <1>3, <2>2, <3>1, <3>2
    <3>4. QED
      BY <3>2, <3>3
  <2>4. ASSUME NEW u \in RankFirst(q, OfType(shortlist, t)) PROVE u \in picks
    <3>1. u \in Recommended(q)
      BY <2>1, <2>4
    <3>2. Type[u] = t
      BY <1>3, <2>2, <2>4
    <3>3. QED
      BY <3>1, <3>2 DEF OfType
  <2>5. QED
    BY <2>3, <2>4
<1>5. picks \subseteq fleet
  BY <1>1, <1>4 DEF RankFirst, OfType
<1>6. ASSUME fleet # {} PROVE picks # {}
  <2>1. OfType(shortlist, t) # {}
    BY <1>1, <1>6, TypesAreShortlisted
  <2>2. IsFiniteSet(OfType(shortlist, t)) /\ \A u \in OfType(shortlist, t) : Road[u] \in Nat
    BY <1>1, <1>3, FS_Subset, AdviceAssumption
  <2>3. PICK u \in OfType(shortlist, t) : \A v \in OfType(shortlist, t) : Road[u] <= Road[v]
    BY <2>1, <2>2, LeastOf
  <2>4. u \in RankFirst(q, OfType(shortlist, t))
    BY <1>2, <1>3, <2>3 DEF RankFirst
  <2>5. QED
    BY <1>4, <2>4
<1>7. ASSUME NEW u \in picks, NEW v \in fleet, Road[v] < Road[u]
      PROVE  Cardinality({w \in fleet \ {v} : Crow[w] <= Crow[v]}) >= Candidates
  <2>1. v \in available /\ Type[v] = t
    BY <1>7 DEF OfType
  <2>2. v \notin shortlist
    <3>1. SUFFICES ASSUME v \in shortlist PROVE FALSE
      OBVIOUS
    <3>2. v \in OfType(shortlist, t)
      BY <2>1, <3>1 DEF OfType
    <3>3. u \in OfType(shortlist, t) /\ Eta(q, u) <= Eta(q, v)
      BY <1>4, <1>7, <3>2 DEF RankFirst
    <3>4. Road[u] <= Road[v] /\ Road[u] \in Nat /\ Road[v] \in Nat
      BY <1>1, <1>2, <1>3, <3>2, <3>3, AdviceAssumption
    <3>5. QED
      BY <1>7, <3>4
  <2>3. QED
    BY <1>1, <2>1, <2>2, LeftOutAreFar
<1>8. QED
  BY <1>5, <1>6, <1>7

\* The recommendation of an answer by road is the fastest routed unit of its
\* type, for every finite roster, any distances and times, equal ones included,
\* and any number of candidates (units.py:158).
THEOREM FastestIsRecommended == Spec => []RecommendedIsFastest
  BY AdviceInvariance, InvGivesFastest, PTL
=============================================================================
