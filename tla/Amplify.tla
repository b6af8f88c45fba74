------------------------------- MODULE Amplify -------------------------------
(***************************************************************************)
(* The branches of an AWS Amplify app as the panel lists, hosts and        *)
(* removes them.  AWS is asked one request at a time and changes between   *)
(* two of them, by requests of this panel and of others.  The jobs of the  *)
(* branches in a list are fetched by a pool of workers.                    *)
(***************************************************************************)
EXTENDS Naturals, Sequences, FiniteSets, SequencesExt

CONSTANTS
  AppBranch,     \* names of branches, numbers in the order AWS lists them
  HiddenBranch,  \* those of the setting amplify_hidden_branches
  AppSlots,      \* amplify_max_branches
  ListPage,      \* branches in one page of ListBranches
  HostCaller,    \* requests to host a branch
  PoolWorker     \* JOB_LIST_CONCURRENCY, the workers of the pool

ASSUME AmplifyAssumption ==
  /\ AppBranch \subseteq Nat \ {0} /\ IsFiniteSet(AppBranch) /\ HiddenBranch \subseteq AppBranch
  /\ AppSlots \in Nat \ {0} /\ ListPage \in Nat \ {0}
  /\ IsFiniteSet(HostCaller) /\ IsFiniteSet(PoolWorker) /\ PoolWorker # {}

VARIABLES
  hosted,   \* the branches of the app
  hosting,  \* hosting[c]: where request c is
  listing   \* the request that lists

amplifyVars == <<hosted, hosting, listing>>

-----------------------------------------------------------------------------
NoHosting == [at |-> "idle"]
NoListing == [at |-> "idle"]
Hosting(c, at) == hosting' = [hosting EXCEPT ![c].at = at]
NextPage(last) == {b \in hosted : b > last /\ Cardinality({a \in hosted : last < a /\ a <= b}) <= ListPage}
Greatest(S) == CHOOSE b \in S : \A a \in S : a <= b
HasMore(page) == page # {} /\ \E b \in hosted : b > Greatest(page)   \* its nextToken

-----------------------------------------------------------------------------
(* hostBranch and deleteBranch *)

BeginHosting(c, b) ==
  /\ hosting[c].at = "idle" /\ b \notin HiddenBranch
  /\ hosting' = [hosting EXCEPT ![c] = [at |-> "find", branch |-> b, last |-> 0, used |-> 0]]
  /\ UNCHANGED <<hosted, listing>>

FindBranch(c) ==
  /\ hosting[c].at = "find"
  /\ Hosting(c, IF hosting[c].branch \in hosted THEN "release" ELSE "count")
  /\ UNCHANGED <<hosted, listing>>

\* Mutant of CountSlots: hidden branches take no slot.
CountVisible(c) ==
  /\ hosting[c].at = "count"
  /\ LET page == NextPage(hosting[c].last)
         used == hosting[c].used + Cardinality(page \ HiddenBranch) IN
     IF HasMore(page) THEN hosting' = [hosting EXCEPT ![c].last = Greatest(page), ![c].used = used]
     ELSE Hosting(c, IF used < AppSlots THEN "create" ELSE "idle")
  /\ UNCHANGED <<hosted, listing>>

\* listAllBranches page by page, then amplifySlotUsage.
CountSlots(c) ==
  /\ hosting[c].at = "count"
  /\ LET page == NextPage(hosting[c].last)
         used == hosting[c].used + Cardinality(page) IN
     IF HasMore(page) THEN hosting' = [hosting EXCEPT ![c].last = Greatest(page), ![c].used = used]
     ELSE Hosting(c, IF used < AppSlots THEN "create" ELSE "idle")
  /\ UNCHANGED <<hosted, listing>>

\* CreateBranch; AWS refuses one it has.
CreateBranch(c) ==
  /\ hosting[c].at = "create"
  /\ hosted' = hosted \cup {hosting[c].branch}
  /\ Hosting(c, IF hosting[c].branch \in hosted THEN "idle" ELSE "start")
  /\ UNCHANGED listing

\* StartJob RELEASE; that a job runs already is an error, which a branch just
\* created forgives.
StartReleaseJob(c) ==
  /\ hosting[c].at \in {"release", "start"} /\ Hosting(c, "idle")
  /\ UNCHANGED <<hosted, listing>>

\* A request to AWS fails: what was done before it stays.
HostingFails(c) ==
  /\ hosting[c].at # "idle" /\ Hosting(c, "idle")
  /\ UNCHANGED <<hosted, listing>>

DeleteBranch(b) ==
  /\ b \in hosted \ HiddenBranch
  /\ hosted' = hosted \ {b}
  /\ UNCHANGED <<hosting, listing>>

-----------------------------------------------------------------------------
(* listBranches *)

\* mapPool: each worker takes the next index until there is none.
Idle0 == 0
Taking(l, w) ==
  IF l.next > Len(l.targets) THEN [l EXCEPT !.at[w] = Idle0]
  ELSE [l EXCEPT !.at[w] = l.next, !.next = l.next + 1]
Started(targets) ==
  LET workers == SetToSeq(PoolWorker)
      many == IF Len(workers) < Len(targets) THEN Len(workers) ELSE Len(targets) IN
  [at |-> [w \in PoolWorker |-> IF \E n \in 1..many : workers[n] = w
                                THEN CHOOSE n \in 1..many : workers[n] = w ELSE Idle0],
   next |-> many + 1, targets |-> targets, out |-> [n \in 1..Len(targets) |-> <<>>]]

\* The branches as AWS lists them: at place n the one that all but n follow.
ListedAfter(S, b) == {a \in S : a > b}
InOrder(S) ==
  [n \in 1..Cardinality(S) |-> CHOOSE b \in S : Cardinality(ListedAfter(S, b)) = Cardinality(S) - n]

BeginListing ==
  /\ listing.at = "idle" /\ listing' = [at |-> "pages", seen |-> {}]
  /\ UNCHANGED <<hosted, hosting>>

\* listAllBranches; when it has them all, the jobs of those that are not hidden
\* are asked for.
ListPageOf ==
  /\ listing.at = "pages"
  /\ LET last == IF listing.seen = {} THEN 0 ELSE Greatest(listing.seen)
         page == NextPage(last)
         seen == listing.seen \cup page IN
     IF HasMore(page) THEN listing' = [listing EXCEPT !.seen = seen]
     ELSE listing' = [at |-> "jobs", pool |-> Started(InOrder(seen \ HiddenBranch))]
  /\ UNCHANGED <<hosted, hosting>>

Job(b) == IF b \in hosted THEN {<<>>, <<b>>} ELSE {<<>>}

\* Mutant of JobsListed: the place in the result is the one that is next.
JobsListedNext(w) ==
  /\ listing.at = "jobs" /\ listing.pool.at[w] # Idle0
  /\ LET l == listing.pool IN
     \E job \in Job(l.targets[l.at[w]]) :
       listing' = [listing EXCEPT !.pool = Taking([l EXCEPT !.out =
         [n \in DOMAIN l.out |-> IF n = l.next - 1 THEN job ELSE l.out[n]]], w)]
  /\ UNCHANGED <<hosted, hosting>>

\* ListJobs of one branch; an error, and a branch without jobs, is an empty answer.
JobsListed(w) ==
  /\ listing.at = "jobs" /\ listing.pool.at[w] # Idle0
  /\ LET l == listing.pool IN
     \E job \in Job(l.targets[l.at[w]]) :
       listing' = [listing EXCEPT !.pool = Taking([l EXCEPT !.out[l.at[w]] = job], w)]
  /\ UNCHANGED <<hosted, hosting>>

EndListing ==
  /\ listing.at = "jobs" /\ \A w \in PoolWorker : listing.pool.at[w] = Idle0
  /\ listing' = [at |-> "listed",
                 rows |-> {[branch |-> listing.pool.targets[n], job |-> listing.pool.out[n]] :
                             n \in DOMAIN listing.pool.targets},
                 asked |-> listing.pool.next - 1]
  /\ UNCHANGED <<hosted, hosting>>

LeaveListing == listing.at \in {"pages", "listed"} /\ listing' = NoListing /\ UNCHANGED <<hosted, hosting>>

-----------------------------------------------------------------------------
AmplifyInit ==
  /\ hosted \in SUBSET AppBranch
  /\ hosting = [c \in HostCaller |-> NoHosting] /\ listing = NoListing

AmplifyNext ==
  \/ \E b \in AppBranch : DeleteBranch(b) \/ \E c \in HostCaller : BeginHosting(c, b)
  \/ \E c \in HostCaller : \/ FindBranch(c) \/ CountSlots(c) \/ CreateBranch(c)
                           \/ StartReleaseJob(c) \/ HostingFails(c)
  \/ BeginListing \/ ListPageOf \/ (\E w \in PoolWorker : JobsListed(w)) \/ EndListing \/ LeaveListing

AmplifySpec == AmplifyInit /\ [][AmplifyNext]_amplifyVars

-----------------------------------------------------------------------------
\* Type invariant: branches of the app, and requests at one of their steps.
AmplifyTypeOK ==
  /\ hosted \subseteq AppBranch
  /\ \A c \in HostCaller : hosting[c].at \in {"idle", "find", "count", "create", "release", "start"}
  /\ listing.at \in {"idle", "pages", "jobs", "listed"}

\* Requests to host exceed the limit by less than the number of them that
\* overlap, although each counts, page by page, before it creates, and branches
\* are removed meanwhile.
HostingKeepsLimit ==
  [][hosted' \subseteq hosted \/ Cardinality(hosted') < AppSlots + Cardinality(HostCaller)]_amplifyVars

\* Each branch of a list has its own row with a job of its own or none, in
\* whatever order the pool's requests are answered and fail.  (mapPool,
\* enrichLatestJobs)
RowsMatchBranches ==
  listing.at = "listed" =>
    /\ \A r \in listing.rows : r.job \in {<<>>, <<r.branch>>} /\ r.branch \notin HiddenBranch
    /\ Cardinality({r.branch : r \in listing.rows}) = Cardinality(listing.rows)
    /\ Cardinality(listing.rows) = listing.asked

=============================================================================
