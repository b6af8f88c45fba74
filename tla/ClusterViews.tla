---------------------------- MODULE ClusterViews ----------------------------
(* What one panel shows of a cluster: it asks each enabled remote node in turn, *)
(* adds its own part and cuts the merge.  Code: cluster-aggregator.service.ts,  *)
(* dashboard.service.ts and metrics.service.ts of src/api.                      *)
(*                                                                              *)
(* A row (a request, a status change, an instance...) is its time; the nodes    *)
(* keep writing rows while the panel goes through them.                         *)
EXTENDS Naturals, Sequences, FiniteSets, SequencesExt

CONSTANTS Remotes,      \* remote nodes, numbered in the order of their labels
          PageSizes,    \* page sizes a client asks for
          Pages,        \* pages a client asks for
          MaxFetch,     \* rows one node returns at most for a page (5000)
          NodeRecent,   \* status changes in one node's summary (15)
          PanelRecent,  \* status changes the panel keeps of the merge (20)
          MaxTime       \* bound: rows written in a behaviour

ASSUME ViewsAssumption ==
    /\ Remotes \in Nat /\ MaxTime \in Nat
    /\ PageSizes \subseteq Nat \ {0} /\ Pages \subseteq Nat \ {0}
    /\ MaxFetch \in Nat \ {0} /\ NodeRecent \in Nat \ {0} /\ PanelRecent \in Nat \ {0}

VARIABLES rowsOf,   \* rowsOf[n]: the times of the rows node n holds; node 0 is the panel's own
          view      \* the request being answered
viewVars == <<rowsOf, view>>

LocalNode == 0
Nodes == 0..Remotes
ListKind == {"projects", "instances", "resources"}
Kind == ListKind \cup {"host", "dashboard", "network"}
NewerIn(S, t) == {u \in S : u > t}
NewestFirst(S) == [i \in 1..Cardinality(S) |-> CHOOSE t \in S : Cardinality(NewerIn(S, t)) = i - 1]
Newest(S, k) == {t \in S : Cardinality(NewerIn(S, t)) < k}
AllRows == UNION {rowsOf[n] : n \in Nodes}

\* How many of its rows a node sends: its newest page*pageSize for a page of requests
\* (a panel without remote nodes pages its own table instead), the last few status
\* changes in a summary, everything in a list.
\* The mutant of FetchSize asks each node for one page only.
FetchOnePage(page, size) == IF size <= MaxFetch THEN size ELSE MaxFetch
FetchSize(page, size) == IF page * size <= MaxFetch THEN page * size ELSE MaxFetch
SummaryRows(S) == Newest(S, NodeRecent)
NodePart(v, n) == CASE v.kind = "network"   -> IF v.asked = {} THEN rowsOf[n]
                                               ELSE Newest(rowsOf[n], FetchSize(v.page, v.size))
                    [] v.kind = "dashboard" -> SummaryRows(rowsOf[n])
                    [] OTHER                -> rowsOf[n]

\* What is cut out of the merge.
Slice(s, a, b) == SubSeq(s, a, IF b < Len(s) THEN b ELSE Len(s))
PageOf(S, page, size) == Slice(NewestFirst(S), (page - 1) * size + 1, page * size)
ShownOf(v) == CASE v.kind = "network"   -> PageOf(v.merged, v.page, v.size)
              [] v.kind = "dashboard" -> Slice(NewestFirst(v.merged), 1, PanelRecent)
              [] OTHER                -> NewestFirst(v.merged)

\* The dashboard and the host metrics name every node, a silent one as offline.
NamesNodes(kind) == kind \in {"host", "dashboard"}

NoView == [at |-> "idle"]

ViewsInit ==
    /\ \E now \in 0..MaxTime : \E owner \in [1..now -> Nodes] :
          rowsOf = [n \in Nodes |-> {t \in 1..now : owner[t] = n}]
    /\ view = NoView

\* aggregate*: the local part and the enabled nodes are read, then the nodes are asked.
BeginView(kind, page, size, enabled) ==
    /\ view.at = "idle"
    /\ LET v == [at |-> "asking", kind |-> kind, page |-> page, size |-> size, todo |-> enabled,
                 asked |-> enabled, merged |-> {}, total |-> 0, named |-> <<>>, seen |-> {}]
       IN view' = [v EXCEPT !.merged = NodePart(v, LocalNode),
                            !.total = Cardinality(rowsOf[LocalNode]),
                            !.named = <<[node |-> LocalNode, online |-> TRUE]>>,
                            !.seen = rowsOf[LocalNode]]
    /\ UNCHANGED rowsOf

AggregateProjects(enabled) == BeginView("projects", 1, 1, enabled)
AggregateInstances(enabled) == BeginView("instances", 1, 1, enabled)
AggregateResources(enabled) == BeginView("resources", 1, 1, enabled)
AggregateDashboard(enabled) == BeginView("dashboard", 1, 1, enabled)
AggregateHostMetrics(enabled) == BeginView("host", 1, 1, enabled)
AggregateNetworkRequests(enabled) ==
    \E page \in Pages, size \in PageSizes : BeginView("network", page, size, enabled)

NextNode == CHOOSE n \in view.todo : \A m \in view.todo : n <= m

\* clusterFetch returns the node's part.
NodeAnswers ==
    /\ view.at = "asking" /\ view.todo # {}
    /\ view' = [view EXCEPT !.todo = @ \ {NextNode},
                            !.merged = @ \cup NodePart(view, NextNode),
                            !.total = @ + Cardinality(rowsOf[NextNode]),
                            !.named = Append(@, [node |-> NextNode, online |-> TRUE]),
                            !.seen = @ \cup rowsOf[NextNode]]
    /\ UNCHANGED rowsOf

\* An error status, a refused connection or the 12 s of the fetch: the node is passed over.
NodeSilent ==
    /\ view.at = "asking" /\ view.todo # {}
    /\ view' = [view EXCEPT !.todo = @ \ {NextNode},
                            !.named = IF NamesNodes(view.kind)
                                      THEN Append(@, [node |-> NextNode, online |-> FALSE]) ELSE @]
    /\ UNCHANGED rowsOf

\* The merge is sorted and cut, and the client has its answer.
EndView ==
    /\ view.at = "asking" /\ view.todo = {}
    /\ view' = [at |-> "shown", kind |-> view.kind, page |-> view.page, size |-> view.size,
                items |-> ShownOf(view), total |-> view.total, named |-> view.named,
                asked |-> view.asked, seen |-> view.seen]
    /\ UNCHANGED rowsOf
CloseView == view.at = "shown" /\ view' = NoView /\ UNCHANGED rowsOf

\* Meanwhile a node writes a row, newer than all the others.
RowWritten(n) ==
    /\ view.at = "asking"
    /\ Cardinality(AllRows) < MaxTime
    /\ rowsOf' = [rowsOf EXCEPT ![n] = @ \cup {Cardinality(AllRows) + 1}]
    /\ UNCHANGED view

ViewsNext ==
    \/ \E enabled \in SUBSET (Nodes \ {LocalNode}) :
          \/ AggregateProjects(enabled) \/ AggregateInstances(enabled)
          \/ AggregateResources(enabled) \/ AggregateDashboard(enabled)
          \/ AggregateHostMetrics(enabled) \/ AggregateNetworkRequests(enabled)
    \/ NodeAnswers \/ NodeSilent \/ EndView \/ CloseView
    \/ \E n \in Nodes : RowWritten(n)

ViewsSpec == ViewsInit /\ [][ViewsNext]_viewVars

-----------------------------------------------------------------------------
\* Type invariant: rows are times, a view asks nodes it read and shows their rows.
ViewsTypeOK ==
    /\ rowsOf \in [Nodes -> SUBSET (1..MaxTime)]
    /\ view.at \in {"idle", "asking", "shown"}
    /\ view.at # "idle" => view.kind \in Kind /\ view.asked \subseteq Nodes /\ view.seen \subseteq AllRows
    /\ view.at = "asking" => view.merged \subseteq view.seen /\ view.todo \subseteq view.asked

\* A page of requests is the page of the union of what the answering nodes held when they
\* answered, although each sent only its newest rows and went on writing; the total is of
\* that union too.  (aggregateNetworkRequests, as far as a node may send enough rows.)
PageIsGlobal ==
    view.at = "shown" /\ view.kind = "network" /\ (view.page * view.size <= MaxFetch \/ view.asked = {})
        => /\ view.items = PageOf(view.seen, view.page, view.size)
           /\ view.total = Cardinality(view.seen)

\* The status changes on top of a cluster's dashboard are the newest of the union, as many
\* of them as one node sends in its summary.  (aggregateDashboard, summary)
RecentIsGlobal ==
    view.at = "shown" /\ view.kind = "dashboard"
        => Slice(view.items, 1, NodeRecent) = Slice(NewestFirst(view.seen), 1, NodeRecent)

\* The dashboard and the host metrics name the panel and every node that was enabled
\* exactly once, and a list shows no row twice and none of a silent node.
NodesAccounted ==
    view.at = "shown" =>
        /\ NamesNodes(view.kind) => /\ {view.named[i].node : i \in DOMAIN view.named} = {LocalNode} \cup view.asked
                                    /\ Len(view.named) = 1 + Cardinality(view.asked)
        /\ view.kind \in ListKind => ToSet(view.items) = view.seen

\* What is shown of a cluster is what a single panel that held the rows of all the nodes
\* that answered would show, whichever nodes are silent and whatever they write meanwhile.
MergesAreGlobal == PageIsGlobal /\ RecentIsGlobal /\ NodesAccounted

=============================================================================
