---------------------------- MODULE ClusterCalls ----------------------------
(* The remote nodes a panel has registered, the credentials it holds for them   *)
(* and the commands it sends to their previews and resources.  Code:            *)
(* cluster-nodes, cluster-keys and cluster of src/api, and the routing of       *)
(* instances.service.ts and resources-api.service.ts.                           *)
(*                                                                              *)
(* A node is one row of cluster_nodes; registering the same host again makes    *)
(* another node.  Every await is a point where another request may run.         *)
EXTENDS Naturals

CONSTANTS RemoteNode, HubCaller

VARIABLES nodeRow,     \* the panel's row: credential (times it is encrypted), scope last tested
          nodeKey,     \* the scope of the key the node was registered with
          keyLive,     \* nodes whose key the remote host still accepts
          hubCall      \* the request of each caller
clusterVars == <<nodeRow, nodeKey, keyLive, hubCall>>

Scope == {"read", "write"}
\* One command stands for those the hub sends in the same way; resources add one
\* for their own timeout of 180 s.
InstanceCommand == {"pause", "remove"}
ResourceCommand == {"startResource"}
Command == InstanceCommand \cup ResourceCommand
Fresh == [sealed |-> 0, scope |-> "unregistered"]
Gone == [sealed |-> 0, scope |-> "removed"]
Row == [sealed : 0..2, scope : Scope]
NoCall == [at |-> "idle"]

\* Nodes registered before credentials were encrypted hold theirs in the clear.
ClusterInit ==
    /\ nodeKey \in [RemoteNode -> Scope]
    /\ nodeRow \in [RemoteNode -> {Fresh, [sealed |-> 0, scope |-> "read"]}]
    /\ keyLive = RemoteNode
    /\ hubCall = [c \in HubCaller |-> NoCall]

Registered(n) == nodeRow[n] \notin {Fresh, Gone}
Set(c, r) == hubCall' = [hubCall EXCEPT ![c] = r]
LoadedCall(n, op, row) == [at |-> "loaded", node |-> n, op |-> op, row |-> row]

\* A removed node that no request refers to any more stands for the next one registered.
Unused(n) == nodeRow[n] \in {Fresh, Gone} /\ \A d \in HubCaller : hubCall[d].at # "idle" => hubCall[d].node # n

\* create: the credential is encrypted and saved, then the node is tested.
CreateNode(c, n) ==
    /\ hubCall[c].at = "idle" /\ Unused(n)
    /\ LET row == [sealed |-> 1, scope |-> "read"]
       IN nodeRow' = [nodeRow EXCEPT ![n] = row] /\ Set(c, LoadedCall(n, "test", row))
    /\ \E s \in Scope : nodeKey' = [nodeKey EXCEPT ![n] = s]
    /\ keyLive' = keyLive \cup {n}

RemoveNode(n) ==
    /\ Registered(n)
    /\ nodeRow' = [nodeRow EXCEPT ![n] = Gone]
    /\ UNCHANGED <<nodeKey, keyLive, hubCall>>

\* The remote host's administrator removes the key.
RemoveKey(n) ==
    /\ keyLive' = keyLive \ {n} /\ n \in keyLive
    /\ UNCHANGED <<nodeRow, nodeKey, hubCall>>

\* test and the *Remote* commands: an id of the form r:node:id is routed to its node.
Load(c, n, op) ==
    /\ hubCall[c].at = "idle" /\ Registered(n)
    /\ Set(c, LoadedCall(n, op, nodeRow[n]))
    /\ UNCHANGED <<nodeRow, nodeKey, keyLive>>

Send(c) == Set(c, [at |-> "waiting", node |-> hubCall[c].node, op |-> hubCall[c].op, remote |-> "asked"])

\* The mutant of GetPlainApiKey encrypts whatever the row it read holds.
GetKeySealing(c) ==
    /\ hubCall[c].at = "loaded"
    /\ hubCall[c].row.sealed < 2
    /\ nodeRow' = [nodeRow EXCEPT ![hubCall[c].node] = [hubCall[c].row EXCEPT !.sealed = @ + 1]]
    /\ Send(c) /\ UNCHANGED <<nodeKey, keyLive>>

\* getPlainApiKey: a credential in the clear is encrypted and the row that was read is
\* saved whole, also over a newer row or after its removal.
GetPlainApiKey(c) ==
    /\ hubCall[c].at = "loaded"
    /\ nodeRow' = IF hubCall[c].row.sealed = 0
                  THEN [nodeRow EXCEPT ![hubCall[c].node] = [hubCall[c].row EXCEPT !.sealed = 1]]
                  ELSE nodeRow
    /\ Send(c) /\ UNCHANGED <<nodeKey, keyLive>>

Remote(c, step) == hubCall' = [hubCall EXCEPT ![c].remote = step]
Asked(c) == hubCall[c].at \in {"waiting", "told"} /\ hubCall[c].remote = "asked"

\* ClusterKeyGuard on the remote host: 401 for an unknown key, 403 for a command with a
\* key that only reads.
KeyAllows(n, op) == n \in keyLive /\ (op \in Command => nodeKey[n] = "write")
ClusterKeyGuard(c) ==
    /\ Asked(c)
    /\ Remote(c, IF KeyAllows(hubCall[c].node, hubCall[c].op) THEN "running" ELSE "refused")
    /\ UNCHANGED <<nodeRow, nodeKey, keyLive>>

\* The handler behind the guard does what it is asked, or answers an error of its own.
RemoteActs(c) ==
    /\ hubCall[c].at \in {"waiting", "told"} /\ hubCall[c].remote = "running"
    /\ Remote(c, "done") \/ (hubCall[c].op \in Command /\ Remote(c, "refused"))
    /\ UNCHANGED <<nodeRow, nodeKey, keyLive>>

Told(c, answer) ==
    Set(c, [at |-> "told", node |-> hubCall[c].node, op |-> hubCall[c].op,
            remote |-> hubCall[c].remote, answer |-> answer])

\* clusterFetch: an answer that is not ok is an exception.
CommandAnswered(c) ==
    /\ hubCall[c].at = "waiting" /\ hubCall[c].op \in Command /\ hubCall[c].remote \in {"done", "refused"}
    /\ Told(c, IF hubCall[c].remote = "done" THEN "ok" ELSE "error")
    /\ UNCHANGED <<nodeRow, nodeKey, keyLive>>

\* The scope in the answer of node-info; hosts of an older version report none: read.
ReportedScope(n) == {nodeKey[n], "read"}

\* testRemoteNode: the scope of a reachable node is saved, by a row read anew.
TestAnswered(c) ==
    /\ hubCall[c].at = "waiting" /\ hubCall[c].op = "test" /\ hubCall[c].remote \in {"done", "refused"}
    /\ IF hubCall[c].remote = "done" /\ Registered(hubCall[c].node)
       THEN \E s \in ReportedScope(hubCall[c].node) :
               Set(c, [at |-> "saving", node |-> hubCall[c].node, op |-> "test",
                       row |-> [nodeRow[hubCall[c].node] EXCEPT !.scope = s]])
       ELSE Told(c, "error")
    /\ UNCHANGED <<nodeRow, nodeKey, keyLive>>
SetScope(c) ==
    /\ hubCall[c].at = "saving"
    /\ nodeRow' = [nodeRow EXCEPT ![hubCall[c].node] = hubCall[c].row]
    /\ Set(c, NoCall) /\ UNCHANGED <<nodeKey, keyLive>>

\* The 12 s of the fetch are over: the caller is told, the remote host works on.
FetchTimesOut(c) ==
    /\ hubCall[c].at = "waiting"
    /\ Told(c, "error") /\ UNCHANGED <<nodeRow, nodeKey, keyLive>>

\* The caller leaves; what the remote host has not done by then is not followed further.
EndCall(c) ==
    /\ hubCall[c].at = "told"
    /\ Set(c, NoCall) /\ UNCHANGED <<nodeRow, nodeKey, keyLive>>

ClusterNext ==
    \/ \E n \in RemoteNode : RemoveNode(n) \/ RemoveKey(n)
    \/ \E c \in HubCaller :
          \/ \E n \in RemoteNode : \/ CreateNode(c, n)
                                   \/ \E op \in Command \cup {"test"} : Load(c, n, op)
          \/ GetPlainApiKey(c) \/ ClusterKeyGuard(c) \/ RemoteActs(c)
          \/ CommandAnswered(c) \/ TestAnswered(c) \/ SetScope(c) \/ FetchTimesOut(c) \/ EndCall(c)
ClusterSpec == ClusterInit /\ [][ClusterNext]_clusterVars

-----------------------------------------------------------------------------
\* Type invariant: rows, keys and requests have the fields their step needs.
ClusterTypeOK ==
    /\ nodeRow \in [RemoteNode -> Row \cup {Fresh, Gone}]
    /\ nodeKey \in [RemoteNode -> Scope] /\ keyLive \subseteq RemoteNode
    /\ \A c \in HubCaller : hubCall[c].at \in {"idle", "loaded", "waiting", "saving", "told"}

\* Every registered node's credential decrypts to the key it was registered with, although
\* any request may find it in the clear and encrypt it while others use it: it is
\* encrypted once, or not yet.  (getPlainApiKey)
CredentialIsUsable == \A n \in RemoteNode : Registered(n) => nodeRow[n].sealed \in {0, 1}

\* A node is offered for commands only if its key may give them: whatever tests and late
\* saves of rows cross, the scope in its row never exceeds that of its key.
\* (setScope, testRemoteNode, canWrite of remoteRef)
ScopeIsTheKeys == \A n \in RemoteNode : Registered(n) /\ nodeRow[n].scope = "write" => nodeKey[n] = "write"

\* Rows of nodes are read, changed and saved whole by requests that wait for other hosts
\* in between; what is left of a row is still usable and grants no more than its key.
NodeRowsAreTrue == CredentialIsUsable /\ ScopeIsTheKeys

=============================================================================
