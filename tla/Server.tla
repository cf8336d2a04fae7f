------------------------------- MODULE Server -------------------------------
(***************************************************************************)
(* One repository under all of its ref and wip requests: RefRequests and   *)
(* WorkRepo run beside each other on the shared tables.                    *)
(***************************************************************************)
EXTENDS WorkRepo, RefRequests

serverVars == <<vars, refVars>>

ServerInit == Init /\ RefInit

WorkStep == Next /\ UNCHANGED refVars
RefsStep == RefNext /\ UNCHANGED <<wreq, edits>>

\* Any requests at the same time.
ServerNext == WorkStep \/ RefsStep
ServerSpec == ServerInit /\ [][ServerNext]_serverVars

\* One request at a time on the whole server: the behaviour every concurrent
\* execution is measured against.
Quiet      == \A h \in Handlers : wreq[h].pc = "idle"
RefQuiet   == \A k \in RefHandlers : rreq[k].pc = "idle"
OneRequest == /\ Quiet \/ RefQuiet
              /\ \A h, i \in Handlers : wreq[h].pc # "idle" /\ wreq[i].pc # "idle" => h = i
              /\ \A k, i \in RefHandlers : rreq[k].pc # "idle" /\ rreq[i].pc # "idle" => k = i
OneByOne   == ServerNext /\ OneRequest'
SerialSpec == ServerInit /\ [][OneByOne]_serverVars

----------------------------------------------------------------------------
ServerTypeOK ==
    /\ RowsOK /\ RefTypeOK
    /\ spent \subseteq BranchIds \cup WipIds \cup TagIds

\* RefIntegrity, with tags: every ref resolves to a stored commit.
RefsResolve ==
    /\ RefIntegrity
    /\ \A t \in DOMAIN tags : tags[t].target \in DOMAIN commits

\* HEAD names a branch: DeleteBranch refuses to delete it ("can not delete
\* HEAD branch", branch_ctl.go) and UpdateRepository looks the branch up.
HeadExists == NamedRows(head) # {}

\* A branch name is the name of one branch ("already exit", work_repo.go).
BranchNamesUnique == \A b, d \in DOMAIN branches : branches[b].name = branches[d].name => b = d

\* A wip lives on a branch that exists: deleting a branch deletes its wips.
WipsHaveBranches == \A w \in DOMAIN wips : wips[w].ref \in DOMAIN branches

\* A tag names the same commit until a request that was shown this very tag
\* deletes it: what replaced it meanwhile under the same name survives.
TagsDeletedKnowingly ==
    [][\A t \in DOMAIN tags :
          \/ t \in DOMAIN tags' /\ tags'[t] = tags[t]
          \/ \E k \in RefHandlers : rreq[k].op = "DeleteTag" /\ rreq[k].row = t]_serverVars
=============================================================================
