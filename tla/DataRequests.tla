----------------------------- MODULE DataRequests ----------------------------
(***************************************************************************)
(* Erasing one candidate's data (admin.py, organization_retention.py): on  *)
(* a data-subject request, which an administrator takes through its steps, *)
(* or when the retention period is over; never under a legal hold.  The    *)
(* candidate goes on working meanwhile (exams.py).                         *)
(***************************************************************************)
EXTENDS OrganizationSettings

CONSTANTS
    Issues,     \* assessment issues to the candidate's address
    Own,        \* those issued by the owner of the organization
    Requests    \* deletion requests for the candidate

ASSUME DataAssumption == Own \subseteq Issues

VARIABLES
    person,     \* the candidate's row, and whether an application is active
    issues,     \* assessment_issues with their submissions
    requests,   \* data_subject_requests
    job,        \* what each request is doing, with what it has loaded
    due,        \* history: issues there were when a deletion was completed
    overlaps    \* history: what was on its way while data were erased

dataRows == <<person, issues, requests>>
dataVars == <<settingsVars, dataRows, job, due, overlaps>>

-----------------------------------------------------------------------------
\* named: the row has the candidate's name and address; answers: the
\* submission has his work; notes: the request has the text of its notes.
Issue == [status : {"none", "issued", "started", "submitted", "revoked"},
          named : BOOLEAN, answers : BOOLEAN]
RequestRow == [status : {"none", "received", "identity_verified", "in_review", "approved",
                         "on_hold", "rejected", "completed"},
               verified : BOOLEAN, notes : BOOLEAN]

Acts == {"verify_identity", "start_review", "approve", "reject", "hold", "resume"}

\* freely: no hold was in force when the job read the settings.
Job == [op : {"idle", "save", "submit", "update", "execute", "retain"},
        request : SUBSET Requests, act : {"none"} \union Acts, row : RequestRow,
        issues : SUBSET Issues, person : BOOLEAN, freely : BOOLEAN]
NoRow == [status |-> "none", verified |-> FALSE, notes |-> FALSE]
NoJob == [op |-> "idle", request |-> {}, act |-> "none", row |-> NoRow,
          issues |-> {}, person |-> FALSE, freely |-> FALSE]

DataInit ==
    /\ SettingsInit
    /\ person = [named |-> TRUE, active |-> FALSE]
    /\ issues = [i \in Issues |-> [status |-> "none", named |-> FALSE, answers |-> FALSE]]
    /\ requests = [r \in Requests |-> NoRow]
    /\ job = [t \in Threads |-> NoJob]
    /\ due = {}
    /\ overlaps = {}

FreeThread(t) == job[t] = NoJob /\ ~writer[t].busy
BeginJob(t, j) ==
    /\ FreeThread(t)
    /\ job' = [job EXCEPT ![t] = j]
    /\ UNCHANGED <<settingsVars, dataRows, due, overlaps>>

-----------------------------------------------------------------------------
(* The candidate and the recruiters. *)

CandidateOnly ==
    UNCHANGED <<settingsVars, requests, job, due, overlaps>>

\* A candidate who applies after his row was erased gets another row.
Apply(active) ==
    /\ person.named /\ person.active # active
    /\ person' = [person EXCEPT !.active = active]
    /\ UNCHANGED issues /\ CandidateOnly

IssueChanges(i, row) == issues' = [issues EXCEPT ![i] = row] /\ UNCHANGED person /\ CandidateOnly

Invite(i) ==
    /\ issues[i].status = "none"
    /\ IssueChanges(i, [status |-> "issued", named |-> TRUE, answers |-> FALSE])

LogIn(i) ==
    /\ issues[i].status = "issued"
    /\ IssueChanges(i, [issues[i] EXCEPT !.status = "started"])

RevokeIssue(i) ==
    /\ issues[i].status \in {"issued", "started"}
    /\ IssueChanges(i, [issues[i] EXCEPT !.status = "revoked"])

\* autosave and submit: the issue is loaded and checked.
Work(t, i, op) ==
    /\ issues[i].status = "started"
    /\ BeginJob(t, [NoJob EXCEPT !.op = op, !.issues = {i}])

WorkCommits(t) ==
    /\ job[t].op \in {"save", "submit"}
    /\ issues' = [i \in Issues |->
         IF i \notin job[t].issues THEN issues[i]
         ELSE [issues[i] EXCEPT !.answers = TRUE,
                                !.status = IF job[t].op = "submit" THEN "submitted" ELSE @]]
    /\ job' = [job EXCEPT ![t] = NoJob]
    /\ UNCHANGED <<settingsVars, person, requests, due, overlaps>>

-----------------------------------------------------------------------------
(* Data-subject requests. *)

Receive(r) ==
    /\ requests[r].status = "none"
    /\ requests' = [requests EXCEPT ![r] = [status |-> "received", verified |-> FALSE, notes |-> TRUE]]
    /\ UNCHANGED <<settingsVars, person, issues, job, due, overlaps>>

Closed(row) == row.status \in {"completed", "rejected"}

\* admin_workspace_update_data_request, up to its commit.
UpdateRequest(t, r, act) ==
    /\ requests[r].status # "none" /\ ~Closed(requests[r])
    /\ act \in {"start_review", "approve"} => requests[r].verified
    /\ act = "resume" => requests[r].status = "on_hold"
    /\ BeginJob(t, [NoJob EXCEPT !.op = "update", !.request = {r}, !.act = act, !.row = requests[r]])

\* Mutant of StatusAfter: the row gets the name of the action.
StatusAfterNamed(row, act) == act

StatusAfter(row, act) ==
    CASE act = "verify_identity" -> "identity_verified"
      [] act = "start_review" -> "in_review"
      [] act = "approve" -> "approved"
      [] act = "reject" -> "rejected"
      [] act = "hold" -> "on_hold"
      [] act = "resume" -> IF row.verified THEN "in_review" ELSE "received"

\* Only a status that differs from the one loaded is written; the notes are the
\* notes loaded and a line more.
Updated(row, loaded, act) ==
    [status |-> IF StatusAfter(loaded, act) = loaded.status THEN row.status
                ELSE StatusAfter(loaded, act),
     verified |-> row.verified \/ act = "verify_identity",
     notes |-> loaded.notes]

Executing(r) == {t \in Threads : job[t].op = "execute" /\ r \in job[t].request}

UpdateCommits(t) ==
    /\ job[t].op = "update"
    /\ requests' = [r \in Requests |-> IF r \in job[t].request
                      THEN Updated(requests[r], job[t].row, job[t].act) ELSE requests[r]]
    /\ overlaps' = overlaps \union
         {o \in {"update"} : \E r \in job[t].request : requests[r] # job[t].row \/ Executing(r) # {}}
    /\ job' = [job EXCEPT ![t] = NoJob]
    /\ UNCHANGED <<settingsVars, person, issues, due>>

\* Mutant of Blocked: the legal hold is not looked at.
BlockedNever == FALSE

Blocked == settings.hold

\* Mutant of Refused: an invitation that has started is no obstacle.
RefusedIfIssued == person.active \/ \E i \in Own : issues[i].named /\ issues[i].status = "issued"

\* Active applications, and invitations of the owner that are open.
Refused ==
    person.active \/ \E i \in Own : issues[i].named /\ issues[i].status \in {"issued", "started"}

\* admin_workspace_execute_data_request, up to its commit.
Execute(t, r) ==
    /\ requests[r].status = "approved"
    /\ ~Blocked /\ ~Refused
    /\ BeginJob(t, [NoJob EXCEPT !.op = "execute", !.request = {r}, !.person = person.named,
                              !.issues = {i \in Own : issues[i].named}, !.freely = ~ordered])

\* run_organization_retention: rows whose period is over.
Retain(t, period) ==
    /\ ~Blocked
    /\ BeginJob(t, [NoJob EXCEPT !.op = "retain", !.person = "person" \in period /\ ~person.active,
                   !.issues = {i \in Own \intersect period :
                       issues[i].named /\ issues[i].status \in {"submitted", "revoked"}},
                   !.freely = ~ordered])

Erased(i, gone) ==
    IF i \in gone THEN [issues[i] EXCEPT !.named = FALSE, !.answers = FALSE] ELSE issues[i]

Others(t, op) == {u \in Threads \ {t} : job[u].op \in op}

\* The commit of a deletion or of the retention run.
Erase(t) ==
    LET j == job[t] IN
    /\ j.op \in {"execute", "retain"}
    /\ person' = [person EXCEPT !.named = @ /\ ~j.person]
    /\ issues' = [i \in Issues |-> Erased(i, j.issues)]
    /\ requests' = [r \in Requests |-> IF r \in j.request
                      THEN [requests[r] EXCEPT !.status = "completed", !.notes = FALSE]
                      ELSE requests[r]]
    /\ due' = IF j.op = "execute" THEN due \union {i \in Issues : issues[i].status # "none"} ELSE due
    /\ overlaps' = overlaps
         \union {o \in {"work"} : \E u \in Others(t, {"save", "submit"}) : job[u].issues \intersect j.issues # {}}
         \union {o \in {"update"} : \E u \in Others(t, {"update"}) : job[u].request \intersect j.request # {}}
         \union {o \in {"invite"} : j.op = "execute" /\ \E i \in Own \ j.issues : issues[i].named}
    /\ job' = [job EXCEPT ![t] = NoJob]
    /\ UNCHANGED settingsVars

JobFails(t) ==
    /\ job[t] # NoJob
    /\ job' = [job EXCEPT ![t] = NoJob]
    /\ UNCHANGED <<settingsVars, dataRows, due, overlaps>>

DataNext ==
    \/ HoldNext /\ UNCHANGED <<dataRows, job, due, overlaps>>
       /\ \A t \in Threads : writer'[t].busy => job[t] = NoJob
    \/ \E active \in BOOLEAN : Apply(active)
    \/ \E i \in Issues : Invite(i) \/ LogIn(i) \/ RevokeIssue(i)
    \/ \E r \in Requests : Receive(r)
    \/ \E t \in Threads :
         \/ \E i \in Issues, op \in {"save", "submit"} : Work(t, i, op)
         \/ WorkCommits(t)
         \/ \E r \in Requests : Execute(t, r) \/ \E act \in Acts : UpdateRequest(t, r, act)
         \/ \E period \in SUBSET (Own \union {"person"}) : Retain(t, period)
         \/ UpdateCommits(t) \/ Erase(t) \/ JobFails(t)

DataSpec == DataInit /\ [][DataNext]_dataVars

-----------------------------------------------------------------------------
(* Properties. *)

DataTypeOK ==
    /\ SettingsTypeOK
    /\ person \in [named : BOOLEAN, active : BOOLEAN]
    /\ issues \in [Issues -> Issue]
    /\ requests \in [Requests -> RequestRow]
    /\ job \in [Threads -> Job]
    /\ due \subseteq Issues
    /\ overlaps \subseteq {"work", "update", "invite"}

\* Once a deletion is completed nothing of the candidate is in the records of
\* the owner, and nothing comes back: unless his work, a step of the request or
\* an invitation was on its way when the deletion was committed.
ErasedForGood ==
    /\ \A i \in due \intersect Own :
                      /\ issues[i].named => "invite" \in overlaps
                      /\ issues[i].answers => overlaps \intersect {"invite", "work"} # {}
    /\ \A r \in Requests :
          (requests[r].status = "completed" /\ requests[r].notes) => "update" \in overlaps

\* Data are erased only by a job that read the settings before the legal hold
\* was acknowledged; unless the hold was written over.
HoldProtects ==
    [][\A t \in Threads :
          (job[t].op \in {"execute", "retain"} /\ dataRows' # dataRows /\ job'[t] = NoJob)
          => job[t].freely \/ lost]_dataVars

\* A request that is rejected or completed stays so, and a deletion is
\* executed only for one whose identity was verified and that is approved:
\* unless two administrators work on it at a time.
RequestsInTurn ==
    [][\A r \in Requests : (requests'[r].status # requests[r].status /\ "update" \notin overlaps') =>
          /\ ~Closed(requests[r])
          /\ requests'[r].status = "completed" =>
               requests[r].status = "approved" /\ requests[r].verified]_dataVars
=============================================================================
