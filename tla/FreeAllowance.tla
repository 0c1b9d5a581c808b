---------------------------- MODULE FreeAllowance ----------------------------
(***************************************************************************)
(* The free allowance of one organization (assessment_entitlements.py):    *)
(* invitations of a calendar month count against monthly limits, and are   *)
(* released when revoked or expired before their start.  Issuing locks the *)
(* organization's row; a resend that keeps a live reservation does not.    *)
(***************************************************************************)
EXTENDS Integers, FiniteSets

CONSTANTS
    Invites,        \* assessment_issues rows
    Kinds,          \* free assessment types: english_language and mcq
    Emails,         \* candidates
    FreeOfKind,     \* FREE_LIMITS of each kind
    FreeCandidates, \* FREE_LIMITS of candidates
    Recruiters,     \* requests that may run at a time
    MaxMonth        \* bound: months

ASSUME AllowanceAssumption ==
    /\ FreeOfKind \in Nat /\ FreeCandidates \in Nat /\ MaxMonth \in Nat \ {0}
    /\ IsFiniteSet(Invites) /\ IsFiniteSet(Emails)

VARIABLES
    month,      \* the calendar month, UTC
    invites,    \* the rows; ended: the deadline has passed
    held,       \* the requests that hold the row of the organization
    grant,      \* what each request is about to commit
    paid,       \* is_paid_assess_account
    lapses      \* history: what happened that the code does not guard against

allowanceVars == <<month, invites, held, grant, paid, lapses>>

-----------------------------------------------------------------------------
Months == 1..MaxMonth
Invite == [status : {"none", "issued", "revoked"}, kind : Kinds, email : Emails,
           month : 0..MaxMonth, ended : BOOLEAN, started : BOOLEAN]

\* renewed: in the month the limits were checked for, else the empty set.
Grant == [invite : SUBSET Invites, renewed : SUBSET Months]
NoGrant == [invite |-> {}, renewed |-> {}]

AllowanceInit ==
    /\ month = 1
    /\ invites \in [Invites -> {i \in Invite :
          i.status = "none" /\ i.month = 0 /\ ~i.ended /\ ~i.started}]
    /\ held = {}
    /\ grant = [r \in Recruiters |-> NoGrant]
    /\ paid \in BOOLEAN
    /\ lapses = IF paid THEN {"plan"} ELSE {}

-----------------------------------------------------------------------------
(* monthly_usage *)

\* Issued this month, and started or still open.
Counted(i) ==
    /\ invites[i].month = month
    /\ invites[i].started \/ (invites[i].status = "issued" /\ ~invites[i].ended)

Used == {i \in Invites : Counted(i)}
UsedOf(kind) == {i \in Used : invites[i].kind = kind}
UsedEmails == {invites[i].email : i \in Used}

\* require_issue_allowance, under the lock of the organization's row.
Allows(kind, email) ==
    \/ paid
    \/ /\ email \in UsedEmails \/ Cardinality(UsedEmails) < FreeCandidates
       /\ Cardinality(UsedOf(kind)) < FreeOfKind

-----------------------------------------------------------------------------
AllowanceIdle(r) == grant[r] = NoGrant

\* Issue, up to the commit.
IssueInvite(r, i) ==
    /\ AllowanceIdle(r) /\ held = {}
    /\ invites[i].status = "none" /\ \A q \in Recruiters : i \notin grant[q].invite
    /\ Allows(invites[i].kind, invites[i].email)
    /\ held' = {r}
    /\ grant' = [grant EXCEPT ![r] = [invite |-> {i}, renewed |-> {month}]]
    /\ UNCHANGED <<month, invites, paid, lapses>>

\* Mutant of Reserved: the deadline is not looked at.
ReservedOnce(i) == invites[i].status = "issued" /\ invites[i].month = month

Reserved(i) == invites[i].status = "issued" /\ invites[i].month = month /\ ~invites[i].ended

\* reserve_resent_invitation for a reservation that still stands: no lock.
ResendLive(r, i) ==
    /\ AllowanceIdle(r)
    /\ Reserved(i) /\ ~invites[i].started
    /\ grant' = [grant EXCEPT ![r] = [invite |-> {i}, renewed |-> {}]]
    /\ UNCHANGED <<month, invites, held, paid, lapses>>

\* ... and for one that was released: the limits are checked again.
ResendReleased(r, i) ==
    /\ AllowanceIdle(r) /\ held = {}
    /\ invites[i].status # "none" /\ ~Reserved(i) /\ ~invites[i].started
    /\ Allows(invites[i].kind, invites[i].email)
    /\ held' = {r}
    /\ grant' = [grant EXCEPT ![r] = [invite |-> {i}, renewed |-> {month}]]
    /\ UNCHANGED <<month, invites, paid, lapses>>

\* The commit; an unchanged column (status, started_at) is not written.
GrantCommits(r) ==
    \E i \in grant[r].invite :
      /\ UNCHANGED <<month, paid, lapses>>
      /\ invites' = [invites EXCEPT
            ![i].status = IF grant[r].renewed = {} THEN @ ELSE "issued",
            ![i].month = IF grant[r].renewed = {} THEN @ ELSE CHOOSE m \in grant[r].renewed : TRUE,
            ![i].ended = FALSE]
      /\ held' = held \ {r}
      /\ grant' = [grant EXCEPT ![r] = NoGrant]

\* The request fails and its lock goes.
GrantFails(r) ==
    /\ ~AllowanceIdle(r)
    /\ held' = held \ {r}
    /\ grant' = [grant EXCEPT ![r] = NoGrant]
    /\ UNCHANGED <<month, invites, paid, lapses>>

InviteChanges(i, row) ==
    /\ invites' = [invites EXCEPT ![i] = row]
    /\ UNCHANGED <<month, held, grant, paid>>

\* A place is given away: a resend may have found the reservation live.
Releases(i) ==
    lapses' = lapses \union
        {l \in {"revived"} : \E r \in Recruiters : grant[r] = [invite |-> {i}, renewed |-> {}]}

\* The candidate's login; the deadline; revoke_issued_assessment_invitation.
InviteStarts(i) ==
    /\ invites[i].status = "issued" /\ ~invites[i].ended /\ ~invites[i].started
    /\ InviteChanges(i, [invites[i] EXCEPT !.started = TRUE])
    /\ UNCHANGED lapses

InviteExpires(i) ==
    /\ invites[i].status # "none" /\ ~invites[i].ended
    /\ InviteChanges(i, [invites[i] EXCEPT !.ended = TRUE])
    /\ Releases(i)

InviteRevoked(i) ==
    /\ invites[i].status = "issued"
    /\ InviteChanges(i, [invites[i] EXCEPT !.status = "revoked", !.ended = TRUE])
    /\ Releases(i)

\* The account is activated or its period ends.
PlanChanges ==
    /\ paid' = ~paid
    /\ lapses' = lapses \union {"plan"}
    /\ UNCHANGED <<month, invites, held, grant>>

MonthEnds ==
    /\ month < MaxMonth
    /\ month' = month + 1
    /\ lapses' = IF paid THEN {"plan"} ELSE {}
    /\ UNCHANGED <<invites, held, grant, paid>>

AllowanceNext ==
    \/ \E r \in Recruiters :
         \/ \E i \in Invites : IssueInvite(r, i) \/ ResendLive(r, i) \/ ResendReleased(r, i)
         \/ GrantCommits(r) \/ GrantFails(r)
    \/ \E i \in Invites : InviteStarts(i) \/ InviteExpires(i) \/ InviteRevoked(i)
    \/ PlanChanges \/ MonthEnds

AllowanceSpec == AllowanceInit /\ [][AllowanceNext]_allowanceVars

-----------------------------------------------------------------------------
(* Properties. *)

AllowanceTypeOK ==
    /\ month \in Months
    /\ invites \in [Invites -> Invite]
    /\ held \subseteq Recruiters /\ Cardinality(held) <= 1
    /\ grant \in [Recruiters -> Grant]
    /\ paid \in BOOLEAN
    /\ lapses \subseteq {"plan", "revived"}

\* An organization that has not paid in a month has used no more than the
\* free allowance of the month, whatever recruiters, candidates and deadlines
\* do at a time: unless an invitation's place was given away between the
\* moment a resend found it live and the resend's commit.
AllowanceKept ==
    lapses = {} =>
      /\ Cardinality(UsedEmails) <= FreeCandidates
      /\ \A k \in Kinds : Cardinality(UsedOf(k)) <= FreeOfKind
=============================================================================
