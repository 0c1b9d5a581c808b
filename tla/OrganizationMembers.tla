------------------------- MODULE OrganizationMembers --------------------------
(***************************************************************************)
(* Who belongs to an organization (hiring.py): members are added, changed  *)
(* and removed by members who may; one that waits for its first company    *)
(* sign-in becomes active by it (deps.py); and a user without an           *)
(* organization gets one of his own with his first request.                *)
(***************************************************************************)
EXTENDS Naturals, FiniteSets, RowChanges

CONSTANTS
    Owner,      \* the user who created the organization
    Others,     \* users who may be members
    Desks,      \* requests that may run at a time
    MaxOwn      \* bound: organizations made for one user

ASSUME MembersAssumption == Owner \notin Others /\ MaxOwn \in Nat

VARIABLES
    team,       \* organization_memberships: role and status
    account,    \* users: none, waiting for company sign-in, or with a password
    own,        \* organizations made for a user, over which slugs are numbered
    desk,       \* what each request is doing
    decided,    \* history: status that members last gave a member
    overlaps    \* history: requests that ran across each other

membersVars == <<team, account, own, desk, decided, overlaps>>

-----------------------------------------------------------------------------
Users == Others \union {Owner}
Roles == {"none", "owner", "org_admin", "recruiter"}
Membership == [role : Roles, status : {"none", "pending_sso", "active", "suspended", "removed"}]
Nobody == [role |-> "none", status |-> "none"]

\* For whom, which columns and what status they are meant to give; insert: the
\* row is a new one; slug: the number of the organization to be made.
Quiet == [op |-> "quiet", for |-> Owner, set |-> NoChanges, means |-> "none",
          insert |-> FALSE, login |-> "same", slug |-> 0]

MembersInit ==
    /\ team = [u \in Users |-> IF u = Owner THEN [role |-> "owner", status |-> "active"]
                               ELSE Nobody]
    /\ account \in [Users -> {"none", "password"}] /\ account[Owner] = "password"
    /\ own = [u \in Users |-> 0]
    /\ desk = [d \in Desks |-> Quiet]
    /\ decided = [u \in Users |-> team[u].status]
    /\ overlaps = {}

\* _organization_context and _require_permission: the right is looked up when
\* the request begins.
May(u) == team[u].status = "active" /\ team[u].role \in {"owner", "org_admin"}

Working(ops) == {d \in Desks : desk[d].op \in ops}
Marks(mark, ops) == {m \in {mark} : Working(ops) # {}}

Decides(d, u, new, login) ==
    /\ desk[d] = Quiet
    /\ desk' = [desk EXCEPT ![d] = [Quiet EXCEPT !.op = "decide", !.for = u,
                  !.set = Changes(team[u], new), !.means = new.status, !.insert = (team[u] = Nobody), !.login = login]]
    /\ overlaps' = overlaps \union Marks("decisions", {"decide"})
                            \union Marks("sign-in", {"sign-in"})
    /\ UNCHANGED <<team, account, own, decided>>

-----------------------------------------------------------------------------
(* Members. *)

\* The owner is neither replaced, changed nor removed.
Replaceable(u) == team[u].role # "owner"

\* add_member: who has an account with a password is not made to wait for the
\* company sign-in, unless he is a member already.
AddMember(d, actor, u, role, sso) ==
    /\ May(actor) /\ Replaceable(u)
    /\ sso /\ team[u] = Nobody => account[u] # "password"
    /\ Decides(d, u, [role |-> role, status |-> IF sso THEN "pending_sso" ELSE "active"],
               IF account[u] # "none" THEN "same" ELSE IF sso THEN "sso" ELSE "password")

UpdateMember(d, actor, u, role, status) ==
    /\ May(actor) /\ team[u] # Nobody /\ Replaceable(u)
    /\ actor = u => status = "active"
    /\ Decides(d, u, [role |-> role, status |-> status], "same")

RemoveMember(d, actor, u) ==
    /\ May(actor) /\ team[u] # Nobody /\ Replaceable(u)
    /\ actor # u
    /\ Decides(d, u, [team[u] EXCEPT !.status = "removed"], "same")

\* Neither the unique membership nor the unique address is stored twice.
DecisionCommits(d) ==
    LET u == desk[d].for IN
    /\ desk[d].op = "decide"
    /\ desk[d].insert => team[u] = Nobody
    /\ desk[d].login # "same" => account[u] = "none"
    /\ team' = [team EXCEPT ![u] = Update(@, desk[d].set)]
    /\ account' = [account EXCEPT ![u] = IF desk[d].login = "same" THEN @ ELSE desk[d].login]
    /\ decided' = [decided EXCEPT ![u] = desk[d].means]
    /\ desk' = [desk EXCEPT ![d] = Quiet]
    /\ UNCHANGED <<own, overlaps>>

-----------------------------------------------------------------------------
(* Users. *)

\* _activate_pending_sso_memberships
SignIn(d, u) ==
    /\ desk[d] = Quiet
    /\ account[u] # "none" /\ team[u].status = "pending_sso"
    /\ desk' = [desk EXCEPT ![d] = [Quiet EXCEPT !.op = "sign-in", !.for = u,
                  !.set = [status |-> "active"]]]
    /\ overlaps' = overlaps \union Marks("sign-in", {"decide"})
    /\ UNCHANGED <<team, account, own, decided>>

SignInCommits(d) ==
    /\ desk[d].op = "sign-in"
    /\ team' = [team EXCEPT ![desk[d].for] = Update(@, desk[d].set)]
    /\ desk' = [desk EXCEPT ![d] = Quiet]
    /\ UNCHANGED <<account, own, decided, overlaps>>

\* _ensure_bootstrap_organization: he has no active membership anywhere, ...
Looks(d, u) ==
    /\ desk[d] = Quiet
    /\ account[u] # "none"
    /\ own[u] = 0 /\ team[u].status # "active"
    /\ desk' = [desk EXCEPT ![d] = [Quiet EXCEPT !.op = "look", !.for = u]]
    /\ overlaps' = overlaps \union Marks("first", {"look", "name"})
    /\ UNCHANGED <<team, account, own, decided>>

\* ... a name is taken that no organization has by now, ...
Names(d) ==
    LET u == desk[d].for IN
    /\ desk[d].op = "look"
    /\ own[u] < MaxOwn
    /\ desk' = [desk EXCEPT ![d].op = "name", ![d].slug = own[u] + 1]
    /\ UNCHANGED <<team, account, own, decided, overlaps>>

\* ... and it is stored, unless another one has been by that name.
Founds(d) ==
    LET u == desk[d].for IN
    /\ desk[d].op = "name"
    /\ desk[d].slug > own[u]
    /\ own' = [own EXCEPT ![u] = desk[d].slug]
    /\ desk' = [desk EXCEPT ![d] = Quiet]
    /\ UNCHANGED <<team, account, decided, overlaps>>

DeskFails(d) ==
    /\ desk[d] # Quiet
    /\ desk' = [desk EXCEPT ![d] = Quiet]
    /\ UNCHANGED <<team, account, own, decided, overlaps>>

MembersNext ==
    \E d \in Desks :
        \/ \E actor, u \in Users :
             \/ \E role \in {"org_admin", "recruiter"} :
                  \/ \E sso \in BOOLEAN : AddMember(d, actor, u, role, sso)
                  \/ \E status \in {"active", "suspended"} :
                       UpdateMember(d, actor, u, role, status)
             \/ RemoveMember(d, actor, u)
        \/ \E u \in Users : SignIn(d, u) \/ Looks(d, u)
        \/ DecisionCommits(d) \/ SignInCommits(d)
        \/ Names(d) \/ Founds(d) \/ DeskFails(d)

MembersSpec == MembersInit /\ [][MembersNext]_membersVars

-----------------------------------------------------------------------------
(* Properties. *)

MembersTypeOK ==
    /\ team \in [Users -> Membership]
    /\ account \in [Users -> {"none", "sso", "password"}]
    /\ own \in [Users -> 0..MaxOwn]
    /\ \A d \in Desks : Update(Nobody, desk[d].set) \in Membership

\* The organization keeps its owner.  A member has the status he was given,
\* or is active by the company sign-in he was waiting for: unless requests
\* about members ran across each other.  Nobody gets two organizations of his
\* own: unless two of his first requests did.
MembersHold ==
    /\ team[Owner] = [role |-> "owner", status |-> "active"]
    /\ \A u \in Users :
         /\ \/ team[u].status = decided[u]
            \/ team[u].status = "active" /\ decided[u] = "pending_sso"
            \/ overlaps \intersect {"decisions", "sign-in"} # {}
         /\ own[u] > 1 => "first" \in overlaps
         /\ account[u] = "none" => team[u] = Nobody
=============================================================================
