------------------------------- MODULE Accounts --------------------------------
(***************************************************************************)
(* The accounts of one person, found by the e-mail address of his token    *)
(* (deps.py get_current_user, auth.py), and what administrators do to      *)
(* them: a company's account, approval, freezing, banning, deletion        *)
(* (admin.py, provider.py).                                                *)
(* A request loads a row and, when it commits, writes the columns it has   *)
(* changed and no others.                                                  *)
(***************************************************************************)
EXTENDS Naturals, Sequences, RowChanges

CONSTANTS
    Clients,    \* requests that may run at a time
    MaxRows,    \* bound: accounts of the person
    MaxActs     \* bound: decisions of administrators

ASSUME AccountsAssumption == MaxRows \in Nat /\ MaxActs \in Nat

VARIABLES
    rows,       \* users, with user_approvals and provider_profiles
    identity,   \* external: whether Supabase has an identity for the address
    bans,       \* banned_identities: the row each was made for and its address
    acts,       \* decisions taken so far
    client,     \* what each request has loaded and is about to write
    barred,     \* history: a ban of the person's address was acknowledged
    entered,    \* history: a sign-in that began while that ban was in force was accepted
    races       \* history: "name", a name was written to a row that had lost its name;
                \* "address", a row got the address while it was being banned

accountVars == <<rows, identity, bans, acts, client, barred, entered, races>>

-----------------------------------------------------------------------------
\* A deleted row has a tombstone for its address and its name; an approval that
\* is pending and one that was rejected are alike.
Row == [email : {"address", "tomb"}, name : {"registered", "token", "tomb"},
        state : {"active", "frozen", "banned", "deleted"},
        approval : {"approved", "withheld"}]

NoCall == [op |-> "idle", for |-> "none", row |-> 0, set |-> NoChanges, seen |-> "none",
         ban |-> "none", barred |-> FALSE]

AccountsInit ==
    /\ rows = <<>>
    /\ identity \in BOOLEAN
    /\ bans = {}
    /\ client = [c \in Clients |-> NoCall]
    /\ acts = 0
    /\ barred = FALSE
    /\ entered = FALSE
    /\ races = {}

Holding == {r \in DOMAIN rows : rows[r].email = "address"}
AddressBanned == \E b \in bans : b.email = "address"

Starts(c, job) ==
    /\ client[c] = NoCall
    /\ client' = [client EXCEPT ![c] = job]
    /\ UNCHANGED <<rows, bans, barred, entered, races>>

Counted == acts < MaxActs /\ acts' = acts + 1

Ends(c) == client' = [client EXCEPT ![c] = NoCall]

\* A ban that is lifted is in force for no sign-in that has begun.
EndsAndLifts(c) ==
    client' = [q \in Clients |-> IF q = c THEN NoCall
                                ELSE [client[q] EXCEPT !.barred = @ /\ barred']]
Proceeds(c, job) == client' = [client EXCEPT ![c] = job]

Accept(c) == entered' = (entered \/ (client[c].barred /\ barred))

AddressRace(c) ==
    {n \in {"address"} : ~client[c].barred /\ \E r \in Holding', b \in bans' :
                             b.email = "address" /\ b.row # r}

Stores(c, r, set) ==
    /\ rows' = [rows EXCEPT ![r] = Update(@, set)]
    /\ races' = races \union {n \in {"name"} : rows[r].name = "tomb" /\ n \in DOMAIN set}
                      \union AddressRace(c)

Commits(c) == Stores(c, client[c].row, client[c].set)

-----------------------------------------------------------------------------
(* get_current_user and me_context. *)

\* The row is looked up by address, and the name of the token is taken over;
\* me_context tests the state before it writes, get_current_user after.
Found(c, op, r) ==
    [NoCall EXCEPT !.op = op, !.row = r, !.seen = rows[r].state, !.barred = client[c].barred,
                 !.set = Changes(rows[r], [rows[r] EXCEPT !.name = "token"])]

Unknown(c, op) ==
    /\ Holding = {}
    /\ Starts(c, [NoCall EXCEPT !.op = "unknown", !.for = op, !.barred = barred])

Known(c, op, r) == Starts(c, [Found(c, op, r) EXCEPT !.barred = barred])

\* A token is given to an identity.
RequestLooks(c) ==
    /\ identity
    /\ Unknown(c, "request") \/ \E r \in Holding : Known(c, "request", r)

ContextLooks(c) ==
    /\ identity
    /\ \/ Unknown(c, "context")
       \/ \E r \in Holding : rows[r].state = "active" /\ Known(c, "context", r)

\* login: a password is exchanged for a token of Supabase, which an account
\* that is approved and active is handed.
Login ==
    /\ identity
    /\ \E r \in Holding : rows[r].state = "active" /\ rows[r].approval = "approved"
    /\ entered' = (entered \/ barred)
    /\ UNCHANGED <<rows, bans, client, barred, races>>

Admits(c, state) ==
    /\ UNCHANGED <<bans, barred>>
    /\ IF client[c].set = NoChanges THEN UNCHANGED <<rows, races>> ELSE Commits(c)
    /\ IF state = "active" THEN Accept(c) ELSE UNCHANGED entered
    /\ Ends(c)

\* The state is read again only when something was written; without an
\* approval one is created.
RequestSignsIn(c) ==
    /\ client[c].op = "request"
    /\ Admits(c, IF client[c].set = NoChanges THEN client[c].seen
                 ELSE rows[client[c].row].state)

ContextSignsIn(c) ==
    /\ client[c].op = "context"
    /\ Admits(c, client[c].seen)

Unbanned == ~AddressBanned

\* No row: the bans are read next, and then a row is made.
CheckBans(c) ==
    /\ client[c].op = "unknown"
    /\ IF Unbanned THEN Proceeds(c, [client[c] EXCEPT !.op = "create"]) ELSE Ends(c)
    /\ UNCHANGED <<rows, bans, barred, entered, races>>

\* An employer who verified the address is approved at once.
NewRow(c, op, approval) ==
    /\ client[c].op = "create" /\ client[c].for = op
    /\ Holding = {} /\ Len(rows) < MaxRows
    /\ rows' = Append(rows, [email |-> "address", name |-> "token", state |-> "active",
                             approval |-> approval])
    /\ UNCHANGED <<bans, barred>>
    /\ races' = races \union AddressRace(c)
    /\ Accept(c)
    /\ Ends(c)

RequestCreates(c, approval) == NewRow(c, "request", approval)
ContextCreates(c, approval) == NewRow(c, "context", approval)

\* Another request has made the row, and the address is unique: a request goes
\* on with that row, me_context fails.
CreateClashes(c) ==
    /\ client[c].op = "create"
    /\ \E r \in Holding :
         IF client[c].for = "request" THEN Proceeds(c, Found(c, "request", r)) ELSE Ends(c)
    /\ UNCHANGED <<rows, bans, barred, entered, races>>

-----------------------------------------------------------------------------
(* register_role: the row is found by the user id of the token or by address. *)

Registered(row, email) ==
    [row EXCEPT !.email = email, !.name = "registered", !.approval = "approved"]

Register(c, r) ==
    /\ identity /\ Unbanned
    /\ rows[r].state = "active"
    /\ Starts(c, [NoCall EXCEPT !.op = "register", !.row = r,
                   !.set = Changes(rows[r], Registered(rows[r], "address")), !.barred = barred])

\* When another row has the address by now, the row keeps its own.
RegisterCommits(c) ==
    LET job == client[c]
        clash == "email" \in DOMAIN job.set /\ Holding # {}
    IN
    /\ job.op = "register"
    /\ UNCHANGED <<bans, barred>>
    /\ IF clash THEN Stores(c, job.row, Registered(rows[job.row], rows[job.row].email)) ELSE Commits(c)
    /\ Accept(c)
    /\ Ends(c)

-----------------------------------------------------------------------------
(* Administrators. *)

Judged(row, approve) == [row EXCEPT !.approval = IF approve THEN "approved" ELSE "withheld"]

\* admin_update_user_state with _sync_user_approval_state
InState(row, action) ==
    CASE action = "active" -> [Judged(row, TRUE) EXCEPT !.state = "active"]
      [] action = "freeze" -> [Judged(row, TRUE) EXCEPT !.state = "frozen"]
      [] action = "ban"    -> [Judged(row, FALSE) EXCEPT !.state = "banned"]
      [] action = "delete" -> [Judged(row, FALSE) EXCEPT !.state = "deleted", !.email = "tomb",
                                                         !.name = "tomb"]

\* _ban_user_identities: one ban for a row, with the address it has then.
BanFor(r) == IF \E b \in bans : b.row = r THEN "none" ELSE rows[r].email

SetState(c, r, action) ==
    /\ Counted
    /\ Starts(c, [NoCall EXCEPT !.op = action, !.row = r,
                  !.set = Changes(rows[r], InState(rows[r], action)),
                  !.ban = IF action = "ban" THEN BanFor(r) ELSE "none"])

\* student_approval_decision, provider_user_approval_decision and
\* provider_approval_decision: no state is looked at.
Decide(c, r, approve) ==
    /\ Counted
    /\ Starts(c, [NoCall EXCEPT !.op = "decide", !.row = r,
                  !.set = Changes(rows[r], Judged(rows[r], approve))])

AdminCommits(c) ==
    LET job == client[c] IN
    /\ job.op \in {"active", "freeze", "ban", "delete", "decide"}
    /\ bans' = bans \union {b \in {[row |-> job.row, email |-> job.ban]} : job.ban # "none"}
    /\ Commits(c)
    /\ barred' = IF job.op \notin {"ban", "active"} THEN barred
                 ELSE LET state == rows'[job.row].state IN    \* as answered
                      IF state = "banned" THEN barred \/ [row |-> job.row, email |-> "address"] \in bans'
                      ELSE barred /\ state # "active"
    /\ EndsAndLifts(c)
    /\ UNCHANGED entered

-----------------------------------------------------------------------------
(* _create_company_account: bans are not looked at. *)

Provision(c) ==
    /\ Counted
    /\ Holding = {}
    /\ Starts(c, [NoCall EXCEPT !.op = "provision"])

\* Supabase refuses an identity it has already; the answer may be lost.
MakeIdentity(c) ==
    /\ client[c].op = "provision"
    /\ identity' = TRUE
    /\ \/ ~identity /\ Proceeds(c, [client[c] EXCEPT !.op = "company"])
       \/ Ends(c)
    /\ UNCHANGED <<rows, bans, barred, entered, races>>

\* The owner, the company and its papers in one transaction; to the
\* administrator the company is in again, whoever was banned before.
CompanyCommits(c) ==
    /\ client[c].op = "company"
    /\ Holding = {} /\ Len(rows) < MaxRows
    /\ rows' = Append(rows, [email |-> "address", name |-> "registered", state |-> "active",
                             approval |-> "approved"])
    /\ barred' = FALSE
    /\ EndsAndLifts(c)
    /\ UNCHANGED <<bans, entered, races>>

\* A commit fails, or the client is gone: what Supabase has made stays.
RequestFails(c) ==
    /\ client[c] # NoCall
    /\ Ends(c)
    /\ UNCHANGED <<rows, bans, barred, entered, races>>

AccountsNext ==
    \/ Login /\ UNCHANGED <<identity, acts>>
    \/ \E c \in Clients :
      \/ MakeIdentity(c) /\ UNCHANGED acts
      \/ Provision(c) /\ UNCHANGED identity
      \/ /\ \/ RequestLooks(c) \/ ContextLooks(c)
            \/ RequestSignsIn(c) \/ ContextSignsIn(c)
            \/ CheckBans(c)
            \/ \E approval \in {"withheld", "approved"} :
                 RequestCreates(c, approval) \/ ContextCreates(c, approval)
            \/ CreateClashes(c)
            \/ \E r \in DOMAIN rows : Register(c, r)
            \/ RegisterCommits(c)
            \/ AdminCommits(c)
            \/ CompanyCommits(c)
            \/ RequestFails(c)
         /\ UNCHANGED <<identity, acts>>
      \/ /\ \E r \in DOMAIN rows :
              \/ \E action \in {"active", "freeze", "ban", "delete"} : SetState(c, r, action)
              \/ \E approve \in BOOLEAN : Decide(c, r, approve)
         /\ UNCHANGED identity

AccountsSpec == AccountsInit /\ [][AccountsNext]_accountVars

-----------------------------------------------------------------------------
(* Properties. *)

AccountsTypeOK ==
    /\ rows \in Seq(Row) /\ Len(rows) <= MaxRows
    /\ bans \subseteq [row : 1..MaxRows, email : {"address", "tomb"}]
    /\ acts \in 0..MaxActs
    /\ {identity, barred, entered} \subseteq BOOLEAN /\ races \subseteq {"name", "address"}

\* One row has the person's address at a time.
OneAccount == \A r, q \in Holding : r = q

\* A person whose address was banned is let in by no sign-in that begins after
\* that, though his row is deleted and the address free again; unless a request
\* that was on its way gave the address to another row.
BannedStaysOut == entered => "address" \in races

\* A deleted row keeps neither name nor address, unless it was deleted while a
\* sign-in had it loaded.
DeletedIsNameless ==
    \A r \in DOMAIN rows :
        (rows[r].state = "deleted" /\ "name" \notin races) =>
            rows[r].email = "tomb" /\ rows[r].name = "tomb"
=============================================================================
