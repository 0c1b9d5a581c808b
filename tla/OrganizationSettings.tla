------------------------ MODULE OrganizationSettings -------------------------
(***************************************************************************)
(* organizations.settings_json: one JSON value with the legal hold, the    *)
(* company's single sign-on, its branding and its products.  Every handler *)
(* that changes a key reads the value, copies it, and writes all of it     *)
(* back (admin.py, hiring.py, billing.py, deps.py).                        *)
(***************************************************************************)
CONSTANTS
    Threads,    \* requests that may run at a time
    Domains,    \* e-mail domains of the company
    NoDomain

ASSUME SettingsAssumption == NoDomain \notin Domains

VARIABLES
    settings,   \* the row's value
    writer,     \* the value each request has copied and is about to write
    ordered,    \* history: the legal hold as last acknowledged to an administrator
    proven,     \* history: domains a SAML login has come from
    lost        \* history: a value has been written over one it was not copied from

settingsVars == <<settings, writer, ordered, proven, lost>>

-----------------------------------------------------------------------------
Settings == [hold : BOOLEAN, domain : Domains \union {NoDomain},
             verified : BOOLEAN, enforced : BOOLEAN]
NewSettings == [hold |-> FALSE, domain |-> NoDomain, verified |-> FALSE, enforced |-> FALSE]

\* old: the row has changed since; writes: an UPDATE is sent at all.
Writer == [busy : BOOLEAN, governs : BOOLEAN, after : Settings, writes : BOOLEAN, old : BOOLEAN]
NoWriter == [busy |-> FALSE, governs |-> FALSE, after |-> NewSettings,
             writes |-> FALSE, old |-> FALSE]

SettingsInit ==
    /\ settings = NewSettings
    /\ writer = [t \in Threads |-> NoWriter]
    /\ ordered = FALSE
    /\ proven = {}
    /\ lost = FALSE

\* A value equal to the one loaded is not written.
Load(t, after, differs, governs) ==
    /\ ~writer[t].busy
    /\ writer' = [writer EXCEPT ![t] = [busy |-> TRUE, governs |-> governs, after |-> after,
                                        writes |-> differs \/ after # settings, old |-> FALSE]]
    /\ UNCHANGED <<settings, ordered, lost>>

\* admin_workspace_update_governance: the reason of a hold and the retention
\* periods may differ.
Govern(t, hold) ==
    /\ \E others \in BOOLEAN : Load(t, [settings EXCEPT !.hold = hold], others, TRUE)
    /\ UNCHANGED proven

\* Keys the hold and the connection know nothing of.
OtherKey(t, differs) ==
    /\ Load(t, settings, differs, FALSE)
    /\ UNCHANGED proven

\* update_organization_profile, update_current_user_profile: the same profile
\* again is not written.
UpdateProfile(t) == \E others \in BOOLEAN : OtherKey(t, others)

\* admin_workspace_update_company_profile: without a logo nothing is set.
BrandCompany(t) == \E logo \in BOOLEAN : OtherKey(t, logo)

\* activate_organization_assess: to switch the product to what it is, is no change.
ActivateAssess(t) == \E switched \in BOOLEAN : OtherKey(t, switched)

\* admin_workspace_update_sso: the operator cannot verify a connection.
Operate(t, verified) ==
    /\ verified => settings.verified
    /\ Load(t, [settings EXCEPT !.verified = verified], TRUE, FALSE)
    /\ UNCHANGED proven

Unchanged(s, domain, metadata) == metadata /\ domain = s.domain

\* update_organization_sso; metadata: the identity provider is the same.
Configure(t, domain, metadata, enforced) ==
    LET verified == settings.verified /\ Unchanged(settings, domain, metadata) IN
    /\ enforced => verified
    /\ Load(t, [settings EXCEPT !.domain = domain, !.enforced = enforced, !.verified = verified],
            TRUE, FALSE)
    /\ UNCHANGED proven

\* _activate_pending_sso_memberships: the first SAML login of a pending member.
SamlLogin(t, domain) ==
    /\ settings.domain = domain
    /\ Load(t, [settings EXCEPT !.verified = TRUE], TRUE, FALSE)
    /\ proven' = proven \union {domain}

Write(t) ==
    LET w == writer[t] IN
    /\ w.busy
    /\ settings' = IF w.writes THEN w.after ELSE settings
    /\ ordered' = IF w.governs THEN settings'.hold ELSE ordered    \* the row is read again
    /\ lost' = (lost \/ (w.writes /\ w.old))
    /\ writer' = [u \in Threads |->
         IF u = t THEN NoWriter
         ELSE [writer[u] EXCEPT !.old = @ \/ (writer[u].busy /\ w.writes)]]
    /\ UNCHANGED proven

WriteFails(t) ==
    /\ writer[t].busy
    /\ writer' = [writer EXCEPT ![t] = NoWriter]
    /\ UNCHANGED <<settings, ordered, proven, lost>>

HoldNext ==
    \E t \in Threads :
      \/ \E hold \in BOOLEAN : Govern(t, hold)
      \/ Write(t) \/ WriteFails(t)

SettingsNext ==
    \/ HoldNext
    \/ \E t \in Threads :
         \/ UpdateProfile(t) \/ BrandCompany(t) \/ ActivateAssess(t)
         \/ \E verified \in BOOLEAN : Operate(t, verified)
         \/ \E domain \in Domains :
              \/ SamlLogin(t, domain)
              \/ \E metadata, enforced \in BOOLEAN : Configure(t, domain, metadata, enforced)

SettingsSpec == SettingsInit /\ [][SettingsNext]_settingsVars

-----------------------------------------------------------------------------
(* Properties. *)

SettingsTypeOK ==
    /\ settings \in Settings
    /\ writer \in [Threads -> Writer]
    /\ ordered \in BOOLEAN /\ lost \in BOOLEAN
    /\ proven \subseteq Domains

\* No member is forced to sign in through a connection that no SAML login of
\* its domain has gone through, whatever values are written over each other.
EnforcedIsProven == settings.enforced => settings.domain \in proven

\* The legal hold is as it was last acknowledged, unless a value was written
\* over one it was not copied from.
HoldStands == lost \/ settings.hold = ordered
=============================================================================
