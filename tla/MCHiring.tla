------------------------------ MODULE MCHiring ------------------------------
(* One job with its application and offer, the reminders, the calendar,    *)
(* the mail server and the members of an organization: parts that share no *)
(* row, so a behaviour is about one of them.                               *)
EXTENDS Hiring, Reminders, Connections, OrganizationMembers, TLC

VARIABLE part

Parts == {"pipeline", "reminders", "calendar", "mail", "members"}

DeskInit ==
    /\ Init /\ RemindersInit /\ ConnectionsInit /\ MembersInit /\ part \in Parts
    /\ part # "pipeline" => \A a \in Applications : app[a].consent = "granted"
    /\ part # "reminders" => \A k \in Keys : ~due[k]
    /\ part # "mail" => channel.settings = CHOOSE s \in Settings : TRUE
    /\ part # "members" => \A u \in Users : account[u] = "password"

DeskNext ==
    \/ part = "pipeline" /\ Next
       /\ UNCHANGED <<remindersVars, connectionsVars, membersVars, part>>
    \/ part = "reminders" /\ RemindersNext
       /\ UNCHANGED <<vars, connectionsVars, membersVars, part>>
    \/ part = "calendar" /\ CalendarNext
       /\ UNCHANGED <<vars, remindersVars, membersVars, part>>
    \/ part = "mail" /\ MailNext
       /\ UNCHANGED <<vars, remindersVars, membersVars, part>>
    \/ part = "members" /\ MembersNext
       /\ UNCHANGED <<vars, remindersVars, connectionsVars, part>>

deskVars == <<vars, remindersVars, connectionsVars, membersVars, part>>
DeskSpec == DeskInit /\ [][DeskNext]_deskVars

\* Requests are alike in every part: the cfg names the same for each.
Sym == Permutations(Workers \union Runs \union Handlers \union Desks)
       \union Permutations(Applications) \union Permutations(Keys)

\* What each part keeps in its rows.
HiringTypeOK == TypeOK /\ RemindersTypeOK /\ ConnectionsTypeOK /\ MembersTypeOK

\* A decision has its evidence, an offer its link and its signature, and a job
\* that is deleted no candidate who waits for one.
DecisionsHold == DecisionsHaveEvidence /\ OffersHold /\ DeletedHasNoActive

\* What surrounds the decisions: mails, connections and who may sign in.
DeskHolds == RemindedOnce /\ ConnectionsHold /\ MembersHold
=============================================================================
