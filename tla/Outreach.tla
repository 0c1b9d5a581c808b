------------------------------ MODULE Outreach -------------------------------
(***************************************************************************)
(* Mails to leads (outreach.py): an administrator approves a lead, which   *)
(* queues its first mail; a cron call sends what is queued up to a daily   *)
(* limit and queues a follow-up, all in one commit at its end; replies     *)
(* stop the mails to a lead.                                               *)
(***************************************************************************)
EXTENDS Integers, FiniteSets

CONSTANTS
    Leads,
    Calls,          \* cron calls that may run at a time
    DailyLimit,     \* outreach_daily_send_limit
    MaxDelivered    \* bound: copies of a mail delivered

ASSUME OutreachAssumption ==
    DailyLimit \in Nat \ {0} /\ MaxDelivered \in Nat /\ IsFiniteSet(Leads)

VARIABLES
    leads,      \* outreach_leads: their status
    mails,      \* outreach_emails: their status, first mail and follow-up
    today,      \* mails with a sent_at of today
    calls,      \* the cron calls, with what they have read and sent
    delivered,  \* history: copies of each mail handed to the mail server
    sentToday,  \* history: mails handed to it today
    stopped,    \* history: leads whose reply asks for no more mails
    mishaps     \* history: what happened that the code does not guard against

outreachVars == <<leads, mails, today, calls, delivered, sentToday, stopped, mishaps>>

-----------------------------------------------------------------------------
Mails == Leads \X {1, 2}
LeadStatus == {"none", "research", "approved", "contacted", "replied", "suppressed"}

\* batch: mails read and not yet worked on; sent and failed: what the commit
\* will record; lead: the status a lead had when the call loaded it.
Call == [running : BOOLEAN, batch : SUBSET Mails, sent : SUBSET Mails, failed : SUBSET Mails,
         lead : [Leads -> LeadStatus]]
NoCall == [running |-> FALSE, batch |-> {}, sent |-> {}, failed |-> {},
           lead |-> [l \in Leads |-> "none"]]

OutreachInit ==
    /\ leads = [l \in Leads |-> "none"]
    /\ mails = [m \in Mails |-> "none"]
    /\ today = {}
    /\ calls = [c \in Calls |-> NoCall]
    /\ delivered = [m \in Mails |-> 0]
    /\ sentToday = 0
    /\ stopped = {}
    /\ mishaps = {}

-----------------------------------------------------------------------------
\* research: a lead with this address is not added twice.
ResearchLead(l) ==
    /\ leads[l] = "none"
    /\ leads' = [leads EXCEPT ![l] = "research"]
    /\ UNCHANGED <<mails, today, calls, delivered, sentToday, stopped, mishaps>>

\* approve; of two at a time the second violates the unique sequence number.
ApproveLead(l) ==
    /\ leads[l] = "research"
    /\ leads' = [leads EXCEPT ![l] = "approved"]
    /\ mails' = [mails EXCEPT ![<<l, 1>>] = "queued"]
    /\ UNCHANGED <<today, calls, delivered, sentToday, stopped, mishaps>>

Queued == {m \in Mails : mails[m] = "queued"}

Capacity == IF Cardinality(today) < DailyLimit THEN DailyLimit - Cardinality(today) ELSE 0

\* send_queue up to its loop: the first rows, as many as the day has left.
CallBegins(c) ==
    /\ ~calls[c].running
    /\ \E batch \in SUBSET Queued :
         /\ batch # {}
         /\ Cardinality(batch) <= Capacity
         /\ Cardinality(batch) < Capacity => batch = Queued
         /\ calls' = [calls EXCEPT ![c] = [NoCall EXCEPT !.running = TRUE, !.batch = batch]]
    /\ mishaps' = mishaps \union (IF \E d \in Calls : calls[d].running THEN {"overlap"} ELSE {})
    /\ UNCHANGED <<leads, mails, today, delivered, sentToday, stopped>>

\* Leads with these are passed over; their mails stay in the queue.
Stopped == {"suppressed", "replied"}

\* The next mail of the loop; the session keeps a lead as it first loaded it.
Loaded(c, l) == IF calls[c].lead[l] = "none" THEN leads[l] ELSE calls[c].lead[l]

\* A lead passed over is loaded as well.
MailPassed(c, m) ==
    /\ m \in calls[c].batch /\ Loaded(c, m[1]) \in Stopped
    /\ calls' = [calls EXCEPT ![c].batch = @ \ {m}, ![c].lead[m[1]] = Loaded(c, m[1])]
    /\ UNCHANGED <<leads, mails, today, delivered, sentToday, stopped, mishaps>>

MailSent(c, m) ==
    /\ m \in calls[c].batch /\ Loaded(c, m[1]) \notin Stopped
    /\ delivered[m] < MaxDelivered
    /\ calls' = [calls EXCEPT ![c].batch = @ \ {m}, ![c].sent = @ \union {m},
                              ![c].lead[m[1]] = Loaded(c, m[1])]
    /\ delivered' = [delivered EXCEPT ![m] = @ + 1]
    /\ sentToday' = sentToday + 1
    /\ UNCHANGED <<leads, mails, today, stopped, mishaps>>

\* The mail server is not configured.
MailFailed(c, m) ==
    /\ m \in calls[c].batch /\ Loaded(c, m[1]) \notin Stopped
    /\ calls' = [calls EXCEPT ![c].batch = @ \ {m}, ![c].failed = @ \union {m},
                              ![c].lead[m[1]] = Loaded(c, m[1])]
    /\ UNCHANGED <<leads, mails, today, delivered, sentToday, stopped, mishaps>>

CallEnds(c) == calls' = [calls EXCEPT ![c] = NoCall]

\* The mail server refuses a recipient or the call dies: what the call has
\* sent is not recorded, and is sent again.
CallAborts(c) ==
    /\ calls[c].running
    /\ CallEnds(c)
    /\ mishaps' = mishaps \union (IF calls[c].sent = {} THEN {} ELSE {"abort"})
    /\ UNCHANGED <<leads, mails, today, delivered, sentToday, stopped>>

FirstMails(c) == {m \in calls[c].sent : m[2] = 1}
FollowUps(c) == {<<m[1], 2>> : m \in FirstMails(c)}

MailsAfter(c) ==
    [m \in Mails |-> IF m \in FollowUps(c) THEN "queued"
                     ELSE IF m \in calls[c].sent THEN "sent"
                     ELSE IF m \in calls[c].failed THEN "error" ELSE mails[m]]

\* The commit: the status of a lead is written if it differs from the one
\* loaded.  A follow-up that is there already refuses it.
CallCommits(c) ==
    /\ calls[c].running /\ calls[c].batch = {}
    /\ \A m \in FollowUps(c) : mails[m] = "none"
    /\ mails' = MailsAfter(c)
    /\ leads' = [l \in Leads |->
         IF (\E m \in calls[c].sent : m[1] = l) /\ calls[c].lead[l] # "contacted"
         THEN "contacted" ELSE leads[l]]
    /\ today' = today \union calls[c].sent
    /\ CallEnds(c)
    /\ mishaps' = mishaps \union
         (IF \E m \in calls[c].sent : leads[m[1]] # calls[c].lead[m[1]] THEN {"overwrite"} ELSE {})
    /\ UNCHANGED <<delivered, sentToday, stopped>>

\* inbound: an opt-out, or another reply.
Reply(l, stop) ==
    /\ \E m \in Mails : m[1] = l /\ delivered[m] > 0
    /\ leads' = [leads EXCEPT ![l] = IF stop THEN "suppressed" ELSE "replied"]
    /\ stopped' = IF stop THEN stopped \union {l} ELSE stopped
    /\ UNCHANGED <<mails, today, calls, delivered, sentToday, mishaps>>

\* UTC midnight, between calls.
NextDay ==
    /\ today # {} /\ \A c \in Calls : ~calls[c].running
    /\ today' = {}
    /\ sentToday' = 0
    /\ mishaps' = mishaps
    /\ UNCHANGED <<leads, mails, calls, delivered, stopped>>

OutreachNext ==
    \/ \E l \in Leads : ResearchLead(l) \/ ApproveLead(l) \/ \E stop \in BOOLEAN : Reply(l, stop)
    \/ \E c \in Calls :
         \/ CallBegins(c) \/ CallAborts(c) \/ CallCommits(c)
         \/ \E m \in Mails : MailPassed(c, m) \/ MailSent(c, m) \/ MailFailed(c, m)
    \/ NextDay

OutreachSpec == OutreachInit /\ [][OutreachNext]_outreachVars

-----------------------------------------------------------------------------
(* Properties. *)

OutreachTypeOK ==
    /\ leads \in [Leads -> LeadStatus]
    /\ mails \in [Mails -> {"none", "queued", "sent", "error"}]
    /\ today \subseteq Mails
    /\ calls \in [Calls -> Call]
    /\ delivered \in [Mails -> 0..MaxDelivered]
    /\ sentToday \in Nat
    /\ stopped \subseteq Leads
    /\ mishaps \subseteq {"overlap", "abort", "overwrite"}

\* A mail goes out once, and no more than the limit on a day: unless calls
\* overlap or one ends before its commit.
MailsOnce ==
    mishaps \intersect {"overlap", "abort"} = {} =>
      /\ \A m \in Mails : delivered[m] <= 1
      /\ sentToday <= DailyLimit

\* Once a lead has replied, no call that loads it later mails it: unless a
\* commit has written over the reply.
RepliesHold ==
    [][\A m \in Mails :
          (delivered'[m] > delivered[m] /\ m[1] \in stopped /\ "overwrite" \notin mishaps)
          => \E c \in Calls : calls[c].lead[m[1]] \notin {"none", "replied", "suppressed"}]_outreachVars
=============================================================================
