----------------------------- MODULE MCServices ------------------------------
(* Services that share no row: a behaviour is about one of them.           *)
EXTENDS LiveClass, StreamMarket, Outreach, FreeAllowance, RateLimit, TLC

VARIABLE part

Parts == {"class", "stream", "video", "mail", "allowance", "rate"}

\* Which process a thread belongs to matters to the class and the stream only.
ServicesInit ==
    /\ LiveInit /\ WatchInit /\ StreamInit /\ OutreachInit /\ AllowanceInit /\ RateInit
    /\ part \in Parts
    /\ part \notin {"class", "stream"} => process = [w \in Workers |-> CHOOSE p \in Processes : TRUE]
    /\ part # "allowance" =>
         ~paid /\ \A i \in Invites : invites[i].email = CHOOSE x \in Emails : TRUE

others == <<outreachVars, allowanceVars, rateVars, part>>

ServicesNext ==
    \/ /\ part = "class" /\ LiveNext
       /\ UNCHANGED <<watchVars, streamVars, others>>
    \/ /\ part = "stream" /\ WatchNext
       /\ UNCHANGED <<liveVars, streamVars, others>>
    \/ /\ part = "video" /\ StreamNext
       /\ UNCHANGED <<liveVars, watchVars, others>>
    \/ /\ part = "mail" /\ OutreachNext
       /\ UNCHANGED <<liveVars, watchVars, streamVars, allowanceVars, rateVars, part>>
    \/ /\ part = "allowance" /\ AllowanceNext
       /\ UNCHANGED <<liveVars, watchVars, streamVars, outreachVars, rateVars, part>>
    \/ /\ part = "rate" /\ RateNext
       /\ UNCHANGED <<liveVars, watchVars, streamVars, outreachVars, allowanceVars, part>>

servicesVars == <<liveVars, watchVars, streamVars, others>>
ServicesSpec == ServicesInit /\ [][ServicesNext]_servicesVars

\* Requests and leads are alike, and processes are where they matter: the
\* cfg names the same for each part.
Symmetric == Permutations(Workers \union Makers \union Leads \union Limiters \union Recruiters)
             \union Permutations(Processes)

\* What each service keeps in its rows.
ServicesTypeOK ==
    /\ LiveTypeOK /\ WatchTypeOK /\ StreamTypeOK
    /\ OutreachTypeOK /\ AllowanceTypeOK /\ RateTypeOK

\* Every limit: the sessions open at a time, the mails to a lead and of a day,
\* the free allowance of a month, the requests in a window.
LimitsKept == SessionsBounded /\ MailsOnce /\ AllowanceKept /\ RateBounded

\* What a row says has happened: the tally of a poll is that of its votes,
\* heartbeats count once and the levels of use they reach are logged, a video
\* that is ready has been encoded.
CountsStand == TallyStands /\ UsageCounted /\ UseIsLogged /\ ReadyIsEncoded

\* What is counted, and how much of it there may be.
CountsKept == CountsStand /\ LimitsKept

\* What is over stays over: a session that has ended, the encoding of a video,
\* a pupil the host has removed, a lead that has answered.
OverIsOver == EndedForGood /\ ReadyStays /\ RemovedStayOut /\ RepliesHold
=============================================================================
