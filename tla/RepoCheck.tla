------------------------------ MODULE RepoCheck ------------------------------
(***************************************************************************)
(* CheckRepoExists, the first thing Subscribe does: the verdict cached in  *)
(* Redis (internal/githubgateway/cached_client.go, internal/cache), and on *)
(* a miss GitHub itself, with the retries of doWithRetry (client.go).      *)
(*                                                                         *)
(* Every client's handler makes a call of its own.  Reading the cache,     *)
(* asking GitHub and writing the cache are separate steps, so a slow call  *)
(* may write a verdict that is out of date.  at is where a call stands:    *)
(*                                                                         *)
(*   ask     the HTTP request, after a miss of cache.Get and tries answers *)
(*           429                                                           *)
(*   set     cache.Set of what GitHub answered                             *)
(*   yes, no, error   what CheckRepoExists returned                        *)
(***************************************************************************)
EXTENDS SubscriptionApi

CONSTANTS MaxRetries,   \* maxRetries of doWithRetry
          MaxChanges    \* bound: repositories created or deleted on GitHub

ASSUME RepoCheckAssumption == MaxRetries \in Nat /\ MaxChanges \in Nat

VARIABLES exists,       \* the repositories GitHub has now
          changes,      \* how often that changed
          seen,         \* history: what was true of a repository, see Remember
          verdict,      \* repo_exists:<repo> in Redis
          check         \* each client's call of CheckRepoExists

checkVars == <<exists, changes, seen, verdict, check>>

NoCheck == [at |-> "none"]

Returned == {"yes", "no", "error"}

Check == [at : Returned, pair : Emails \X Repos]
           \cup [at : {"ask"}, pair : Emails \X Repos, tries : 0..MaxRetries]
           \cup [at : {"set"}, pair : Emails \X Repos, found : BOOLEAN]

CheckInit ==
  /\ exists = {}
  /\ changes = 0
  /\ seen = {<<r, r \in exists>> : r \in Repos}
  /\ verdict = [r \in Repos |-> "none"]
  /\ check = [c \in Clients |-> NoCheck]

CheckTypeOK ==
  /\ exists \subseteq Repos
  /\ changes \in 0..MaxChanges
  /\ seen \subseteq Repos \X BOOLEAN
  /\ verdict \in [Repos -> {"none", "true", "false"}]
  /\ check \in [Clients -> Check \cup {NoCheck}]

-----------------------------------------------------------------------------
\* A verdict on r is cached, or some client is checking r.
InUse(r) == verdict[r] # "none" \/ \E c \in Clients : check[c] # NoCheck /\ check[c].pair[2] = r

\* seen keeps what was true of a repository as long as it is in use; otherwise only
\* what is true now.
Remember ==
  seen' = {<<r, r \in exists'>> : r \in Repos} \cup {p \in seen : InUse(p[1])'}

\* A repository is created on GitHub, or deleted.
RepoChanges(r) ==
  /\ changes < MaxChanges
  /\ changes' = changes + 1
  /\ exists' = IF r \in exists THEN exists \ {r} ELSE exists \cup {r}
  /\ UNCHANGED <<verdict, check>>
  /\ Remember

\* Mutant of VerdictExpires: only good verdicts get a TTL.
VerdictExpiresIfTrue(r) ==
  /\ verdict[r] = "true"
  /\ verdict' = [verdict EXCEPT ![r] = "none"]
  /\ UNCHANGED <<exists, changes, check>>
  /\ Remember

\* The TTL of a cached verdict runs out.
VerdictExpires(r) ==
  /\ verdict[r] # "none"
  /\ verdict' = [verdict EXCEPT ![r] = "none"]
  /\ UNCHANGED <<exists, changes, check>>
  /\ Remember

-----------------------------------------------------------------------------
SetCheck(c, k) == check' = [check EXCEPT ![c] = k]

\* CheckRepoExists returns a for the repository of the pair.
Return(c, pair, a) == SetCheck(c, [at |-> a, pair |-> pair])

Ask(c, pair, n) == SetCheck(c, [at |-> "ask", pair |-> pair, tries |-> n])

CheckedRepo(c) == check[c].pair[2]

\* Mutant of CheckGet: anything but a cached "true" is a refusal.
CheckGetMissRefuses(c, pair) ==
  /\ Return(c, pair, IF verdict[pair[2]] = "true" THEN "yes" ELSE "no")
  /\ NoFault
  /\ UNCHANGED <<exists, changes, verdict>>
  /\ Remember

\* cache.Get: a hit is the result; a miss, or an error of Redis, leads to GitHub.
CheckGet(c, pair) ==
  /\ LET v == verdict[pair[2]]
     IN \/ v = "true" /\ Return(c, pair, "yes") /\ NoFault
        \/ v = "false" /\ Return(c, pair, "no") /\ NoFault
        \/ v = "none" /\ Ask(c, pair, 0) /\ NoFault
        \/ v # "none" /\ Ask(c, pair, 0) /\ Fault
  /\ UNCHANGED <<exists, changes, verdict>>
  /\ Remember

\* Mutant of CheckAsk: the count of retries starts again, so 429 is never given up on.
CheckAskForever(c) ==
  /\ check[c].at = "ask"
  /\ \/ /\ SetCheck(c, [at |-> "set", pair |-> check[c].pair,
                        found |-> CheckedRepo(c) \in exists])
        /\ NoFault
     \/ Ask(c, check[c].pair, (check[c].tries + 1) % (MaxRetries + 1)) /\ NoFault
     \/ Return(c, check[c].pair, "error") /\ Fault
  /\ UNCHANGED <<exists, changes, verdict>>
  /\ Remember

\* Mutant of CheckAsk: one retry too many.
CheckAskOneMore(c) ==
  /\ check[c].at = "ask"
  /\ check[c].tries <= MaxRetries /\ Ask(c, check[c].pair, check[c].tries + 1) /\ NoFault
  /\ UNCHANGED <<exists, changes, verdict>>
  /\ Remember

\* GitHub answers 200 or 404; or 429, which is tried again after a pause and after
\* maxRetries of them is an error; or the request fails in another way.
CheckAsk(c) ==
  /\ check[c].at = "ask"
  /\ \/ /\ SetCheck(c, [at |-> "set", pair |-> check[c].pair,
                        found |-> CheckedRepo(c) \in exists])
        /\ NoFault
     \/ check[c].tries < MaxRetries /\ Ask(c, check[c].pair, check[c].tries + 1) /\ NoFault
     \/ check[c].tries = MaxRetries /\ Return(c, check[c].pair, "error") /\ NoFault
     \/ Return(c, check[c].pair, "error") /\ Fault
  /\ UNCHANGED <<exists, changes, verdict>>
  /\ Remember

\* cache.Set of the answer, whatever is cached by now; an error is only logged.
CheckSet(c) ==
  /\ check[c].at = "set"
  /\ \/ /\ verdict' = [verdict EXCEPT ![CheckedRepo(c)] =
                         IF check[c].found THEN "true" ELSE "false"]
        /\ NoFault
     \/ UNCHANGED verdict /\ Fault
  /\ Return(c, check[c].pair, IF check[c].found THEN "yes" ELSE "no")
  /\ UNCHANGED <<exists, changes>>
  /\ Remember

\* The steps after the first one.
CheckStep(c) == CheckAsk(c) \/ CheckSet(c)

=============================================================================
