---------------------------- MODULE GithubGateway ----------------------------
(***************************************************************************)
(* internal/githubgateway: the answer of GitHub's /releases/latest for     *)
(* each repository, and the Redis cache in front of it (cached_client.go). *)
(*                                                                         *)
(* A tag is a number, 0 is the empty string: no release, or no cache entry.*)
(* Only the scanner asks for releases, so a whole GetLatestRelease is one  *)
(* step: nothing it touches is written by anybody else in between.         *)
(***************************************************************************)
EXTENDS RabbitBroker

CONSTANTS Repos,        \* repositories somebody may subscribe to
          MaxTag,       \* bound: releases per repository
          MaxRetracts   \* bound: releases that are deleted on GitHub again

ASSUME GithubAssumption == MaxTag \in Nat /\ MaxRetracts \in Nat

VARIABLES ghLatest,     \* the latest release of each repository
          retracts,     \* how many releases were deleted
          cache         \* latest_release:<repo> in Redis

githubVars == <<ghLatest, retracts, cache>>

Tags == 0..MaxTag

GithubInit ==
  /\ ghLatest \in [Repos -> Tags]
  /\ retracts = 0
  /\ cache = [r \in Repos |-> 0]

GithubTypeOK ==
  /\ ghLatest \in [Repos -> Tags]
  /\ retracts \in 0..MaxRetracts
  /\ cache \in [Repos -> Tags]

\* The owner of a repository publishes a release.
Publish(r) ==
  /\ ghLatest[r] < MaxTag
  /\ ghLatest' = [ghLatest EXCEPT ![r] = @ + 1]
  /\ UNCHANGED <<retracts, cache>>

\* ... or deletes the latest one, and the one before it is the latest again.
Retract(r) ==
  /\ ghLatest[r] > 0
  /\ retracts < MaxRetracts
  /\ ghLatest' = [ghLatest EXCEPT ![r] = @ - 1]
  /\ retracts' = retracts + 1
  /\ UNCHANGED cache

\* Mutant of CacheExpire: entries are stored without a TTL.
CacheExpireNever(r) ==
  /\ cache[r] # 0
  /\ UNCHANGED githubVars

\* The TTL of a cache entry runs out.
CacheExpire(r) ==
  /\ cache[r] # 0
  /\ cache' = [cache EXCEPT ![r] = 0]
  /\ UNCHANGED <<ghLatest, retracts>>

\* Set of the tag GitHub answered; the empty answer is not stored.
CacheSet(r) ==
  cache' = IF ghLatest[r] = 0 THEN cache ELSE [cache EXCEPT ![r] = ghLatest[r]]

\* Mutant of GetLatestRelease: GitHub may be asked although there is an entry, and
\* the entry is left as it is.
GetLatestReleaseStaleEntry(r, tag) ==
  /\ \/ cache[r] # 0 /\ tag = cache[r] /\ UNCHANGED cache
     \/ tag = ghLatest[r] /\ UNCHANGED cache
     \/ cache[r] = 0 /\ tag = ghLatest[r] /\ CacheSet(r)
  /\ NoFault
  /\ UNCHANGED <<ghLatest, retracts>>

\* GetLatestRelease returns tag: from the cache; from GitHub on a miss; from GitHub
\* also when Redis cannot be read, and then, or when it cannot be written, the old
\* entry may stay.
GetLatestRelease(r, tag) ==
  /\ \/ cache[r] # 0 /\ tag = cache[r] /\ UNCHANGED cache /\ NoFault
     \/ cache[r] = 0 /\ tag = ghLatest[r] /\ CacheSet(r) /\ NoFault
     \/ tag = ghLatest[r] /\ (CacheSet(r) \/ UNCHANGED cache) /\ Fault
  /\ UNCHANGED <<ghLatest, retracts>>

\* GetLatestRelease returns an error: GitHub is unreachable, answers with an error
\* status, or still answers 429 after the retries of doWithRetry.
GetLatestReleaseErr ==
  /\ Fault
  /\ UNCHANGED githubVars

=============================================================================
