--------------------------------- MODULE Feed ---------------------------------
(***************************************************************************)
(* The update feed of one channel and the download redirect                *)
(* (src/server.ts, src/update-feed.ts, src/downloads.ts): what the relay   *)
(* remembers of GitHub's releases, for how long, and what it answers when  *)
(* GitHub does not.                                                        *)
(*                                                                         *)
(* Two caches lie on top of each other: the list of releases, shared by    *)
(* the channels and the redirect, and the channel's file, rewritten from   *)
(* one release of that list.  Both live for Ttl ticks.  A refresh is over  *)
(* in half a minute, so no tick falls into one.                            *)
(***************************************************************************)
EXTENDS Naturals, FiniteSets

CONSTANTS
  Releases,       \* bound: releases, the newest with the highest number
  MaxCandidates,  \* UPDATE_FEED_MAX_CANDIDATES
  Ttl             \* RELEASES_TTL_MS, in ticks

\* What the constants are assumed to be.
FeedAssumption ==
  Releases \in Nat /\ MaxCandidates \in Nat \ {0} /\ Ttl \in Nat \ {0}

Release == 1..Releases
NotFound == 0           \* the cached 404

VARIABLES
  state,     \* GitHub: per release "none", "good", "bad", "bare" or "pulled"
  since,     \* and for how long, up to 2 * Ttl
  known,     \* releasesCache is there
  list,      \* and the candidates in it
  listAge,   \* ticks since it was read; Ttl is too old
  listing,   \* releasesInFlight
  entry,     \* feedCache: a release, or NotFound
  entryAge,  \* ticks since it was made; Ttl is too old
  backoff,   \* feedFailAt is recent
  flight,    \* feedInFlight: "idle", "list" or "walk"
  todo,      \* candidates the walk has not tried
  erred,     \* a candidate could not be fetched
  outdated   \* history: the last refresh used a list that was too old

github == <<state, since>>
lists == <<known, list, listAge, listing>>
feed == <<entry, entryAge, backoff>>
walk == <<flight, todo, erred>>
vars == <<github, lists, feed, walk, outdated>>

(***************************************************************************)
(* GitHub.  A release comes out with a file that can be published, or one  *)
(* that cannot: of one architecture, or of another release.  Then its      *)
(* installers or its file can be pulled.                                   *)
(***************************************************************************)
Becomes(r, s) ==
  /\ state' = [state EXCEPT ![r] = s]
  /\ since' = [since EXCEPT ![r] = 0]
  /\ UNCHANGED <<lists, feed, walk, outdated>>

Publishes(r) == state[r] = "none" /\ \E s \in {"good", "bad"} : Becomes(r, s)
Pulls(r) == state[r] \in {"good", "bad"} /\ Becomes(r, "pulled")
PullsInstallers(r) == state[r] = "good" /\ Becomes(r, "bare")

\* updateYmlCandidates: with its installers and its file attached.
Candidates == {r \in Release : state[r] \in {"good", "bad"}}

Fetched(r) == state[r] \in {"good", "bare"}

(***************************************************************************)
(* cachedReleases                                                          *)
(***************************************************************************)
ListIsFresh == listAge < Ttl

\* The newest ones of a list.
Walked(rs) == {r \in rs : Cardinality({s \in rs : s > r}) < MaxCandidates}

\* A download redirect looks at the list, or waits for it; here it asks.
DownloadAsks ==
  /\ ~ListIsFresh /\ ~listing
  /\ listing' = TRUE
  /\ UNCHANGED <<github, known, list, listAge, feed, walk, outdated>>

\* The refresh that waited goes on with this list.
Resumes(rs) ==
  IF flight = "list" THEN flight' = "walk" /\ todo' = Walked(rs) ELSE UNCHANGED <<flight, todo>>

\* The answer goes to everybody who waits for it.
ListArrives ==
  /\ listing
  /\ listing' = FALSE
  /\ known' = TRUE /\ list' = Candidates /\ listAge' = 0
  /\ Resumes(Candidates)
  /\ outdated' = (outdated /\ flight # "list")
  /\ UNCHANGED <<github, feed, erred>>

\* None: the list of before serves on, however old.
ListFailsOver ==
  /\ listing /\ known
  /\ listing' = FALSE
  /\ Resumes(list)
  /\ outdated' = (outdated \/ flight = "list")
  /\ UNCHANGED <<github, known, list, listAge, feed, erred>>

\* Nor is there one of before: 503.
ListFails ==
  /\ listing /\ ~known
  /\ listing' = FALSE
  /\ IF flight = "list" THEN flight' = "idle" /\ backoff' = TRUE ELSE UNCHANGED <<flight, backoff>>
  /\ UNCHANGED <<github, known, list, listAge, entry, entryAge, todo, erred, outdated>>

(***************************************************************************)
(* loadUpdateFeed, refreshUpdateFeed                                       *)
(***************************************************************************)
EntryIsFresh == entryAge < Ttl

\* A GET the cache has no answer to starts a refresh, if none is under way and
\* the last did not fail just now.
FeedAsks ==
  /\ ~EntryIsFresh /\ ~backoff /\ flight = "idle"
  /\ erred' = FALSE
  /\ IF ListIsFresh
     THEN /\ flight' = "walk" /\ todo' = Walked(list) /\ outdated' = FALSE
          /\ UNCHANGED listing
     ELSE flight' = "list" /\ listing' = TRUE /\ UNCHANGED <<todo, outdated>>
  /\ UNCHANGED <<github, known, list, listAge, feed>>

Trying(r) == flight = "walk" /\ r \in todo /\ \A s \in todo : s <= r

Caches(e) == entry' = e /\ entryAge' = 0 /\ backoff' = FALSE /\ flight' = "idle"

WalkFinds(r) ==
  /\ Trying(r) /\ Fetched(r)
  /\ Caches(r)
  /\ UNCHANGED <<github, lists, todo, erred, outdated>>

\* Not there, or not a feed of its release.
WalkRejects(r) ==
  /\ Trying(r) /\ ~Fetched(r)
  /\ todo' = todo \ {r}
  /\ UNCHANGED <<github, lists, feed, flight, erred, outdated>>

WalkErrs(r) ==
  /\ Trying(r)
  /\ todo' = todo \ {r} /\ erred' = TRUE
  /\ UNCHANGED <<github, lists, feed, flight, outdated>>

\* Nothing publishable, and that is certain: a 404 is cached.
WalkEndsEmpty ==
  /\ flight = "walk" /\ todo = {} /\ ~erred
  /\ Caches(NotFound)
  /\ UNCHANGED <<github, lists, todo, erred, outdated>>

\* Mutant: the last good copy is served on.
WalkKeepsLast ==
  /\ flight = "walk" /\ todo = {} /\ erred
  /\ Caches(entry)
  /\ UNCHANGED <<github, lists, todo, erred, outdated>>

\* Not certain: 503 for a while, and the entry stays as old as it is.
WalkFails ==
  /\ flight = "walk" /\ todo = {} /\ erred
  /\ flight' = "idle" /\ backoff' = TRUE
  /\ UNCHANGED <<github, lists, entry, entryAge, todo, erred, outdated>>

(***************************************************************************)
(* Time.                                                                   *)
(***************************************************************************)
BackoffEnds ==
  /\ backoff
  /\ backoff' = FALSE
  /\ UNCHANGED <<github, lists, entry, entryAge, walk, outdated>>

Older(age, bound) == IF age < bound THEN age + 1 ELSE bound

Ticks ==
  /\ flight = "idle" /\ ~listing
  /\ since' = [r \in Release |-> Older(since[r], 2 * Ttl)]
  /\ listAge' = Older(listAge, Ttl) /\ entryAge' = Older(entryAge, Ttl)
  /\ UNCHANGED <<state, known, list, listing, entry, backoff, walk, outdated>>

Init ==
  /\ state = [r \in Release |-> "none"] /\ since = [r \in Release |-> 0]
  /\ known = FALSE /\ list = {} /\ listAge = Ttl /\ listing = FALSE
  /\ entry = NotFound /\ entryAge = Ttl /\ backoff = FALSE
  /\ flight = "idle" /\ todo = {} /\ erred = FALSE /\ outdated = FALSE

Next ==
  \/ \E r \in Release :
       \/ Publishes(r) \/ Pulls(r) \/ PullsInstallers(r)
       \/ WalkFinds(r) \/ WalkRejects(r) \/ WalkErrs(r)
  \/ DownloadAsks \/ ListArrives \/ ListFailsOver \/ ListFails
  \/ FeedAsks \/ WalkEndsEmpty \/ WalkFails \/ BackoffEnds \/ Ticks

Spec == Init /\ [][Next]_vars

TypeOK ==
  /\ state \in [Release -> {"none", "good", "bad", "bare", "pulled"}]
  /\ since \in [Release -> 0..2 * Ttl]
  /\ known \in BOOLEAN /\ list \subseteq Release /\ listAge \in 0..Ttl /\ listing \in BOOLEAN
  /\ entry \in 0..Releases /\ entryAge \in 0..Ttl /\ backoff \in BOOLEAN
  /\ flight \in {"idle", "list", "walk"} /\ todo \subseteq Release
  /\ erred \in BOOLEAN /\ outdated \in BOOLEAN

(***************************************************************************)
(* Properties.                                                             *)
(***************************************************************************)
\* What server.ts:528 says of the feed: nothing that was yanked, be it the file or the
\* installers it names, is served for longer than one time to live.
NothingYankedOutlivesTtl ==
  EntryIsFresh /\ entry # NotFound /\ state[entry] \in {"pulled", "bare"} => since[entry] < Ttl

\* How far the feed is from it.  A file that was pulled is not served longer, whatever
\* GitHub answers or does not, as every refresh fetches it.  One whose installers were
\* pulled is served for two times to live, as they are looked up in a list that may be
\* as old as it can be when the file is made; and without a bound where that list was
\* too old and GitHub gave no new one (outdated).
PulledIsGone ==
  EntryIsFresh /\ entry # NotFound =>
    /\ state[entry] = "pulled" => since[entry] < Ttl
    /\ state[entry] = "bare" => since[entry] < 2 * Ttl \/ outdated

\* A channel that has a file which can be published is not told 404 for longer
\* than that either, unless it lies behind too many newer ones.
NotFoundIsBrief ==
  EntryIsFresh /\ entry = NotFound /\ ~outdated =>
    \A r \in Release :
      state[r] = "good" /\ Releases - r < MaxCandidates => since[r] < 2 * Ttl
=============================================================================
