----------------------------- MODULE Credential -----------------------------
(***************************************************************************)
(* Verifying a device token: SupabaseDeviceRegistry.verify and revoke      *)
(* (src/devices-supabase.ts) over DeviceVerifyCache                        *)
(* (src/device-verify-cache.ts).  The cache keeps the row a lookup found,  *)
(* or that it found none, for a while.                                     *)
(***************************************************************************)
EXTENDS Naturals, FiniteSets

CONSTANTS
  Kid,        \* key ids; a device has one
  Lookup,     \* bound: verifications under way at a time
  Ttl,        \* VERIFY_CACHE_TTL_MS, in ticks
  NegTtl,     \* VERIFY_CACHE_NEGATIVE_TTL_MS, in ticks
  MaxEntries  \* VERIFY_CACHE_MAX_ENTRIES

\* What the constants are assumed to be.
CredentialAssumption == Ttl \in Nat /\ NegTtl \in Nat /\ MaxEntries \in Nat \ {0}

VARIABLES
  row,        \* the devices table: "unused", "live" or "revoked"
  cached,     \* keys the cache has a slot for
  found,      \* whether the slot holds a row
  ttl,        \* how long the slot has to live
  lookup,     \* verifications waiting for the database
  revoking,   \* revocations the database has taken and not answered yet
  unanswered, \* history: keys whose revocation lost its answer
  straddled   \* history: keys somebody had read when their revocation returned

slots == <<cached, found, ttl>>
history == <<unanswered, straddled>>
vars == <<row, slots, lookup, revoking, history>>

Idle == [at |-> "idle"]
Waits(l, k) == lookup[l].at # "idle" /\ lookup[l].kid = k

\* What verify answers from the cache alone, if the secret is right.
Admits(k) == k \in cached /\ found[k] /\ ttl[k] > 0

(***************************************************************************)
(* verify                                                                  *)
(***************************************************************************)
\* Mutant: a key in use is kept.
TtlAfterHitRenewed(k) == [ttl EXCEPT ![k] = IF found[k] THEN Ttl ELSE NegTtl]

\* DeviceVerifyCache.get moves the slot to the back of the eviction order; its
\* end stays where it was.
TtlAfterHit(k) == ttl

\* A slot that still lives answers; one that does not is dropped.
Hits(k) ==
  /\ k \in cached /\ ttl[k] > 0
  /\ ttl' = TtlAfterHit(k)
  /\ UNCHANGED <<row, cached, found, lookup, revoking, history>>

Misses(l, k) ==
  /\ lookup[l] = Idle
  /\ ~(k \in cached /\ ttl[k] > 0)
  /\ cached' = cached \ {k}
  /\ lookup' = [lookup EXCEPT ![l] = [at |-> "asked", kid |-> k]]
  /\ UNCHANGED <<row, found, ttl, revoking, history>>

\* The database reads the row, or the lookup fails and is not cached.
Reads(l) ==
  /\ lookup[l].at = "asked"
  /\ lookup' = [lookup EXCEPT ![l] =
       [at |-> "read", kid |-> lookup[l].kid, live |-> row[lookup[l].kid] = "live"]]
  /\ UNCHANGED <<row, slots, revoking, history>>

ReadFails(l) ==
  /\ lookup[l].at = "asked"
  /\ lookup' = [lookup EXCEPT ![l] = Idle]
  /\ UNCHANGED <<row, slots, revoking, history>>

\* Room for k: nobody goes while there is room, else one that expired, else one.
Evicted(k, kept) ==
  LET others == cached \ {k}
      alive == {j \in others : ttl[j] > 0}
  IN IF Cardinality(others) < MaxEntries THEN kept = others
     ELSE \E j \in IF alive # others THEN others \ alive ELSE others : kept = others \ {j}

\* The answer arrives and is cached as it was read.
Caches(l) ==
  /\ lookup[l].at = "read"
  /\ LET k == lookup[l].kid
     IN /\ \E kept \in SUBSET cached : Evicted(k, kept) /\ cached' = kept \cup {k}
        /\ found' = [found EXCEPT ![k] = lookup[l].live]
        /\ ttl' = [ttl EXCEPT ![k] = IF lookup[l].live THEN Ttl ELSE NegTtl]
  /\ lookup' = [lookup EXCEPT ![l] = Idle]
  /\ UNCHANGED <<row, revoking, history>>

(***************************************************************************)
(* issue and revoke                                                        *)
(***************************************************************************)
Issues(k) ==
  /\ row[k] = "unused"
  /\ row' = [row EXCEPT ![k] = "live"]
  /\ UNCHANGED <<slots, lookup, revoking, history>>

RevokeCommits(k) ==
  /\ row[k] = "live"
  /\ row' = [row EXCEPT ![k] = "revoked"]
  /\ revoking' = revoking \cup {k}
  /\ UNCHANGED <<slots, lookup, history>>

\* Mutant: the answer is waited for, and the cache forgotten.
KeptAfterRevoke(k) == cached

\* invalidateDevice: slots that hold a row of the device.
KeptAfter(k) == cached \ {j \in {k} : found[j]}

RevokeReturns(k) ==
  /\ k \in revoking
  /\ revoking' = revoking \ {k}
  /\ cached' = KeptAfter(k)
  /\ straddled' = IF \E l \in Lookup : lookup[l].at = "read" /\ lookup[l].kid = k /\ lookup[l].live
                  THEN straddled \cup {k} ELSE straddled
  /\ UNCHANGED <<row, found, ttl, lookup, unanswered>>

\* The database took it and its answer was lost: revoke throws.
RevokeIsLost(k) ==
  /\ k \in revoking
  /\ revoking' = revoking \ {k}
  /\ unanswered' = unanswered \cup {k}
  /\ UNCHANGED <<row, slots, lookup, straddled>>

Ticks ==
  /\ \E k \in cached : ttl[k] > 0
  /\ ttl' = [k \in Kid |-> IF ttl[k] > 0 THEN ttl[k] - 1 ELSE 0]
  /\ UNCHANGED <<row, cached, found, lookup, revoking, history>>

Init ==
  /\ row = [k \in Kid |-> "unused"]
  /\ cached = {} /\ found = [k \in Kid |-> FALSE] /\ ttl = [k \in Kid |-> 0]
  /\ lookup = [l \in Lookup |-> Idle]
  /\ revoking = {} /\ unanswered = {} /\ straddled = {}

Next ==
  \/ \E k \in Kid : Hits(k) \/ Issues(k) \/ RevokeCommits(k) \/ RevokeReturns(k) \/ RevokeIsLost(k)
  \/ \E l \in Lookup :
       Reads(l) \/ ReadFails(l) \/ Caches(l) \/ \E k \in Kid : Misses(l, k)
  \/ Ticks

Spec == Init /\ [][Next]_vars

\* Time passes and the database answers, while others go on verifying.
Fairness == WF_vars(Ticks) /\ \A l \in Lookup : WF_vars(Caches(l))

Request(live) == [at : {"read"}, kid : Kid, live : live]

TypeOK ==
  /\ row \in [Kid -> {"unused", "live", "revoked"}]
  /\ cached \subseteq Kid /\ found \in [Kid -> BOOLEAN] /\ ttl \in [Kid -> Nat]
  /\ lookup \in [Lookup -> {Idle} \cup [at : {"asked"}, kid : Kid] \cup Request(BOOLEAN)]
  /\ revoking \subseteq Kid /\ unanswered \subseteq Kid /\ straddled \subseteq Kid

(***************************************************************************)
(* Properties.                                                             *)
(***************************************************************************)
\* Once a revocation has returned its key is refused, but for two cases: the
\* answer was lost, or a verification that had read the row was still to cache it.
RevokedIsRefused ==
  \A k \in Kid :
    row[k] = "revoked" /\ k \notin revoking /\ Admits(k) => k \in unanswered \cup straddled

\* In those cases too the key is refused in the end, however often it is presented.
RefusedInTheEnd == \A k \in Kid : row[k] = "revoked" ~> [](~Admits(k))
=============================================================================
