---------------------------- MODULE MediaSession ----------------------------
(***************************************************************************)
(* Call-media authorization (crates/analogconnectd/src/media_auth.rs): the *)
(* registry that holds the one current grant, the grants with their atomic *)
(* revoked/claimed flags, and the leases media connections hold.           *)
(*                                                                         *)
(* create_audio_session handlers (Issuers) and open_audio_stream handlers  *)
(* (Streams) run concurrently.  The registry's mutex covers the swap of    *)
(* the current grant and the revocation of the old one, and the lookup at  *)
(* the start of a claim; the checks and the compare-exchange of a claim    *)
(* happen after the mutex is released, so they are steps of their own.     *)
(* A session id and its token are drawn together from the OS random        *)
(* source; the model names a grant by its id and takes ids as distinct.    *)
(***************************************************************************)
EXTENDS Integers

CONSTANTS
  Streams,   \* open_audio_stream requests
  Issuers,   \* create_audio_session requests
  Grants,    \* the grants that can be drawn
  NoGrant,   \* registry empty, or no grant in hand
  Free,      \* nobody holds the registry's mutex
  Lifetime,  \* a grant's lifetime, in clock ticks
  MaxTime    \* bound: the clock stops here

ASSUME MediaSessionAssumption ==
  /\ NoGrant \notin Grants
  /\ Free \notin Issuers \cup Streams
  /\ Lifetime \in Nat \ {0}
  /\ MaxTime \in Nat

VARIABLES
  now,         \* the monotonic clock
  lock,        \* holder of MediaSessionRegistry.active's mutex between steps
  active,      \* the grant of the registry's ActiveSession, or NoGrant
  issued,      \* grants that exist
  expires_at,  \* per grant
  revoked,     \* grants whose revoked flag is set
  claimed,     \* grants whose claimed flag is set
  enrolled,    \* grants whose id and token have been returned to a client
  ipc,         \* per issuer: where issue() is
  fresh,       \* per issuer: the grant it has drawn
  previous,    \* per issuer: the grant its swap displaced
  pc,          \* per stream: where claim() is, "leased" while a lease is held
  session,     \* per stream: the grant it presents, later the Arc it holds
  token_ok,    \* per stream: whether the token presented is the grant's
  asked        \* per stream: the Instant::now() its handler passed to claim

registryVars == <<lock, active, issued, expires_at, enrolled, ipc, fresh, previous>>
streamVars   == <<pc, session, token_ok, asked>>
vars == <<now, lock, active, issued, expires_at, revoked, claimed, enrolled,
          ipc, fresh, previous, pc, session, token_ok, asked>>

-----------------------------------------------------------------------------
Init ==
  /\ now = 0
  /\ lock = Free
  /\ active = NoGrant
  /\ issued = {} /\ revoked = {} /\ claimed = {} /\ enrolled = {}
  /\ expires_at = [g \in Grants |-> 0]
  /\ ipc = [i \in Issuers |-> "idle"]
  /\ fresh = [i \in Issuers |-> NoGrant]
  /\ previous = [i \in Issuers |-> NoGrant]
  /\ pc = [s \in Streams |-> "idle"]
  /\ session = [s \in Streams |-> NoGrant]
  /\ token_ok = [s \in Streams |-> FALSE]
  /\ asked = [s \in Streams |-> 0]

\* The monotonic clock advances.
Tick ==
  /\ now < MaxTime
  /\ now' = now + 1
  /\ UNCHANGED <<registryVars, revoked, claimed, streamVars>>

-----------------------------------------------------------------------------
(* issue: draw a grant, swap it in under the mutex, revoke the old one.    *)

\* MediaSessionGrant::issue, before the mutex is taken.
DrawGrant(i, g) ==
  /\ ipc[i] = "idle"
  /\ g \notin issued
  /\ issued' = issued \cup {g}
  /\ expires_at' = [expires_at EXCEPT ![g] = now + Lifetime]
  /\ fresh' = [fresh EXCEPT ![i] = g]
  /\ ipc' = [ipc EXCEPT ![i] = "drawn"]
  /\ UNCHANGED <<now, lock, active, revoked, claimed, enrolled, previous, streamVars>>

\* Seeded fault: the mutex is released by the swap, before the old grant is revoked.
ReplaceActiveUnlocked(i) ==
  /\ ipc[i] = "drawn"
  /\ lock = Free
  /\ previous' = [previous EXCEPT ![i] = active]
  /\ active' = fresh[i]
  /\ ipc' = [ipc EXCEPT ![i] = "replaced"]
  /\ enrolled' = enrolled \cup {fresh[i]}
  /\ UNCHANGED <<now, lock, issued, expires_at, revoked, claimed, fresh, streamVars>>

\* active.lock() and active.replace(replacement); the mutex stays held.
ReplaceActive(i) ==
  /\ ipc[i] = "drawn"
  /\ lock = Free
  /\ lock' = i
  /\ previous' = [previous EXCEPT ![i] = active]
  /\ active' = fresh[i]
  /\ ipc' = [ipc EXCEPT ![i] = "replaced"]
  /\ UNCHANGED <<now, issued, expires_at, revoked, claimed, enrolled, fresh, streamVars>>

\* Seeded fault: the displaced grant is forgotten instead of revoked.
RevokePreviousForgotten(i) ==
  /\ ipc[i] = "replaced"
  /\ enrolled' = enrolled \cup {fresh[i]}
  /\ lock' = Free
  /\ ipc' = [ipc EXCEPT ![i] = "idle"]
  /\ fresh' = [fresh EXCEPT ![i] = NoGrant]
  /\ previous' = [previous EXCEPT ![i] = NoGrant]
  /\ UNCHANGED <<now, active, issued, expires_at, revoked, claimed, streamVars>>

\* previous.grant.revoke(), the mutex guard drops, the enrollment is returned.
RevokePrevious(i) ==
  /\ ipc[i] = "replaced"
  /\ revoked' = revoked \cup ({previous[i]} \ {NoGrant})
  /\ enrolled' = enrolled \cup {fresh[i]}
  /\ lock' = Free
  /\ ipc' = [ipc EXCEPT ![i] = "idle"]
  /\ fresh' = [fresh EXCEPT ![i] = NoGrant]
  /\ previous' = [previous EXCEPT ![i] = NoGrant]
  /\ UNCHANGED <<now, active, issued, expires_at, claimed, streamVars>>

\* MediaSessionRegistry::revoke for the id of g: take() and revoke under the
\* mutex.  For any other id it returns Ok(false) and changes nothing.
Revoke(g) ==
  /\ lock = Free
  /\ active = g
  /\ active' = NoGrant
  /\ revoked' = revoked \cup {g}
  /\ UNCHANGED <<now, lock, issued, expires_at, enrolled, ipc, fresh, previous,
                 claimed, streamVars>>

-----------------------------------------------------------------------------
(* claim: look the grant up under the mutex, then check it, then take it.  *)

\* The handler answers (401 or a finished connection) and forgets the grant.
Idle(s) ==
  /\ pc' = [pc EXCEPT ![s] = "idle"]
  /\ session' = [session EXCEPT ![s] = NoGrant]
  /\ token_ok' = [token_ok EXCEPT ![s] = FALSE]
  /\ asked' = [asked EXCEPT ![s] = 0]

\* claim_media_session reads the headers and the clock, then calls claim.
BeginClaim(s, g, ok) ==
  /\ pc[s] = "idle"
  /\ g \in enrolled
  /\ session' = [session EXCEPT ![s] = g]
  /\ token_ok' = [token_ok EXCEPT ![s] = ok]
  /\ asked' = [asked EXCEPT ![s] = now]
  /\ pc' = [pc EXCEPT ![s] = "claiming"]
  /\ UNCHANGED <<now, registryVars, revoked, claimed>>

\* The id is compared with the registry's under the mutex; on a match the
\* Arc is cloned and the mutex released.
LookUp(s) ==
  /\ pc[s] = "claiming"
  /\ lock = Free
  /\ \/ /\ active = session[s]
        /\ pc' = [pc EXCEPT ![s] = "fetched"]
        /\ UNCHANGED <<session, token_ok, asked>>
     \/ /\ active # session[s]
        /\ Idle(s)
  /\ UNCHANGED <<now, registryVars, revoked, claimed>>

Authorized(s) ==
  /\ token_ok[s]
  /\ asked[s] < expires_at[session[s]]
  /\ session[s] \notin revoked

\* MediaSessionGrant::authorize.
Authorize(s) ==
  /\ pc[s] = "fetched"
  /\ \/ /\ Authorized(s)
        /\ pc' = [pc EXCEPT ![s] = "authorized"]
        /\ UNCHANGED <<session, token_ok, asked>>
     \/ /\ ~Authorized(s)
        /\ Idle(s)
  /\ UNCHANGED <<now, registryVars, revoked, claimed>>

\* Seeded fault: claimed is checked in one place and stored in another (the
\* check was made with the authorization and is not repeated here).
TakeClaimUnchecked(s) ==
  /\ pc[s] = "authorized"
  /\ claimed' = claimed \cup {session[s]}
  /\ pc' = [pc EXCEPT ![s] = "leased"]
  /\ UNCHANGED <<now, registryVars, revoked, session, token_ok, asked>>

\* claimed.compare_exchange(false, true).
TakeClaim(s) ==
  /\ pc[s] = "authorized"
  /\ \/ /\ session[s] \notin claimed
        /\ claimed' = claimed \cup {session[s]}
        /\ pc' = [pc EXCEPT ![s] = "leased"]
        /\ UNCHANGED <<session, token_ok, asked>>
     \/ /\ session[s] \in claimed
        /\ Idle(s)
        /\ UNCHANGED claimed
  /\ UNCHANGED <<now, registryVars, revoked>>

\* Seeded fault: the dropped lease leaves the claimed flag of its grant set.
DropLeaseStillClaimed(s) ==
  /\ pc[s] = "leased"
  /\ Idle(s)
  /\ UNCHANGED <<now, registryVars, revoked, claimed>>

\* Drop for MediaSessionLease.
DropLease(s) ==
  /\ pc[s] = "leased"
  /\ claimed' = claimed \ {session[s]}
  /\ Idle(s)
  /\ UNCHANGED <<now, registryVars, revoked>>

-----------------------------------------------------------------------------
IssueStep(i) == (\E g \in Grants : DrawGrant(i, g)) \/ ReplaceActive(i) \/ RevokePrevious(i)

ClaimStep(s) ==
  \/ \E g \in Grants, ok \in BOOLEAN : BeginClaim(s, g, ok)
  \/ LookUp(s) \/ Authorize(s) \/ TakeClaim(s)

Next ==
  \/ Tick
  \/ \E i \in Issuers : IssueStep(i)
  \/ \E g \in Grants : Revoke(g)
  \/ \E s \in Streams : ClaimStep(s) \/ DropLease(s)

Spec == Init /\ [][Next]_vars

-----------------------------------------------------------------------------
(* Properties.                                                             *)

Holds(s, g) == pc[s] = "leased" /\ session[s] = g

\* MediaSessionLease::is_active, which every loop iteration of the media
\* socket asks before it moves audio.
IsActive(s) == pc[s] = "leased" /\ session[s] \notin revoked

\* Types, and that a handler that has answered holds neither a grant nor a
\* credential any more.
TypeOK ==
  /\ now \in 0..MaxTime
  /\ lock \in Issuers \cup {Free}
  /\ active \in Grants \cup {NoGrant}
  /\ issued \subseteq Grants /\ revoked \subseteq Grants
  /\ claimed \subseteq Grants /\ enrolled \subseteq Grants
  /\ expires_at \in [Grants -> Nat]
  /\ ipc \in [Issuers -> {"idle", "drawn", "replaced"}]
  /\ fresh \in [Issuers -> Grants \cup {NoGrant}]
  /\ previous \in [Issuers -> Grants \cup {NoGrant}]
  /\ pc \in [Streams -> {"idle", "claiming", "fetched", "authorized", "leased"}]
  /\ session \in [Streams -> Grants \cup {NoGrant}]
  /\ token_ok \in [Streams -> BOOLEAN]
  /\ asked \in [Streams -> 0..MaxTime]
  /\ \A s \in Streams : pc[s] = "idle" <=> session[s] = NoGrant

\* One connection per grant: however claims of the same credentials interleave
\* with each other and with drops, two connections never hold leases of one grant.
OneConnectionPerGrant ==
  \A s, t \in Streams, g \in Grants : Holds(s, g) /\ Holds(t, g) => s = t

\* One live owner: two connections are never both active, not even while a
\* replacement grant is being swapped in and claimed.
AtMostOneActiveLease ==
  \A s, t \in Streams : IsActive(s) /\ IsActive(t) => s = t

\* The claimed flag tells the truth: it is set exactly while some connection
\* holds the lease, so a reconnect is refused only while the old one is there.
ClaimedMeansHeld ==
  \A g \in Grants : g \in claimed <=> \E s \in Streams : Holds(s, g)

(* The inductive invariant behind the three properties above.              *)

\* The mutex is held exactly by the issuer between its swap and its revocation,
\* and that issuer's grant is the current one.
MutexDiscipline ==
  /\ \A i \in Issuers : ipc[i] = "replaced" <=> lock = i
  /\ \A i \in Issuers : ipc[i] = "replaced" => active = fresh[i]

\* A grant nobody has been told about yet belongs to one issuer.
FreshGrants ==
  /\ \A i \in Issuers : ipc[i] = "idle" <=> fresh[i] = NoGrant
  /\ \A i \in Issuers : ipc[i] # "idle" => fresh[i] \in issued \ enrolled
  /\ \A i, j \in Issuers : fresh[i] = fresh[j] /\ fresh[i] # NoGrant => i = j

\* Connections present only grants that were handed out.
PresentedGrants ==
  /\ enrolled \subseteq issued
  /\ \A s \in Streams : session[s] \in enrolled \cup {NoGrant}

\* A grant that was handed out and is not revoked is the current one, or it has
\* just been displaced by an issuer that still holds the mutex.
UnrevokedIsCurrent ==
  \A g \in enrolled \ revoked :
    g = active \/ \E i \in Issuers : ipc[i] = "replaced" /\ previous[i] = g

IInv ==
  /\ TypeOK
  /\ MutexDiscipline
  /\ FreshGrants
  /\ PresentedGrants
  /\ UnrevokedIsCurrent
  /\ OneConnectionPerGrant
  /\ ClaimedMeansHeld

\* The live owner of the call audio, as the abstract specification sees it.
owner ==
  IF \E s \in Streams : IsActive(s) THEN CHOOSE s \in Streams : IsActive(s) ELSE Free

Ownership == INSTANCE ExclusiveOwner WITH NoOwner <- Free

\* The registry implements exclusive ownership: the audio never passes from
\* one connection to another without the old one having been cut off first.
ImplementsExclusiveOwner == Ownership!Spec
=============================================================================
