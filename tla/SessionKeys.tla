------------------------------- MODULE SessionKeys -------------------------------
(***************************************************************************)
(* SessionKeyValidator: the sessions that the owner of one account grants  *)
(* to delegated keys, the counter that caps them, and the sliding window   *)
(* that limits how often a key may call.  ECDSA and P-256 keys go through  *)
(* the same handlers in mirrored storage and share the counter; a key here *)
(* is of either kind.  Owner and bundles are the account's.                *)
(***************************************************************************)
EXTENDS Integers, Sequences, FiniteSets

CONSTANTS
  Person,               \* who can own the account
  Key,                  \* session keys
  Terms,                \* the terms, with their expiry, that sessions are granted on
  MAX_SESSION_KEYS_PER_ACCOUNT,
  MAX_SESSION_DURATION,
  Start, End,           \* bounds of the clock
  MaxRevocations,       \* bound on the revocations of a key
  MaxSignatures         \* bound on the grants that owners sign

\* limit is the velocity limit, 0 for none, in a window of seconds.
TermsType == [expiry : Nat, limit : Nat, window : Nat]

ASSUME TermsAreTyped == Terms \subseteq TermsType
ASSUME BoundsAreNat ==
  /\ {MAX_SESSION_KEYS_PER_ACCOUNT, MAX_SESSION_DURATION, Start, End, MaxRevocations,
      MaxSignatures} \subseteq Nat
  /\ Start <= End
\* Timestamps are large: no window that was never opened is still running.
ASSUME ClockIsFarFromZero == \A d \in Terms : Start >= 2 * d.window

VARIABLES
  now,             \* block.timestamp
  owner,           \* account.owner()
  session,         \* the stored session of each key
  sessionOwner,    \* owner that the session is bound to
  sessionState,    \* velocity counters
  grantNonce,      \* revocations, as the grant hash counts them
  sessionKeyCount, \* slots taken
  validated,       \* keys of the running bundle that validated
  signed,          \* grants that an owner has signed
  revocations,     \* history: revocations of each key
  consent,         \* history: revocations of the key that its granter knew of
  granter,         \* history: the person who granted the session
  calls            \* history: times of the metered calls under the present terms

vars == <<now, owner, session, sessionOwner, sessionState, grantNonce, sessionKeyCount,
          validated, signed, revocations, consent, granter, calls>>

NoSession == [expiry |-> 0, limit |-> 0, window |-> 0, revoked |-> FALSE]
NoCalls == [windowStart |-> 0, callCount |-> 0, prevCount |-> 0]

Init ==
  /\ now = Start
  /\ owner \in Person
  /\ session = [k \in Key |-> NoSession]
  /\ sessionOwner = [k \in Key |-> owner]  \* unused until a session is stored
  /\ sessionState = [k \in Key |-> NoCalls]
  /\ grantNonce = [k \in Key |-> 0]
  /\ sessionKeyCount = 0
  /\ validated = {}
  /\ signed = {}
  /\ revocations = [k \in Key |-> 0]
  /\ consent = [k \in Key |-> 0]
  /\ granter = [k \in Key |-> owner]
  /\ calls = [k \in Key |-> <<>>]

\* The session holds one of the counted slots.
HoldsSlot(s) == s.expiry # 0 /\ ~s.revoked
Live(s) == HoldsSlot(s) /\ now < s.expiry

--------------------------------------------------------------------------------
(* Velocity *)

\* _rollWindow: the counters as they stand at the present time.
RollWindow(st, window) ==
  LET e == now - st.windowStart
  IN IF e <= 0 THEN st
     ELSE IF e >= 2 * window THEN [windowStart |-> now, callCount |-> 0, prevCount |-> 0]
     ELSE IF e >= window
       THEN [windowStart |-> st.windowStart + window, callCount |-> 0, prevCount |-> st.callCount]
     ELSE st

Elapsed(st) == IF now > st.windowStart THEN now - st.windowStart ELSE 0

\* _slidingEstimate: the window before counts for the part of it still in view.
SlidingEstimate(st, window) ==
  st.callCount + (st.prevCount * (window - Elapsed(st))) \div window

\* _velocityWouldExceed, and the gate of recordCallForVelocity.
VelocityExceeded(k) ==
  LET s == session[k]
  IN s.limit > 0 /\ SlidingEstimate(RollWindow(sessionState[k], s.window), s.window) >= s.limit

--------------------------------------------------------------------------------
(* Grants *)

\* _validateCfg
Acceptable(d) ==
  /\ d.expiry # 0
  /\ now < d.expiry
  /\ d.expiry <= now + MAX_SESSION_DURATION
  /\ d.limit > 0 => d.window > 0

\* Faulty variant: nothing refuses the slot past the cap.
ReserveSlotUncapped(k) ==
  IF HoldsSlot(session[k])
    THEN UNCHANGED sessionKeyCount
    ELSE sessionKeyCount' = sessionKeyCount + 1

\* _reserveSlot: a session that expired without being revoked still holds its slot.
ReserveSlot(k) ==
  IF HoldsSlot(session[k])
    THEN UNCHANGED sessionKeyCount
    ELSE /\ sessionKeyCount < MAX_SESSION_KEYS_PER_ACCOUNT
         /\ sessionKeyCount' = sessionKeyCount + 1

\* Faulty variant: a key that was granted before stays bound to its first granter.
StoreSessionKeepingOwner(k, d, revoked) ==
  /\ session' = [session EXCEPT ![k] = [expiry |-> d.expiry, limit |-> d.limit,
                                        window |-> d.window, revoked |-> revoked]]
  /\ IF session[k].expiry = 0 THEN sessionOwner' = [sessionOwner EXCEPT ![k] = owner]
                              ELSE UNCHANGED sessionOwner

\* _storeSession: the terms as submitted, revoked flag included, bound to the owner.
StoreSession(k, d, revoked) ==
  /\ session' = [session EXCEPT ![k] = [expiry |-> d.expiry, limit |-> d.limit,
                                        window |-> d.window, revoked |-> revoked]]
  /\ sessionOwner' = [sessionOwner EXCEPT ![k] = owner]

Grant(k, d, revoked, knew) ==
  /\ Acceptable(d)
  /\ ~Live(session[k])
  /\ ReserveSlot(k)
  /\ StoreSession(k, d, revoked)
  /\ granter' = [granter EXCEPT ![k] = owner]
  /\ consent' = [consent EXCEPT ![k] = knew]
  /\ calls' = [calls EXCEPT ![k] = <<>>]
  /\ UNCHANGED <<now, owner, sessionState, grantNonce, validated, signed, revocations>>

\* grantSessionDirect and its P-256 twin: the owner calls.
GrantSessionDirect(k, d, revoked) == Grant(k, d, revoked, revocations[k])

\* The owner signs a grant hash, over the nonce of now but not over the revoked flag.
SignGrant(k, d) ==
  /\ Cardinality(signed) < MaxSignatures
  /\ signed' = signed \cup {[by |-> owner, key |-> k, terms |-> d,
                             nonce |-> grantNonce[k], knew |-> revocations[k]]}
  /\ UNCHANGED <<now, owner, session, sessionOwner, sessionState, grantNonce,
                 sessionKeyCount, validated, revocations, consent, granter, calls>>

\* grantSession and its P-256 twin: anybody submits what the owner signed.
GrantSession(sig, revoked) ==
  /\ sig.by = owner
  /\ sig.nonce = grantNonce[sig.key]
  /\ Grant(sig.key, sig.terms, revoked, sig.knew)

\* Faulty variant: every revocation gives a slot back.
ReleaseSlotAlways(k) ==
  IF session[k].expiry # 0 /\ sessionKeyCount > 0
    THEN sessionKeyCount' = sessionKeyCount - 1
    ELSE UNCHANGED sessionKeyCount

\* _releaseSlot
ReleaseSlot(k) ==
  IF HoldsSlot(session[k]) /\ sessionKeyCount > 0
    THEN sessionKeyCount' = sessionKeyCount - 1
    ELSE UNCHANGED sessionKeyCount

\* Faulty variant: grants signed before the revocation stay good.
RevokeSessionKeepingNonce(k) ==
  /\ revocations[k] < MaxRevocations
  /\ ReleaseSlot(k)
  /\ session' = [session EXCEPT ![k].revoked = TRUE]
  /\ revocations' = [revocations EXCEPT ![k] = @ + 1]
  /\ UNCHANGED <<now, owner, sessionOwner, sessionState, grantNonce, validated, signed,
                 consent, granter, calls>>

\* revokeSession and its P-256 twin: the owner, or the account itself in a call.
RevokeSession(k) ==
  /\ revocations[k] < MaxRevocations
  /\ ReleaseSlot(k)
  /\ session' = [session EXCEPT ![k].revoked = TRUE]
  /\ grantNonce' = [grantNonce EXCEPT ![k] = @ + 1]
  /\ revocations' = [revocations EXCEPT ![k] = @ + 1]
  /\ UNCHANGED <<now, owner, sessionOwner, sessionState, validated, signed, consent,
                 granter, calls>>

--------------------------------------------------------------------------------
(* Use *)

\* validate, for an operation of the bundle that is being put together.
Validate(k) ==
  /\ Live(session[k])
  /\ sessionOwner[k] = owner
  /\ ~VelocityExceeded(k)
  /\ validated' = validated \cup {k}
  /\ UNCHANGED <<now, owner, session, sessionOwner, sessionState, grantNonce,
                 sessionKeyCount, signed, revocations, consent, granter, calls>>

\* Faulty variant: execution relies on what validation has seen.
InScopeAsValidated(k) == k \in validated

\* checkSessionScope: the session at the moment of the call.
InScope(k) == k \in validated /\ Live(session[k])

\* Faulty variant: the call is counted in the window as stored, not in the rolled one.
ExecuteCallInOldWindow(k) ==
  /\ InScope(k)
  /\ ~VelocityExceeded(k)
  /\ IF session[k].limit = 0
       THEN UNCHANGED <<sessionState, calls>>
       ELSE /\ sessionState' = [sessionState EXCEPT ![k].callCount = @ + 1]
            /\ calls' = [calls EXCEPT ![k] = Append(@, now)]
  /\ UNCHANGED <<now, owner, session, sessionOwner, grantNonce, sessionKeyCount, validated,
                 signed, revocations, consent, granter>>

\* One call of a validated operation: checkSessionScope, recordCallForVelocity.  A
\* batch makes several; a call that is refused or fails leaves nothing behind.
ExecuteCall(k) ==
  /\ InScope(k)
  /\ ~VelocityExceeded(k)
  /\ LET s == session[k]
         st == RollWindow(sessionState[k], s.window)
     IN IF s.limit = 0
          THEN UNCHANGED <<sessionState, calls>>
          ELSE /\ sessionState' = [sessionState EXCEPT ![k] = [st EXCEPT !.callCount = @ + 1]]
               /\ calls' = [calls EXCEPT ![k] = Append(@, now)]
  /\ UNCHANGED <<now, owner, session, sessionOwner, grantNonce, sessionKeyCount, validated,
                 signed, revocations, consent, granter>>

EndBundle ==
  /\ validated # {}
  /\ validated' = {}
  /\ UNCHANGED <<now, owner, session, sessionOwner, sessionState, grantNonce,
                 sessionKeyCount, signed, revocations, consent, granter, calls>>

\* executeRecovery of the account, which anybody may run, alone or in a bundle.
ChangeOwner(p) ==
  /\ p # owner
  /\ owner' = p
  /\ UNCHANGED <<now, session, sessionOwner, sessionState, grantNonce, sessionKeyCount,
                 validated, signed, revocations, consent, granter, calls>>

\* A transaction sees one timestamp.
Tick ==
  /\ validated = {}
  /\ now < End
  /\ now' = now + 1
  /\ UNCHANGED <<owner, session, sessionOwner, sessionState, grantNonce, sessionKeyCount,
                 validated, signed, revocations, consent, granter, calls>>

Next ==
  \/ \E k \in Key, d \in Terms, revoked \in BOOLEAN : GrantSessionDirect(k, d, revoked)
  \/ \E k \in Key, d \in Terms : SignGrant(k, d)
  \/ \E sig \in signed, revoked \in BOOLEAN : GrantSession(sig, revoked)
  \/ \E k \in Key : RevokeSession(k) \/ Validate(k) \/ ExecuteCall(k)
  \/ \E p \in Person : ChangeOwner(p)
  \/ EndBundle
  \/ Tick

Spec == Init /\ [][Next]_vars

--------------------------------------------------------------------------------
(* Properties *)

TypeOK ==
  /\ now \in Start .. End
  /\ owner \in Person
  /\ session \in [Key -> [expiry : Nat, limit : Nat, window : Nat, revoked : BOOLEAN]]
  /\ sessionOwner \in [Key -> Person] /\ granter \in [Key -> Person]
  /\ sessionState \in [Key -> [windowStart : 0 .. now, callCount : Nat, prevCount : Nat]]
  /\ grantNonce \in [Key -> 0 .. MaxRevocations] /\ revocations \in [Key -> 0 .. MaxRevocations]
  /\ consent \in [Key -> 0 .. MaxRevocations]
  /\ sessionKeyCount \in 0 .. MAX_SESSION_KEYS_PER_ACCOUNT
  /\ validated \subseteq Key
  /\ signed \subseteq [by : Person, key : Key, terms : Terms, nonce : 0 .. MaxRevocations,
                       knew : 0 .. MaxRevocations]
  /\ calls \in [Key -> Seq(Start .. End)]

SlotHolders == {k \in Key : HoldsSlot(session[k])}

\* No session escapes the cap: whatever order keys are granted, expire, are granted
\* again and are revoked in, the counter covers the sessions that hold a slot, so
\* there are never more of them than the cap (_reserveSlot, _releaseSlot).
CapCoversSessions == Cardinality(SlotHolders) <= sessionKeyCount

\* A session that is not revoked was granted by an owner who knew of every
\* revocation of that key: "prior owner sigs invalidated on revoke" (line 113).
RevocationIsFinal == \A k \in SlotHolders : consent[k] = revocations[k]

\* An operation validates only under a session that the owner of now has granted;
\* recovery ends the sessions of the owner before (M1/#194, lines 101-104).
SessionsEndWithTheirOwner ==
  [][\A k \in validated' \ validated : granter[k] = owner]_vars

\* No call is made under a session that was revoked or expired, or under terms that
\* no longer stand, at the moment of the call, whenever it was validated.
NoCallAfterRevocation ==
  [][\A k \in Key : calls'[k] # calls[k] /\ calls'[k] # <<>> =>
       HoldsSlot(session[k]) /\ now < session[k].expiry]_vars

\* At most twice the limit in any period as long as the window, wherever it starts.
AtMostTwiceTheLimit ==
  \A k \in Key :
    LET n == 2 * session[k].limit
    IN \A i \in 1 .. Len(calls[k]) - n :
         calls[k][i + n] >= calls[k][i] + session[k].window

\* "Number of session-key slots currently consumed", "released on revoke" (lines
\* 117-119): when every session is revoked, no slot is taken.
RevokingFreesTheSlots == sessionKeyCount = Cardinality(SlotHolders)
=================================================================================
