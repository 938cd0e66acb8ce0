--------------------------- MODULE SessionKeysTheorems ---------------------------
(***************************************************************************)
(* What holds of session keys for all keys, people and terms, any cap and  *)
(* any number of revocations and signed grants.                            *)
(***************************************************************************)
EXTENDS SessionKeys, FiniteSetTheorems, SequenceTheorems, TLAPS

\* Facts that the types and the properties rest on: the grant hash counts revocations,
\* what an owner signed says how many that owner knew of, and a session is bound to
\* the person who granted it.
GrantsAreBound ==
  /\ grantNonce = revocations
  /\ sessionOwner = granter
  /\ \A sig \in signed : sig.nonce = sig.knew

IInv == TypeOK /\ GrantsAreBound /\ RevocationIsFinal

\* The bounds one by one.
LEMMA NaturalBounds ==
  /\ MAX_SESSION_KEYS_PER_ACCOUNT \in Nat /\ MaxRevocations \in Nat
  /\ Start \in Nat /\ End \in Nat /\ Start <= End
BY BoundsAreNat

(***************************************************************************)
(* One lemma for the actions of each kind.                                 *)
(***************************************************************************)
\* Nothing is granted or revoked yet.
LEMMA InitIsSound == Init => IInv
<1> SUFFICES ASSUME Init PROVE IInv OBVIOUS
<1> USE DEF Init
<1>1. /\ NoSession \in [expiry : Nat, limit : Nat, window : Nat, revoked : BOOLEAN]
      /\ <<>> \in Seq(Start .. End)
  BY DEF NoSession
<1>2. /\ MAX_SESSION_KEYS_PER_ACCOUNT \in Nat /\ MaxRevocations \in Nat
      /\ Start \in Nat /\ End \in Nat /\ Start <= End
  BY NaturalBounds
<1>3. NoCalls \in [windowStart : 0 .. now, callCount : Nat, prevCount : Nat]
  BY <1>2 DEF NoCalls
<1>4. TypeOK BY <1>1, <1>2, <1>3 DEF TypeOK
<1>5. GrantsAreBound BY DEF GrantsAreBound
<1>6. RevocationIsFinal BY DEF RevocationIsFinal, SlotHolders, HoldsSlot, NoSession
<1> QED BY <1>4, <1>5, <1>6 DEF IInv

\* Either way of granting: the grant is on acceptable terms and knows of every revocation.
LEMMA GrantKeepsIInv ==
  ASSUME IInv, NEW k \in Key, NEW d \in Terms, NEW revoked \in BOOLEAN,
         Grant(k, d, revoked, revocations[k])
  PROVE  IInv'
<1> USE DEF IInv
<1>1. d \in TermsType BY TermsAreTyped
<1>2. d.expiry \in Nat /\ d.limit \in Nat /\ d.window \in Nat BY <1>1 DEF TermsType
<1> DEFINE new == [expiry |-> d.expiry, limit |-> d.limit, window |-> d.window, revoked |-> revoked]
<1>3. new \in [expiry : Nat, limit : Nat, window : Nat, revoked : BOOLEAN] BY <1>2
<1>4. /\ session' = [session EXCEPT ![k] = new]
      /\ sessionOwner' = [sessionOwner EXCEPT ![k] = owner]
      /\ granter' = [granter EXCEPT ![k] = owner]
      /\ consent' = [consent EXCEPT ![k] = revocations[k]]
      /\ calls' = [calls EXCEPT ![k] = <<>>]
      /\ UNCHANGED <<now, owner, sessionState, grantNonce, validated, signed, revocations>>
  BY DEF Grant, StoreSession
<1> HIDE DEF new
<1>5. sessionKeyCount' \in 0 .. MAX_SESSION_KEYS_PER_ACCOUNT
  <2>1. MAX_SESSION_KEYS_PER_ACCOUNT \in Nat BY NaturalBounds
  <2>2. \/ sessionKeyCount' = sessionKeyCount
        \/ /\ sessionKeyCount < MAX_SESSION_KEYS_PER_ACCOUNT
           /\ sessionKeyCount' = sessionKeyCount + 1
    BY DEF Grant, ReserveSlot
  <2> QED BY <2>1, <2>2 DEF TypeOK
<1>6. <<>> \in Seq(Start .. End) OBVIOUS
<1>7. TypeOK'
  <2>1. /\ session' \in [Key -> [expiry : Nat, limit : Nat, window : Nat, revoked : BOOLEAN]]
        /\ calls' \in [Key -> Seq(Start .. End)]
    BY <1>3, <1>4, <1>6 DEF TypeOK
  <2>2. sessionOwner' \in [Key -> Person] /\ granter' \in [Key -> Person]
    BY <1>4 DEF TypeOK
  <2>3. consent' \in [Key -> 0 .. MaxRevocations] BY <1>4 DEF TypeOK
  <2> QED BY <1>4, <1>5, <2>1, <2>2, <2>3 DEF TypeOK
<1>8. GrantsAreBound' BY <1>4 DEF GrantsAreBound
<1>9. RevocationIsFinal'
  BY <1>4 DEF RevocationIsFinal, SlotHolders, HoldsSlot, TypeOK
<1> QED BY <1>7, <1>8, <1>9

\* A signature says how often the key was revoked so far.
LEMMA SignKeepsIInv ==
  ASSUME IInv, NEW k \in Key, NEW d \in Terms, SignGrant(k, d)
  PROVE  IInv'
<1> USE DEF IInv
<1> DEFINE sig == [by |-> owner, key |-> k, terms |-> d, nonce |-> grantNonce[k],
                   knew |-> revocations[k]]
<1>1. /\ signed' = signed \cup {sig}
      /\ UNCHANGED <<now, owner, session, sessionOwner, sessionState, grantNonce,
                     sessionKeyCount, validated, revocations, consent, granter, calls>>
  BY DEF SignGrant
<1>2. sig \in [by : Person, key : Key, terms : Terms, nonce : 0 .. MaxRevocations,
               knew : 0 .. MaxRevocations]
  BY DEF TypeOK
<1>3. sig.nonce = sig.knew BY DEF GrantsAreBound
<1> HIDE DEF sig
<1>4. TypeOK' BY <1>1, <1>2 DEF TypeOK
<1>5. GrantsAreBound' BY <1>1, <1>3 DEF GrantsAreBound
<1>6. RevocationIsFinal' BY <1>1 DEF RevocationIsFinal, SlotHolders, HoldsSlot
<1> QED BY <1>4, <1>5, <1>6

\* A revocation forgets no earlier one, and what was signed before it is void.
LEMMA RevokeKeepsIInv ==
  ASSUME IInv, NEW k \in Key, RevokeSession(k)
  PROVE  IInv'
<1> USE DEF IInv
<1>1. /\ session' = [session EXCEPT ![k].revoked = TRUE]
      /\ grantNonce' = [grantNonce EXCEPT ![k] = @ + 1]
      /\ revocations' = [revocations EXCEPT ![k] = @ + 1]
      /\ revocations[k] < MaxRevocations
      /\ UNCHANGED <<now, owner, sessionOwner, sessionState, validated, signed, consent,
                     granter, calls>>
  BY DEF RevokeSession
<1>2. sessionKeyCount' \in 0 .. MAX_SESSION_KEYS_PER_ACCOUNT
  <2>1. MAX_SESSION_KEYS_PER_ACCOUNT \in Nat BY NaturalBounds
  <2>2. \/ sessionKeyCount' = sessionKeyCount
        \/ sessionKeyCount > 0 /\ sessionKeyCount' = sessionKeyCount - 1
    BY DEF RevokeSession, ReleaseSlot
  <2> QED BY <2>1, <2>2 DEF TypeOK
<1>3. revocations[k] + 1 \in 0 .. MaxRevocations /\ grantNonce[k] = revocations[k]
  <2>1. revocations[k] \in 0 .. MaxRevocations /\ grantNonce[k] = revocations[k]
    BY DEF TypeOK, GrantsAreBound
  <2> QED BY <1>1, <2>1, NaturalBounds
<1>4. TypeOK'
  <2>1. session' \in [Key -> [expiry : Nat, limit : Nat, window : Nat, revoked : BOOLEAN]]
    BY <1>1 DEF TypeOK
  <2>2. /\ grantNonce' \in [Key -> 0 .. MaxRevocations]
        /\ revocations' \in [Key -> 0 .. MaxRevocations]
    BY <1>1, <1>3 DEF TypeOK
  <2> QED BY <1>1, <1>2, <2>1, <2>2 DEF TypeOK
<1>5. GrantsAreBound' BY <1>1 DEF GrantsAreBound, TypeOK
<1>6. RevocationIsFinal'
  <2> SUFFICES ASSUME NEW j \in Key, HoldsSlot(session'[j]) PROVE consent'[j] = revocations'[j]
    BY DEF RevocationIsFinal, SlotHolders, HoldsSlot
  <2>1. j # k BY <1>1 DEF HoldsSlot, TypeOK
  <2>2. session'[j] = session[j] /\ revocations'[j] = revocations[j] BY <1>1, <2>1 DEF TypeOK
  <2> QED BY <1>1, <2>2 DEF RevocationIsFinal, SlotHolders
<1> QED BY <1>4, <1>5, <1>6

\* Counting a call rolls the window and appends the present time.
LEMMA CallKeepsIInv ==
  ASSUME IInv, NEW k \in Key, ExecuteCall(k)
  PROVE  IInv'
<1> USE DEF IInv
<1> DEFINE st == RollWindow(sessionState[k], session[k].window)
           counted == [st EXCEPT !.callCount = @ + 1]
<1>1. /\ \/ UNCHANGED <<sessionState, calls>>
         \/ /\ sessionState' = [sessionState EXCEPT ![k] = counted]
            /\ calls' = [calls EXCEPT ![k] = Append(@, now)]
      /\ UNCHANGED <<now, owner, session, sessionOwner, grantNonce, sessionKeyCount, validated,
                     signed, revocations, consent, granter>>
  BY DEF ExecuteCall
<1>2. st \in [windowStart : 0 .. now, callCount : Nat, prevCount : Nat]
  <2>1. /\ sessionState[k] \in [windowStart : 0 .. now, callCount : Nat, prevCount : Nat]
        /\ session[k].window \in Nat /\ now \in Nat
    <3>1. session[k] \in [expiry : Nat, limit : Nat, window : Nat, revoked : BOOLEAN]
      BY DEF TypeOK
    <3>2. sessionState[k] \in [windowStart : 0 .. now, callCount : Nat, prevCount : Nat]
      BY DEF TypeOK
    <3>3. now \in Nat BY NaturalBounds DEF TypeOK
    <3> QED BY <3>1, <3>2, <3>3
  <2> DEFINE old == sessionState[k]
             window == session[k].window
  <2>2. /\ old.windowStart \in 0 .. now /\ old.callCount \in Nat /\ window \in Nat
        /\ now - old.windowStart >= window => old.windowStart + window \in 0 .. now
    BY <2>1
  <2> HIDE DEF old, window
  <2>3. old \in [windowStart : 0 .. now, callCount : Nat, prevCount : Nat] BY <2>1 DEF old
  <2>4. RollWindow(old, window) \in [windowStart : 0 .. now, callCount : Nat, prevCount : Nat]
    BY <2>1, <2>2, <2>3 DEF RollWindow
  <2> QED BY <2>4 DEF old, window
<1>3. counted \in [windowStart : 0 .. now, callCount : Nat, prevCount : Nat] BY <1>2
<1> HIDE DEF st, counted
<1>4. Append(calls[k], now) \in Seq(Start .. End) BY DEF TypeOK
<1>5. TypeOK'
  <2>1. sessionState' \in [Key -> [windowStart : 0 .. now, callCount : Nat, prevCount : Nat]]
    BY <1>1, <1>3 DEF TypeOK
  <2>2. calls' \in [Key -> Seq(Start .. End)] BY <1>1, <1>4 DEF TypeOK
  <2> QED BY <1>1, <2>1, <2>2 DEF TypeOK
<1>6. GrantsAreBound' BY <1>1 DEF GrantsAreBound
<1>7. RevocationIsFinal' BY <1>1 DEF RevocationIsFinal, SlotHolders, HoldsSlot
<1> QED BY <1>5, <1>6, <1>7

\* Every step keeps the invariant.
LEMMA NextKeepsIInv == IInv /\ [Next]_vars => IInv'
<1> SUFFICES ASSUME IInv, [Next]_vars PROVE IInv' OBVIOUS
<1> USE DEF IInv
<1>1. ASSUME NEW k \in Key, NEW d \in Terms, NEW revoked \in BOOLEAN,
             GrantSessionDirect(k, d, revoked)
      PROVE  IInv'
  BY <1>1, GrantKeepsIInv DEF GrantSessionDirect
<1>2. ASSUME NEW sig \in signed, NEW revoked \in BOOLEAN, GrantSession(sig, revoked)
      PROVE  IInv'
  <2>1. sig.key \in Key /\ sig.terms \in Terms BY DEF TypeOK
  <2>2. sig.knew = revocations[sig.key] BY <1>2 DEF GrantSession, GrantsAreBound
  <2> QED BY <1>2, <2>1, <2>2, GrantKeepsIInv DEF GrantSession
<1>3. ASSUME NEW k \in Key, Validate(k) PROVE IInv'
  BY <1>3 DEF Validate, TypeOK, GrantsAreBound, RevocationIsFinal, SlotHolders, HoldsSlot
<1>4. ASSUME NEW p \in Person, ChangeOwner(p) PROVE IInv'
  BY <1>4 DEF ChangeOwner, TypeOK, GrantsAreBound, RevocationIsFinal, SlotHolders, HoldsSlot
<1>5. CASE EndBundle
  BY <1>5 DEF EndBundle, TypeOK, GrantsAreBound, RevocationIsFinal, SlotHolders, HoldsSlot
<1>6. CASE Tick
  <2>1. now' \in Start .. End /\ now' = now + 1 BY <1>6, NaturalBounds DEF Tick, TypeOK
  <2>2. sessionState' \in [Key -> [windowStart : 0 .. now', callCount : Nat, prevCount : Nat]]
    <3>1. 0 .. now \subseteq 0 .. now' BY <2>1, NaturalBounds DEF TypeOK
    <3>2. sessionState \in [Key -> [windowStart : 0 .. now, callCount : Nat, prevCount : Nat]]
      BY DEF TypeOK
    <3>3. ASSUME NEW k \in Key
          PROVE  sessionState[k] \in [windowStart : 0 .. now', callCount : Nat, prevCount : Nat]
      <4>1. sessionState[k] \in [windowStart : 0 .. now, callCount : Nat, prevCount : Nat]
        BY <3>2
      <4> QED BY <3>1, <4>1
    <3>4. sessionState' = sessionState BY <1>6 DEF Tick
    <3> QED BY <3>2, <3>3, <3>4
  <2>3. TypeOK' BY <1>6, <2>1, <2>2 DEF Tick, TypeOK
  <2>4. GrantsAreBound' /\ RevocationIsFinal'
    BY <1>6 DEF Tick, GrantsAreBound, RevocationIsFinal, SlotHolders, HoldsSlot
  <2> QED BY <2>3, <2>4
<1>7. CASE UNCHANGED vars
  BY <1>7 DEF vars, TypeOK, GrantsAreBound, RevocationIsFinal, SlotHolders, HoldsSlot
<1> QED BY <1>1, <1>2, <1>3, <1>4, <1>5, <1>6, <1>7, SignKeepsIInv, RevokeKeepsIInv, CallKeepsIInv
     DEF Next

(***************************************************************************)
(* The cap.                                                                *)
(***************************************************************************)
\* The counter covers the sessions that hold a slot, which are finitely many.
SlotsAreCounted == IsFiniteSet(SlotHolders) /\ CapCoversSessions

\* Whatever a step does to the slots, the counter keeps covering them.
LEMMA SlotsStayCounted ==
  ASSUME TypeOK, SlotsAreCounted, [Next]_vars
  PROVE  SlotsAreCounted'
<1>1. /\ IsFiniteSet(SlotHolders) /\ Cardinality(SlotHolders) \in Nat
      /\ Cardinality(SlotHolders) <= sessionKeyCount /\ sessionKeyCount \in Nat
  BY FS_CardinalityType DEF SlotsAreCounted, CapCoversSessions, TypeOK
<1>2. CASE UNCHANGED <<session, sessionKeyCount>>
  BY <1>2 DEF SlotsAreCounted, CapCoversSessions, SlotHolders
<1>3. ASSUME NEW k \in Key, NEW d, NEW revoked, NEW knew, Grant(k, d, revoked, knew)
      PROVE  SlotsAreCounted'
  <2>1. SlotHolders' \subseteq SlotHolders \cup {k}
    BY <1>3 DEF Grant, StoreSession, SlotHolders, TypeOK
  <2>2. /\ IsFiniteSet(SlotHolders \cup {k})
        /\ Cardinality(SlotHolders \cup {k}) = IF k \in SlotHolders THEN Cardinality(SlotHolders)
                                              ELSE Cardinality(SlotHolders) + 1
    BY <1>1, FS_AddElement
  <2>3. IsFiniteSet(SlotHolders') /\ Cardinality(SlotHolders') <= Cardinality(SlotHolders \cup {k})
    BY <2>1, <2>2, FS_Subset
  <2>4. Cardinality(SlotHolders') \in Nat BY <2>3, FS_CardinalityType
  <2>5. sessionKeyCount' = IF k \in SlotHolders THEN sessionKeyCount ELSE sessionKeyCount + 1
    BY <1>3 DEF Grant, ReserveSlot, SlotHolders
  <2> QED BY <1>1, <2>2, <2>3, <2>4, <2>5 DEF SlotsAreCounted, CapCoversSessions
<1>4. ASSUME NEW k \in Key, RevokeSession(k) PROVE SlotsAreCounted'
  <2>1. session' = [session EXCEPT ![k].revoked = TRUE] BY <1>4 DEF RevokeSession
  <2>2. SlotHolders' = SlotHolders \ {k}
    <3>1. ~HoldsSlot(session'[k]) BY <2>1 DEF HoldsSlot, TypeOK
    <3>2. \A j \in Key \ {k} : session'[j] = session[j] BY <2>1 DEF TypeOK
    <3> QED BY <3>1, <3>2 DEF SlotHolders
  <2>3. /\ IsFiniteSet(SlotHolders \ {k})
        /\ Cardinality(SlotHolders \ {k}) = IF k \in SlotHolders THEN Cardinality(SlotHolders) - 1
                                           ELSE Cardinality(SlotHolders)
    BY <1>1, FS_RemoveElement
  <2>4. sessionKeyCount' = IF k \in SlotHolders /\ sessionKeyCount > 0 THEN sessionKeyCount - 1
                                                                      ELSE sessionKeyCount
    BY <1>4 DEF RevokeSession, ReleaseSlot, SlotHolders
  <2>5. Cardinality(SlotHolders \ {k}) \in Nat BY <2>3, FS_CardinalityType
  <2> QED BY <1>1, <2>2, <2>3, <2>4, <2>5 DEF SlotsAreCounted, CapCoversSessions
<1>5. \/ UNCHANGED <<session, sessionKeyCount>>
      \/ \E k \in Key : RevokeSession(k)
      \/ \E k \in Key : \E d, revoked, knew : Grant(k, d, revoked, knew)
  <2>1. ASSUME NEW sig \in signed, NEW revoked, GrantSession(sig, revoked)
        PROVE  \E k \in Key : \E d, knew : Grant(k, d, revoked, knew)
    BY <2>1 DEF GrantSession, TypeOK
  <2>2. ASSUME NEW k \in Key, NEW d, NEW revoked, GrantSessionDirect(k, d, revoked)
        PROVE  \E knew : Grant(k, d, revoked, knew)
    BY <2>2 DEF GrantSessionDirect
  <2>3. CASE Next
    BY <2>1, <2>2, <2>3 DEF Next, SignGrant, Validate, ExecuteCall, ChangeOwner, EndBundle, Tick
  <2> QED BY <2>3 DEF vars
<1> QED BY <1>2, <1>3, <1>4, <1>5

(***************************************************************************)
(* The velocity window.                                                    *)
(***************************************************************************)
\* Of the metered calls all but the last "count" came before the present window, and all
\* but as many again as the limit before the window before it; and none came after it.
InWindows(c, start, count, limit, window) ==
  /\ c # <<>> => limit > 0 /\ count <= limit
  /\ \A i \in 1 .. Len(c) : c[i] < start + window
  /\ \A i \in 1 .. Len(c) - count : c[i] < start
  /\ \A i \in 1 .. Len(c) - count - limit : c[i] + window < start

\* Any n + 1 calls in a row take as long as the window.
Spaced(c, n, window) == \A i \in 1 .. Len(c) - n : c[i + n] >= c[i] + window

CallsAreInWindows ==
  \A k \in Key :
    /\ session[k].limit > 0 => session[k].window > 0
    /\ InWindows(calls[k], sessionState[k].windowStart, sessionState[k].callCount,
                 session[k].limit, session[k].window)

Counters == [windowStart : Nat, callCount : Nat, prevCount : Nat]

\* What came before the end of a window that ended a window ago.
LEMMA LongBefore ==
  ASSUME NEW x \in Nat, NEW y \in Nat, NEW w \in Nat, NEW n \in Nat,
         x < y + w, (y + w) + w <= n
  PROVE  x < n /\ x < n + w /\ x + w < n
OBVIOUS

\* A call counted now joins those of its window; what is before the window stays there.
LEMMA OneMoreIsCounted ==
  ASSUME NEW length \in Nat, NEW count \in Nat, NEW limit \in Nat, count < limit
  PROVE  /\ (length + 1) - (count + 1) = length - count
         /\ limit > 0 /\ count + 1 <= limit
OBVIOUS

\* What came before the window that came before this one.
LEMMA AWindowAgo ==
  ASSUME NEW x \in Nat, NEW y \in Nat, NEW w \in Nat, NEW n \in Nat, x + w < y, y <= n
  PROVE  n >= x + w
OBVIOUS

\* Rolling keeps the calls in their windows, and ends in the window of the present time.
LEMMA RollingKeepsWindows ==
  ASSUME now \in Nat, NEW st \in Counters, st.windowStart <= now,
         NEW limit \in Nat, NEW window \in Nat \ {0}, NEW c \in Seq(Nat),
         InWindows(c, st.windowStart, st.callCount, limit, window)
  PROVE  LET new == RollWindow(st, window)
         IN /\ new \in Counters
            /\ new.windowStart <= now /\ now < new.windowStart + window
            /\ InWindows(c, new.windowStart, new.callCount, limit, window)
<1> DEFINE e == now - st.windowStart
<1>1. Len(c) \in Nat /\ \A i \in 1 .. Len(c) : c[i] \in Nat OBVIOUS
<1>2. st.windowStart \in Nat /\ st.callCount \in Nat /\ st.prevCount \in Nat BY DEF Counters
<1>3. /\ c # <<>> => limit > 0
      /\ \A i \in 1 .. Len(c) : c[i] < st.windowStart + window
      /\ \A i \in 1 .. Len(c) - limit : i \in 1 .. Len(c)
      /\ c # <<>> => \A i \in 1 .. Len(c) - limit : c[i] < st.windowStart
  <2>1. /\ c # <<>> => limit > 0 /\ st.callCount <= limit
        /\ \A i \in 1 .. Len(c) : c[i] < st.windowStart + window
        /\ \A i \in 1 .. Len(c) - st.callCount : c[i] < st.windowStart
    BY DEF InWindows
  <2>2. st.callCount <= limit => 1 .. Len(c) - limit \subseteq 1 .. Len(c) - st.callCount
    BY <1>1, <1>2
  <2>3. \A i \in 1 .. Len(c) - limit : i \in 1 .. Len(c) BY <1>1
  <2> QED BY <2>1, <2>2, <2>3
<1>4. CASE e < window
  <2>1. RollWindow(st, window) = st BY <1>2, <1>4 DEF RollWindow
  <2> QED BY <1>2, <1>4, <2>1
<1>5. CASE e >= 2 * window
  <2>1. RollWindow(st, window) = [windowStart |-> now, callCount |-> 0, prevCount |-> 0]
    BY <1>2, <1>5 DEF RollWindow
  <2>2. (st.windowStart + window) + window <= now BY <1>2, <1>5
  <2>3. \A i \in 1 .. Len(c) : c[i] < now /\ c[i] < now + window /\ c[i] + window < now
    <3> SUFFICES ASSUME NEW i \in 1 .. Len(c)
                 PROVE  c[i] < now /\ c[i] < now + window /\ c[i] + window < now
      OBVIOUS
    <3>1. c[i] \in Nat /\ c[i] < st.windowStart + window BY <1>1, <1>3
    <3> QED BY <1>2, <2>2, <3>1, LongBefore
  <2>4. InWindows(c, now, 0, limit, window) BY <1>1, <1>3, <2>3 DEF InWindows
  <2> QED BY <2>1, <2>4 DEF Counters
<1>6. CASE e >= window /\ e < 2 * window
  <2>1. RollWindow(st, window) = [windowStart |-> st.windowStart + window, callCount |-> 0,
                                  prevCount |-> st.callCount]
    BY <1>2, <1>6 DEF RollWindow
  <2>2. InWindows(c, st.windowStart + window, 0, limit, window)
    <3>1. Len(c) - 0 = Len(c) /\ (c = <<>> => Len(c) - limit <= 0) /\ 0 <= limit BY <1>1
    <3>2. \A i \in 1 .. Len(c) : c[i] < st.windowStart + window + window
      BY <1>1, <1>2, <1>3
    <3>3. \A i \in 1 .. Len(c) - limit : c[i] + window < st.windowStart + window
      <4> SUFFICES ASSUME NEW i \in 1 .. Len(c) - limit
                   PROVE  c[i] + window < st.windowStart + window
        OBVIOUS
      <4>1. i \in 1 .. Len(c) /\ c # <<>> BY <1>1, <1>3, <3>1
      <4>2. c[i] \in Nat /\ c[i] < st.windowStart BY <1>1, <1>3, <4>1
      <4> QED BY <1>2, <4>2
    <3> QED BY <1>3, <3>1, <3>2, <3>3 DEF InWindows
  <2>3. now < (st.windowStart + window) + window /\ st.windowStart + window <= now
    BY <1>2, <1>6
  <2> QED BY <1>2, <2>1, <2>2, <2>3 DEF Counters
<1> QED BY <1>2, <1>4, <1>5, <1>6

\* The estimate is at least what the present window counts: what the window before adds
\* is never negative.
LEMMA EstimateCoversTheWindow ==
  ASSUME now \in Nat, NEW st \in Counters, NEW window \in Nat \ {0},
         st.windowStart <= now, now < st.windowStart + window
  PROVE  SlidingEstimate(st, window) \in Nat /\ st.callCount <= SlidingEstimate(st, window)
<1>1. st.windowStart \in Nat /\ st.callCount \in Nat /\ st.prevCount \in Nat BY DEF Counters
<1>2. window - Elapsed(st) \in Nat BY <1>1 DEF Elapsed
<1>3. \A a, b \in Nat : a * b \in Nat OBVIOUS
<1>4. \A a \in Nat, b \in Nat \ {0} : a \div b \in Nat OBVIOUS
<1> DEFINE view == window - Elapsed(st)
<1>5. (st.prevCount * view) \div window \in Nat BY <1>1, <1>2, <1>3, <1>4
<1> HIDE DEF view
<1>6. \A a, b \in Nat : a + b \in Nat /\ a <= a + b OBVIOUS
<1> QED BY <1>1, <1>5, <1>6 DEF SlidingEstimate, view

\* Below the limit, the call 2 * limit before the next one came before the window before.
LEMMA PositionOfTheCallBefore ==
  ASSUME NEW length \in Nat, NEW count \in Nat, NEW limit \in Nat, NEW i \in Nat \ {0},
         count < limit, i + 2 * limit = length + 1
  PROVE  i \in 1 .. length - count - limit /\ i \in 1 .. length
OBVIOUS

\* A call that the gate lets through keeps the calls in their windows, and comes a window
\* after the call 2 * limit before it.
LEMMA CountingKeepsWindows ==
  ASSUME now \in Nat, NEW st \in Counters, NEW limit \in Nat \ {0}, NEW window \in Nat \ {0},
         NEW c \in Seq(Nat), st.windowStart <= now, now < st.windowStart + window,
         st.callCount < limit, Spaced(c, 2 * limit, window),
         InWindows(c, st.windowStart, st.callCount, limit, window)
  PROVE  /\ InWindows(Append(c, now), st.windowStart, st.callCount + 1, limit, window)
         /\ Spaced(Append(c, now), 2 * limit, window)
<1>1. Len(c) \in Nat /\ \A i \in 1 .. Len(c) : c[i] \in Nat OBVIOUS
<1>2. st.windowStart \in Nat /\ st.callCount \in Nat BY DEF Counters
<1> DEFINE d == Append(c, now)
<1>3. /\ Len(d) = Len(c) + 1 /\ d[Len(c) + 1] = now
      /\ \A i \in 1 .. Len(c) : d[i] = c[i]
      /\ d # <<>>
  OBVIOUS
<1> HIDE DEF d
<1>4. InWindows(d, st.windowStart, st.callCount + 1, limit, window)
  <2> DEFINE n == Len(c) - st.callCount
  <2>1. \A i \in 1 .. Len(d) : d[i] < st.windowStart + window
    <3>1. \A i \in 1 .. Len(c) : c[i] < st.windowStart + window BY DEF InWindows
    <3>2. \A i \in 1 .. Len(d) : i \in 1 .. Len(c) \/ i = Len(c) + 1 BY <1>1, <1>3
    <3> QED BY <1>3, <3>1, <3>2
  <2>2. \A i \in 1 .. n : i \in 1 .. Len(c) /\ c[i] < st.windowStart
    BY <1>1, <1>2 DEF InWindows
  <2>3. \A i \in 1 .. n - limit : i \in 1 .. Len(c) /\ c[i] + window < st.windowStart
    BY <1>1, <1>2 DEF InWindows
  <2>4. Len(d) = Len(c) + 1 BY <1>3
  <2>5. Len(d) - (st.callCount + 1) = n
    <3>1. (Len(c) + 1) - (st.callCount + 1) = Len(c) - st.callCount
      BY <1>1, <1>2, OneMoreIsCounted
    <3> QED BY <2>4, <3>1
  <2>6. /\ \A i \in 1 .. n : d[i] < st.windowStart
        /\ \A i \in 1 .. n - limit : d[i] + window < st.windowStart
    BY <1>3, <2>2, <2>3
  <2>7. limit > 0 /\ st.callCount + 1 <= limit BY <1>1, <1>2, OneMoreIsCounted
  <2> HIDE DEF n
  <2> QED BY <2>1, <2>5, <2>6, <2>7 DEF InWindows
<1>5. Spaced(d, 2 * limit, window)
  <2> SUFFICES ASSUME NEW i \in 1 .. Len(d) - 2 * limit
               PROVE  d[i + 2 * limit] >= d[i] + window
    BY DEF Spaced
  <2> DEFINE j == i + 2 * limit
  <2>1. CASE j <= Len(c)
    <3>1. i \in 1 .. Len(c) - 2 * limit /\ i \in 1 .. Len(c) /\ j \in 1 .. Len(c)
      BY <1>1, <2>1
    <3>2. c[j] >= c[i] + window BY <3>1 DEF Spaced
    <3>3. d[j] = c[j] /\ d[i] = c[i] BY <1>3, <3>1
    <3> QED BY <3>2, <3>3
  <2>2. CASE j = Len(c) + 1
    <3>1. i \in 1 .. Len(c) - st.callCount - limit /\ i \in 1 .. Len(c)
      <4>1. i \in Nat \ {0} BY <1>1
      <4> QED BY <1>1, <1>2, <2>2, <4>1, PositionOfTheCallBefore
    <3>2. c[i] + window < st.windowStart BY <3>1 DEF InWindows
    <3>3. d[j] = now BY <1>3, <2>2
    <3>4. d[i] = c[i] /\ c[i] \in Nat BY <1>1, <1>3, <3>1
    <3>5. now >= c[i] + window
      <4> HIDE DEF j
      <4>1. window \in Nat OBVIOUS
      <4> QED BY <1>2, <3>2, <3>4, <4>1, AWindowAgo
    <3> QED BY <3>3, <3>4, <3>5
  <2>3. j <= Len(c) + 1 /\ j \in Int
    <3>1. Len(d) = Len(c) + 1 BY <1>3
    <3> QED BY <1>1, <3>1
  <2> HIDE DEF j
  <2>4. j <= Len(c) \/ j = Len(c) + 1 BY <1>1, <2>3
  <2> QED BY <2>1, <2>2, <2>4 DEF j
<1> QED BY <1>4, <1>5 DEF d

\* Every step keeps the calls of every key in their windows, and apart.
LEMMA VelocityStaysBounded ==
  ASSUME TypeOK, CallsAreInWindows, AtMostTwiceTheLimit, [Next]_vars
  PROVE  (CallsAreInWindows /\ AtMostTwiceTheLimit)'
<1>1. now \in Nat /\ Start .. End \subseteq Nat BY NaturalBounds DEF TypeOK
<1>2. ASSUME NEW k \in Key
      PROVE  /\ session[k] \in [expiry : Nat, limit : Nat, window : Nat, revoked : BOOLEAN]
             /\ sessionState[k] \in Counters /\ sessionState[k].windowStart <= now
             /\ calls[k] \in Seq(Nat)
  <2>1. sessionState[k] \in [windowStart : 0 .. now, callCount : Nat, prevCount : Nat]
    BY DEF TypeOK
  <2>2. calls[k] \in Seq(Start .. End) BY DEF TypeOK
  <2>3. calls[k] \in Seq(Nat) BY <1>1, <2>2, SeqMonotonic
  <2> QED BY <1>1, <2>1, <2>3 DEF TypeOK, Counters
<1> DEFINE Bounded(k) ==
             /\ session[k].limit > 0 => session[k].window > 0
             /\ InWindows(calls[k], sessionState[k].windowStart, sessionState[k].callCount,
                          session[k].limit, session[k].window)
             /\ Spaced(calls[k], 2 * session[k].limit, session[k].window)
<1>3. \A k \in Key : Bounded(k) BY DEF CallsAreInWindows, AtMostTwiceTheLimit, Spaced
<1>4. SUFFICES ASSUME NEW k \in Key PROVE Bounded(k)'
  BY DEF CallsAreInWindows, AtMostTwiceTheLimit, Spaced
<1>5. CASE /\ UNCHANGED <<sessionState[k], calls[k]>>
           /\ session'[k].limit = session[k].limit /\ session'[k].window = session[k].window
  BY <1>3, <1>5
<1>6. ASSUME NEW d \in Terms, NEW revoked, NEW knew, Grant(k, d, revoked, knew)
      PROVE  Bounded(k)'
  <2>1. d \in TermsType BY TermsAreTyped
  <2>2. session'[k] = [expiry |-> d.expiry, limit |-> d.limit, window |-> d.window,
                       revoked |-> revoked]
        /\ calls'[k] = <<>> /\ (d.limit > 0 => d.window > 0)
        /\ sessionState' = sessionState
    BY <1>6 DEF Grant, StoreSession, Acceptable, TypeOK
  <2>3. d.limit \in Nat /\ d.window \in Nat BY <2>1 DEF TermsType
  <2>4. Len(calls'[k]) = 0 BY <2>2
  <2>5. sessionState[k].callCount \in Nat BY <1>2 DEF Counters
  <2>7. \A i : i \notin 1 .. 0 /\ i \notin 1 .. 0 - sessionState[k].callCount
               /\ i \notin 1 .. 0 - sessionState[k].callCount - d.limit
               /\ i \notin 1 .. 0 - 2 * d.limit
    BY <2>3, <2>5
  <2>8. /\ sessionState'[k] = sessionState[k] /\ session'[k].limit = d.limit
        /\ session'[k].window = d.window
    BY <2>2
  <2>9. InWindows(calls'[k], sessionState[k].windowStart, sessionState[k].callCount,
                  d.limit, d.window)
    BY <2>2, <2>4, <2>7 DEF InWindows
  <2>10. Spaced(calls'[k], 2 * d.limit, d.window) BY <2>4, <2>7 DEF Spaced
  <2> QED BY <2>2, <2>8, <2>9, <2>10
<1>7. ASSUME RevokeSession(k) PROVE Bounded(k)'
  <2>1. session'[k] = [session[k] EXCEPT !.revoked = TRUE]
        /\ UNCHANGED <<sessionState, calls>>
    BY <1>7 DEF RevokeSession, TypeOK
  <2>2. session'[k].limit = session[k].limit /\ session'[k].window = session[k].window
    BY <1>2, <2>1
  <2> QED BY <1>5, <2>1, <2>2
<1>8. ASSUME ExecuteCall(k), session[k].limit # 0 PROVE Bounded(k)'
  <2> DEFINE s == session[k]
             st == RollWindow(sessionState[k], s.window)
  <2>1. /\ calls'[k] = Append(calls[k], now) /\ session' = session
        /\ sessionState'[k] = [st EXCEPT !.callCount = @ + 1]
        /\ ~(SlidingEstimate(st, s.window) >= s.limit)
    BY <1>8, <1>2 DEF ExecuteCall, VelocityExceeded, TypeOK
  <2>2. s.limit \in Nat \ {0} /\ s.window \in Nat \ {0} BY <1>2, <1>3, <1>8
  <2>3. /\ st \in Counters /\ st.windowStart <= now /\ now < st.windowStart + s.window
        /\ InWindows(calls[k], st.windowStart, st.callCount, s.limit, s.window)
    BY <1>1, <1>2, <1>3, <2>2, RollingKeepsWindows
  <2> HIDE DEF st
  <2>4. st.callCount < s.limit
    <3>1. /\ SlidingEstimate(st, s.window) \in Nat
          /\ st.callCount <= SlidingEstimate(st, s.window)
      BY <1>1, <2>2, <2>3, EstimateCoversTheWindow
    <3>2. st.callCount \in Nat BY <2>3 DEF Counters
    <3> QED BY <2>1, <2>2, <3>1, <3>2
  <2>5. /\ InWindows(calls'[k], st.windowStart, st.callCount + 1, s.limit, s.window)
        /\ Spaced(calls'[k], 2 * s.limit, s.window)
    BY <1>1, <1>2, <1>3, <2>1, <2>2, <2>3, <2>4, CountingKeepsWindows
  <2>6. /\ sessionState'[k].windowStart = st.windowStart
        /\ sessionState'[k].callCount = st.callCount + 1
    BY <2>1, <2>3 DEF Counters
  <2> QED BY <1>3, <2>1, <2>5, <2>6
<1>9. \/ /\ UNCHANGED <<sessionState[k], calls[k]>>
         /\ session'[k].limit = session[k].limit /\ session'[k].window = session[k].window
      \/ \E d \in Terms : \E revoked, knew : Grant(k, d, revoked, knew)
      \/ RevokeSession(k)
      \/ ExecuteCall(k) /\ session[k].limit # 0
  <2> DEFINE Same == /\ UNCHANGED <<sessionState[k], calls[k]>>
                     /\ session'[k].limit = session[k].limit
                     /\ session'[k].window = session[k].window
             Granted == \E d \in Terms : \E revoked, knew : Grant(k, d, revoked, knew)
  <2>1. ASSUME NEW j \in Key, NEW d \in Terms, NEW revoked, NEW knew,
               Grant(j, d, revoked, knew)
        PROVE  Same \/ Granted
    <3>1. CASE j = k BY <2>1, <3>1
    <3>2. CASE j # k BY <2>1, <3>2 DEF Grant, StoreSession, TypeOK
    <3> QED BY <3>1, <3>2
  <2>2. ASSUME NEW j \in Key, RevokeSession(j), j # k PROVE Same
    BY <2>2 DEF RevokeSession, TypeOK
  <2>3. ASSUME NEW j \in Key, ExecuteCall(j), j # k \/ session[k].limit = 0 PROVE Same
    BY <2>3 DEF ExecuteCall, TypeOK
  <2>4. ASSUME UNCHANGED <<session, sessionState, calls>> PROVE Same BY <2>4
  <2>5. ASSUME Next
        PROVE  \/ UNCHANGED <<session, sessionState, calls>>
               \/ \E j \in Key, d \in Terms : \E revoked, knew : Grant(j, d, revoked, knew)
               \/ \E j \in Key : RevokeSession(j) \/ ExecuteCall(j)
    <3>1. ASSUME NEW sig \in signed, NEW revoked, GrantSession(sig, revoked)
          PROVE  \E j \in Key, d \in Terms : \E knew : Grant(j, d, revoked, knew)
      BY <3>1 DEF GrantSession, TypeOK
    <3>2. ASSUME NEW j \in Key, NEW d \in Terms, NEW revoked, GrantSessionDirect(j, d, revoked)
          PROVE  \E knew : Grant(j, d, revoked, knew)
      BY <3>2 DEF GrantSessionDirect
    <3> QED BY <2>5, <3>1, <3>2 DEF Next, SignGrant, Validate, ChangeOwner, EndBundle, Tick
  <2>6. UNCHANGED vars => UNCHANGED <<session, sessionState, calls>> BY DEF vars
  <2> HIDE DEF Same, Granted
  <2>7. Same \/ Granted \/ RevokeSession(k) \/ (ExecuteCall(k) /\ session[k].limit # 0)
    BY <2>1, <2>2, <2>3, <2>4, <2>5, <2>6
  <2> QED BY <2>7 DEF Same, Granted
<1> HIDE DEF Bounded
<1> QED BY <1>5, <1>6, <1>7, <1>8, <1>9

(***************************************************************************)
(* The theorems.                                                           *)
(***************************************************************************)
\* The types of SessionKeys, for every instance: the counter stays within the cap, and
\* what revocations and grants count stays in step.
THEOREM TypesHold == Spec => []TypeOK
<1>1. IInv => TypeOK BY DEF IInv
<1> QED BY <1>1, InitIsSound, NextKeepsIInv, PTL DEF Spec

\* RevocationIsFinal, for any keys and any number of grants signed in advance: a session
\* that is not revoked was granted by an owner who knew of every revocation of the key
\* (SessionKeyValidator.sol, revokeSession and the grant nonce).
THEOREM RevokedIsRevoked == Spec => []RevocationIsFinal
<1>1. IInv => RevocationIsFinal BY DEF IInv
<1> QED BY <1>1, InitIsSound, NextKeepsIInv, PTL DEF Spec

\* CapCoversSessions, for any cap and any set of keys, finite or not: the counter covers
\* the sessions that hold a slot (SessionKeyValidator.sol, _reserveSlot, _releaseSlot).
THEOREM NoSessionEscapesTheCap == Spec => []CapCoversSessions
<1>1. Init => SlotsAreCounted
  <2> SUFFICES ASSUME Init PROVE SlotsAreCounted OBVIOUS
  <2>1. SlotHolders = {} BY DEF Init, SlotHolders, HoldsSlot, NoSession
  <2> QED BY <2>1, FS_EmptySet DEF Init, SlotsAreCounted, CapCoversSessions
<1>2. TypeOK /\ SlotsAreCounted /\ [Next]_vars => SlotsAreCounted' BY SlotsStayCounted
<1>3. SlotsAreCounted => CapCoversSessions BY DEF SlotsAreCounted
<1> QED BY <1>1, <1>2, <1>3, TypesHold, PTL DEF Spec

\* SessionsEndWithTheirOwner, for any number of recoveries: an operation validates only
\* under a session that the owner of now has granted (SessionKeyValidator.sol, M1/#194).
THEOREM SessionsOfOthersAreDead == Spec => SessionsEndWithTheirOwner
<1>1. IInv /\ [Next]_vars => [\A k \in validated' \ validated : granter[k] = owner]_vars
  <2> SUFFICES ASSUME IInv, Next, NEW k \in validated' \ validated PROVE granter[k] = owner
    OBVIOUS
  <2>1. PICK j \in Key : Validate(j)
    BY DEF Next, GrantSessionDirect, Grant, SignGrant, GrantSession, RevokeSession, ExecuteCall,
         ChangeOwner, EndBundle, Tick
  <2> QED BY <2>1 DEF Validate, IInv, GrantsAreBound
<1> QED BY <1>1, InitIsSound, NextKeepsIInv, PTL DEF Spec, SessionsEndWithTheirOwner

\* NoCallAfterRevocation, for any bundles: at the moment of a metered call the session is
\* neither revoked nor expired, whenever it was validated (checkSessionScope).
THEOREM CallsNeedLiveSessions == Spec => NoCallAfterRevocation
<1>1. IInv /\ [Next]_vars =>
        [\A k \in Key : calls'[k] # calls[k] /\ calls'[k] # <<>> =>
           HoldsSlot(session[k]) /\ now < session[k].expiry]_vars
  <2> SUFFICES ASSUME IInv, Next, NEW k \in Key, calls'[k] # calls[k], calls'[k] # <<>>
               PROVE  HoldsSlot(session[k]) /\ now < session[k].expiry
    OBVIOUS
  <2>1. calls \in [Key -> Seq(Start .. End)] BY DEF IInv, TypeOK
  <2>2. ASSUME NEW j, NEW d, NEW revoked, NEW knew, Grant(j, d, revoked, knew) PROVE FALSE
    BY <2>1, <2>2 DEF Grant
  <2>3. PICK j \in Key : ExecuteCall(j)
    BY <2>2 DEF Next, GrantSessionDirect, GrantSession, SignGrant, RevokeSession, Validate,
         ChangeOwner, EndBundle, Tick
  <2>4. j = k BY <2>1, <2>3 DEF ExecuteCall
  <2> QED BY <2>3, <2>4 DEF ExecuteCall, InScope, Live
<1> QED BY <1>1, InitIsSound, NextKeepsIInv, PTL DEF Spec, NoCallAfterRevocation

\* AtMostTwiceTheLimit, for any limits and windows and any number of calls, grants and
\* revocations: any 2 * limit + 1 metered calls in a row take at least the window, across
\* its edges and its floored weight (SessionKeyValidator.sol, recordCallForVelocity).
THEOREM RateIsBounded == Spec => []AtMostTwiceTheLimit
<1>1. Init => CallsAreInWindows /\ AtMostTwiceTheLimit
  <2> SUFFICES ASSUME Init, NEW k \in Key
               PROVE  /\ ~(session[k].limit > 0) /\ calls[k] = <<>> /\ Len(calls[k]) = 0
                      /\ session[k].limit = 0 /\ sessionState[k].callCount = 0
    BY DEF CallsAreInWindows, InWindows, AtMostTwiceTheLimit
  <2> QED BY DEF Init, NoSession, NoCalls
<1>2. TypeOK /\ CallsAreInWindows /\ AtMostTwiceTheLimit /\ [Next]_vars
        => (CallsAreInWindows /\ AtMostTwiceTheLimit)'
  BY VelocityStaysBounded
<1> QED BY <1>1, <1>2, TypesHold, PTL DEF Spec
================================================================================
