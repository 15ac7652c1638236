-------------------------- MODULE AuthSessionsProofs --------------------------
(***************************************************************************)
(* IInv is an inductive invariant of AuthSessions, for any requests and    *)
(* any number of owners, challenges and enrolments: one lemma per action,  *)
(* grouped by what the action writes, then the theorems that follow.  Each *)
(* lemma also shows that its action undoes no use and no revocation.       *)
(***************************************************************************)
EXTENDS AuthSessions, FiniteSetTheorems, SequenceTheorems, TLAPS

(* What RevocationIsFinal asks of a step. *)
NothingUndone ==
    /\ \A c \in DOMAIN challenges : challenges[c].used => challenges'[c].used
    /\ \A d \in DOMAIN devices : devices[d].revoked => devices'[d].revoked
    /\ \A s \in DOMAIN sessions : sessions[s].revoked => sessions'[s].revoked

(* The requests that BootstrapsAreBounded counts. *)
Inserting == {r \in Requests : At(r, "insert_owner")}

-----------------------------------------------------------------------------
(* Sequences of rows.                                                      *)

\* A table with one more row.
LEMMA Appended ==
    ASSUME NEW S, NEW s \in Seq(S), NEW e \in S, NEW t, t = Append(s, e)
    PROVE  /\ t \in Seq(S) /\ Len(t) = Len(s) + 1 /\ Len(s) \in Nat
           /\ DOMAIN s = 1..Len(s) /\ DOMAIN t = 1..(Len(s) + 1)
           /\ DOMAIN s \subseteq DOMAIN t
           /\ \A i \in DOMAIN s : t[i] = s[i]
           /\ t[Len(s) + 1] = e
           /\ \A i \in DOMAIN t : i \in DOMAIN s \/ i = Len(s) + 1
           /\ Len(s) + 1 \notin DOMAIN s /\ Len(s) + 1 \in DOMAIN t
<1>1. /\ t \in Seq(S) /\ Len(t) = Len(s) + 1 /\ Len(s) \in Nat
      /\ \A i \in 1..Len(s) : t[i] = s[i]
      /\ t[Len(s) + 1] = e
  BY AppendProperties
<1>2. DOMAIN s = 1..Len(s) /\ DOMAIN t = 1..(Len(s) + 1)
  BY <1>1
<1> QED BY <1>1, <1>2

\* A table with one row rewritten.
LEMMA Rewritten ==
    ASSUME NEW S, NEW s \in Seq(S), NEW i \in DOMAIN s, NEW e \in S, NEW t, t = [s EXCEPT ![i] = e]
    PROVE  /\ t \in Seq(S) /\ Len(t) = Len(s) /\ DOMAIN t = DOMAIN s
           /\ \A j \in DOMAIN s : t[j] = IF j = i THEN e ELSE s[j]
<1>1. i \in 1..Len(s)
  OBVIOUS
<1>2. /\ t \in Seq(S) /\ Len(t) = Len(s)
      /\ \A j \in 1..Len(s) : t[j] = IF j = i THEN e ELSE s[j]
  BY <1>1, ExceptSeq
<1> QED BY <1>2

\* Rows that map one to one to others are no more than these.
LEMMA OneToOne ==
    ASSUME NEW n \in Nat, NEW m \in Nat, NEW f \in [1..n -> 1..m],
           \A i, j \in 1..n : f[i] = f[j] => i = j
    PROVE  n <= m
<1>1. f \in Injection(1..n, 1..m)
  BY DEF Injection, IsInjective
<1>2. Cardinality(1..n) = n /\ Cardinality(1..m) = m /\ IsFiniteSet(1..m)
  BY FS_Interval
<1> QED BY <1>1, <1>2, FS_Injection

\* There are no more sessions than challenges, and no more devices than sessions.
LEMMA TablesAreBounded ==
    ASSUME NEW cs \in Seq(ChallengeRecord), NEW ds \in Seq(DeviceRecord), NEW ss \in Seq(SessionRecord),
           \A s \in DOMAIN ss : ss[s].challenge \in DOMAIN cs,
           \A s, t \in DOMAIN ss : ss[s].challenge = ss[t].challenge => s = t,
           \A d \in DOMAIN ds : \E s \in DOMAIN ss : ss[s].device = d
    PROVE  Len(ss) <= Len(cs) /\ Len(ds) <= Len(cs)
<1>1. /\ DOMAIN ss = 1..Len(ss) /\ DOMAIN cs = 1..Len(cs) /\ DOMAIN ds = 1..Len(ds)
      /\ Len(ss) \in Nat /\ Len(cs) \in Nat /\ Len(ds) \in Nat
  OBVIOUS
<1>2. Len(ss) <= Len(cs)
  <2> DEFINE f == [s \in 1..Len(ss) |-> ss[s].challenge]
  <2>1. f \in [1..Len(ss) -> 1..Len(cs)]
    BY <1>1
  <2>2. \A s, t \in 1..Len(ss) : f[s] = f[t] => s = t
    BY <1>1
  <2> HIDE DEF f
  <2> QED BY <1>1, <2>1, <2>2, OneToOne
<1>3. Len(ds) <= Len(ss)
  <2> DEFINE f == [d \in 1..Len(ds) |-> CHOOSE s \in DOMAIN ss : ss[s].device = d]
  <2>1. \A d \in 1..Len(ds) : f[d] \in DOMAIN ss /\ ss[f[d]].device = d
    BY <1>1
  <2>2. f \in [1..Len(ds) -> 1..Len(ss)]
    BY <1>1, <2>1
  <2>3. \A d, e \in 1..Len(ds) : f[d] = f[e] => d = e
    BY <2>1
  <2> HIDE DEF f
  <2>4. Len(ds) \in Nat /\ Len(ss) \in Nat
    BY <1>1
  <2> QED BY ONLY <2>2, <2>3, <2>4, OneToOne
<1> QED BY <1>1, <1>2, <1>3

-----------------------------------------------------------------------------
(* Steps of a request that leave challenges, devices and sessions alone.   *)

\* A request that begins or returns is well formed.
LEMMA IdleRequest == Idle \in Request
BY DEF Idle, Request, Label

\* The inserting bootstraps after a step of r, which has become q.
LEMMA InsertingStep ==
    ASSUME TypeOK, NEW r \in Requests, NEW q, req' = [req EXCEPT ![r] = q]
    PROVE  Inserting' = IF q.at = "insert_owner" THEN Inserting \cup {r} ELSE Inserting \ {r}
BY DEF TypeOK, Inserting, At

\* There are no more inserting bootstraps than requests.
LEMMA InsertingIsFinite ==
    /\ IsFiniteSet(Inserting) /\ Cardinality(Inserting) \in Nat
    /\ Cardinality(Inserting) <= Cardinality(Requests)
<1>1. Inserting \in SUBSET Requests
  BY DEF Inserting
<1>2. IsFiniteSet(Inserting) /\ Cardinality(Inserting) <= Cardinality(Requests)
  BY <1>1, FS_Subset, AuthAssumption
<1> QED BY <1>2, FS_CardinalityType

\* A bootstrap may go on to insert an owner only before there is one.
LEMMA BootstrapStep ==
    ASSUME IInv, NEW r \in Requests, NEW q, req' = [req EXCEPT ![r] = q], UNCHANGED users,
           q.at = "insert_owner" => users = 0
    PROVE  BootstrapsAreBounded'
<1> SUFFICES ASSUME users > 0 PROVE users + Cardinality(Inserting') <= Cardinality(Requests)
  BY DEF BootstrapsAreBounded, Inserting
<1>1. Inserting' \subseteq Inserting
  <2>1. q.at # "insert_owner"
    BY AuthAssumption DEF IInv, TypeOK
  <2>2. TypeOK
    BY DEF IInv
  <2> QED BY <2>1, <2>2, InsertingStep
<1>2. IsFiniteSet(Inserting) /\ Cardinality(Inserting) \in Nat
  BY InsertingIsFinite
<1>3. Cardinality(Inserting') <= Cardinality(Inserting) /\ Cardinality(Inserting') \in Nat
  BY <1>1, <1>2, FS_Subset, FS_CardinalityType
<1>4. users + Cardinality(Inserting) <= Cardinality(Requests) /\ users \in Nat
  BY AuthAssumption DEF IInv, TypeOK, BootstrapsAreBounded, Inserting
<1>5. Cardinality(Requests) \in Nat
  BY FS_CardinalityType, AuthAssumption
<1> QED BY <1>2, <1>3, <1>4, <1>5

\* A step of request r that writes no row, and leaves r knowing its rows.
LEMMA RequestStep ==
    ASSUME IInv, UNCHANGED <<users, challenges, devices, sessions>>,
           secretFile' \in BOOLEAN, factor' \in [User -> 0..MaxFactors],
           NEW r \in Requests, NEW q \in Request, req' = [req EXCEPT ![r] = q],
           q.at \in {"begin_registration", "revoke_session", "confirm_totp", "upsert_factor",
                     "verify_totp", "step_up"} => q.me \in DOMAIN sessions,
           q.at \in {"finish_registration", "finish_authentication"} => q.row \in DOMAIN challenges,
           q.at = "finish_authentication" => q.device \in DOMAIN devices,
           q.at \in {"set_trust", "set_revoked"} => q.row \in DOMAIN devices,
           q.at = "insert_owner" => users = 0
    PROVE  IInv' /\ NothingUndone
<1>1. TypeOK'
  BY DEF IInv, TypeOK
<1>2. SessionsFollowChallenges'
  BY DEF IInv, SessionsFollowChallenges
<1>3. RequestsKnowTheirRows'
  BY DEF IInv, TypeOK, RequestsKnowTheirRows
<1>4. RevokedDeviceIsSignedOut'
  BY DEF IInv, RevokedDeviceIsSignedOut
<1>5. BootstrapsAreBounded'
  BY BootstrapStep
<1> QED BY <1>1, <1>2, <1>3, <1>4, <1>5 DEF IInv, NothingUndone

\* A return without a write to these tables.
LEMMA ReturnI ==
    ASSUME IInv, NEW r \in Requests, Return(r), UNCHANGED <<users, challenges, devices, sessions>>,
           secretFile' \in BOOLEAN, factor' \in [User -> 0..MaxFactors]
    PROVE  IInv' /\ NothingUndone
<1>1. Idle \in Request /\ Idle.at = "idle" /\ req' = [req EXCEPT ![r] = Idle]
  BY IdleRequest DEF Idle, Return
<1> QED BY <1>1, RequestStep

\* A step that only moves request r to another label.
LEMMA GotoI ==
    ASSUME IInv, NEW r \in Requests, NEW label \in Label, Goto(r, label),
           UNCHANGED <<users, challenges, devices, sessions, factor>>, secretFile' \in BOOLEAN,
           \/ label = "list_users"
           \/ label = "insert_owner" /\ users = 0
           \/ label = "step_up" /\ At(r, "verify_totp")
    PROVE  IInv' /\ NothingUndone
<1> DEFINE q == [req[r] EXCEPT !.at = label]
<1>1. req[r] \in Request
  BY DEF IInv, TypeOK
<1>2. q \in Request /\ q.at = label /\ q.me = req[r].me
  BY <1>1 DEF Request
<1>3. req' = [req EXCEPT ![r] = q]
  BY DEF Goto, IInv, TypeOK
<1>4. label = "step_up" => req[r].me \in DOMAIN sessions
  BY DEF At, IInv, RequestsKnowTheirRows
<1>5. factor' \in [User -> 0..MaxFactors]
  BY DEF IInv, TypeOK
<1> HIDE DEF q
<1> QED BY <1>2, <1>3, <1>4, <1>5, RequestStep

\* An authenticated request arrives at its service call.
LEMMA ArriveI ==
    ASSUME IInv, NEW r \in Requests, NEW s \in Nat, NEW label \in Label, NEW row \in Nat,
           Arrive(r, s, label, row),
           \/ /\ label \in {"begin_registration", "revoke_session", "confirm_totp", "verify_totp"}
              /\ s \in DOMAIN sessions
           \/ label = "finish_registration" /\ row \in DOMAIN challenges
           \/ label \in {"set_trust", "set_revoked"} /\ row \in DOMAIN devices
    PROVE  IInv' /\ NothingUndone
<1> DEFINE q == [Idle EXCEPT !.at = label, !.me = s, !.row = row]
<1>1. q \in Request /\ q.at = label /\ q.me = s /\ q.row = row
  BY DEF Idle, Request
<1>2. req' = [req EXCEPT ![r] = q]
  BY DEF Arrive
<1>3. /\ UNCHANGED <<users, challenges, devices, sessions>>
      /\ secretFile' \in BOOLEAN /\ factor' \in [User -> 0..MaxFactors]
  BY DEF Arrive, IInv, TypeOK
<1> HIDE DEF q
<1> QED BY <1>1, <1>2, <1>3, RequestStep

\* The routes that need a principal.
LEMMA RoutesI ==
    ASSUME IInv, NEW r \in Requests,
           \/ PasskeyRegistrationOptions(r) \/ PasskeyRegistrationVerify(r) \/ LogoutRoute(r)
           \/ ConfirmTotpRoute(r) \/ VerifyTotpRoute(r) \/ TrustDeviceRoute(r) \/ RevokeDeviceRoute(r)
    PROVE  IInv' /\ NothingUndone
<1>1. DOMAIN sessions \subseteq Nat /\ DOMAIN challenges \subseteq Nat /\ DOMAIN devices \subseteq Nat
  BY DEF IInv, TypeOK
<1> USE DEF Label
<1>2. CASE PasskeyRegistrationOptions(r) \/ LogoutRoute(r) \/ ConfirmTotpRoute(r) \/ VerifyTotpRoute(r)
  <2>1. PICK s \in DOMAIN sessions :
           \E label \in {"begin_registration", "revoke_session", "confirm_totp", "verify_totp"} :
              Arrive(r, s, label, 0)
    BY <1>2 DEF PasskeyRegistrationOptions, LogoutRoute, ConfirmTotpRoute, VerifyTotpRoute, LiveSessions
  <2> QED BY <1>1, <2>1, ArriveI
<1>3. CASE PasskeyRegistrationVerify(r)
  <2>1. PICK c \in DOMAIN challenges : Arrive(r, 0, "finish_registration", c)
    BY <1>3 DEF PasskeyRegistrationVerify, ValidChallenges
  <2> QED BY <1>1, <2>1, ArriveI
<1>4. CASE TrustDeviceRoute(r) \/ RevokeDeviceRoute(r)
  <2>1. PICK d \in DOMAIN devices :
           \E label \in {"set_trust", "set_revoked"} : Arrive(r, 0, label, d)
    BY <1>4 DEF TrustDeviceRoute, RevokeDeviceRoute, OwnedDevices
  <2> QED BY <1>1, <2>1, ArriveI
<1> QED BY <1>2, <1>3, <1>4

\* The signature has been checked: the challenge and the device it names exist.
LEMMA PasskeyAuthenticationVerifyI ==
    ASSUME IInv, NEW r \in Requests, PasskeyAuthenticationVerify(r)
    PROVE  IInv' /\ NothingUndone
<1>1. PICK c \in DOMAIN challenges, d \in DOMAIN devices :
         req' = [req EXCEPT ![r] = [Idle EXCEPT !.at = "finish_authentication", !.row = c, !.device = d]]
  BY DEF PasskeyAuthenticationVerify, ValidChallenges, PasskeysOf
<1> DEFINE q == [Idle EXCEPT !.at = "finish_authentication", !.row = c, !.device = d]
<1>2. c \in Nat /\ d \in Nat
  BY DEF IInv, TypeOK
<1>3. q \in Request /\ q.at = "finish_authentication" /\ q.row = c /\ q.device = d
  BY <1>2 DEF Idle, Request, Label
<1>4. /\ UNCHANGED <<users, challenges, devices, sessions>>
      /\ secretFile' \in BOOLEAN /\ factor' \in [User -> 0..MaxFactors]
  BY DEF PasskeyAuthenticationVerify, IInv, TypeOK
<1>5. req' = [req EXCEPT ![r] = q]
  BY <1>1
<1> HIDE DEF q
<1> QED BY <1>3, <1>4, <1>5, RequestStep

\* The second factor is read.
LEMMA ConfirmTotpEnrollmentI ==
    ASSUME IInv, NEW r \in Requests, ConfirmTotpEnrollment(r)
    PROVE  IInv' /\ NothingUndone
<1> DEFINE q == [req[r] EXCEPT !.at = "upsert_factor", !.seen = factor[UserOf(req[r].me)] # 0]
<1>1. req[r] \in Request /\ req[r].me \in DOMAIN sessions
  BY DEF ConfirmTotpEnrollment, At, IInv, TypeOK, RequestsKnowTheirRows
<1>2. q \in Request /\ q.at = "upsert_factor" /\ q.me = req[r].me
  BY <1>1 DEF Request, Label
<1>3. req' = [req EXCEPT ![r] = q]
  BY DEF ConfirmTotpEnrollment, IInv, TypeOK
<1>4. /\ UNCHANGED <<users, challenges, devices, sessions>>
      /\ secretFile' \in BOOLEAN /\ factor' \in [User -> 0..MaxFactors]
  BY DEF ConfirmTotpEnrollment, IInv, TypeOK
<1> HIDE DEF q
<1> QED BY <1>1, <1>2, <1>3, <1>4, RequestStep

\* The second factor is written, or the INSERT refused.
LEMMA UpsertSecondFactorI ==
    ASSUME IInv, NEW r \in Requests, UpsertSecondFactor(r)
    PROVE  IInv' /\ NothingUndone
<1>1. factor \in [User -> 0..MaxFactors] /\ secretFile \in BOOLEAN /\ MaxFactors \in Nat
  BY AuthAssumption DEF IInv, TypeOK
<1>2. \/ factor' = factor
      \/ \E u : factor[u] < MaxFactors /\ factor' = [factor EXCEPT ![u] = factor[u] + 1]
  BY DEF UpsertSecondFactor
<1>3. factor' \in [User -> 0..MaxFactors]
  <2>1. CASE factor' = factor
    BY <1>1, <2>1
  <2>2. ASSUME NEW u, factor[u] < MaxFactors, factor' = [factor EXCEPT ![u] = factor[u] + 1]
        PROVE  factor' \in [User -> 0..MaxFactors]
    <3>1. CASE u \in User
      <4>1. factor[u] + 1 \in 0..MaxFactors
        BY <1>1, <2>2, <3>1
      <4> QED BY <1>1, <2>2, <4>1
    <3>2. CASE u \notin User
      BY <1>1, <2>2, <3>2
    <3> QED BY <3>1, <3>2
  <2> QED BY <1>2, <2>1, <2>2
<1>4. Return(r) /\ UNCHANGED <<secretFile, users, challenges, devices, sessions>>
  BY DEF UpsertSecondFactor
<1> QED BY <1>1, <1>3, <1>4, ReturnI

-----------------------------------------------------------------------------
(* Steps that write challenges, devices and sessions.                      *)

\* The requests after a step of r that leaves it without a row to know, when no
\* row has gone.
LEMMA Settled ==
    ASSUME IInv, NEW r \in Requests, NEW q \in Request, req' = [req EXCEPT ![r] = q],
           q.at \in {"idle", "unlink_secret"},
           DOMAIN challenges \subseteq DOMAIN challenges',
           DOMAIN devices \subseteq DOMAIN devices',
           DOMAIN sessions \subseteq DOMAIN sessions'
    PROVE  /\ req' \in [Requests -> Request]
           /\ RequestsKnowTheirRows'
<1>1. req' \in [Requests -> Request]
  BY DEF IInv, TypeOK
<1>2. RequestsKnowTheirRows'
  BY DEF IInv, TypeOK, RequestsKnowTheirRows
<1> QED BY <1>1, <1>2

\* The same when r returns.
LEMMA Returned ==
    ASSUME IInv, NEW r \in Requests, Return(r), UNCHANGED users,
           DOMAIN challenges \subseteq DOMAIN challenges',
           DOMAIN devices \subseteq DOMAIN devices',
           DOMAIN sessions \subseteq DOMAIN sessions'
    PROVE  /\ req' \in [Requests -> Request]
           /\ RequestsKnowTheirRows'
           /\ BootstrapsAreBounded'
<1>1. Idle \in Request /\ Idle.at = "idle" /\ req' = [req EXCEPT ![r] = Idle]
  BY IdleRequest DEF Idle, Return
<1> HIDE DEF Idle
<1> QED BY <1>1, Settled, BootstrapStep

\* A new challenge is unused, so that no session belongs to it.
LEMMA CreateChallengeRows ==
    ASSUME IInv, NEW kind \in {"registration", "authentication"}, NEW u \in User,
           CreateChallenge(kind, u), UNCHANGED <<devices, sessions>>
    PROVE  /\ challenges' \in Seq(ChallengeRecord) /\ Len(challenges') <= MaxChallenges
           /\ DOMAIN challenges \subseteq DOMAIN challenges'
           /\ SessionsFollowChallenges' /\ RevokedDeviceIsSignedOut' /\ NothingUndone
<1> DEFINE new == [kind |-> kind, user |-> u, used |-> FALSE, expired |-> FALSE]
<1>1. new \in ChallengeRecord /\ ~new.used
  BY DEF ChallengeRecord
<1>2. challenges' = Append(challenges, new) /\ Len(challenges) < MaxChallenges
  BY DEF CreateChallenge
<1>3. challenges \in Seq(ChallengeRecord) /\ MaxChallenges \in Nat
  BY AuthAssumption DEF IInv, TypeOK
<1> HIDE DEF new
<1>4. /\ challenges' \in Seq(ChallengeRecord) /\ Len(challenges') = Len(challenges) + 1
      /\ Len(challenges) \in Nat
      /\ DOMAIN challenges \subseteq DOMAIN challenges'
      /\ \A c \in DOMAIN challenges : challenges'[c] = challenges[c]
      /\ challenges'[Len(challenges) + 1] = new
      /\ \A c \in DOMAIN challenges' : c \in DOMAIN challenges \/ c = Len(challenges) + 1
  BY <1>1, <1>2, <1>3, Appended
<1>5. SessionsFollowChallenges'
  BY <1>1, <1>4 DEF IInv, SessionsFollowChallenges
<1>6. RevokedDeviceIsSignedOut' /\ NothingUndone
  BY <1>4 DEF IInv, RevokedDeviceIsSignedOut, NothingUndone
<1> QED BY <1>2, <1>3, <1>4, <1>5, <1>6

\* InsertOwner: the bootstrap is no longer inserting when it has inserted.
LEMMA InsertOwnerI ==
    ASSUME IInv, NEW r \in Requests, InsertOwner(r)
    PROVE  IInv' /\ NothingUndone
<1>1. users \in Nat /\ users < MaxUsers /\ MaxUsers \in Nat /\ users' = users + 1
  BY AuthAssumption DEF InsertOwner, IInv, TypeOK
<1>2. users + 1 \in User /\ users' \in 0..MaxUsers
  BY <1>1 DEF User
<1>3. /\ challenges' \in Seq(ChallengeRecord) /\ Len(challenges') <= MaxChallenges
      /\ DOMAIN challenges \subseteq DOMAIN challenges'
      /\ SessionsFollowChallenges' /\ RevokedDeviceIsSignedOut' /\ NothingUndone
  <2>1. CreateChallenge("registration", users + 1) /\ UNCHANGED <<devices, sessions>>
    BY DEF InsertOwner
  <2>2. PICK u \in User : u = users + 1
    BY <1>2
  <2> QED BY <2>1, <2>2, CreateChallengeRows
<1> DEFINE q == [req[r] EXCEPT !.at = "unlink_secret"]
<1>4. q \in Request /\ q.at = "unlink_secret"
  <2>1. req[r] \in Request
    BY DEF IInv, TypeOK
  <2> QED BY <2>1 DEF Request, Label
<1>5. req' = [req EXCEPT ![r] = q]
  BY DEF InsertOwner, Goto, IInv, TypeOK
<1> HIDE DEF q
<1>6. req' \in [Requests -> Request] /\ RequestsKnowTheirRows'
  BY <1>3, <1>4, <1>5, Settled DEF InsertOwner
<1>7. TypeOK'
  BY <1>2, <1>3, <1>6 DEF InsertOwner, IInv, TypeOK
<1>8. BootstrapsAreBounded'
  <2>1. r \in Inserting
    BY DEF InsertOwner, Inserting
  <2>2. Inserting' = Inserting \ {r}
    <3>1. TypeOK
      BY DEF IInv
    <3> QED BY <1>4, <1>5, <3>1, InsertingStep
  <2>3. /\ IsFiniteSet(Inserting) /\ Cardinality(Inserting) \in Nat
        /\ Cardinality(Inserting) <= Cardinality(Requests)
    BY InsertingIsFinite
  <2>4. Cardinality(Inserting') = Cardinality(Inserting) - 1
    BY <2>1, <2>2, <2>3, FS_RemoveElement
  <2>5. users + Cardinality(Inserting) <= Cardinality(Requests)
    BY <1>1, <2>3 DEF IInv, BootstrapsAreBounded, Inserting
  <2>6. Cardinality(Requests) \in Nat
    BY FS_CardinalityType, AuthAssumption
  <2>7. users' + Cardinality(Inserting') <= Cardinality(Requests)
    BY <1>1, <2>3, <2>4, <2>5, <2>6
  <2> QED BY <2>7 DEF BootstrapsAreBounded, Inserting
<1> QED BY <1>3, <1>6, <1>7, <1>8 DEF IInv

\* BeginPasskeyRegistration, for the user of the session.
LEMMA BeginPasskeyRegistrationI ==
    ASSUME IInv, NEW r \in Requests, BeginPasskeyRegistration(r)
    PROVE  IInv' /\ NothingUndone
<1>1. PICK u : u = UserOf(req[r].me)
  OBVIOUS
<1>2. u \in User
  <2>1. req[r].me \in DOMAIN sessions /\ devices \in Seq(DeviceRecord)
    BY DEF BeginPasskeyRegistration, At, IInv, TypeOK, RequestsKnowTheirRows
  <2>2. sessions[req[r].me].device \in DOMAIN devices
    BY <2>1 DEF IInv, TypeOK
  <2>3. devices[sessions[req[r].me].device] \in DeviceRecord
    BY <2>1, <2>2
  <2> QED BY <1>1, <2>3 DEF UserOf, DeviceRecord
<1>3. CreateChallenge("registration", u) /\ UNCHANGED <<devices, sessions, users>> /\ Return(r)
  BY <1>1 DEF BeginPasskeyRegistration
<1>4. /\ challenges' \in Seq(ChallengeRecord) /\ Len(challenges') <= MaxChallenges
      /\ DOMAIN challenges \subseteq DOMAIN challenges'
      /\ SessionsFollowChallenges' /\ RevokedDeviceIsSignedOut' /\ NothingUndone
  BY <1>2, <1>3, CreateChallengeRows
<1>5. req' \in [Requests -> Request] /\ RequestsKnowTheirRows' /\ BootstrapsAreBounded'
  BY <1>3, <1>4, Returned
<1>6. TypeOK'
  BY <1>4, <1>5 DEF BeginPasskeyRegistration, IInv, TypeOK
<1> QED BY <1>4, <1>5, <1>6 DEF IInv

\* The requests when none of them steps and no row has gone.
LEMMA NoRequestSteps ==
    ASSUME IInv, UNCHANGED <<req, users>>,
           DOMAIN challenges \subseteq DOMAIN challenges',
           DOMAIN devices \subseteq DOMAIN devices',
           DOMAIN sessions \subseteq DOMAIN sessions'
    PROVE  RequestsKnowTheirRows' /\ BootstrapsAreBounded'
<1>1. RequestsKnowTheirRows'
  BY DEF IInv, RequestsKnowTheirRows
<1>2. BootstrapsAreBounded'
  BY DEF IInv, BootstrapsAreBounded, At
<1> QED BY <1>1, <1>2

\* BeginPasskeyAuthentication, for a user with a passkey.
LEMMA BeginPasskeyAuthenticationI ==
    ASSUME IInv, BeginPasskeyAuthentication
    PROVE  IInv' /\ NothingUndone
<1>1. PICK u \in User : CreateChallenge("authentication", u)
  BY DEF BeginPasskeyAuthentication
<1>2. UNCHANGED <<devices, sessions, users, req>>
  BY DEF BeginPasskeyAuthentication
<1>3. /\ challenges' \in Seq(ChallengeRecord) /\ Len(challenges') <= MaxChallenges
      /\ DOMAIN challenges \subseteq DOMAIN challenges'
      /\ SessionsFollowChallenges' /\ RevokedDeviceIsSignedOut' /\ NothingUndone
  BY <1>1, <1>2, CreateChallengeRows
<1>4. RequestsKnowTheirRows' /\ BootstrapsAreBounded'
  BY <1>2, <1>3, NoRequestSteps
<1>5. TypeOK'
  BY <1>3 DEF BeginPasskeyAuthentication, IInv, TypeOK
<1> QED BY <1>3, <1>4, <1>5 DEF IInv

\* Time uses no challenge.
LEMMA ExpireChallengeI == ASSUME IInv, ExpireChallenge PROVE IInv' /\ NothingUndone
<1>1. PICK c \in DOMAIN challenges : challenges' = [challenges EXCEPT ![c].expired = TRUE]
  BY DEF ExpireChallenge
<1>2. challenges \in Seq(ChallengeRecord)
  BY DEF IInv, TypeOK
<1> DEFINE new == [challenges[c] EXCEPT !.expired = TRUE]
<1>3. new \in ChallengeRecord /\ new.used = challenges[c].used
  <2>1. challenges[c] \in ChallengeRecord
    BY <1>2
  <2> QED BY <2>1 DEF ChallengeRecord
<1>4. challenges' = [challenges EXCEPT ![c] = new]
  BY <1>1
<1> HIDE DEF new
<1>5. /\ challenges' \in Seq(ChallengeRecord) /\ Len(challenges') = Len(challenges)
      /\ DOMAIN challenges' = DOMAIN challenges
      /\ \A b \in DOMAIN challenges : challenges'[b] = IF b = c THEN new ELSE challenges[b]
  BY <1>2, <1>3, <1>4, Rewritten
<1>6. SessionsFollowChallenges'
  BY <1>3, <1>5 DEF ExpireChallenge, IInv, SessionsFollowChallenges
<1>7. RevokedDeviceIsSignedOut' /\ NothingUndone
  BY <1>3, <1>5 DEF ExpireChallenge, IInv, RevokedDeviceIsSignedOut, NothingUndone
<1>8. RequestsKnowTheirRows' /\ BootstrapsAreBounded'
  BY <1>5, NoRequestSteps DEF ExpireChallenge
<1>9. TypeOK'
  BY <1>5 DEF ExpireChallenge, IInv, TypeOK
<1> QED BY <1>6, <1>7, <1>8, <1>9 DEF IInv

\* A crash forgets the requests and keeps the tables.
LEMMA CrashI == ASSUME IInv, Crash PROVE IInv' /\ NothingUndone
<1>1. \A r \in Requests : req'[r] = Idle
  BY DEF Crash
<1>2. TypeOK'
  BY IdleRequest DEF Crash, IInv, TypeOK
<1>3. SessionsFollowChallenges' /\ RevokedDeviceIsSignedOut' /\ NothingUndone
  BY DEF Crash, IInv, SessionsFollowChallenges, RevokedDeviceIsSignedOut, NothingUndone
<1>4. RequestsKnowTheirRows'
  BY <1>1 DEF Idle, RequestsKnowTheirRows
<1>5. BootstrapsAreBounded'
  <2>1. Inserting' = {}
    BY <1>1 DEF Inserting, At, Idle
  <2>2. Cardinality(Inserting') = 0
    BY <2>1, FS_EmptySet
  <2>3. users > 0 => users <= Cardinality(Requests)
    BY InsertingIsFinite, FS_CardinalityType, AuthAssumption
    DEF IInv, TypeOK, BootstrapsAreBounded, Inserting
  <2>4. UNCHANGED users /\ users \in Nat
    BY AuthAssumption DEF Crash, IInv, TypeOK
  <2> QED BY <2>2, <2>3, <2>4 DEF BootstrapsAreBounded, Inserting
<1> QED BY <1>2, <1>3, <1>4, <1>5 DEF IInv

\* A challenge is consumed together with the one session it is used for, on a
\* device that is not revoked.
LEMMA IssueSession ==
    ASSUME IInv, NEW r \in Requests, Return(r), UNCHANGED <<secretFile, users, factor>>,
           NEW c \in DOMAIN challenges, Usable(c), Consume(c),
           NEW d \in DOMAIN devices', NewSession(d, c), ~devices'[d].revoked,
           devices' \in Seq(DeviceRecord),
           DOMAIN devices \subseteq DOMAIN devices',
           \A e \in DOMAIN devices : devices'[e] = devices[e],
           \A e \in DOMAIN devices' : e \in DOMAIN devices \/ e = d
    PROVE  IInv' /\ NothingUndone
<1>1. /\ challenges \in Seq(ChallengeRecord) /\ sessions \in Seq(SessionRecord)
      /\ Len(challenges) <= MaxChallenges /\ MaxChallenges \in Nat
  BY AuthAssumption DEF IInv, TypeOK
<1> DEFINE used == [challenges[c] EXCEPT !.used = TRUE]
           new == [device |-> d, challenge |-> c, revoked |-> FALSE, stepUp |-> FALSE]
<1>2. used \in ChallengeRecord /\ used.used
  <2>1. challenges[c] \in ChallengeRecord
    BY <1>1
  <2> QED BY <2>1 DEF ChallengeRecord
<1>3. new \in SessionRecord /\ new.device = d /\ new.challenge = c /\ ~new.revoked
  <2>1. c \in 1..MaxChallenges /\ d \in Nat
    BY <1>1
  <2> QED BY <2>1 DEF SessionRecord
<1>4. challenges' = [challenges EXCEPT ![c] = used] /\ sessions' = Append(sessions, new)
  BY DEF Consume, NewSession
<1>5. ~challenges[c].used
  BY DEF Usable
<1> HIDE DEF used, new
<1>6. /\ challenges' \in Seq(ChallengeRecord) /\ Len(challenges') = Len(challenges)
      /\ DOMAIN challenges' = DOMAIN challenges
      /\ \A b \in DOMAIN challenges : challenges'[b] = IF b = c THEN used ELSE challenges[b]
  BY <1>1, <1>2, <1>4, Rewritten
<1>7. /\ sessions' \in Seq(SessionRecord)
      /\ DOMAIN sessions \subseteq DOMAIN sessions'
      /\ \A s \in DOMAIN sessions : sessions'[s] = sessions[s]
      /\ Len(sessions) + 1 \in DOMAIN sessions' /\ sessions'[Len(sessions) + 1] = new
      /\ \A s \in DOMAIN sessions' : s \in DOMAIN sessions \/ s = Len(sessions) + 1
  BY <1>1, <1>3, <1>4, Appended
<1>8. \A s \in DOMAIN sessions : sessions[s].challenge # c
  BY <1>5 DEF IInv, SessionsFollowChallenges
<1>9. SessionsFollowChallenges'
  <2>1. (\A s \in DOMAIN sessions :
           sessions[s].challenge \in DOMAIN challenges /\ challenges[sessions[s].challenge].used)'
    <3>1. ASSUME NEW s \in DOMAIN sessions'
          PROVE  sessions'[s].challenge \in DOMAIN challenges' /\ challenges'[sessions'[s].challenge].used
      <4>1. CASE s \in DOMAIN sessions
        <5>1. sessions[s].challenge \in DOMAIN challenges /\ challenges[sessions[s].challenge].used
          BY <4>1 DEF IInv, SessionsFollowChallenges
        <5> QED BY <1>2, <1>6, <1>7, <4>1, <5>1
      <4>2. CASE s = Len(sessions) + 1
        BY <1>2, <1>3, <1>6, <1>7, <4>2
      <4> QED BY <1>7, <4>1, <4>2
    <3> QED BY <3>1
  <2>2. (\A s, t \in DOMAIN sessions : sessions[s].challenge = sessions[t].challenge => s = t)'
    BY <1>3, <1>7, <1>8 DEF IInv, SessionsFollowChallenges
  <2>3. (\A b \in DOMAIN challenges :
           challenges[b].used => \E s \in DOMAIN sessions : sessions[s].challenge = b)'
    BY <1>3, <1>6, <1>7 DEF IInv, SessionsFollowChallenges
  <2>4. (\A e \in DOMAIN devices : \E s \in DOMAIN sessions : sessions[s].device = e)'
    BY <1>3, <1>7 DEF IInv, SessionsFollowChallenges
  <2> QED BY <2>1, <2>2, <2>3, <2>4 DEF SessionsFollowChallenges
<1>10. (\A s \in DOMAIN sessions : sessions[s].device \in DOMAIN devices)'
  BY <1>3, <1>7 DEF IInv, TypeOK
<1>11. Len(sessions') <= Len(challenges') /\ Len(devices') <= Len(challenges')
  BY <1>6, <1>7, <1>9, TablesAreBounded DEF SessionsFollowChallenges
<1>12. Len(sessions') <= MaxChallenges /\ Len(devices') <= MaxChallenges
  <2>1. Len(sessions') \in Nat /\ Len(devices') \in Nat /\ Len(challenges') \in Nat
    BY <1>6, <1>7
  <2> QED BY <1>1, <1>6, <1>11, <2>1
<1>13. RevokedDeviceIsSignedOut'
  BY <1>3, <1>7 DEF IInv, TypeOK, RevokedDeviceIsSignedOut
<1>14. NothingUndone
  BY <1>2, <1>6, <1>7 DEF NothingUndone
<1>15. req' \in [Requests -> Request] /\ RequestsKnowTheirRows' /\ BootstrapsAreBounded'
  BY <1>6, <1>7, Returned
<1>16. TypeOK'
  BY <1>1, <1>6, <1>7, <1>10, <1>12, <1>15 DEF IInv, TypeOK
<1> QED BY <1>9, <1>13, <1>14, <1>15, <1>16 DEF IInv

\* A registration: the challenge, the device and the session, or nothing.
LEMMA FinishPasskeyRegistrationI ==
    ASSUME IInv, NEW r \in Requests, FinishPasskeyRegistration(r)
    PROVE  IInv' /\ NothingUndone
<1>1. PICK c \in DOMAIN challenges : c = req[r].row
  BY DEF FinishPasskeyRegistration, At, IInv, RequestsKnowTheirRows
<1>2. Return(r) /\ UNCHANGED <<secretFile, users, factor>>
  BY DEF FinishPasskeyRegistration
<1>3. CASE ~Usable(c)
  <2>1. UNCHANGED <<challenges, devices, sessions>>
    BY <1>1, <1>3 DEF FinishPasskeyRegistration
  <2>2. secretFile' \in BOOLEAN /\ factor' \in [User -> 0..MaxFactors]
    BY <1>2 DEF IInv, TypeOK
  <2> QED BY <1>2, <2>1, <2>2, ReturnI
<1>4. CASE Usable(c)
  <2>1. Consume(c) /\ NewDevice(challenges[c].user) /\ NewSession(Len(devices) + 1, c)
    BY <1>1, <1>4 DEF FinishPasskeyRegistration
  <2>2. devices \in Seq(DeviceRecord) /\ challenges[c] \in ChallengeRecord
    BY DEF IInv, TypeOK
  <2> DEFINE new == [user |-> challenges[c].user, trusted |-> FALSE, revoked |-> FALSE]
  <2>3. new \in DeviceRecord /\ ~new.revoked
    BY <2>2 DEF ChallengeRecord, DeviceRecord
  <2>4. devices' = Append(devices, new)
    BY <2>1 DEF NewDevice
  <2> HIDE DEF new
  <2>5. /\ devices' \in Seq(DeviceRecord) /\ DOMAIN devices \subseteq DOMAIN devices'
        /\ \A e \in DOMAIN devices : devices'[e] = devices[e]
        /\ Len(devices) + 1 \in DOMAIN devices' /\ devices'[Len(devices) + 1] = new
        /\ \A e \in DOMAIN devices' : e \in DOMAIN devices \/ e = Len(devices) + 1
    BY <2>2, <2>3, <2>4, Appended
  <2>6. PICK d \in DOMAIN devices' : d = Len(devices) + 1
    BY <2>5
  <2> QED BY <1>2, <1>4, <2>1, <2>3, <2>5, <2>6, IssueSession
<1> QED BY <1>3, <1>4

\* A sign-in: the challenge and the session, or nothing.
LEMMA FinishPasskeyAuthenticationI ==
    ASSUME IInv, NEW r \in Requests, FinishPasskeyAuthentication(r)
    PROVE  IInv' /\ NothingUndone
<1>1. PICK c \in DOMAIN challenges : c = req[r].row
  BY DEF FinishPasskeyAuthentication, At, IInv, RequestsKnowTheirRows
<1>2. PICK d \in DOMAIN devices : d = req[r].device
  BY DEF FinishPasskeyAuthentication, At, IInv, RequestsKnowTheirRows
<1>3. Return(r) /\ UNCHANGED <<secretFile, users, devices, factor>>
  BY DEF FinishPasskeyAuthentication
<1>4. CASE ~(Usable(c) /\ ~devices[d].revoked)
  <2>1. UNCHANGED <<challenges, sessions>>
    BY <1>1, <1>2, <1>4 DEF FinishPasskeyAuthentication
  <2>2. secretFile' \in BOOLEAN /\ factor' \in [User -> 0..MaxFactors]
    BY <1>3 DEF IInv, TypeOK
  <2> QED BY <1>3, <2>1, <2>2, ReturnI
<1>5. CASE Usable(c) /\ ~devices[d].revoked
  <2>1. Consume(c) /\ NewSession(d, c)
    BY <1>1, <1>2, <1>5 DEF FinishPasskeyAuthentication
  <2>2. devices' = devices /\ devices \in Seq(DeviceRecord)
    BY <1>3 DEF IInv, TypeOK
  <2> QED BY <1>3, <1>5, <2>1, <2>2, IssueSession
<1> QED BY <1>4, <1>5

\* Sessions rewritten one by one, without a sign-in or a sign-out undone, when
\* those of revoked devices are revoked.
LEMMA RewriteSessions ==
    ASSUME IInv, NEW r \in Requests, Return(r), UNCHANGED <<secretFile, users, challenges, factor>>,
           devices' \in Seq(DeviceRecord), DOMAIN devices' = DOMAIN devices,
           \A d \in DOMAIN devices : devices[d].revoked => devices'[d].revoked,
           sessions' \in Seq(SessionRecord), DOMAIN sessions' = DOMAIN sessions,
           \A s \in DOMAIN sessions :
              /\ sessions'[s].device = sessions[s].device
              /\ sessions'[s].challenge = sessions[s].challenge
              /\ sessions[s].revoked => sessions'[s].revoked
              /\ devices'[sessions[s].device].revoked => sessions'[s].revoked
    PROVE  IInv' /\ NothingUndone
<1>1. Len(sessions') = Len(sessions) /\ Len(devices') = Len(devices)
  BY DEF IInv, TypeOK
<1>2. req' \in [Requests -> Request] /\ RequestsKnowTheirRows' /\ BootstrapsAreBounded'
  BY Returned
<1>3. TypeOK'
  BY <1>1, <1>2 DEF IInv, TypeOK
<1>4. SessionsFollowChallenges'
  <2>1. SessionsFollowChallenges
    BY DEF IInv
  <2>2. (\A c \in DOMAIN challenges :
           challenges[c].used => \E s \in DOMAIN sessions : sessions[s].challenge = c)'
    BY <2>1 DEF SessionsFollowChallenges
  <2>3. (\A d \in DOMAIN devices : \E s \in DOMAIN sessions : sessions[s].device = d)'
    BY <2>1 DEF SessionsFollowChallenges
  <2> QED BY <2>1, <2>2, <2>3 DEF SessionsFollowChallenges
<1>5. RevokedDeviceIsSignedOut'
  BY DEF RevokedDeviceIsSignedOut
<1> QED BY <1>2, <1>3, <1>4, <1>5 DEF IInv, NothingUndone

\* Logout and StepUp write one session.
LEMMA LogoutStepUpI ==
    ASSUME IInv, NEW r \in Requests, Logout(r) \/ StepUp(r)
    PROVE  IInv' /\ NothingUndone
<1>1. PICK t \in DOMAIN sessions : t = req[r].me
  BY DEF Logout, StepUp, At, IInv, RequestsKnowTheirRows
<1>2. sessions \in Seq(SessionRecord) /\ sessions[t] \in SessionRecord
  BY DEF IInv, TypeOK
<1>3. PICK new \in SessionRecord :
         /\ new.device = sessions[t].device /\ new.challenge = sessions[t].challenge
         /\ sessions[t].revoked => new.revoked
         /\ sessions' = [sessions EXCEPT ![t] = new]
  <2>1. CASE Logout(r)
    <3> DEFINE new == [sessions[t] EXCEPT !.revoked = TRUE]
    <3>1. new \in SessionRecord /\ new.device = sessions[t].device
          /\ new.challenge = sessions[t].challenge /\ new.revoked
      BY <1>2 DEF SessionRecord
    <3>2. sessions' = [sessions EXCEPT ![t] = new]
      BY <1>1, <2>1 DEF Logout
    <3> HIDE DEF new
    <3> QED BY <3>1, <3>2
  <2>2. CASE StepUp(r)
    <3> DEFINE new == [sessions[t] EXCEPT !.stepUp = TRUE]
    <3>1. new \in SessionRecord /\ new.device = sessions[t].device
          /\ new.challenge = sessions[t].challenge /\ new.revoked = sessions[t].revoked
      BY <1>2 DEF SessionRecord
    <3>2. sessions' = [sessions EXCEPT ![t] = new]
      BY <1>1, <2>2 DEF StepUp
    <3> HIDE DEF new
    <3> QED BY <3>1, <3>2
  <2> QED BY <2>1, <2>2
<1>4. /\ sessions' \in Seq(SessionRecord) /\ DOMAIN sessions' = DOMAIN sessions
      /\ \A s \in DOMAIN sessions : sessions'[s] = IF s = t THEN new ELSE sessions[s]
  BY <1>2, <1>3, Rewritten
<1>5. Return(r) /\ UNCHANGED <<secretFile, users, challenges, factor, devices>>
  BY DEF Logout, StepUp
<1>6. \A s \in DOMAIN sessions :
          /\ sessions'[s].device = sessions[s].device
          /\ sessions'[s].challenge = sessions[s].challenge
          /\ sessions[s].revoked => sessions'[s].revoked
  BY <1>3, <1>4
<1>7. \A s \in DOMAIN sessions : devices'[sessions[s].device].revoked => sessions'[s].revoked
  BY <1>5, <1>6 DEF IInv, RevokedDeviceIsSignedOut
<1>8. devices' \in Seq(DeviceRecord) /\ UNCHANGED devices
  BY <1>5 DEF IInv, TypeOK
<1> QED BY <1>4, <1>5, <1>6, <1>7, <1>8, RewriteSessions

\* TrustDevice writes the trust of one device.
LEMMA TrustDeviceI ==
    ASSUME IInv, NEW r \in Requests, TrustDevice(r)
    PROVE  IInv' /\ NothingUndone
<1>1. PICK d \in DOMAIN devices : d = req[r].row
  BY DEF TrustDevice, At, IInv, RequestsKnowTheirRows
<1>2. devices \in Seq(DeviceRecord) /\ devices[d] \in DeviceRecord
  BY DEF IInv, TypeOK
<1> DEFINE new == [devices[d] EXCEPT !.trusted = TRUE]
<1>3. new \in DeviceRecord /\ new.revoked = devices[d].revoked
  BY <1>2 DEF DeviceRecord
<1>4. devices' = [devices EXCEPT ![d] = new]
  BY <1>1 DEF TrustDevice
<1> HIDE DEF new
<1>5. /\ devices' \in Seq(DeviceRecord) /\ DOMAIN devices' = DOMAIN devices
      /\ \A e \in DOMAIN devices : devices'[e] = IF e = d THEN new ELSE devices[e]
  BY <1>2, <1>3, <1>4, Rewritten
<1>6. \A e \in DOMAIN devices : devices'[e].revoked = devices[e].revoked
  BY <1>3, <1>5
<1>7. Return(r) /\ UNCHANGED <<secretFile, users, challenges, factor, sessions>>
  BY DEF TrustDevice
<1>8. \A s \in DOMAIN sessions : devices'[sessions[s].device].revoked => sessions[s].revoked
  BY <1>6 DEF IInv, TypeOK, RevokedDeviceIsSignedOut
<1>9. sessions' \in Seq(SessionRecord)
  BY <1>7 DEF IInv, TypeOK
<1> QED BY <1>5, <1>6, <1>7, <1>8, <1>9, RewriteSessions

\* RevokeDevice writes the device and all of its sessions.
LEMMA RevokeDeviceI ==
    ASSUME IInv, NEW r \in Requests, RevokeDevice(r)
    PROVE  IInv' /\ NothingUndone
<1>1. PICK d \in DOMAIN devices : d = req[r].row
  BY DEF RevokeDevice, At, IInv, RequestsKnowTheirRows
<1>2. devices \in Seq(DeviceRecord) /\ devices[d] \in DeviceRecord
  BY DEF IInv, TypeOK
<1> DEFINE new == [devices[d] EXCEPT !.revoked = TRUE]
<1>3. new \in DeviceRecord /\ new.revoked
  BY <1>2 DEF DeviceRecord
<1>4. devices' = [devices EXCEPT ![d] = new]
  BY <1>1 DEF RevokeDevice
<1> HIDE DEF new
<1>5. /\ devices' \in Seq(DeviceRecord) /\ DOMAIN devices' = DOMAIN devices
      /\ \A e \in DOMAIN devices : devices'[e] = IF e = d THEN new ELSE devices[e]
  BY <1>2, <1>3, <1>4, Rewritten
<1>6. sessions' = [s \in DOMAIN sessions |-> IF sessions[s].device = d
                                             THEN [sessions[s] EXCEPT !.revoked = TRUE] ELSE sessions[s]]
  BY <1>1 DEF RevokeDevice, RevokeSessionsForDevice
<1>7. sessions \in Seq(SessionRecord) /\ \A s \in DOMAIN sessions : sessions[s] \in SessionRecord
  BY DEF IInv, TypeOK
<1>8. \A s \in DOMAIN sessions :
        /\ sessions'[s] \in SessionRecord
        /\ sessions'[s].device = sessions[s].device
        /\ sessions'[s].challenge = sessions[s].challenge
        /\ sessions[s].revoked => sessions'[s].revoked
        /\ sessions[s].device = d => sessions'[s].revoked
  BY <1>6, <1>7 DEF SessionRecord
<1>9. sessions' \in Seq(SessionRecord) /\ DOMAIN sessions' = DOMAIN sessions
  <2>1. DOMAIN sessions = 1..Len(sessions) /\ Len(sessions) \in Nat
    BY <1>7
  <2>2. sessions' \in [1..Len(sessions) -> SessionRecord]
    BY <1>6, <1>8, <2>1
  <2> QED BY <1>6, <2>1, <2>2, SeqDef
<1>10. \A s \in DOMAIN sessions : devices'[sessions[s].device].revoked => sessions'[s].revoked
  BY <1>5, <1>8 DEF IInv, TypeOK, RevokedDeviceIsSignedOut
<1>11. Return(r) /\ UNCHANGED <<secretFile, users, challenges, factor>>
  BY DEF RevokeDevice
<1> QED BY <1>3, <1>5, <1>8, <1>9, <1>10, <1>11, RewriteSessions

-----------------------------------------------------------------------------
(* The invariant.                                                          *)

\* The initial state satisfies the invariant.
LEMMA InitI == Init => IInv
<1> SUFFICES ASSUME Init PROVE IInv
  OBVIOUS
<1>1. req \in [Requests -> Request] /\ {MaxUsers, MaxChallenges, MaxFactors} \subseteq Nat
  BY IdleRequest, AuthAssumption DEF Init
<1>2. TypeOK
  <2>1. /\ secretFile \in BOOLEAN /\ users \in 0..MaxUsers
        /\ factor \in [User -> 0..MaxFactors]
    <3>1. 0 \in 0..MaxUsers /\ 0 \in 0..MaxFactors
      BY <1>1
    <3>2. secretFile = FALSE /\ users = 0 /\ factor = [u \in User |-> 0]
      BY DEF Init
    <3> QED BY <3>1, <3>2
  <2>2. /\ challenges \in Seq(ChallengeRecord) /\ Len(challenges) <= MaxChallenges
        /\ devices \in Seq(DeviceRecord) /\ Len(devices) <= MaxChallenges
        /\ sessions \in Seq(SessionRecord) /\ Len(sessions) <= MaxChallenges
    <3>1. Len(<<>>) <= MaxChallenges
      BY <1>1
    <3>2. challenges = <<>> /\ devices = <<>> /\ sessions = <<>>
      BY DEF Init
    <3>3. <<>> \in Seq(ChallengeRecord) /\ <<>> \in Seq(DeviceRecord) /\ <<>> \in Seq(SessionRecord)
      OBVIOUS
    <3> QED BY <3>1, <3>2, <3>3
  <2>3. \A s \in DOMAIN sessions : sessions[s].device \in DOMAIN devices
    BY DEF Init
  <2> QED BY <1>1, <2>1, <2>2, <2>3 DEF TypeOK
<1>3. SessionsFollowChallenges /\ RevokedDeviceIsSignedOut
  BY DEF Init, SessionsFollowChallenges, RevokedDeviceIsSignedOut
<1>4. RequestsKnowTheirRows /\ BootstrapsAreBounded
  BY DEF Init, Idle, RequestsKnowTheirRows, BootstrapsAreBounded
<1> QED BY <1>2, <1>3, <1>4 DEF IInv

\* So does the state after every step from one that satisfies it, and the step
\* undoes nothing.
LEMMA NextI == ASSUME IInv, Next PROVE IInv' /\ NothingUndone
<1>1. CASE BeginPasskeyAuthentication \/ ExpireChallenge \/ Crash
  BY <1>1, BeginPasskeyAuthenticationI, ExpireChallengeI, CrashI
<1>2. secretFile \in BOOLEAN /\ factor \in [User -> 0..MaxFactors] /\ req \in [Requests -> Request]
  BY DEF IInv, TypeOK
<1>3. ASSUME NEW r \in Requests, Bootstrap(r)
      PROVE  IInv' /\ NothingUndone
  <2>1. CASE RequireBootstrapSecret(r)
    <3>1. /\ UNCHANGED <<users, challenges, devices, sessions, factor>>
          /\ secretFile' \in BOOLEAN
          /\ Goto(r, "list_users") \/ UNCHANGED req
      BY <2>1 DEF RequireBootstrapSecret
    <3>2. CASE Goto(r, "list_users")
      BY <3>1, <3>2, GotoI DEF Label
    <3>3. CASE UNCHANGED req
      <4>1. TypeOK'
        BY <3>1, <3>3 DEF IInv, TypeOK
      <4>2. RequestsKnowTheirRows' /\ BootstrapsAreBounded'
        BY <3>1, <3>3, NoRequestSteps
      <4> QED BY <3>1, <4>1, <4>2
          DEF IInv, SessionsFollowChallenges, RevokedDeviceIsSignedOut, NothingUndone
    <3> QED BY <3>1, <3>2, <3>3
  <2>2. CASE ListUsers(r)
    <3>1. /\ UNCHANGED <<secretFile, users, challenges, devices, sessions, factor>>
          /\ (users = 0 /\ Goto(r, "insert_owner")) \/ Return(r)
      BY <2>2 DEF ListUsers
    <3> QED BY <1>2, <3>1, GotoI, ReturnI DEF Label
  <2>3. CASE InsertOwner(r)
    BY <2>3, InsertOwnerI
  <2>4. CASE OwnerExists(r) \/ ConsumeBootstrapSecret(r)
    BY <1>2, <2>4, ReturnI DEF OwnerExists, ConsumeBootstrapSecret
  <2> QED BY <1>3, <2>1, <2>2, <2>3, <2>4 DEF Bootstrap
<1>4. ASSUME NEW r \in Requests, Passkeys(r)
      PROVE  IInv' /\ NothingUndone
  BY <1>4, RoutesI, BeginPasskeyRegistrationI, FinishPasskeyRegistrationI,
     PasskeyAuthenticationVerifyI, FinishPasskeyAuthenticationI DEF Passkeys
<1>5. ASSUME NEW r \in Requests, SignedIn(r)
      PROVE  IInv' /\ NothingUndone
  <2>1. CASE VerifyTotp(r)
    <3>1. /\ UNCHANGED <<secretFile, users, challenges, devices, sessions, factor>>
          /\ At(r, "verify_totp")
          /\ Goto(r, "step_up") \/ Return(r)
      BY <2>1 DEF VerifyTotp
    <3> QED BY <1>2, <3>1, GotoI, ReturnI DEF Label
  <2>2. CASE LogoutRoute(r) \/ ConfirmTotpRoute(r) \/ VerifyTotpRoute(r) \/ TrustDeviceRoute(r)
             \/ RevokeDeviceRoute(r)
    BY <2>2, RoutesI
  <2>3. CASE Logout(r) \/ StepUp(r) \/ TrustDevice(r) \/ RevokeDevice(r)
    BY <2>3, LogoutStepUpI, TrustDeviceI, RevokeDeviceI
  <2>4. CASE ConfirmTotpEnrollment(r) \/ UpsertSecondFactor(r)
    BY <2>4, ConfirmTotpEnrollmentI, UpsertSecondFactorI
  <2> QED BY <1>5, <2>1, <2>2, <2>3, <2>4 DEF SignedIn
<1> QED BY <1>1, <1>3, <1>4, <1>5 DEF Next

\* A step that changes nothing preserves the invariant.
LEMMA StutterI == ASSUME IInv, UNCHANGED vars PROVE IInv'
BY DEF vars, IInv, TypeOK, SessionsFollowChallenges, RequestsKnowTheirRows,
       RevokedDeviceIsSignedOut, BootstrapsAreBounded, At

\* Every reachable state satisfies the invariant.
THEOREM Invariance == Spec => []IInv
<1>1. IInv /\ [Next]_vars => IInv'
  BY NextI, StutterI
<1> QED BY <1>1, InitI, PTL DEF Spec

\* The tables and the requests in progress keep their types: there are never
\* more sessions or devices than challenges.
THEOREM TypeCorrect == Spec => []TypeOK
<1>1. IInv => TypeOK
  BY DEF IInv
<1> QED BY <1>1, Invariance, PTL

\* finish_passkey_registration, finish_passkey_authentication: a challenge has
\* one session if it was used, and none otherwise, for any number of requests
\* that present it at once.
THEOREM ChallengesAreUsedOnce == Spec => []ChallengeUsedOnce
<1>1. IInv => ChallengeUsedOnce
  <2> SUFFICES ASSUME IInv, NEW c \in DOMAIN challenges
               PROVE  Cardinality({s \in DOMAIN sessions : sessions[s].challenge = c})
                        = IF challenges[c].used THEN 1 ELSE 0
    BY DEF ChallengeUsedOnce
  <2> DEFINE issued == {s \in DOMAIN sessions : sessions[s].challenge = c}
  <2>1. CASE challenges[c].used
    <3>1. PICK s \in DOMAIN sessions : sessions[s].challenge = c
      BY <2>1 DEF IInv, SessionsFollowChallenges
    <3>2. issued = {s}
      BY <3>1 DEF IInv, SessionsFollowChallenges
    <3> QED BY <2>1, <3>2, FS_Singleton
  <2>2. CASE ~challenges[c].used
    <3>1. issued = {}
      BY <2>2 DEF IInv, SessionsFollowChallenges
    <3> QED BY <2>2, <3>1, FS_EmptySet
  <2> QED BY <2>1, <2>2
<1> QED BY <1>1, Invariance, PTL

\* revoke_device: a revoked device has no live session, one whose sign-in was
\* under way when it was revoked included.
THEOREM RevocationSignsOut == Spec => []RevokedDeviceIsSignedOut
<1>1. IInv => RevokedDeviceIsSignedOut
  BY DEF IInv
<1> QED BY <1>1, Invariance, PTL

\* bootstrap: no more owners are inserted than bootstraps ran at once.
THEOREM OwnersAreBounded == Spec => []BootstrapsAreBounded
<1>1. IInv => BootstrapsAreBounded
  BY DEF IInv
<1> QED BY <1>1, Invariance, PTL

\* trust_device, verify_totp, logout: what was used or revoked stays so.
THEOREM RevocationsStand == Spec => RevocationIsFinal
<1>1. IInv /\ [Next]_vars => [NothingUndone]_vars
  BY NextI
<1>2. [][NothingUndone]_vars => RevocationIsFinal
  BY PTL DEF NothingUndone, RevocationIsFinal
<1> QED BY <1>1, <1>2, Invariance, PTL DEF Spec

=============================================================================
