---------------------------- MODULE AuthSessions ----------------------------
(***************************************************************************)
(* Sign-in: AuthService (services/auth.py), the device operations of       *)
(* SecurityService (services/security.py), the repository statements they  *)
(* run, and the routes of api/auth.py and api/security.py that call them.  *)
(*                                                                         *)
(* A request is a coroutine.  SQLite takes its write lock at the first     *)
(* write of a transaction, so every SELECT made before that write is a     *)
(* step of its own whose answer may be stale when it is used, and the      *)
(* first write, what follows it and the commit are one step.  The ORM      *)
(* writes back the columns that were assigned and no others.               *)
(*                                                                         *)
(* Left out: names, tokens, CSRF tokens and ciphertexts (a client that     *)
(* holds none of them is refused and changes nothing), sign counters       *)
(* (an argument of the WebAuthn library), display names and timestamps no  *)
(* decision reads, and audit rows, which are written in the transaction of *)
(* the change they record.  Sessions do not expire: an expired one only    *)
(* authenticates fewer requests, and no request is obliged to arrive.      *)
(* Every user is an owner: bootstrap is the only code that creates one,    *)
(* and nothing disables one.                                               *)
(*                                                                         *)
(* A SELECT that only refuses what has been revoked is part of the step    *)
(* that authenticates the request: had the row been revoked in between,    *)
(* the request would have ended there without effect.                      *)
(***************************************************************************)
EXTENDS Naturals, FiniteSets, Sequences

CONSTANTS
    Requests,        \* the requests that can be in progress at once
    MaxUsers,        \* bound: owners that may be inserted
    MaxChallenges,   \* bound: challenges that may be created
    MaxFactors       \* bound: second-factor enrolments that may be confirmed

ASSUME AuthAssumption ==
    /\ IsFiniteSet(Requests)
    /\ {MaxUsers, MaxChallenges, MaxFactors} \subseteq Nat

VARIABLES
    secretFile,  \* does the bootstrap secret's file exist?
    users,       \* number of rows of users; an owner is its number
    challenges,  \* rows of auth_challenges
    devices,     \* rows of security_devices, each with its passkey
    sessions,    \* rows of auth_sessions
    factor,      \* factor[u]: number of u's enrolment in force, 0 for none
    req          \* req[r]: where request r is and what it has read

vars == <<secretFile, users, challenges, devices, sessions, factor, req>>

-----------------------------------------------------------------------------
(* The rows.  "used" is consumed_at, "revoked" revoked_at, "expired" that  *)
(* expires_at has passed; a session's challenge is the one it was issued   *)
(* for, "stepUp" that step_up_at is set.                                   *)

User == 1..MaxUsers

ChallengeRecord ==
    [kind : {"registration", "authentication"}, user : User, used : BOOLEAN, expired : BOOLEAN]

DeviceRecord == [user : User, trusted : BOOLEAN, revoked : BOOLEAN]

SessionRecord ==
    [device : Nat, challenge : 1..MaxChallenges, revoked : BOOLEAN, stepUp : BOOLEAN]

(* The labels of a request: the statement it runs next. *)
Label ==
    {"idle", "list_users", "insert_owner", "unlink_secret", "begin_registration",
     "finish_registration", "finish_authentication", "revoke_session", "confirm_totp",
     "upsert_factor", "verify_totp", "step_up", "set_trust", "set_revoked"}

(* A request: its label, the session its later steps use (0: none), the     *)
(* row it is about (a challenge or a device), the device that signed, and   *)
(* whether it has seen a second factor.                                     *)
Request == [at : Label, me : Nat, row : Nat, device : Nat, seen : BOOLEAN]

Idle == [at |-> "idle", me |-> 0, row |-> 0, device |-> 0, seen |-> FALSE]

(* Type correctness. *)
TypeOK ==
    /\ secretFile \in BOOLEAN
    /\ users \in 0..MaxUsers
    /\ challenges \in Seq(ChallengeRecord) /\ Len(challenges) <= MaxChallenges
    /\ devices \in Seq(DeviceRecord) /\ Len(devices) <= MaxChallenges
    /\ sessions \in Seq(SessionRecord) /\ Len(sessions) <= MaxChallenges
    /\ \A s \in DOMAIN sessions : sessions[s].device \in DOMAIN devices
    /\ factor \in [User -> 0..MaxFactors]
    /\ req \in [Requests -> Request]

Init ==
    /\ secretFile = FALSE
    /\ users = 0
    /\ challenges = <<>>
    /\ devices = <<>>
    /\ sessions = <<>>
    /\ factor = [u \in User |-> 0]
    /\ req = [r \in Requests |-> Idle]

-----------------------------------------------------------------------------
(* Helpers. *)

At(r, label) == req[r].at = label

Goto(r, label) == req' = [req EXCEPT ![r].at = label]

Return(r) == req' = [req EXCEPT ![r] = Idle]

UserOf(s) == devices[sessions[s].device].user

(* The condition of _registration_challenge and _authentication_challenge,  *)
(* and, but for the kind, the WHERE clause of consume_challenge.            *)
Usable(c) == ~challenges[c].used /\ ~challenges[c].expired

ValidChallenges(kind) == {c \in DOMAIN challenges : challenges[c].kind = kind /\ Usable(c)}

(* principal_from_session_token: the sessions a request can be authenticated *)
(* by.  Its three SELECTs are one step: what they test only ever turns        *)
(* false, so a request that passes them all would pass at the first.         *)
LiveSessions ==
    {s \in DOMAIN sessions : ~sessions[s].revoked /\ ~devices[sessions[s].device].revoked}

(* create_challenge. *)
CreateChallenge(kind, u) ==
    /\ Len(challenges) < MaxChallenges
    /\ challenges' = Append(challenges, [kind |-> kind, user |-> u, used |-> FALSE, expired |-> FALSE])

(* consume_challenge: a conditional UPDATE that says whether it matched. *)
Consume(c) == challenges' = [challenges EXCEPT ![c].used = TRUE]

(* create_session. *)
NewSession(d, c) ==
    sessions' = Append(sessions, [device |-> d, challenge |-> c, revoked |-> FALSE, stepUp |-> FALSE])

(* create_device and create_passkey_credential. *)
NewDevice(u) == devices' = Append(devices, [user |-> u, trusted |-> FALSE, revoked |-> FALSE])

(* list_passkey_credentials_for_user: nothing revokes a passkey, not even   *)
(* the revocation of its device.                                            *)
PasskeysOf(u) == {d \in DOMAIN devices : devices[d].user = u}

(* revoke_sessions_for_device. *)
RevokeSessionsForDevice(d) ==
    sessions' = [s \in DOMAIN sessions |->
                    IF sessions[s].device = d THEN [sessions[s] EXCEPT !.revoked = TRUE]
                    ELSE sessions[s]]

-----------------------------------------------------------------------------
(* Bootstrap: the first owner.                                             *)

(* _require_bootstrap_secret, synchronous.  Without a file it writes a new  *)
(* random secret, which no client can have supplied, and refuses.           *)
RequireBootstrapSecret(r) ==
    /\ At(r, "idle")
    /\ secretFile' = TRUE
    /\ IF secretFile THEN Goto(r, "list_users") ELSE UNCHANGED req
    /\ UNCHANGED <<users, challenges, devices, sessions, factor>>

(* Mutant: the users are not looked at. *)
ListNoUsers(r) ==
    /\ At(r, "list_users")
    /\ Goto(r, "insert_owner")
    /\ UNCHANGED <<secretFile, users, challenges, devices, sessions, factor>>

ListUsers(r) ==
    /\ At(r, "list_users")
    /\ IF users = 0 THEN Goto(r, "insert_owner") ELSE Return(r)
    /\ UNCHANGED <<secretFile, users, challenges, devices, sessions, factor>>

(* The INSERTs of the owner and of its registration challenge. *)
InsertOwner(r) ==
    /\ At(r, "insert_owner")
    /\ users < MaxUsers
    /\ users' = users + 1
    /\ CreateChallenge("registration", users + 1)
    /\ Goto(r, "unlink_secret")
    /\ UNCHANGED <<secretFile, devices, sessions, factor>>

(* Another bootstrap has inserted the same username: the UNIQUE constraint. *)
OwnerExists(r) ==
    /\ At(r, "insert_owner")
    /\ users > 0
    /\ Return(r)
    /\ UNCHANGED <<secretFile, users, challenges, devices, sessions, factor>>

ConsumeBootstrapSecret(r) ==
    /\ At(r, "unlink_secret")
    /\ secretFile' = FALSE
    /\ Return(r)
    /\ UNCHANGED <<users, challenges, devices, sessions, factor>>

-----------------------------------------------------------------------------
(* Passkeys.                                                               *)

(* A route that needs a principal: authenticated, then at its service call. *)
Arrive(r, s, label, row) ==
    /\ At(r, "idle")
    /\ req' = [req EXCEPT ![r] = [Idle EXCEPT !.at = label, !.me = s, !.row = row]]
    /\ UNCHANGED <<secretFile, users, challenges, devices, sessions, factor>>

PasskeyRegistrationOptions(r) ==
    \E s \in LiveSessions : Arrive(r, s, "begin_registration", 0)

BeginPasskeyRegistration(r) ==
    /\ At(r, "begin_registration")
    /\ CreateChallenge("registration", UserOf(req[r].me))
    /\ Return(r)
    /\ UNCHANGED <<secretFile, users, devices, sessions, factor>>

(* The SELECT of finish_passkey_registration. *)
PasskeyRegistrationVerify(r) ==
    \E c \in ValidChallenges("registration") : Arrive(r, 0, "finish_registration", c)

(* Its write transaction: the challenge, the device, the passkey and the    *)
(* session, or nothing.                                                     *)
FinishPasskeyRegistration(r) ==
    /\ At(r, "finish_registration")
    /\ LET c == req[r].row IN
       IF Usable(c)
       THEN /\ Consume(c)
            /\ NewDevice(challenges[c].user)
            /\ NewSession(Len(devices) + 1, c)
       ELSE UNCHANGED <<challenges, devices, sessions>>
    /\ Return(r)
    /\ UNCHANGED <<secretFile, users, factor>>

(* begin_passkey_authentication: a user with a passkey.                     *)
BeginPasskeyAuthentication ==
    /\ \E u \in User : PasskeysOf(u) # {} /\ CreateChallenge("authentication", u)
    /\ UNCHANGED <<secretFile, users, devices, sessions, factor, req>>

(* The SELECTs of finish_passkey_authentication: the challenge, and a       *)
(* passkey of the challenge's user.                                         *)
PasskeyAuthenticationVerify(r) ==
    /\ At(r, "idle")
    /\ \E c \in ValidChallenges("authentication") : \E d \in PasskeysOf(challenges[c].user) :
         req' = [req EXCEPT ![r] = [Idle EXCEPT !.at = "finish_authentication", !.row = c, !.device = d]]
    /\ UNCHANGED <<secretFile, users, challenges, devices, sessions, factor>>

(* Mutant: consume_challenge updates the challenge whatever its state. *)
FinishUnconditionally(r) ==
    /\ At(r, "finish_authentication")
    /\ IF devices[req[r].device].revoked
       THEN UNCHANGED <<challenges, sessions>>
       ELSE Consume(req[r].row) /\ NewSession(req[r].device, req[r].row)
    /\ Return(r)
    /\ UNCHANGED <<secretFile, users, devices, factor>>

(* Mutant: the device is not read again after the challenge is consumed. *)
FinishOnStaleDevice(r) ==
    /\ At(r, "finish_authentication")
    /\ IF Usable(req[r].row)
       THEN Consume(req[r].row) /\ NewSession(req[r].device, req[r].row)
       ELSE UNCHANGED <<challenges, sessions>>
    /\ Return(r)
    /\ UNCHANGED <<secretFile, users, devices, factor>>

(* Its write transaction.  The device is read after consume_challenge has   *)
(* taken the write lock; a revoked one rolls the consumption back.          *)
FinishPasskeyAuthentication(r) ==
    /\ At(r, "finish_authentication")
    /\ LET c == req[r].row
           d == req[r].device IN
       IF Usable(c) /\ ~devices[d].revoked
       THEN Consume(c) /\ NewSession(d, c)
       ELSE UNCHANGED <<challenges, sessions>>
    /\ Return(r)
    /\ UNCHANGED <<secretFile, users, devices, factor>>

-----------------------------------------------------------------------------
(* Sessions and the second factor.                                         *)

(* logout: the session is read (and is not revoked) ... *)
LogoutRoute(r) == \E s \in LiveSessions : Arrive(r, s, "revoke_session", 0)

(* ... and its revoked_at written. *)
Logout(r) ==
    /\ At(r, "revoke_session")
    /\ sessions' = [sessions EXCEPT ![req[r].me].revoked = TRUE]
    /\ Return(r)
    /\ UNCHANGED <<secretFile, users, challenges, devices, factor>>

ConfirmTotpRoute(r) == \E s \in LiveSessions : Arrive(r, s, "confirm_totp", 0)

(* upsert_second_factor's SELECT: is there a row to update? *)
ConfirmTotpEnrollment(r) ==
    /\ At(r, "confirm_totp")
    /\ req' = [req EXCEPT ![r].at = "upsert_factor", ![r].seen = factor[UserOf(req[r].me)] # 0]
    /\ UNCHANGED <<secretFile, users, challenges, devices, sessions, factor>>

(* Its INSERT, which the primary key refuses when another request has       *)
(* inserted the row since, or its UPDATE.                                   *)
UpsertSecondFactor(r) ==
    /\ At(r, "upsert_factor")
    /\ LET u == UserOf(req[r].me) IN
       IF ~req[r].seen /\ factor[u] # 0
       THEN UNCHANGED factor
       ELSE factor[u] < MaxFactors /\ factor' = [factor EXCEPT ![u] = @ + 1]
    /\ Return(r)
    /\ UNCHANGED <<secretFile, users, challenges, devices, sessions>>

VerifyTotpRoute(r) == \E s \in LiveSessions : Arrive(r, s, "verify_totp", 0)

(* verify_totp: the factor is read, the code verified against it (a wrong   *)
(* code is refused and changes nothing here) and the session read again.    *)
VerifyTotp(r) ==
    /\ At(r, "verify_totp")
    /\ IF factor[UserOf(req[r].me)] = 0 \/ sessions[req[r].me].revoked
       THEN Return(r)
       ELSE Goto(r, "step_up")
    /\ UNCHANGED <<secretFile, users, challenges, devices, sessions, factor>>

(* It writes step_up_at. *)
StepUp(r) ==
    /\ At(r, "step_up")
    /\ sessions' = [sessions EXCEPT ![req[r].me].stepUp = TRUE]
    /\ Return(r)
    /\ UNCHANGED <<secretFile, users, challenges, devices, factor>>

-----------------------------------------------------------------------------
(* Devices (SecurityService).                                              *)

(* _owned_device and the check of both operations: the principal's devices *)
(* that are not revoked.                                                    *)
OwnedDevices(s) == {d \in DOMAIN devices : devices[d].user = UserOf(s) /\ ~devices[d].revoked}

TrustDeviceRoute(r) ==
    \E s \in LiveSessions : \E d \in OwnedDevices(s) : Arrive(r, 0, "set_trust", d)

(* Mutant: the whole row is written back as it was read. *)
TrustWholeRow(r) ==
    /\ At(r, "set_trust")
    /\ devices' = [devices EXCEPT ![req[r].row].trusted = TRUE, ![req[r].row].revoked = FALSE]
    /\ Return(r)
    /\ UNCHANGED <<secretFile, users, challenges, sessions, factor>>

(* trust_device: the UPDATE of trust. *)
TrustDevice(r) ==
    /\ At(r, "set_trust")
    /\ devices' = [devices EXCEPT ![req[r].row].trusted = TRUE]
    /\ Return(r)
    /\ UNCHANGED <<secretFile, users, challenges, sessions, factor>>

RevokeDeviceRoute(r) ==
    \E s \in LiveSessions : \E d \in OwnedDevices(s) : Arrive(r, 0, "set_revoked", d)

(* revoke_device: the UPDATEs of the device and of its sessions. *)
RevokeDevice(r) ==
    /\ At(r, "set_revoked")
    /\ devices' = [devices EXCEPT ![req[r].row].revoked = TRUE]
    /\ RevokeSessionsForDevice(req[r].row)
    /\ Return(r)
    /\ UNCHANGED <<secretFile, users, challenges, factor>>

-----------------------------------------------------------------------------
(* The clock, and a crash: it drops every request, whose open transaction   *)
(* is rolled back; the tables and the secret's file stay.                   *)

ExpireChallenge ==
    /\ \E c \in DOMAIN challenges :
         Usable(c) /\ challenges' = [challenges EXCEPT ![c].expired = TRUE]
    /\ UNCHANGED <<secretFile, users, devices, sessions, factor, req>>

Crash ==
    /\ \E r \in Requests : ~At(r, "idle")
    /\ req' = [r \in Requests |-> Idle]
    /\ UNCHANGED <<secretFile, users, challenges, devices, sessions, factor>>

Bootstrap(r) ==
    RequireBootstrapSecret(r) \/ ListUsers(r) \/ InsertOwner(r) \/ OwnerExists(r) \/ ConsumeBootstrapSecret(r)

Passkeys(r) ==
    \/ PasskeyRegistrationOptions(r) \/ BeginPasskeyRegistration(r)
    \/ PasskeyRegistrationVerify(r) \/ FinishPasskeyRegistration(r)
    \/ PasskeyAuthenticationVerify(r) \/ FinishPasskeyAuthentication(r)

SignedIn(r) ==
    \/ LogoutRoute(r) \/ Logout(r)
    \/ ConfirmTotpRoute(r) \/ ConfirmTotpEnrollment(r) \/ UpsertSecondFactor(r)
    \/ VerifyTotpRoute(r) \/ VerifyTotp(r) \/ StepUp(r)
    \/ TrustDeviceRoute(r) \/ TrustDevice(r)
    \/ RevokeDeviceRoute(r) \/ RevokeDevice(r)

Next ==
    \/ \E r \in Requests : Bootstrap(r) \/ Passkeys(r) \/ SignedIn(r)
    \/ BeginPasskeyAuthentication
    \/ ExpireChallenge
    \/ Crash

Spec == Init /\ [][Next]_vars

-----------------------------------------------------------------------------
(* Properties.                                                             *)

(* A challenge answers for one session, however many requests present it    *)
(* (finish_passkey_registration, finish_passkey_authentication): it is used *)
(* exactly when one session was issued for it, and a sign-in refused after  *)
(* consume_challenge has put the challenge back.                            *)
ChallengeUsedOnce ==
    \A c \in DOMAIN challenges :
        LET issued == {s \in DOMAIN sessions : sessions[s].challenge = c} IN
        Cardinality(issued) = IF challenges[c].used THEN 1 ELSE 0

(* A revoked device has no session left (revoke_device), a sign-in that was *)
(* under way when it was revoked included.                                  *)
RevokedDeviceIsSignedOut ==
    \A s \in DOMAIN sessions : devices[sessions[s].device].revoked => sessions[s].revoked

(* bootstrap lists the users before it inserts one: overlapping bootstraps  *)
(* can each insert an owner, but no more of them than ran at once.          *)
BootstrapsAreBounded ==
    users > 0 => users + Cardinality({r \in Requests : At(r, "insert_owner")}) <= Cardinality(Requests)

(* What was revoked or used stays so, whatever stale row a later write       *)
(* started from (trust_device, verify_totp, logout).                         *)
RevocationIsFinal ==
    [][/\ \A c \in DOMAIN challenges : challenges[c].used => challenges'[c].used
       /\ \A d \in DOMAIN devices : devices[d].revoked => devices'[d].revoked
       /\ \A s \in DOMAIN sessions : sessions[s].revoked => sessions'[s].revoked]_vars

-----------------------------------------------------------------------------
(* The inductive invariant: what AuthSessionsProofs proves the properties   *)
(* from.                                                                    *)

(* ChallengeUsedOnce, session by session: sessions and used challenges       *)
(* correspond one to one, and a device is registered with a session of its   *)
(* own (finish_passkey_registration).                                        *)
SessionsFollowChallenges ==
    /\ \A s \in DOMAIN sessions :
         sessions[s].challenge \in DOMAIN challenges /\ challenges[sessions[s].challenge].used
    /\ \A s, t \in DOMAIN sessions : sessions[s].challenge = sessions[t].challenge => s = t
    /\ \A c \in DOMAIN challenges :
         challenges[c].used => \E s \in DOMAIN sessions : sessions[s].challenge = c
    /\ \A d \in DOMAIN devices : \E s \in DOMAIN sessions : sessions[s].device = d

(* What a request has read is still there when it uses it: rows are never   *)
(* deleted.                                                                  *)
RequestsKnowTheirRows ==
    \A r \in Requests :
        /\ req[r].at \in {"begin_registration", "revoke_session", "confirm_totp", "upsert_factor",
                          "verify_totp", "step_up"} => req[r].me \in DOMAIN sessions
        /\ req[r].at \in {"finish_registration", "finish_authentication"} =>
             req[r].row \in DOMAIN challenges
        /\ req[r].at = "finish_authentication" => req[r].device \in DOMAIN devices
        /\ req[r].at \in {"set_trust", "set_revoked"} => req[r].row \in DOMAIN devices

IInv ==
    /\ TypeOK
    /\ SessionsFollowChallenges
    /\ RequestsKnowTheirRows
    /\ RevokedDeviceIsSignedOut
    /\ BootstrapsAreBounded

=============================================================================
