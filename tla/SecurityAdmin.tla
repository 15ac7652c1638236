---------------------------- MODULE SecurityAdmin ----------------------------
(***************************************************************************)
(* Durable approvals, grants, lockdown and the vault: SecurityService      *)
(* (services/security.py), VaultService (services/vault.py), the           *)
(* repository statements they run (repositories/security.py) and the       *)
(* routes of api/security.py.                                              *)
(*                                                                         *)
(* Every operation first calls require, which reads the lockdown state in  *)
(* a transaction of its own, and then runs a second transaction: between   *)
(* the two, another request may activate the lockdown.  As in AuthSessions *)
(* a SELECT before the first write is a step, and the first write, what    *)
(* follows and the commit are one.                                         *)
(*                                                                         *)
(* There is one user, the owner, who has every permission and is the       *)
(* issuer of every grant; whether the session is stepped up is the         *)
(* client's choice.  Left out: audit rows (written with the change they    *)
(* record), texts, scopes and ciphertexts.                                 *)
(***************************************************************************)
EXTENDS Naturals, FiniteSets, Sequences

CONSTANTS
    Requests,        \* the requests that can be in progress at once
    Names,           \* the names a vault credential can have
    MaxApprovals     \* bound: approvals that may be created

ASSUME SecurityAssumption ==
    /\ IsFiniteSet(Requests)
    /\ IsFiniteSet(Names)
    /\ MaxApprovals \in Nat

VARIABLES
    lockdown,   \* the row of security_state, "none" before it exists
    approvals,  \* rows of security_approvals
    grants,     \* rows of security_grants
    vault,      \* rows of vault_credentials
    req         \* req[r]: where request r is and what it has read

vars == <<lockdown, approvals, grants, vault, req>>

-----------------------------------------------------------------------------
(* The rows.  An approval has a task or not; "expired" says that its        *)
(* expires_at has passed.  A grant has two history fields: "old", that a    *)
(* lockdown has been activated since it was inserted, and "locked", that    *)
(* the request that inserted it was admitted during a lockdown.             *)

Decisions == {"allow_once", "allow_for_task", "reject", "modify"}

ApprovalRecord ==
    [task : BOOLEAN, status : {"pending", "approved", "rejected", "expired"},
     decision : Decisions \cup {"none"}, expired : BOOLEAN]

GrantRecord ==
    [source : 1..MaxApprovals, status : {"active", "revoked"}, old : BOOLEAN, locked : BOOLEAN]

VaultCredentialRecord == [name : Names, revoked : BOOLEAN]

(* The operations that read the lockdown state before they run. *)
Guarded ==
    {"create_approval", "decide_approval", "revoke_grant",
     "vault_create", "vault_replace", "vault_revoke"}

(* A request: the statement it runs next, the operation it goes on to, the  *)
(* row it has read, the decision it carries, whether it has seen the state  *)
(* row, and (history) whether it was admitted during a lockdown.            *)
Request ==
    [at : Guarded \cup {"idle", "create_state", "decide", "expire", "set_grant", "activate",
                        "deactivate", "set_value", "set_revoked"},
     op : Guarded \cup {"none"}, row : Nat, choice : Decisions \cup {"none"},
     seen : BOOLEAN, locked : BOOLEAN]

Idle ==
    [at |-> "idle", op |-> "none", row |-> 0, choice |-> "none", seen |-> FALSE, locked |-> FALSE]

(* Type correctness. *)
TypeOK ==
    /\ lockdown \in {"none", "normal", "locked_down"}
    /\ approvals \in Seq(ApprovalRecord) /\ Len(approvals) <= MaxApprovals
    /\ grants \in Seq(GrantRecord) /\ Len(grants) <= MaxApprovals
    /\ vault \in Seq(VaultCredentialRecord) /\ Len(vault) <= Cardinality(Names)
    /\ \A v, w \in DOMAIN vault : vault[v].name = vault[w].name => v = w
    /\ req \in [Requests -> Request]

Init ==
    /\ lockdown = "none"
    /\ approvals = <<>>
    /\ grants = <<>>
    /\ vault = <<>>
    /\ req = [r \in Requests |-> Idle]

-----------------------------------------------------------------------------
At(r, label) == req[r].at = label

Return(r) == req' = [req EXCEPT ![r] = Idle]

Read(r, label, row) == req' = [req EXCEPT ![r].at = label, ![r].row = row]

(* A request of operation op that require admits. *)
Admitted(op) == [Idle EXCEPT !.at = op, !.locked = (lockdown = "locked_down")]

-----------------------------------------------------------------------------
(* require and require_vault_management.                                   *)

(* _state's SELECT.  A lockdown refuses the request; without a row the      *)
(* request goes on to insert one.                                           *)
Require(r, op) ==
    /\ At(r, "idle")
    /\ lockdown # "locked_down"
    /\ req' = [req EXCEPT ![r] = IF lockdown = "none"
                                 THEN [Idle EXCEPT !.at = "create_state", !.op = op]
                                 ELSE Admitted(op)]
    /\ UNCHANGED <<lockdown, approvals, grants, vault>>

(* Mutant: a row inserted by someone else is taken for a normal one. *)
AdmitAnyway(r) ==
    /\ At(r, "create_state")
    /\ req' = [req EXCEPT ![r] = Admitted(req[r].op)]
    /\ UNCHANGED <<lockdown, approvals, grants, vault>>

(* create_state's INSERT of a normal row.  require never commits, so the    *)
(* row is rolled back; if another request has committed one since, the      *)
(* primary key refuses the INSERT and the request fails.                    *)
CreateState(r) ==
    /\ At(r, "create_state")
    /\ IF lockdown = "none"
       THEN req' = [req EXCEPT ![r] = Admitted(req[r].op)]
       ELSE Return(r)
    /\ UNCHANGED <<lockdown, approvals, grants, vault>>

-----------------------------------------------------------------------------
(* Approvals and grants.                                                   *)

CreateApprovalRoute(r) == Require(r, "create_approval")

CreateApproval(r) ==
    /\ At(r, "create_approval")
    /\ Len(approvals) < MaxApprovals
    /\ \E task \in BOOLEAN :
         approvals' = Append(approvals, [task |-> task, status |-> "pending",
                                         decision |-> "none", expired |-> FALSE])
    /\ Return(r)
    /\ UNCHANGED <<lockdown, grants, vault>>

DecideApprovalRoute(r) == Require(r, "decide_approval")

(* decide_approval reads the approval and whether it has expired ... *)
GetApproval(r) ==
    /\ At(r, "decide_approval")
    /\ \E a \in DOMAIN approvals, choice \in Decisions :
         req' = [req EXCEPT ![r].row = a,
                            ![r].at = IF approvals[a].expired THEN "expire" ELSE "decide",
                            ![r].choice = IF approvals[a].expired THEN "reject" ELSE choice]
    /\ UNCHANGED <<lockdown, approvals, grants, vault>>

(* The repository's UPDATE ... WHERE status = 'pending'. *)
Decided(a, choice, status) ==
    [approvals EXCEPT ![a] = IF @.status = "pending"
                             THEN [@ EXCEPT !.status = status, !.decision = choice] ELSE @]

(* ... closes an expired one, if it is still pending, and refuses ... *)
ExpireApproval(r) ==
    /\ At(r, "expire")
    /\ approvals' = Decided(req[r].row, req[r].choice, "expired")
    /\ Return(r)
    /\ UNCHANGED <<lockdown, grants, vault>>

Status(choice) == IF choice = "reject" THEN "rejected" ELSE "approved"

(* create_grant. *)
NewGrant(a, r) ==
    Append(grants, [source |-> a, status |-> "active", old |-> FALSE, locked |-> req[r].locked])

(* Mutant: the decision is committed before the task is looked for. *)
DecideBeforeTask(r) ==
    /\ At(r, "decide")
    /\ LET a == req[r].row
           choice == req[r].choice IN
       /\ approvals' = Decided(a, choice, Status(choice))
       /\ grants' = IF approvals[a].status = "pending" /\ choice = "allow_for_task" /\ approvals[a].task
                    THEN NewGrant(a, r) ELSE grants
    /\ Return(r)
    /\ UNCHANGED <<lockdown, vault>>

(* ... or decides it, in one transaction with the grant of a task-scoped    *)
(* decision.  A task-scoped decision about an approval without a task rolls *)
(* everything back, and so does an approval that is no longer pending.      *)
DecideApproval(r) ==
    /\ At(r, "decide")
    /\ LET a == req[r].row
           choice == req[r].choice
           scoped == choice = "allow_for_task" IN
       IF approvals[a].status # "pending" \/ (scoped /\ ~approvals[a].task)
       THEN UNCHANGED <<approvals, grants>>
       ELSE /\ approvals' = Decided(a, choice, Status(choice))
            /\ grants' = IF scoped THEN NewGrant(a, r) ELSE grants
    /\ Return(r)
    /\ UNCHANGED <<lockdown, vault>>

RevokeGrantRoute(r) == Require(r, "revoke_grant")

(* revoke_grant reads an active grant ... *)
GetGrant(r) ==
    /\ At(r, "revoke_grant")
    /\ \E g \in DOMAIN grants : grants[g].status = "active" /\ Read(r, "set_grant", g)
    /\ UNCHANGED <<lockdown, approvals, grants, vault>>

(* ... and writes its status and revoked_at. *)
RevokeGrant(r) ==
    /\ At(r, "set_grant")
    /\ grants' = [grants EXCEPT ![req[r].row].status = "revoked"]
    /\ Return(r)
    /\ UNCHANGED <<lockdown, approvals, vault>>

-----------------------------------------------------------------------------
(* Lockdown.  Both operations need a stepped-up session, and neither is     *)
(* refused by a lockdown in force.                                          *)

(* activate_lockdown's SELECT; nothing to do when it is already active. *)
ActivateLockdownRoute(r) ==
    /\ At(r, "idle")
    /\ lockdown # "locked_down"
    /\ req' = [req EXCEPT ![r] = [Idle EXCEPT !.at = "activate", !.seen = lockdown # "none"]]
    /\ UNCHANGED <<lockdown, approvals, grants, vault>>

(* Its transaction: the state first, which takes the write lock, then every *)
(* active grant.  A row that was missing is inserted, which fails if        *)
(* another request has committed one since.                                 *)
ActivateLockdown(r) ==
    /\ At(r, "activate")
    /\ IF ~req[r].seen /\ lockdown # "none"
       THEN UNCHANGED <<lockdown, grants>>
       ELSE /\ lockdown' = "locked_down"
            /\ grants' = [g \in DOMAIN grants |-> [grants[g] EXCEPT !.status = "revoked", !.old = TRUE]]
    /\ Return(r)
    /\ UNCHANGED <<approvals, vault>>

DeactivateLockdownRoute(r) ==
    /\ At(r, "idle")
    /\ lockdown = "locked_down"
    /\ req' = [req EXCEPT ![r] = [Idle EXCEPT !.at = "deactivate"]]
    /\ UNCHANGED <<lockdown, approvals, grants, vault>>

DeactivateLockdown(r) ==
    /\ At(r, "deactivate")
    /\ lockdown' = "normal"
    /\ Return(r)
    /\ UNCHANGED <<approvals, grants, vault>>

-----------------------------------------------------------------------------
(* The vault.                                                              *)

CreateVaultRoute(r) == Require(r, "vault_create")

(* create: the UNIQUE constraint refuses a name in use, revoked or not. *)
VaultCreate(r) ==
    /\ At(r, "vault_create")
    /\ \E n \in Names :
         vault' = IF \E v \in DOMAIN vault : vault[v].name = n THEN vault
                  ELSE Append(vault, [name |-> n, revoked |-> FALSE])
    /\ Return(r)
    /\ UNCHANGED <<lockdown, approvals, grants>>

ReplaceVaultRoute(r) == Require(r, "vault_replace")

RevokeVaultRoute(r) == Require(r, "vault_revoke")

(* replace and revoke read a credential that is not revoked ... *)
GetVaultCredential(r, op, label) ==
    /\ At(r, op)
    /\ \E v \in DOMAIN vault : ~vault[v].revoked /\ Read(r, label, v)
    /\ UNCHANGED <<lockdown, approvals, grants, vault>>

(* Mutant: replace writes the whole row back as it was read. *)
ReplaceWholeRow(r) ==
    /\ At(r, "set_value")
    /\ vault' = [vault EXCEPT ![req[r].row].revoked = FALSE]
    /\ Return(r)
    /\ UNCHANGED <<lockdown, approvals, grants>>

(* ... and write the new value, which is not modelled, or revoked_at. *)
VaultReplace(r) ==
    /\ At(r, "set_value")
    /\ Return(r)
    /\ UNCHANGED <<lockdown, approvals, grants, vault>>

VaultRevoke(r) ==
    /\ At(r, "set_revoked")
    /\ vault' = [vault EXCEPT ![req[r].row].revoked = TRUE]
    /\ Return(r)
    /\ UNCHANGED <<lockdown, approvals, grants>>

-----------------------------------------------------------------------------
(* An approval's time runs out. *)
TimePasses ==
    /\ \E a \in DOMAIN approvals :
         ~approvals[a].expired /\ approvals' = [approvals EXCEPT ![a].expired = TRUE]
    /\ UNCHANGED <<lockdown, grants, vault, req>>

(* A request that finds nothing to work on, fails or is cut off by a crash. *)
Abandon(r) ==
    /\ ~At(r, "idle")
    /\ Return(r)
    /\ UNCHANGED <<lockdown, approvals, grants, vault>>

Approvals(r) ==
    \/ CreateApprovalRoute(r) \/ CreateApproval(r)
    \/ DecideApprovalRoute(r) \/ GetApproval(r) \/ ExpireApproval(r) \/ DecideApproval(r)
    \/ RevokeGrantRoute(r) \/ GetGrant(r) \/ RevokeGrant(r)

Lockdown(r) ==
    \/ ActivateLockdownRoute(r) \/ ActivateLockdown(r)
    \/ DeactivateLockdownRoute(r) \/ DeactivateLockdown(r)

Vault(r) ==
    \/ CreateVaultRoute(r) \/ VaultCreate(r)
    \/ ReplaceVaultRoute(r) \/ GetVaultCredential(r, "vault_replace", "set_value") \/ VaultReplace(r)
    \/ RevokeVaultRoute(r) \/ GetVaultCredential(r, "vault_revoke", "set_revoked") \/ VaultRevoke(r)

Next ==
    \/ \E r \in Requests : CreateState(r) \/ Approvals(r) \/ Lockdown(r) \/ Vault(r) \/ Abandon(r)
    \/ TimePasses

Spec == Init /\ [][Next]_vars

-----------------------------------------------------------------------------
(* Properties.                                                             *)

(* A grant is what a task-scoped decision leaves behind (decide_approval):  *)
(* each approval decided that way has exactly one grant and a task, and no  *)
(* other approval has any, however many requests decide it at once and      *)
(* however they fail.                                                       *)
GrantMatchesDecision ==
    \A a \in DOMAIN approvals :
        LET issued == {g \in DOMAIN grants : grants[g].source = a}
            scoped == approvals[a].status = "approved" /\ approvals[a].decision = "allow_for_task" IN
        /\ Cardinality(issued) = IF scoped THEN 1 ELSE 0
        /\ scoped => approvals[a].task

(* Lockdown (activate_lockdown): a grant that was there when a lockdown was *)
(* activated is revoked, also after the lockdown is lifted, and no request  *)
(* that arrives during one gets as far as a grant.  A request admitted      *)
(* before the activation may still insert one after it.                     *)
LockdownRevokesGrants ==
    \A g \in DOMAIN grants :
        /\ grants[g].old => grants[g].status = "revoked"
        /\ ~grants[g].locked

(* A revoked grant or credential stays revoked, whatever stale row a later  *)
(* write started from (revoke_grant, activate_lockdown, replace).           *)
RevokedStaysRevoked ==
    [][/\ \A g \in DOMAIN grants : grants[g].status = "revoked" => grants'[g].status = "revoked"
       /\ \A v \in DOMAIN vault : vault[v].revoked => vault'[v].revoked]_vars

-----------------------------------------------------------------------------
(* The inductive invariant: what SecurityAdminProofs proves the properties  *)
(* from.                                                                    *)

Scoped(a) == approvals[a].status = "approved" /\ approvals[a].decision = "allow_for_task"

(* GrantMatchesDecision, grant by grant: grants and task-scoped decisions   *)
(* correspond one to one (decide_approval).                                 *)
GrantsFollowDecisions ==
    /\ \A g \in DOMAIN grants : grants[g].source \in DOMAIN approvals /\ Scoped(grants[g].source)
    /\ \A g, h \in DOMAIN grants : grants[g].source = grants[h].source => g = h
    /\ \A a \in DOMAIN approvals :
         Scoped(a) => approvals[a].task /\ \E g \in DOMAIN grants : grants[g].source = a

(* What a request has read is still there when it uses it, because rows are *)
(* never deleted, and no request was admitted during a lockdown (require).  *)
RequestsKnowTheirRows ==
    \A r \in Requests :
        /\ req[r].at = "create_state" => req[r].op \in Guarded
        /\ req[r].at \in {"decide", "expire"} =>
             req[r].row \in DOMAIN approvals /\ req[r].choice \in Decisions
        /\ req[r].at = "set_grant" => req[r].row \in DOMAIN grants
        /\ req[r].at \in {"set_value", "set_revoked"} => req[r].row \in DOMAIN vault
        /\ ~req[r].locked

IInv == TypeOK /\ GrantsFollowDecisions /\ RequestsKnowTheirRows /\ LockdownRevokesGrants

=============================================================================
