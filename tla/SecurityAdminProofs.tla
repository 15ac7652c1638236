------------------------- MODULE SecurityAdminProofs -------------------------
(***************************************************************************)
(* IInv is an inductive invariant of SecurityAdmin, for any requests, any  *)
(* names and any number of approvals: one lemma per action, grouped by     *)
(* what the action writes, then the theorems that follow.                  *)
(***************************************************************************)
EXTENDS SecurityAdmin, FiniteSetTheorems, SequenceTheorems, TLAPS

\* A request that begins or returns is well formed.
LEMMA IdleRequest == Idle \in Request
BY DEF Idle, Request

LEMMA AdmittedRequest ==
    ASSUME NEW op \in Guarded, lockdown # "locked_down"
    PROVE  /\ Admitted(op) \in Request
           /\ Admitted(op).at = op /\ ~Admitted(op).locked
BY DEF Admitted, Idle, Request, Guarded

\* A step of request r that writes no row, and leaves r knowing its rows.
LEMMA RequestStep ==
    ASSUME IInv, UNCHANGED <<lockdown, approvals, grants, vault>>, NEW r \in Requests,
           NEW q \in Request, req' = [req EXCEPT ![r] = q],
           q.at = "create_state" => q.op \in Guarded,
           q.at \in {"decide", "expire"} => q.row \in DOMAIN approvals /\ q.choice \in Decisions,
           q.at = "set_grant" => q.row \in DOMAIN grants,
           q.at \in {"set_value", "set_revoked"} => q.row \in DOMAIN vault,
           ~q.locked
    PROVE  IInv'
<1>1. TypeOK'
  BY DEF IInv, TypeOK
<1>2. GrantsFollowDecisions'
  BY DEF IInv, GrantsFollowDecisions, Scoped
<1>3. RequestsKnowTheirRows'
  BY DEF IInv, TypeOK, RequestsKnowTheirRows
<1>4. LockdownRevokesGrants'
  BY DEF IInv, LockdownRevokesGrants
<1> QED BY <1>1, <1>2, <1>3, <1>4 DEF IInv

\* The requests after r has returned, when no row has gone.
LEMMA Returned ==
    ASSUME IInv, NEW r \in Requests, Return(r),
           DOMAIN approvals \subseteq DOMAIN approvals',
           DOMAIN grants \subseteq DOMAIN grants',
           DOMAIN vault \subseteq DOMAIN vault'
    PROVE  /\ req' \in [Requests -> Request]
           /\ RequestsKnowTheirRows'
<1>1. req' \in [Requests -> Request]
  BY IdleRequest DEF IInv, TypeOK, Return
<1>2. RequestsKnowTheirRows'
  BY DEF IInv, TypeOK, Return, Idle, RequestsKnowTheirRows
<1> QED BY <1>1, <1>2

\* Require preserves the invariant.
LEMMA RequireI ==
    ASSUME IInv, NEW r \in Requests, NEW op \in Guarded, Require(r, op)
    PROVE  IInv'
<1> USE DEF Guarded
<1>1. CASE lockdown = "none"
  <2> DEFINE q == [Idle EXCEPT !.at = "create_state", !.op = op]
  <2>1. q \in Request /\ q.at = "create_state" /\ q.op = op /\ ~q.locked
    BY DEF Idle, Request
  <2>2. req' = [req EXCEPT ![r] = q]
    BY <1>1 DEF Require
  <2> HIDE DEF q
  <2> QED BY <2>1, <2>2, RequestStep DEF Require
<1>2. CASE lockdown # "none"
  <2>1. req' = [req EXCEPT ![r] = Admitted(op)]
    BY <1>2 DEF Require
  <2> QED BY <2>1, AdmittedRequest, RequestStep DEF Require
<1> QED BY <1>1, <1>2

\* A return without a write preserves the invariant.
LEMMA ReturnI ==
    ASSUME IInv, NEW r \in Requests, Return(r), UNCHANGED <<lockdown, approvals, grants, vault>>
    PROVE  IInv'
BY IdleRequest, RequestStep DEF Return, Idle

\* CreateState preserves the invariant.
LEMMA CreateStateI == ASSUME IInv, NEW r \in Requests, CreateState(r) PROVE IInv'
<1>1. CASE lockdown = "none"
  <2>1. req[r].op \in Guarded
    BY DEF CreateState, At, IInv, RequestsKnowTheirRows
  <2> QED BY <1>1, <2>1, AdmittedRequest, RequestStep DEF CreateState, Guarded
<1>2. CASE lockdown # "none"
  BY <1>2, ReturnI DEF CreateState
<1> QED BY <1>1, <1>2

\* GetApproval preserves the invariant.
LEMMA GetApprovalI == ASSUME IInv, NEW r \in Requests, GetApproval(r) PROVE IInv'
<1>1. PICK a \in DOMAIN approvals, choice \in Decisions :
         req' = [req EXCEPT ![r].row = a,
                            ![r].at = IF approvals[a].expired THEN "expire" ELSE "decide",
                            ![r].choice = IF approvals[a].expired THEN "reject" ELSE choice]
  BY DEF GetApproval
<1> DEFINE q == [req[r] EXCEPT !.row = a,
                               !.at = IF approvals[a].expired THEN "expire" ELSE "decide",
                               !.choice = IF approvals[a].expired THEN "reject" ELSE choice]
<1>2. req[r] \in Request /\ ~req[r].locked
  BY DEF IInv, TypeOK, RequestsKnowTheirRows
<1>3. a \in Nat
  BY DEF IInv, TypeOK
<1>4. q \in Request /\ q.at \in {"decide", "expire"} /\ q.row = a /\ q.choice \in Decisions /\ ~q.locked
  BY <1>2, <1>3 DEF Request, Decisions
<1>5. req' = [req EXCEPT ![r] = q]
  BY <1>1 DEF IInv, TypeOK
<1> HIDE DEF q
<1> QED BY <1>4, <1>5, RequestStep DEF GetApproval

\* GetGrant preserves the invariant.
LEMMA GetGrantI == ASSUME IInv, NEW r \in Requests, GetGrant(r) PROVE IInv'
<1>1. PICK g \in DOMAIN grants : Read(r, "set_grant", g)
  BY DEF GetGrant
<1> DEFINE q == [req[r] EXCEPT !.at = "set_grant", !.row = g]
<1>2. req[r] \in Request /\ ~req[r].locked /\ g \in Nat
  BY DEF IInv, TypeOK, RequestsKnowTheirRows
<1>3. q \in Request /\ q.at = "set_grant" /\ q.row = g /\ ~q.locked
  BY <1>2 DEF Request
<1>4. req' = [req EXCEPT ![r] = q]
  BY <1>1 DEF Read, IInv, TypeOK
<1> HIDE DEF q
<1> QED BY <1>3, <1>4, RequestStep DEF GetGrant

\* GetVaultCredential preserves the invariant.
LEMMA GetVaultCredentialI ==
    ASSUME IInv, NEW r \in Requests, NEW op, NEW label \in {"set_value", "set_revoked"},
           GetVaultCredential(r, op, label)
    PROVE  IInv'
<1>1. PICK v \in DOMAIN vault : Read(r, label, v)
  BY DEF GetVaultCredential
<1> DEFINE q == [req[r] EXCEPT !.at = label, !.row = v]
<1>2. req[r] \in Request /\ ~req[r].locked /\ v \in Nat
  BY DEF IInv, TypeOK, RequestsKnowTheirRows
<1>3. q \in Request /\ q.at = label /\ q.row = v /\ ~q.locked
  BY <1>2 DEF Request
<1>4. req' = [req EXCEPT ![r] = q]
  BY <1>1 DEF Read, IInv, TypeOK
<1> HIDE DEF q
<1> QED BY <1>3, <1>4, RequestStep DEF GetVaultCredential

\* The routes of lockdown preserve the invariant.
LEMMA LockdownRoutesI ==
    ASSUME IInv, NEW r \in Requests, ActivateLockdownRoute(r) \/ DeactivateLockdownRoute(r)
    PROVE  IInv'
<1>1. CASE ActivateLockdownRoute(r)
  <2> DEFINE q == [Idle EXCEPT !.at = "activate", !.seen = lockdown # "none"]
  <2>1. q \in Request /\ q.at = "activate" /\ ~q.locked
    BY DEF Idle, Request
  <2> HIDE DEF q
  <2>2. req' = [req EXCEPT ![r] = q]
    BY <1>1 DEF ActivateLockdownRoute, q
  <2> QED BY <1>1, <2>1, <2>2, RequestStep DEF ActivateLockdownRoute
<1>2. CASE DeactivateLockdownRoute(r)
  <2> DEFINE q == [Idle EXCEPT !.at = "deactivate"]
  <2>1. q \in Request /\ q.at = "deactivate" /\ ~q.locked
    BY DEF Idle, Request
  <2> HIDE DEF q
  <2>2. req' = [req EXCEPT ![r] = q]
    BY <1>2 DEF DeactivateLockdownRoute, q
  <2> QED BY <1>2, <2>1, <2>2, RequestStep DEF DeactivateLockdownRoute
<1> QED BY <1>1, <1>2

-----------------------------------------------------------------------------
(* Steps that write rows.                                                  *)

\* A new approval is pending, so that no grant belongs to it.
LEMMA CreateApprovalI == ASSUME IInv, NEW r \in Requests, CreateApproval(r) PROVE IInv'
<1>1. PICK task \in BOOLEAN :
         approvals' = Append(approvals, [task |-> task, status |-> "pending",
                                         decision |-> "none", expired |-> FALSE])
  BY DEF CreateApproval
<1> DEFINE new == [task |-> task, status |-> "pending", decision |-> "none", expired |-> FALSE]
<1>2. new \in ApprovalRecord /\ new.status = "pending"
  BY DEF ApprovalRecord
<1> HIDE DEF new
<1>3. approvals' = Append(approvals, new)
  BY <1>1 DEF new
<1>4. approvals \in Seq(ApprovalRecord) /\ Len(approvals) < MaxApprovals
  BY DEF IInv, TypeOK, CreateApproval
<1>5. /\ approvals' \in Seq(ApprovalRecord)
      /\ Len(approvals') = Len(approvals) + 1
      /\ \A a \in DOMAIN approvals : approvals'[a] = approvals[a]
      /\ approvals'[Len(approvals) + 1] = new
  BY <1>2, <1>3, <1>4, AppendProperties
<1>6. /\ DOMAIN approvals = 1..Len(approvals)
      /\ DOMAIN approvals' = 1..(Len(approvals) + 1) /\ Len(approvals) \in Nat
  BY <1>4, <1>5
<1>7. DOMAIN approvals \subseteq DOMAIN approvals'
  BY <1>6
<1>8. TypeOK'
  BY <1>4, <1>5, <1>7, Returned, SecurityAssumption DEF CreateApproval, IInv, TypeOK
<1>9. GrantsFollowDecisions'
  BY <1>2, <1>5, <1>6 DEF CreateApproval, IInv, GrantsFollowDecisions, Scoped
<1>10. RequestsKnowTheirRows'
  BY <1>7, Returned DEF CreateApproval
<1> QED BY <1>8, <1>9, <1>10 DEF CreateApproval, IInv, LockdownRevokesGrants

\* What the repository's decide_approval writes: one pending row, or nothing.
LEMMA DecidedRows ==
    ASSUME approvals \in Seq(ApprovalRecord), NEW a \in DOMAIN approvals, NEW choice \in Decisions,
           NEW status \in {"approved", "rejected", "expired"}
    PROVE  /\ Decided(a, choice, status) \in Seq(ApprovalRecord)
           /\ Len(Decided(a, choice, status)) = Len(approvals)
           /\ DOMAIN Decided(a, choice, status) = DOMAIN approvals
           /\ \A b \in DOMAIN approvals :
                Decided(a, choice, status)[b] =
                  IF b = a /\ approvals[a].status = "pending"
                  THEN [approvals[a] EXCEPT !.status = status, !.decision = choice] ELSE approvals[b]
<1> DEFINE new == IF approvals[a].status = "pending"
                  THEN [approvals[a] EXCEPT !.status = status, !.decision = choice] ELSE approvals[a]
<1>1. a \in 1..Len(approvals) /\ approvals[a] \in ApprovalRecord
  OBVIOUS
<1>2. new \in ApprovalRecord
  BY <1>1 DEF ApprovalRecord
<1>3. Decided(a, choice, status) = [approvals EXCEPT ![a] = new]
  BY DEF Decided
<1>4. new = IF approvals[a].status = "pending"
            THEN [approvals[a] EXCEPT !.status = status, !.decision = choice] ELSE approvals[a]
  OBVIOUS
<1> HIDE DEF new
<1>5. /\ [approvals EXCEPT ![a] = new] \in Seq(ApprovalRecord)
      /\ Len([approvals EXCEPT ![a] = new]) = Len(approvals)
      /\ \A b \in 1..Len(approvals) :
            [approvals EXCEPT ![a] = new][b] = IF b = a THEN new ELSE approvals[b]
  BY <1>1, <1>2, ExceptSeq
<1> QED BY <1>3, <1>4, <1>5

\* Expiry writes no decision that a grant belongs to.
LEMMA ExpireApprovalI == ASSUME IInv, NEW r \in Requests, ExpireApproval(r) PROVE IInv'
<1> DEFINE a == req[r].row
           choice == req[r].choice
<1>1. a \in DOMAIN approvals /\ choice \in Decisions /\ approvals \in Seq(ApprovalRecord)
  BY DEF ExpireApproval, At, IInv, TypeOK, RequestsKnowTheirRows
<1>2. approvals' = Decided(a, choice, "expired")
  BY DEF ExpireApproval
<1> HIDE DEF a, choice
<1>3. /\ approvals' \in Seq(ApprovalRecord) /\ Len(approvals') = Len(approvals)
      /\ DOMAIN approvals' = DOMAIN approvals
      /\ \A b \in DOMAIN approvals :
            approvals'[b] = IF b = a /\ approvals[a].status = "pending"
                            THEN [approvals[a] EXCEPT !.status = "expired", !.decision = choice]
                            ELSE approvals[b]
  BY <1>1, <1>2, DecidedRows
<1>4. \A b \in DOMAIN approvals : approvals[b] \in ApprovalRecord
  BY <1>1
<1>5. ASSUME NEW b \in DOMAIN approvals
      PROVE  (Scoped(b)' <=> Scoped(b)) /\ approvals'[b].task = approvals[b].task
  <2>1. CASE b = a /\ approvals[a].status = "pending"
    <3>1. approvals'[b].status = "expired" /\ approvals'[b].task = approvals[b].task
      BY <1>1, <1>3, <1>4, <2>1 DEF ApprovalRecord
    <3> QED BY <2>1, <3>1 DEF Scoped
  <2>2. CASE ~(b = a /\ approvals[a].status = "pending")
    BY <1>3, <2>2 DEF Scoped
  <2> QED BY <2>1, <2>2
<1>6. TypeOK'
  BY <1>3, Returned DEF ExpireApproval, IInv, TypeOK
<1>7. GrantsFollowDecisions'
  BY <1>3, <1>5 DEF ExpireApproval, IInv, GrantsFollowDecisions
<1>8. RequestsKnowTheirRows'
  BY <1>3, Returned DEF ExpireApproval
<1> QED BY <1>6, <1>7, <1>8 DEF ExpireApproval, IInv, LockdownRevokesGrants

\* Time changes no decision.
LEMMA TimePassesI == ASSUME IInv, TimePasses PROVE IInv'
<1>1. PICK a \in DOMAIN approvals : approvals' = [approvals EXCEPT ![a].expired = TRUE]
  BY DEF TimePasses
<1>2. approvals \in Seq(ApprovalRecord) /\ a \in 1..Len(approvals)
  BY DEF IInv, TypeOK
<1>3. approvals[a] \in ApprovalRecord
  BY <1>2
<1> DEFINE new == [approvals[a] EXCEPT !.expired = TRUE]
<1>4. new \in ApprovalRecord /\ new.status = approvals[a].status
      /\ new.decision = approvals[a].decision /\ new.task = approvals[a].task
  BY <1>3 DEF ApprovalRecord
<1>5. approvals' = [approvals EXCEPT ![a] = new]
  BY <1>1
<1> HIDE DEF new
<1>6. /\ approvals' \in Seq(ApprovalRecord) /\ Len(approvals') = Len(approvals)
      /\ \A b \in 1..Len(approvals) : approvals'[b] = IF b = a THEN new ELSE approvals[b]
  BY <1>2, <1>4, <1>5, ExceptSeq
<1>7. DOMAIN approvals' = DOMAIN approvals /\ DOMAIN approvals = 1..Len(approvals)
  BY <1>2, <1>6
<1>8. \A b \in DOMAIN approvals : (Scoped(b)' <=> Scoped(b)) /\ approvals'[b].task = approvals[b].task
  BY <1>4, <1>6, <1>7 DEF Scoped
<1>9. TypeOK'
  BY <1>6 DEF TimePasses, IInv, TypeOK
<1>10. GrantsFollowDecisions'
  BY <1>7, <1>8 DEF TimePasses, IInv, GrantsFollowDecisions
<1>11. RequestsKnowTheirRows'
  BY <1>7 DEF TimePasses, IInv, RequestsKnowTheirRows
<1> QED BY <1>9, <1>10, <1>11 DEF TimePasses, IInv, LockdownRevokesGrants

\* Rows that map one to one to a finite set are no more than its members.
LEMMA OneToOne ==
    ASSUME NEW n \in Nat, NEW T, IsFiniteSet(T), NEW f \in [1..n -> T],
           \A i, j \in 1..n : f[i] = f[j] => i = j
    PROVE  n <= Cardinality(T)
<1>1. f \in Injection(1..n, T)
  BY DEF Injection, IsInjective
<1>2. Cardinality(1..n) = n
  BY FS_Interval
<1> QED BY <1>1, <1>2, FS_Injection

\* A decision is written together with the grant it calls for, or not at all.
LEMMA DecideApprovalI == ASSUME IInv, NEW r \in Requests, DecideApproval(r) PROVE IInv'
<1>0. PICK a, choice : a = req[r].row /\ choice = req[r].choice
  OBVIOUS
<1> DEFINE refused == approvals[a].status # "pending" \/ (choice = "allow_for_task" /\ ~approvals[a].task)
<1>1. a \in DOMAIN approvals /\ choice \in Decisions /\ approvals \in Seq(ApprovalRecord)
      /\ grants \in Seq(GrantRecord) /\ ~req[r].locked
  BY <1>0 DEF DecideApproval, At, IInv, TypeOK, RequestsKnowTheirRows
<1>2. Return(r) /\ UNCHANGED <<lockdown, vault>>
  BY DEF DecideApproval
<1>3. CASE refused
  BY <1>0, <1>3, ReturnI DEF DecideApproval
<1>4. CASE ~refused
  <2>1. /\ approvals' = Decided(a, choice, Status(choice))
        /\ grants' = IF choice = "allow_for_task" THEN NewGrant(a, r) ELSE grants
        /\ approvals[a].status = "pending" /\ (choice = "allow_for_task" => approvals[a].task)
    BY <1>0, <1>4 DEF DecideApproval
  <2> HIDE DEF refused
  <2>2. Status(choice) \in {"approved", "rejected", "expired"}
    BY DEF Status
  <2>3. /\ approvals' \in Seq(ApprovalRecord) /\ Len(approvals') = Len(approvals)
        /\ DOMAIN approvals' = DOMAIN approvals
        /\ \A b \in DOMAIN approvals :
              approvals'[b] = IF b = a
                              THEN [approvals[a] EXCEPT !.status = Status(choice), !.decision = choice]
                              ELSE approvals[b]
    <3>1. PICK st \in {"approved", "rejected", "expired"} : st = Status(choice)
      BY <2>2
    <3>2. approvals' = Decided(a, choice, st) /\ approvals[a].status = "pending"
      BY <2>1, <3>1
    <3>3. /\ Decided(a, choice, st) \in Seq(ApprovalRecord)
          /\ Len(Decided(a, choice, st)) = Len(approvals)
          /\ DOMAIN Decided(a, choice, st) = DOMAIN approvals
          /\ \A b \in DOMAIN approvals :
               Decided(a, choice, st)[b] =
                 IF b = a /\ approvals[a].status = "pending"
                 THEN [approvals[a] EXCEPT !.status = st, !.decision = choice] ELSE approvals[b]
      BY <1>1, DecidedRows
    <3> QED BY <3>1, <3>2, <3>3
  <2>4. approvals[a] \in ApprovalRecord
    BY <1>1
  <2>5. \A b \in DOMAIN approvals : approvals'[b].task = approvals[b].task
    BY <2>3, <2>4 DEF ApprovalRecord
  <2>6. \A b \in DOMAIN approvals : b # a => (Scoped(b)' <=> Scoped(b))
    BY <2>3 DEF Scoped
  <2>7. ~Scoped(a)
    BY <2>1 DEF Scoped
  <2>8. Scoped(a)' <=> choice = "allow_for_task"
    <3>1. approvals'[a].status = Status(choice) /\ approvals'[a].decision = choice
      BY <1>1, <2>3, <2>4 DEF ApprovalRecord
    <3> QED BY <3>1 DEF Scoped, Status
  <2>9. CASE choice # "allow_for_task"
    <3>1. grants' = grants
      BY <2>1, <2>9
    <3>2. TypeOK'
      BY <1>2, <2>3, <3>1, Returned DEF IInv, TypeOK
    <3>3. GrantsFollowDecisions'
      BY <2>3, <2>5, <2>6, <2>7, <2>8, <2>9, <3>1 DEF IInv, GrantsFollowDecisions
    <3>4. RequestsKnowTheirRows'
      BY <1>2, <2>3, <3>1, Returned
    <3> QED BY <3>1, <3>2, <3>3, <3>4 DEF IInv, LockdownRevokesGrants
  <2>10. CASE choice = "allow_for_task"
    <3> DEFINE new == [source |-> a, status |-> "active", old |-> FALSE, locked |-> req[r].locked]
    <3>1. new \in GrantRecord /\ new.source = a /\ ~new.old /\ ~new.locked
      <4>1. a \in 1..MaxApprovals
        BY <1>1, SecurityAssumption DEF IInv, TypeOK
      <4>2. req[r].locked = FALSE
        BY <1>1 DEF IInv, TypeOK, Request
      <4> QED BY <4>1, <4>2 DEF GrantRecord
    <3>2. grants' = Append(grants, new)
      BY <2>1, <2>10 DEF NewGrant
    <3> HIDE DEF new
    <3>3. /\ grants' \in Seq(GrantRecord) /\ Len(grants') = Len(grants) + 1
          /\ \A g \in 1..Len(grants) : grants'[g] = grants[g]
          /\ grants'[Len(grants) + 1] = new
      BY <1>1, <3>1, <3>2, AppendProperties
    <3>4. /\ DOMAIN grants = 1..Len(grants) /\ Len(grants) \in Nat
          /\ DOMAIN grants' = 1..(Len(grants) + 1)
      BY <1>1, <3>3
    <3>5. \A g \in DOMAIN grants : grants[g].source # a
      BY <2>7 DEF IInv, GrantsFollowDecisions
    <3>6. GrantsFollowDecisions'
      <4>1. (\A g \in DOMAIN grants : grants[g].source \in DOMAIN approvals /\ Scoped(grants[g].source))'
        BY <1>1, <2>3, <2>6, <2>8, <2>10, <3>1, <3>3, <3>4, <3>5 DEF IInv, GrantsFollowDecisions
      <4>2. \A g, h \in DOMAIN grants' : grants'[g].source = grants'[h].source => g = h
        BY <3>1, <3>3, <3>4, <3>5 DEF IInv, GrantsFollowDecisions
      <4>3. ASSUME NEW b \in DOMAIN approvals', Scoped(b)'
            PROVE  approvals'[b].task /\ \E g \in DOMAIN grants' : grants'[g].source = b
        <5>1. CASE b = a
          BY <1>1, <2>1, <2>5, <2>10, <3>1, <3>3, <3>4, <5>1
        <5>2. CASE b # a
          BY <2>3, <2>5, <2>6, <3>3, <3>4, <4>3, <5>2 DEF IInv, GrantsFollowDecisions
        <5> QED BY <5>1, <5>2
      <4> QED BY <4>1, <4>2, <4>3 DEF GrantsFollowDecisions
    <3>7. Len(grants') <= MaxApprovals
      <4> DEFINE f == [g \in 1..Len(grants') |-> grants'[g].source]
      <4>1. f \in [1..Len(grants') -> 1..Len(approvals')]
        BY <2>3, <3>3, <3>4, <3>6 DEF GrantsFollowDecisions
      <4>2. \A i, j \in 1..Len(grants') : f[i] = f[j] => i = j
        BY <3>3, <3>4, <3>6 DEF GrantsFollowDecisions
      <4>3. IsFiniteSet(1..Len(approvals')) /\ Cardinality(1..Len(approvals')) = Len(approvals')
        <5>1. PICK m \in Nat : m = Len(approvals')
          BY <2>3
        <5>2. IsFiniteSet(1..m) /\ Cardinality(1..m) = m
          BY FS_Interval
        <5> QED BY <5>1, <5>2
      <4> HIDE DEF f
      <4>4. Len(grants') <= Len(approvals')
        <5>1. Len(grants') \in Nat
          BY <3>3
        <5> QED BY <4>1, <4>2, <4>3, <5>1, OneToOne
      <4> QED BY <2>3, <3>3, <4>4, SecurityAssumption DEF IInv, TypeOK
    <3>8. TypeOK'
      BY <2>3, <3>3, <3>4, <3>7, <1>2, Returned DEF IInv, TypeOK
    <3>9. RequestsKnowTheirRows'
      BY <2>3, <3>4, <1>2, Returned
    <3>10. LockdownRevokesGrants'
      BY <3>1, <3>3, <3>4 DEF IInv, LockdownRevokesGrants
    <3> QED BY <3>6, <3>8, <3>9, <3>10 DEF IInv
  <2> QED BY <2>9, <2>10
<1> QED BY <1>3, <1>4

\* Rewriting grants one by one keeps what their sources say of them.
LEMMA RewriteGrants ==
    ASSUME IInv, NEW r \in Requests, Return(r), UNCHANGED <<approvals, vault>>,
           lockdown' \in {"none", "normal", "locked_down"},
           DOMAIN grants' = DOMAIN grants, grants' \in Seq(GrantRecord),
           \A g \in DOMAIN grants :
              /\ grants'[g].source = grants[g].source
              /\ grants'[g].locked = grants[g].locked
              /\ grants'[g].old => grants'[g].status = "revoked"
    PROVE  IInv'
<1>1. Len(grants') = Len(grants)
  BY DEF IInv, TypeOK
<1>2. TypeOK'
  BY <1>1, Returned DEF IInv, TypeOK
<1>3. GrantsFollowDecisions'
  BY DEF IInv, GrantsFollowDecisions, Scoped
<1>4. RequestsKnowTheirRows'
  BY Returned
<1> QED BY <1>2, <1>3, <1>4 DEF IInv, LockdownRevokesGrants

\* RevokeGrant preserves the invariant.
LEMMA RevokeGrantI == ASSUME IInv, NEW r \in Requests, RevokeGrant(r) PROVE IInv'
<1> DEFINE g == req[r].row
           new == [grants[g] EXCEPT !.status = "revoked"]
<1>1. g \in DOMAIN grants /\ grants \in Seq(GrantRecord)
  BY DEF RevokeGrant, At, IInv, TypeOK, RequestsKnowTheirRows
<1>2. grants[g] \in GrantRecord
  BY <1>1
<1>3. /\ new \in GrantRecord /\ new.source = grants[g].source /\ new.locked = grants[g].locked
      /\ new.status = "revoked"
  BY <1>2 DEF GrantRecord
<1>4. grants' = [grants EXCEPT ![g] = new]
  BY DEF RevokeGrant
<1> HIDE DEF g, new
<1>5. /\ grants' \in Seq(GrantRecord) /\ Len(grants') = Len(grants)
      /\ \A h \in 1..Len(grants) : grants'[h] = IF h = g THEN new ELSE grants[h]
  BY <1>1, <1>3, <1>4, ExceptSeq
<1>6. DOMAIN grants' = DOMAIN grants /\ DOMAIN grants = 1..Len(grants)
  BY <1>1, <1>5
<1>7. lockdown' \in {"none", "normal", "locked_down"}
  BY DEF RevokeGrant, IInv, TypeOK
<1> QED BY <1>3, <1>5, <1>6, <1>7, RewriteGrants DEF RevokeGrant, IInv, LockdownRevokesGrants

\* ActivateLockdown preserves the invariant.
LEMMA ActivateLockdownI == ASSUME IInv, NEW r \in Requests, ActivateLockdown(r) PROVE IInv'
<1>1. CASE ~req[r].seen /\ lockdown # "none"
  BY <1>1, ReturnI DEF ActivateLockdown
<1>2. CASE ~(~req[r].seen /\ lockdown # "none")
  <2>1. grants' = [g \in DOMAIN grants |-> [grants[g] EXCEPT !.status = "revoked", !.old = TRUE]]
    BY <1>2 DEF ActivateLockdown
  <2>2. grants \in Seq(GrantRecord) /\ DOMAIN grants = 1..Len(grants) /\ Len(grants) \in Nat
    BY DEF IInv, TypeOK
  <2>3. \A g \in DOMAIN grants : grants[g] \in GrantRecord
    BY <2>2
  <2>4. \A g \in DOMAIN grants :
          /\ grants'[g] \in GrantRecord /\ grants'[g].source = grants[g].source
          /\ grants'[g].locked = grants[g].locked /\ grants'[g].status = "revoked"
    BY <2>1, <2>3 DEF GrantRecord
  <2>5. grants' \in [1..Len(grants) -> GrantRecord]
    BY <2>1, <2>2, <2>4
  <2>6. grants' \in Seq(GrantRecord)
    BY <2>2, <2>5, SeqDef
  <2> QED BY <1>2, <2>1, <2>4, <2>6, RewriteGrants DEF ActivateLockdown
<1> QED BY <1>1, <1>2

\* DeactivateLockdown preserves the invariant.
LEMMA DeactivateLockdownI == ASSUME IInv, NEW r \in Requests, DeactivateLockdown(r) PROVE IInv'
BY RewriteGrants DEF DeactivateLockdown, IInv, TypeOK, LockdownRevokesGrants

\* What revoke writes to the vault, and what is read of it afterwards.
LEMMA RevokedCredential ==
    ASSUME IInv, NEW r \in Requests, VaultRevoke(r)
    PROVE  /\ vault' \in Seq(VaultCredentialRecord) /\ Len(vault') = Len(vault)
           /\ DOMAIN vault' = DOMAIN vault
           /\ \A v \in DOMAIN vault : /\ vault'[v].name = vault[v].name
                                      /\ vault[v].revoked => vault'[v].revoked
<1>1. PICK w : w = req[r].row
  OBVIOUS
<1>2. vault \in Seq(VaultCredentialRecord) /\ w \in 1..Len(vault)
  BY <1>1 DEF VaultRevoke, At, IInv, TypeOK, RequestsKnowTheirRows
<1> DEFINE new == [vault[w] EXCEPT !.revoked = TRUE]
<1>3. new \in VaultCredentialRecord /\ new.name = vault[w].name /\ new.revoked
  <2>1. vault[w] \in VaultCredentialRecord
    BY <1>2
  <2> QED BY <2>1 DEF VaultCredentialRecord
<1>4. vault' = [vault EXCEPT ![w] = new]
  BY <1>1 DEF VaultRevoke
<1> HIDE DEF new
<1>5. /\ vault' \in Seq(VaultCredentialRecord) /\ Len(vault') = Len(vault)
      /\ \A v \in 1..Len(vault) : vault'[v] = IF v = w THEN new ELSE vault[v]
  BY <1>2, <1>3, <1>4, ExceptSeq
<1>6. DOMAIN vault' = DOMAIN vault /\ DOMAIN vault = 1..Len(vault)
  BY <1>2, <1>5
<1> QED BY <1>3, <1>5, <1>6

\* VaultRevoke preserves the invariant.
LEMMA VaultRevokeI == ASSUME IInv, NEW r \in Requests, VaultRevoke(r) PROVE IInv'
<1>1. Return(r) /\ UNCHANGED <<lockdown, approvals, grants>>
  BY DEF VaultRevoke
<1>2. TypeOK'
  BY <1>1, RevokedCredential, Returned DEF IInv, TypeOK
<1>3. RequestsKnowTheirRows'
  BY <1>1, RevokedCredential, Returned
<1> QED BY <1>1, <1>2, <1>3 DEF IInv, GrantsFollowDecisions, Scoped, LockdownRevokesGrants

\* A credential is added under a name that no other one has, so that there are
\* no more credentials than names.
LEMMA VaultCreateI == ASSUME IInv, NEW r \in Requests, VaultCreate(r) PROVE IInv'
<1>1. Return(r) /\ UNCHANGED <<lockdown, approvals, grants>>
  BY DEF VaultCreate
<1>2. PICK n \in Names :
         vault' = IF \E v \in DOMAIN vault : vault[v].name = n THEN vault
                  ELSE Append(vault, [name |-> n, revoked |-> FALSE])
  BY DEF VaultCreate
<1>3. CASE \E v \in DOMAIN vault : vault[v].name = n
  BY <1>1, <1>2, <1>3, ReturnI
<1>4. CASE ~\E v \in DOMAIN vault : vault[v].name = n
  <2> DEFINE new == [name |-> n, revoked |-> FALSE]
  <2>1. new \in VaultCredentialRecord /\ new.name = n
    BY DEF VaultCredentialRecord
  <2>2. vault' = Append(vault, new)
    BY <1>2, <1>4
  <2> HIDE DEF new
  <2>3. vault \in Seq(VaultCredentialRecord) /\ \A v, w \in DOMAIN vault : vault[v].name = vault[w].name => v = w
    BY DEF IInv, TypeOK
  <2>4. /\ vault' \in Seq(VaultCredentialRecord) /\ Len(vault') = Len(vault) + 1
        /\ \A v \in 1..Len(vault) : vault'[v] = vault[v]
        /\ vault'[Len(vault) + 1] = new
    BY <2>1, <2>2, <2>3, AppendProperties
  <2>5. /\ DOMAIN vault = 1..Len(vault) /\ Len(vault) \in Nat
        /\ DOMAIN vault' = 1..(Len(vault) + 1)
    BY <2>3, <2>4
  <2>6. \A v, w \in DOMAIN vault' : vault'[v].name = vault'[w].name => v = w
    BY <1>4, <2>1, <2>3, <2>4, <2>5
  <2>7. Len(vault') <= Cardinality(Names)
    <3>1. PICK m \in Nat : m = Len(vault')
      BY <2>4
    <3> DEFINE f == [v \in 1..m |-> vault'[v].name]
    <3>2. \A v \in 1..m : vault'[v] \in VaultCredentialRecord
      BY <2>4, <3>1
    <3>3. f \in [1..m -> Names]
      BY <3>2 DEF VaultCredentialRecord
    <3>4. \A i, j \in 1..m : f[i] = f[j] => i = j
      BY <2>4, <2>5, <2>6, <3>1
    <3> HIDE DEF f
    <3> QED BY <3>1, <3>3, <3>4, OneToOne, SecurityAssumption
  <2>8. DOMAIN vault \subseteq DOMAIN vault'
    BY <2>5
  <2>9. TypeOK'
    BY <1>1, <2>4, <2>6, <2>7, <2>8, Returned DEF IInv, TypeOK
  <2>10. RequestsKnowTheirRows'
    BY <1>1, <2>8, Returned
  <2> QED BY <1>1, <2>9, <2>10 DEF IInv, GrantsFollowDecisions, Scoped, LockdownRevokesGrants
<1> QED BY <1>3, <1>4

-----------------------------------------------------------------------------
(* The invariant.                                                          *)

\* The initial state satisfies the invariant.
LEMMA InitI == Init => IInv
<1> SUFFICES ASSUME Init PROVE IInv
  OBVIOUS
<1>1. TypeOK
  <2>1. Cardinality(Names) \in Nat
    BY FS_CardinalityType, SecurityAssumption
  <2>2. req \in [Requests -> Request]
    BY IdleRequest DEF Init
  <2> QED BY <2>1, <2>2, SecurityAssumption DEF Init, TypeOK
<1> QED BY <1>1 DEF Init, Idle, IInv, GrantsFollowDecisions, RequestsKnowTheirRows, LockdownRevokesGrants

\* So does the state after every step from one that satisfies it.
LEMMA NextI == IInv /\ [Next]_vars => IInv'
<1> SUFFICES ASSUME IInv, [Next]_vars PROVE IInv'
  OBVIOUS
<1>1. CASE TimePasses
  BY <1>1, TimePassesI
<1>2. ASSUME NEW r \in Requests, CreateState(r) \/ Abandon(r)
      PROVE  IInv'
  BY <1>2, CreateStateI, ReturnI DEF Abandon
<1>3. ASSUME NEW r \in Requests, Approvals(r)
      PROVE  IInv'
  <2>1. CASE CreateApprovalRoute(r) \/ DecideApprovalRoute(r) \/ RevokeGrantRoute(r)
    BY <2>1, RequireI DEF CreateApprovalRoute, DecideApprovalRoute, RevokeGrantRoute, Guarded
  <2>2. CASE GetApproval(r) \/ GetGrant(r)
    BY <2>2, GetApprovalI, GetGrantI
  <2>3. CASE CreateApproval(r) \/ ExpireApproval(r) \/ DecideApproval(r) \/ RevokeGrant(r)
    BY <2>3, CreateApprovalI, ExpireApprovalI, DecideApprovalI, RevokeGrantI
  <2> QED BY <1>3, <2>1, <2>2, <2>3 DEF Approvals
<1>4. ASSUME NEW r \in Requests, Lockdown(r)
      PROVE  IInv'
  BY <1>4, LockdownRoutesI, ActivateLockdownI, DeactivateLockdownI DEF Lockdown
<1>5. ASSUME NEW r \in Requests, Vault(r)
      PROVE  IInv'
  <2>1. CASE CreateVaultRoute(r) \/ ReplaceVaultRoute(r) \/ RevokeVaultRoute(r)
    BY <2>1, RequireI DEF CreateVaultRoute, ReplaceVaultRoute, RevokeVaultRoute, Guarded
  <2>2. CASE \/ GetVaultCredential(r, "vault_replace", "set_value")
             \/ GetVaultCredential(r, "vault_revoke", "set_revoked")
    BY <2>2, GetVaultCredentialI
  <2>3. CASE VaultCreate(r) \/ VaultReplace(r) \/ VaultRevoke(r)
    BY <2>3, VaultCreateI, VaultRevokeI, ReturnI DEF VaultReplace
  <2> QED BY <1>5, <2>1, <2>2, <2>3 DEF Vault
<1>6. CASE UNCHANGED vars
  BY <1>6 DEF vars, IInv, TypeOK, GrantsFollowDecisions, Scoped, RequestsKnowTheirRows, LockdownRevokesGrants
<1> QED BY <1>1, <1>2, <1>3, <1>4, <1>5, <1>6 DEF Next

\* Every reachable state satisfies the invariant.
THEOREM Invariance == Spec => []IInv
BY InitI, NextI, PTL DEF Spec

\* The tables and the requests in progress keep their types, whatever operations
\* run at once.
THEOREM TypeCorrect == Spec => []TypeOK
<1>1. IInv => TypeOK
  BY DEF IInv
<1> QED BY <1>1, Invariance, PTL

\* decide_approval: an approval has one grant if it was decided for its task,
\* and none otherwise, for any number of requests deciding it at once.
THEOREM GrantForEachDecision == Spec => []GrantMatchesDecision
<1>1. IInv => GrantMatchesDecision
  <2> SUFFICES ASSUME IInv, NEW a \in DOMAIN approvals
               PROVE  LET issued == {g \in DOMAIN grants : grants[g].source = a} IN
                      /\ Cardinality(issued) = IF Scoped(a) THEN 1 ELSE 0
                      /\ Scoped(a) => approvals[a].task
    BY DEF GrantMatchesDecision, Scoped
  <2> DEFINE issued == {g \in DOMAIN grants : grants[g].source = a}
  <2>1. CASE Scoped(a)
    <3>1. PICK g \in DOMAIN grants : grants[g].source = a
      BY <2>1 DEF IInv, GrantsFollowDecisions
    <3>2. issued = {g}
      BY <3>1 DEF IInv, GrantsFollowDecisions
    <3>3. Cardinality(issued) = 1
      BY <3>2, FS_Singleton
    <3> QED BY <2>1, <3>3 DEF IInv, GrantsFollowDecisions
  <2>2. CASE ~Scoped(a)
    <3>1. issued = {}
      BY <2>2 DEF IInv, GrantsFollowDecisions
    <3> QED BY <2>2, <3>1, FS_EmptySet
  <2> QED BY <2>1, <2>2
<1> QED BY <1>1, Invariance, PTL

\* activate_lockdown revokes every grant there is, and require lets no request
\* that arrives during a lockdown get as far as a grant.
THEOREM LockdownHolds == Spec => []LockdownRevokesGrants
<1>1. IInv => LockdownRevokesGrants
  BY DEF IInv
<1> QED BY <1>1, Invariance, PTL

-----------------------------------------------------------------------------
(* Revocation is final.                                                    *)

\* No step makes a revoked grant active again.
LEMMA GrantsStayRevoked ==
    ASSUME IInv, Next, NEW g \in DOMAIN grants, grants[g].status = "revoked"
    PROVE  grants'[g].status = "revoked"
<1>1. grants \in Seq(GrantRecord)
  BY DEF IInv, TypeOK
<1>2. CASE UNCHANGED grants
  BY <1>2
<1>3. ASSUME NEW r \in Requests, DecideApproval(r)
      PROVE  grants'[g].status = "revoked"
  <2>1. PICK a : a = req[r].row
    OBVIOUS
  <2>2. CASE grants' = grants
    BY <2>2
  <2>3. CASE grants' # grants
    <3> DEFINE new == [source |-> a, status |-> "active", old |-> FALSE, locked |-> req[r].locked]
    <3>1. grants' = Append(grants, new)
      BY <1>3, <2>1, <2>3 DEF DecideApproval, NewGrant
    <3> HIDE DEF new
    <3> QED BY <1>1, <3>1
  <2> QED BY <2>2, <2>3
<1>4. ASSUME NEW r \in Requests, RevokeGrant(r)
      PROVE  grants'[g].status = "revoked"
  <2>1. grants[g] \in GrantRecord
    BY <1>1
  <2> QED BY <1>4, <2>1 DEF RevokeGrant, GrantRecord
<1>5. ASSUME NEW r \in Requests, ActivateLockdown(r)
      PROVE  grants'[g].status = "revoked"
  <2>1. grants[g] \in GrantRecord
    BY <1>1
  <2> QED BY <1>5, <2>1 DEF ActivateLockdown, GrantRecord
<1>6. \/ UNCHANGED grants
      \/ \E r \in Requests : DecideApproval(r) \/ RevokeGrant(r) \/ ActivateLockdown(r)
  BY DEF Next, Approvals, Lockdown, Vault, TimePasses, CreateState, Abandon, CreateApprovalRoute,
         DecideApprovalRoute, RevokeGrantRoute, CreateVaultRoute, ReplaceVaultRoute, RevokeVaultRoute,
         Require, CreateApproval, GetApproval, ExpireApproval, GetGrant, ActivateLockdownRoute,
         DeactivateLockdownRoute, DeactivateLockdown, VaultCreate, GetVaultCredential, VaultReplace,
         VaultRevoke
<1> QED BY <1>2, <1>3, <1>4, <1>5, <1>6

\* No step restores a revoked credential.
LEMMA CredentialsStayRevoked ==
    ASSUME IInv, Next, NEW v \in DOMAIN vault, vault[v].revoked
    PROVE  vault'[v].revoked
<1>1. vault \in Seq(VaultCredentialRecord)
  BY DEF IInv, TypeOK
<1>2. CASE UNCHANGED vault
  BY <1>2
<1>3. ASSUME NEW r \in Requests, VaultCreate(r)
      PROVE  vault'[v].revoked
  <2>1. PICK n \in Names : vault' = vault \/ vault' = Append(vault, [name |-> n, revoked |-> FALSE])
    BY <1>3 DEF VaultCreate
  <2> DEFINE new == [name |-> n, revoked |-> FALSE]
  <2>2. vault' = vault \/ vault' = Append(vault, new)
    BY <2>1
  <2> HIDE DEF new
  <2> QED BY <1>1, <2>2
<1>4. ASSUME NEW r \in Requests, VaultRevoke(r)
      PROVE  vault'[v].revoked
  BY <1>4, RevokedCredential
<1>5. UNCHANGED vault \/ \E r \in Requests : VaultCreate(r) \/ VaultRevoke(r)
  BY DEF Next, Approvals, Lockdown, Vault, TimePasses, CreateState, Abandon, CreateApprovalRoute,
         DecideApprovalRoute, RevokeGrantRoute, CreateVaultRoute, ReplaceVaultRoute, RevokeVaultRoute,
         Require, CreateApproval, GetApproval, ExpireApproval, DecideApproval, GetGrant, RevokeGrant,
         ActivateLockdownRoute, ActivateLockdown, DeactivateLockdownRoute, DeactivateLockdown,
         GetVaultCredential, VaultReplace
<1> QED BY <1>2, <1>3, <1>4, <1>5

\* revoke_grant, activate_lockdown, revoke: a revoked grant or credential stays
\* revoked, whatever stale row a later write started from.
THEOREM RevocationIsFinal == Spec => RevokedStaysRevoked
<1>1. IInv /\ [Next]_vars =>
        [/\ \A g \in DOMAIN grants : grants[g].status = "revoked" => grants'[g].status = "revoked"
         /\ \A v \in DOMAIN vault : vault[v].revoked => vault'[v].revoked]_vars
  BY GrantsStayRevoked, CredentialsStayRevoked
<1> QED BY <1>1, Invariance, PTL DEF Spec, RevokedStaysRevoked

=============================================================================
