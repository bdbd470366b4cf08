-------------------------- MODULE RolesFilesProofs --------------------------
(***************************************************************************)
(* Proofs about ServerRoles and Attachments, for every set of requests: the *)
(* documents stay well typed under every interleaving of the routes, the   *)
(* permission routes hand on only permissions that the caller had, nobody  *)
(* reorders the roles above their own, and a file that can be fetched has  *)
(* an entry and an object that decrypts.                                   *)
(***************************************************************************)
EXTENDS ServerRoles, FiniteSetTheorems, Attachments, TLAPS

(* Leaves go to Zenon unless they name another prover. *)
USE Zenon

-----------------------------------------------------------------------------
(* The order in which overrides are applied is total and transitive.       *)

LEMMA AboveTotal ==
    ASSUME NEW D, NEW rank \in [D -> Nat], NEW tie \in [D -> Nat],
           \A r, s \in D : tie[r] = tie[s] => r = s,
           NEW r \in D, NEW s \in D, r # s
    PROVE  Above(rank, tie, r, s) \/ Above(rank, tie, s, r)
  <1>1. rank[r] \in Nat /\ rank[s] \in Nat /\ tie[r] \in Nat /\ tie[s] \in Nat
    OBVIOUS
  <1>2. tie[r] # tie[s]
    OBVIOUS
  <1> QED BY <1>1, <1>2, SMT DEF Above

LEMMA AboveTransitive ==
    ASSUME NEW D, NEW rank \in [D -> Nat], NEW tie \in [D -> Nat],
           NEW r \in D, NEW s \in D, NEW t \in D,
           Above(rank, tie, r, s), Above(rank, tie, s, t)
    PROVE  Above(rank, tie, r, t)
  <1>1. /\ rank[r] \in Nat /\ rank[s] \in Nat /\ rank[t] \in Nat
        /\ tie[r] \in Nat /\ tie[s] \in Nat /\ tie[t] \in Nat
    OBVIOUS
  <1> QED BY <1>1, SMT DEF Above

(* Changing the override of one role in a way that throw_permission_override
   accepts for p lets a member gain only permissions of p. *)
LEMMA OverrideGains ==
    ASSUME NEW D, NEW E \in SUBSET D,
           NEW rank \in [D -> Nat], NEW tie \in [D -> Nat],
           \A r, s \in D : tie[r] = tie[s] => r = s,
           NEW base, NEW p, NEW old \in [E -> Override], NEW new \in [E -> Override],
           NEW w \in D,
           \A r \in E \ {w} : new[r] = old[r],
           w \in E => MayOverride(p, old[w], new[w])
    PROVE  ApplyAll(base, new, rank, tie) \ ApplyAll(base, old, rank, tie) \subseteq p
  <1> SUFFICES ASSUME NEW x \in ApplyAll(base, new, rank, tie),
                      x \notin ApplyAll(base, old, rank, tie), x \notin p
               PROVE  FALSE
    OBVIOUS
  <1> DEFINE now == {r \in E : Mentions(new[r], x)}
             was == {r \in E : Mentions(old[r], x)}
  <1>1. x \in Permission
    BY DEF ApplyAll
  <1>2. \/ now = {} /\ x \in base
        \/ \E r \in now : x \notin new[r].deny /\ \A s \in now \ {r} : Above(rank, tie, r, s)
    BY DEF ApplyAll
  <1>3. /\ ~ (was = {} /\ x \in base)
        /\ \A r \in was : \/ x \in old[r].deny
                          \/ \E s \in was \ {r} : ~ Above(rank, tie, r, s)
    BY <1>1 DEF ApplyAll
  <1>4. \A r \in E \ {w} : r \in now <=> r \in was
    OBVIOUS
  <1>5. w \in E => /\ x \in new[w].allow => x \in old[w].allow
                   /\ x \in old[w].deny => x \in new[w].deny
    BY DEF MayOverride
  <1>6. CASE now = {} /\ x \in base
    <2>1. was = {w} /\ w \in E
      BY <1>6, <1>3, <1>4, SMT
    <2>2. x \in old[w].deny
      BY <2>1, <1>3
    <2>3. w \in now
      BY <2>1, <2>2, <1>5 DEF Mentions
    <2> QED BY <2>3, <1>6
  <1>7. ASSUME NEW r \in now, x \notin new[r].deny,
               \A s \in now \ {r} : Above(rank, tie, r, s)
        PROVE  FALSE
    <2>1. CASE r = w
      <3>1. x \in old[w].allow /\ x \notin old[w].deny /\ w \in was
        BY <2>1, <1>7, <1>5 DEF Mentions
      <3>2. \A s \in was \ {w} : Above(rank, tie, w, s)
        BY <2>1, <1>7, <1>4
      <3> QED BY <3>1, <3>2, <1>3
    <2>2. CASE r # w
      <3>1. r \in was /\ x \notin old[r].deny
        BY <2>2, <1>7, <1>4
      <3>2. \A s \in was \ {r, w} : Above(rank, tie, r, s)
        BY <1>7, <1>4
      <3>3. w \in was /\ ~ Above(rank, tie, r, w)
        BY <3>1, <3>2, <1>3
      <3>4. w \notin now
        BY <3>3, <2>2, <1>7
      <3>5. x \notin old[w].deny
        BY <3>3, <3>4, <1>5 DEF Mentions
      <3>6. Above(rank, tie, w, r)
        BY <3>3, <2>2, AboveTotal
      <3>7. \A s \in was \ {w} : Above(rank, tie, w, s)
        BY <3>2, <3>3, <3>6, <2>2, <1>7, AboveTransitive
      <3> QED BY <3>3, <3>5, <3>7, <1>3
    <2> QED BY <2>1, <2>2
  <1> QED BY <1>2, <1>6, <1>7

(* Changing only the value the overrides start from lets a member gain only
   permissions of the new value. *)
LEMMA DefaultGains ==
    ASSUME NEW over, NEW rank, NEW tie, NEW base, NEW next
    PROVE  ApplyAll(next, over, rank, tie) \ ApplyAll(base, over, rank, tie) \subseteq next
  BY DEF ApplyAll

-----------------------------------------------------------------------------
(* The inductive invariant: what the checks established still holds of the
   permission changes in flight, as long as nothing else was written. *)
PendingHeld ==
    \A q \in Requests :
        /\ req[q].op = "default_permissions" => req[q].value \subseteq req[q].perms
        /\ req[q].op = "role_permission" /\ req[q].fresh =>
              /\ req[q].role \in Known
              /\ MayOverride(req[q].perms, roles[req[q].role].permissions, req[q].value)

IInv == TypeOK /\ PendingHeld

LEMMA StaleTyped ==
    ASSUME NEW x \in Request, x \notin {Idle, Done}
    PROVE  LET y == [x EXCEPT !.fresh = FALSE]
           IN  /\ y \in Request /\ y.op = x.op /\ y.fresh = FALSE
               /\ x.op = "default_permissions" => y.value = x.value /\ y.perms = x.perms
  BY DEF Request

(* A write leaves the requests well typed; those in flight keep what they are
   about to write and are no longer fresh. *)
LEMMA WroteOthers ==
    ASSUME TypeOK, NEW Q \in SUBSET Requests, NEW f \in [Q -> Request],
           req' = [p \in Requests |-> IF p \in Q THEN f[p]
                                     ELSE IF Pending(p) THEN [req[p] EXCEPT !.fresh = FALSE]
                                     ELSE req[p]]
    PROVE  /\ req' \in [Requests -> Request]
           /\ \A p \in Requests \ Q :
                 /\ req'[p].op = req[p].op
                 /\ req[p].op = "role_permission" => ~ req'[p].fresh
                 /\ req[p].op = "default_permissions" =>
                       req'[p].value = req[p].value /\ req'[p].perms = req[p].perms
  <1> SUFFICES ASSUME NEW p \in Requests
               PROVE  /\ req'[p] \in Request
                      /\ p \notin Q =>
                            /\ req'[p].op = req[p].op
                            /\ req[p].op = "role_permission" => ~ req'[p].fresh
                            /\ req[p].op = "default_permissions" =>
                                  req'[p].value = req[p].value /\ req'[p].perms = req[p].perms
    OBVIOUS
  <1>1. req[p] \in Request
    BY DEF TypeOK
  <1>2. CASE p \in Q
    BY <1>2
  <1>3. CASE p \notin Q /\ Pending(p)
    BY <1>1, <1>3, StaleTyped DEF Pending
  <1>4. CASE p \notin Q /\ ~ Pending(p)
    BY <1>1, <1>4, SMT DEF Pending, Idle, Done
  <1> QED BY <1>2, <1>3, <1>4

LEMMA WroteTyped ==
    ASSUME TypeOK, PendingHeld, NEW q \in Requests, NEW next \in Request, Wrote(q, next),
           next.op \notin {"role_permission", "default_permissions"}
    PROVE  req' \in [Requests -> Request] /\ PendingHeld'
  <1> DEFINE f == [p \in {q} |-> next]
  <1>1. req' = [p \in Requests |-> IF p \in {q} THEN f[p]
                                  ELSE IF Pending(p) THEN [req[p] EXCEPT !.fresh = FALSE]
                                  ELSE req[p]]
    BY DEF Wrote
  <1>2. f \in [{q} -> Request]
    OBVIOUS
  <1> HIDE DEF f
  <1>3. /\ req' \in [Requests -> Request]
        /\ \A p \in Requests \ {q} :
              /\ req'[p].op = req[p].op
              /\ req[p].op = "role_permission" => ~ req'[p].fresh
              /\ req[p].op = "default_permissions" =>
                    req'[p].value = req[p].value /\ req'[p].perms = req[p].perms
    BY <1>1, <1>2, WroteOthers, SMT
  <1>4. req'[q] = next
    BY DEF Wrote
  <1> QED BY <1>3, <1>4, SMT DEF PendingHeld

LEMMA PermsTyped ==
    ASSUME NEW u, NEW tie
    PROVE  calculate_server_permissions(u, tie) \in SUBSET Permission
  <1>1. \A base, over, rank : ApplyAll(base, over, rank, tie) \in SUBSET Permission
    BY DEF ApplyAll
  <1> QED BY <1>1 DEF calculate_server_permissions, GrantAllSafe, ALLOW_IN_TIMEOUT

LEMMA KnownFinite == IsFiniteSet(Known) /\ Cardinality(Known) \in Nat
  BY ServerAssumption, FS_Subset, FS_CardinalityType DEF Known

(* A request that passes its checks keeps the invariant if what it is about to
   write is well typed and, for a permission change, held by the caller. *)
LEMMA CheckedKeeps ==
    ASSUME IInv, NEW q \in Requests, NEW x \in Request, Checked(q, x),
           minted' \in SUBSET Roles,
           x.op = "default_permissions" => x.value \subseteq x.perms,
           x.op = "role_permission" =>
              x.role \in Known /\ MayOverride(x.perms, roles[x.role].permissions, x.value)
    PROVE  IInv'
  <1>1. req' = [req EXCEPT ![q] = x] /\ req \in [Requests -> Request]
    BY DEF Checked, IInv, TypeOK
  <1>2. TypeOK'
    BY <1>1 DEF Checked, IInv, TypeOK
  <1>3. Known' = Known /\ roles' = roles
    BY DEF Checked, Known
  <1>4. PendingHeld'
    <2> SUFFICES ASSUME NEW p \in Requests
                 PROVE  /\ req'[p].op = "default_permissions" => req'[p].value \subseteq req'[p].perms
                        /\ req'[p].op = "role_permission" /\ req'[p].fresh =>
                              /\ req'[p].role \in Known
                              /\ MayOverride(req'[p].perms, roles[req'[p].role].permissions,
                                             req'[p].value)
      BY <1>3 DEF PendingHeld, MayOverride
    <2>1. CASE p = q
      BY <2>1, <1>1
    <2>2. CASE p # q
      BY <2>2, <1>1 DEF IInv, PendingHeld
    <2> QED BY <2>1, <2>2
  <1> QED BY <1>2, <1>4 DEF IInv

LEMMA RouteKeeps ==
    ASSUME IInv, NEW q \in Requests, NEW u \in Users, NEW tie \in Ties, Route(q, u, tie)
    PROVE  IInv'
  <1> USE DEF Request
  <1>1. ASSUME NEW r \in Roles, create_role(q, u, r, tie)
        PROVE  IInv'
    <2> DEFINE x == [op |-> "create", user |-> u, fresh |-> TRUE, role |-> r,
                     rank |-> Cardinality(Known)]
    <2>1. x \in Request
      BY KnownFinite
    <2>2. Checked(q, x) /\ minted' \in SUBSET Roles
      BY <1>1 DEF create_role, IInv, TypeOK
    <2> QED BY <2>1, <2>2, CheckedKeeps
  <1>2. ASSUME NEW r \in Known, edit_role(q, u, r, tie)
        PROVE  IInv'
    <2> DEFINE x == [op |-> "edit", user |-> u, fresh |-> TRUE, role |-> r]
    <2>1. x \in Request
      BY DEF Known
    <2>2. Checked(q, x) /\ minted' \in SUBSET Roles
      BY <1>2 DEF edit_role, IInv, TypeOK
    <2> QED BY <2>1, <2>2, CheckedKeeps
  <1>3. ASSUME NEW r \in Known, delete_role(q, u, r, tie)
        PROVE  IInv'
    <2> DEFINE x == [op |-> "delete_members", user |-> u, fresh |-> TRUE, role |-> r]
    <2>1. x \in Request
      BY DEF Known
    <2>2. Checked(q, x) /\ minted' \in SUBSET Roles
      BY <1>3 DEF delete_role, IInv, TypeOK
    <2> QED BY <2>1, <2>2, CheckedKeeps
  <1>4. ASSUME NEW order \in [Known -> 0 .. Cardinality(Known) - 1], NEW sort \in Ties,
               edit_role_ranks(q, u, order, tie, sort)
        PROVE  IInv'
    <2> DEFINE d == [r \in Roles |-> IF r \in Known THEN [roles[r] EXCEPT !.rank = order[r]]
                                     ELSE NoRole]
               x == [op |-> "ranks", user |-> u, fresh |-> TRUE, doc |-> d]
    <2>1. d \in [Roles -> RoleDoc]
      <3> SUFFICES ASSUME NEW r \in Roles PROVE d[r] \in RoleDoc
        OBVIOUS
      <3>1. roles[r] \in RoleDoc
        BY DEF IInv, TypeOK
      <3>2. CASE r \in Known
        <4>1. order[r] \in Nat
          BY <3>2, KnownFinite, SMT
        <4> QED BY <3>1, <3>2, <4>1 DEF RoleDoc
      <3>3. CASE r \notin Known
        BY <3>3 DEF RoleDoc, NoRole, NoOverride, Override
      <3> QED BY <3>2, <3>3
    <2>2. x \in Request
      BY <2>1
    <2>3. Checked(q, x) /\ minted' \in SUBSET Roles
      BY <1>4 DEF edit_role_ranks, IInv, TypeOK
    <2> QED BY <2>2, <2>3, CheckedKeeps
  <1>5. ASSUME NEW r \in Known, NEW v \in Overrides, set_role_permission(q, u, r, v, tie)
        PROVE  IInv'
    <2> DEFINE p == calculate_server_permissions(u, tie)
               x == [op |-> "role_permission", user |-> u, fresh |-> TRUE,
                     role |-> r, value |-> v, perms |-> p]
    <2>1. /\ Checked(q, x) /\ minted' \in SUBSET Roles
          /\ r \in Known /\ MayOverride(p, roles[r].permissions, v)
      BY <1>5 DEF set_role_permission, IInv, TypeOK
    <2>2. p \in SUBSET Permission
      BY PermsTyped
    <2> HIDE DEF p
    <2>3. x \in Request
      BY <2>2, ServerAssumption DEF Known
    <2> QED BY <2>1, <2>3, CheckedKeeps
  <1>6. ASSUME NEW v \in DefaultValues, set_default_server_permissions(q, u, v, tie)
        PROVE  IInv'
    <2> DEFINE p == calculate_server_permissions(u, tie)
               x == [op |-> "default_permissions", user |-> u, fresh |-> TRUE,
                     value |-> v, perms |-> p]
    <2>1. Checked(q, x) /\ minted' \in SUBSET Roles /\ v \subseteq p
      BY <1>6 DEF set_default_server_permissions, IInv, TypeOK
    <2>2. p \in SUBSET Permission
      BY PermsTyped
    <2> HIDE DEF p
    <2>3. x \in Request
      BY <2>2, ServerAssumption
    <2> QED BY <2>1, <2>3, CheckedKeeps
  <1>7. ASSUME NEW t \in Users, NEW data \in DataMemberEdit, edit_member(q, u, t, data, tie)
        PROVE  IInv'
    <2> DEFINE x == [op |-> "member", user |-> u, fresh |-> TRUE, target |-> t, data |-> data]
    <2>1. Checked(q, x) /\ minted' \in SUBSET Roles
      BY <1>7 DEF edit_member, IInv, TypeOK
    <2>2. x \in Request
      BY ServerAssumption
    <2> QED BY <2>1, <2>2, CheckedKeeps
  <1>8. ASSUME NEW c \in Channels, NEW r \in Known, NEW v \in Overrides,
               set_channel_role_permissions(q, u, c, r, v, tie)
        PROVE  IInv'
    <2> DEFINE x == [op |-> "channel_role", user |-> u, fresh |-> TRUE, channel |-> c,
                     role |-> r, value |-> v]
    <2>1. Checked(q, x) /\ minted' \in SUBSET Roles
      BY <1>8 DEF set_channel_role_permissions, IInv, TypeOK
    <2>2. x \in Request
      BY ServerAssumption DEF Known
    <2> QED BY <2>1, <2>2, CheckedKeeps
  <1>9. ASSUME NEW c \in Channels, NEW v \in Overrides,
               set_default_channel_permissions(q, u, c, v, tie)
        PROVE  IInv'
    <2> DEFINE x == [op |-> "channel_default", user |-> u, fresh |-> TRUE, channel |-> c,
                     value |-> v]
    <2>1. Checked(q, x) /\ minted' \in SUBSET Roles
      BY <1>9 DEF set_default_channel_permissions, IInv, TypeOK
    <2>2. x \in Request
      BY ServerAssumption
    <2> QED BY <2>1, <2>2, CheckedKeeps
  <1> QED BY <1>1, <1>2, <1>3, <1>4, <1>5, <1>6, <1>7, <1>8, <1>9 DEF Route

LEMMA WriteKeeps ==
    ASSUME IInv, NEW q \in Requests, Write(q)
    PROVE  IInv'
  <1> DEFINE r == req[q]
  <1>0. r \in Request /\ TypeOK /\ PendingHeld /\ Done \in Request
        /\ Done.op \notin {"role_permission", "default_permissions"}
    BY DEF IInv, TypeOK, Request, Done
  <1>a. ASSUME Wrote(q, Done)
        PROVE  req' \in [Requests -> Request] /\ PendingHeld'
    BY <1>0, <1>a, WroteTyped
  <1>1. CASE WriteRolePermission(q)
    <2>1. r.role \in Roles /\ r.value \in Override
      BY <1>0, <1>1, SMT DEF WriteRolePermission, Request, Idle, Done
    <2>2. roles' \in [Roles -> RoleDoc]
      BY <1>0, <1>1, <2>1, SMT DEF WriteRolePermission, update_role, TypeOK, RoleDoc
    <2> QED BY <1>1, <2>2, <1>0, <1>a DEF WriteRolePermission, IInv, TypeOK
  <1>2. CASE WriteEdit(q)
    <2>1. r.role \in Roles
      BY <1>0, <1>2, SMT DEF WriteEdit, Request, Idle, Done
    <2>2. roles' \in [Roles -> RoleDoc]
      BY <1>0, <1>2, <2>1 DEF WriteEdit, update_role, TypeOK, RoleDoc
    <2> QED BY <1>2, <2>2, <1>0, <1>a DEF WriteEdit, IInv, TypeOK
  <1>3. CASE WriteDefault(q)
    <2>1. r.value \in SUBSET Permission
      BY <1>0, <1>3, SMT DEF WriteDefault, Request, Idle, Done
    <2> QED BY <1>3, <2>1, <1>0, <1>a DEF WriteDefault, IInv, TypeOK
  <1>4. CASE insert_role(q)
    <2>1. r.role \in Roles /\ r.rank \in Nat
      BY <1>0, <1>4, SMT DEF insert_role, Request, Idle, Done
    <2>2. roles' \in [Roles -> RoleDoc]
      BY <1>0, <1>4, <2>1 DEF insert_role, TypeOK, RoleDoc, NoOverride, Override
    <2> QED BY <1>4, <2>2, <1>0, <1>a DEF insert_role, IInv, TypeOK
  <1>5. CASE DeletePullMembers(q)
    <2> DEFINE next == [req[q] EXCEPT !.op = "delete_channels"]
    <2>1. next \in Request /\ next.op = "delete_channels"
      BY <1>0, <1>5, SMT DEF DeletePullMembers, Request, Idle, Done
    <2>2. Wrote(q, next)
      BY <1>5 DEF DeletePullMembers
    <2> HIDE DEF next
    <2>3. req' \in [Requests -> Request] /\ PendingHeld'
      BY <2>1, <2>2, <1>0, WroteTyped
    <2>4. members' \in [Users -> Member]
      BY <1>0, <1>5, SMT DEF DeletePullMembers, TypeOK, Member
    <2> QED BY <1>5, <2>3, <2>4, <1>0 DEF DeletePullMembers, IInv, TypeOK
  <1>6. CASE DeleteUnsetChannel(q)
    <2> DEFINE next == [req[q] EXCEPT !.op = "delete_roles"]
    <2>1. next \in Request /\ next.op = "delete_roles" /\ r.role \in Roles
      BY <1>0, <1>6, SMT DEF DeleteUnsetChannel, Request, Idle, Done
    <2>2. Wrote(q, next)
      BY <1>6 DEF DeleteUnsetChannel
    <2> HIDE DEF next
    <2>3. req' \in [Requests -> Request] /\ PendingHeld'
      BY <2>1, <2>2, <1>0, WroteTyped
    <2>4. channels' \in [Channels -> ChannelDoc]
      <3>1. PICK c \in Channels :
               channels' = [channels EXCEPT ![c].role_permissions[r.role] = NoOverride]
        BY <1>6 DEF DeleteUnsetChannel
      <3>2. NoOverride \in Override
        BY DEF NoOverride, Override
      <3> QED BY <3>1, <3>2, <2>1, <1>0 DEF TypeOK, ChannelDoc
    <2> QED BY <1>6, <2>3, <2>4, <1>0 DEF DeleteUnsetChannel, IInv, TypeOK
  <1>7. CASE DeleteUnsetRole(q)
    <2>1. roles' \in [Roles -> RoleDoc]
      BY <1>0, <1>7 DEF DeleteUnsetRole, TypeOK, RoleDoc, NoRole, NoOverride, Override
    <2> QED BY <1>7, <2>1, <1>0, <1>a DEF DeleteUnsetRole, IInv, TypeOK
  <1>8. CASE set_role_ordering(q)
    <2>1. r.doc \in [Roles -> RoleDoc]
      BY <1>0, <1>8, SMT DEF set_role_ordering, Request, Idle, Done
    <2> QED BY <1>8, <2>1, <1>0, <1>a DEF set_role_ordering, IInv, TypeOK
  <1>9. CASE update_member(q)
    <2>1. r.target \in Users /\ r.data \in Edits
      <3> DEFINE MR == [op : {"member"}, user : Users, fresh : BOOLEAN, target : Users, data : Edits]
      <3>1. r \in MR
        BY <1>0, <1>9, SMT DEF update_member, Request, Idle, Done
      <3> QED BY <3>1
    <2>2. members' \in [Users -> Member]
      <3> DEFINE d == r.data
                 m == members[r.target]
                 n == [roles |-> Given(d.roles, m.roles), timeout |-> Given(d.timeout, m.timeout),
                       can_publish |-> Flag(d.can_publish, m.can_publish),
                       can_receive |-> Flag(d.can_receive, m.can_receive)]
      <3>1. m \in Member
        BY <2>1, <1>0 DEF TypeOK
      <3>2. n \in Member
        <4>1. /\ Given(d.roles, m.roles) \in SUBSET Roles
              /\ Given(d.timeout, m.timeout) \in BOOLEAN
          BY <2>1, <3>1 DEF Member, Edits, Given
        <4>2. Flag(d.can_publish, m.can_publish) \in BOOLEAN
          BY <2>1, <3>1 DEF Member, Edits, Given, Flag
        <4>3. Flag(d.can_receive, m.can_receive) \in BOOLEAN
          BY <2>1, <3>1 DEF Member, Edits, Given, Flag
        <4> QED BY <4>1, <4>2, <4>3 DEF Member
      <3>3. members' = [members EXCEPT ![r.target] = n]
        BY <1>9 DEF update_member
      <3> QED BY <3>2, <3>3, <1>0 DEF TypeOK
    <2> QED BY <1>9, <2>2, <1>0, <1>a DEF update_member, IInv, TypeOK
  <1>10. CASE set_channel_role_permission(q)
    <2>1. r.channel \in Channels /\ r.role \in Roles /\ r.value \in Override
      BY <1>0, <1>10, SMT DEF set_channel_role_permission, Request, Idle, Done
    <2>2. channels' \in [Channels -> ChannelDoc]
      BY <1>10, <2>1, <1>0 DEF set_channel_role_permission, TypeOK, ChannelDoc
    <2> QED BY <1>10, <2>2, <1>0, <1>a DEF set_channel_role_permission, IInv, TypeOK
  <1>11. CASE WriteChannelDefault(q)
    <2>1. r.channel \in Channels /\ r.value \in Override
      BY <1>0, <1>11, SMT DEF WriteChannelDefault, Request, Idle, Done
    <2>2. channels' \in [Channels -> ChannelDoc]
      BY <1>11, <2>1, <1>0 DEF WriteChannelDefault, TypeOK, ChannelDoc
    <2> QED BY <1>11, <2>2, <1>0, <1>a DEF WriteChannelDefault, IInv, TypeOK
  <1> QED BY <1>1, <1>2, <1>3, <1>4, <1>5, <1>6, <1>7, <1>8, <1>9, <1>10, <1>11 DEF Write

LEMMA TimeoutKeeps ==
    ASSUME IInv, NEW u \in Users, TimeoutEnds(u)
    PROVE  IInv'
  <1> DEFINE f == [p \in {} |-> Idle]
  <1>1. /\ {} \in SUBSET Requests
        /\ f \in [{} -> Request]
        /\ req' = [p \in Requests |-> IF p \in {} THEN f[p]
                                     ELSE IF Pending(p) THEN [req[p] EXCEPT !.fresh = FALSE]
                                     ELSE req[p]]
    BY DEF TimeoutEnds
  <1> HIDE DEF f
  <1>2. /\ req' \in [Requests -> Request]
        /\ \A p \in Requests \ {} :
              /\ req'[p].op = req[p].op
              /\ req[p].op = "role_permission" => ~ req'[p].fresh
              /\ req[p].op = "default_permissions" =>
                    req'[p].value = req[p].value /\ req'[p].perms = req[p].perms
    BY <1>1, WroteOthers DEF IInv
  <1>3. PendingHeld'
    BY <1>2 DEF IInv, PendingHeld
  <1>4. members' \in [Users -> Member]
    BY DEF TimeoutEnds, IInv, TypeOK, Member
  <1> QED BY <1>2, <1>3, <1>4 DEF TimeoutEnds, IInv, TypeOK

LEMMA InitHolds == Init => IInv
  <1> SUFFICES ASSUME Init PROVE IInv
    OBVIOUS
  <1>1. TypeOK
    BY ServerAssumption, SMT DEF Init, TypeOK, Known, Request
  <1>2. PendingHeld
    BY DEF Init, PendingHeld, Idle
  <1> QED BY <1>1, <1>2 DEF IInv

LEMMA StepHolds == IInv /\ [Next]_vars => IInv'
  <1> SUFFICES ASSUME IInv, [Next]_vars PROVE IInv'
    OBVIOUS
  <1>1. CASE UNCHANGED vars
    BY <1>1 DEF IInv, TypeOK, PendingHeld, Known, vars
  <1>2. CASE Next
    BY <1>2, RouteKeeps, WriteKeeps, TimeoutKeeps DEF Next
  <1> QED BY <1>1, <1>2

(* However the routes interleave, the server, its members and channels stay well typed. *)
THEOREM ServerRolesTypeCorrect == Spec => []TypeOK
  <1>1. Spec => []IInv
    BY InitHolds, StepHolds, PTL DEF Spec
  <1>2. IInv => TypeOK
    BY DEF IInv
  <1> QED BY <1>1, <1>2, PTL

-----------------------------------------------------------------------------
(* Which request a step serves.                                            *)

LEMMA RouteServes ==
    ASSUME IInv, NEW q \in Requests, NEW u \in Users, NEW tie \in Ties, Route(q, u, tie)
    PROVE  \A p \in Requests \ {q} : req'[p] = req[p]
  BY DEF Route, Checked, create_role, edit_role, delete_role, edit_role_ranks,
         set_role_permission, set_default_server_permissions, edit_member,
         set_channel_role_permissions, set_default_channel_permissions, IInv, TypeOK

LEMMA WriteServes ==
    ASSUME IInv, NEW q \in Requests, Write(q)
    PROVE  \A p \in Requests \ {q} : req'[p].op = req[p].op
  <1>1. PICK next : Wrote(q, next)
    BY DEF Write, WriteRolePermission, WriteEdit, WriteDefault, insert_role,
           DeletePullMembers, DeleteUnsetChannel, DeleteUnsetRole, set_role_ordering,
           update_member, set_channel_role_permission, WriteChannelDefault
  <1> SUFFICES ASSUME NEW p \in Requests \ {q} PROVE req'[p].op = req[p].op
    OBVIOUS
  <1>2. req[p] \in Request
    BY DEF IInv, TypeOK
  <1>3. CASE Pending(p)
    BY <1>1, <1>2, <1>3, StaleTyped DEF Wrote, Pending
  <1>4. CASE ~ Pending(p)
    BY <1>1, <1>4 DEF Wrote
  <1> QED BY <1>3, <1>4

LEMMA TimeoutServes ==
    ASSUME IInv, NEW u \in Users, TimeoutEnds(u)
    PROVE  \A p \in Requests : req'[p].op = req[p].op
  <1> SUFFICES ASSUME NEW p \in Requests PROVE req'[p].op = req[p].op
    OBVIOUS
  <1>2. req[p] \in Request
    BY DEF IInv, TypeOK
  <1>3. CASE Pending(p)
    BY <1>2, <1>3, StaleTyped DEF TimeoutEnds, Pending
  <1>4. CASE ~ Pending(p)
    BY <1>4 DEF TimeoutEnds
  <1> QED BY <1>3, <1>4

(* A permission request that moves on does so by its own write. *)
LEMMA GrantIsWrite ==
    ASSUME IInv, [Next]_vars, NEW q \in Requests, req'[q].op # req[q].op,
           req[q].op \in {"role_permission", "default_permissions"}
    PROVE  \/ WriteRolePermission(q) /\ req[q].op = "role_permission"
           \/ WriteDefault(q) /\ req[q].op = "default_permissions"
  <1>1. CASE UNCHANGED vars
    BY <1>1 DEF vars
  <1>2. ASSUME NEW p \in Requests, req[p] = Idle, NEW u \in Users, NEW tie \in Ties,
               Route(p, u, tie)
        PROVE  FALSE
    BY <1>2, RouteServes, SMT DEF Idle
  <1>3. ASSUME NEW p \in Requests, Write(p)
        PROVE  p = q
    BY <1>3, WriteServes
  <1>4. ASSUME Write(q)
        PROVE  \/ WriteRolePermission(q) /\ req[q].op = "role_permission"
               \/ WriteDefault(q) /\ req[q].op = "default_permissions"
    BY <1>4 DEF Write, WriteRolePermission, WriteEdit, WriteDefault, insert_role,
           DeletePullMembers, DeleteUnsetChannel, DeleteUnsetRole, set_role_ordering,
           update_member, set_channel_role_permission, WriteChannelDefault
  <1>5. ASSUME NEW u \in Users, TimeoutEnds(u)
        PROVE  FALSE
    BY <1>5, TimeoutServes
  <1> QED BY <1>1, <1>2, <1>3, <1>4, <1>5 DEF Next

LEMMA RoleGrantHeld ==
    ASSUME IInv, NEW q \in Requests, WriteRolePermission(q), req[q].fresh,
           NEW u \in Users, NEW tie \in Ties
    PROVE  calculate_server_permissions(u, tie)' \ calculate_server_permissions(u, tie)
              \subseteq req[q].perms
  <1> DEFINE w == req[q].role
             old == [r \in Own(u) |-> roles[r].permissions]
             new == [r \in Own(u) |-> roles'[r].permissions]
  <1>1. /\ w \in Known /\ w \in Roles
        /\ MayOverride(req[q].perms, roles[w].permissions, req[q].value)
    BY DEF IInv, PendingHeld, WriteRolePermission, Known
  <1>2. roles' = [roles EXCEPT ![w] = [roles[w] EXCEPT !.permissions = req[q].value]]
    BY <1>1 DEF WriteRolePermission, update_role
  <1>3. roles \in [Roles -> RoleDoc] /\ roles' \in [Roles -> RoleDoc]
    BY WriteKeeps DEF IInv, TypeOK, Write
  <1>4. \A r \in Roles : /\ roles'[r].state = roles[r].state
                         /\ roles'[r].rank = roles[r].rank
                         /\ r # w => roles'[r].permissions = roles[r].permissions
    BY <1>1, <1>2, <1>3, SMT DEF RoleDoc
  <1>5. roles'[w].permissions = req[q].value
    BY <1>1, <1>2, <1>3, SMT DEF RoleDoc
  <1>6. /\ Known' = Known /\ ranks' = ranks
        /\ members' = members /\ default_permissions' = default_permissions
    BY <1>4 DEF Known, ranks, WriteRolePermission
  <1>7. Own(u)' = Own(u)
    BY <1>6 DEF Own
  <1>8. ApplyAll(default_permissions, new, ranks, tie)
           \ ApplyAll(default_permissions, old, ranks, tie) \subseteq req[q].perms
    <2>1. /\ Own(u) \in SUBSET Roles
          /\ ranks \in [Roles -> Nat]
          /\ tie \in [Roles -> Nat] /\ \A r, s \in Roles : tie[r] = tie[s] => r = s
      BY <1>3, ServerAssumption DEF Own, Known, ranks, RoleDoc
    <2>2. old \in [Own(u) -> Override] /\ new \in [Own(u) -> Override]
      BY <1>3, <2>1 DEF RoleDoc
    <2>3. /\ \A r \in Own(u) \ {w} : new[r] = old[r]
          /\ w \in Own(u) => MayOverride(req[q].perms, old[w], new[w])
      BY <1>1, <1>4, <1>5, <2>1
    <2> HIDE DEF old, new, w
    <2> QED BY <1>1, <2>1, <2>2, <2>3, OverrideGains, SMT
  <1>9. calculate_server_permissions(u, tie)' =
           LET base == ApplyAll(default_permissions, new, ranks, tie)
               live == base \ ((IF members[u].can_publish THEN {} ELSE {"Speak", "Video"})
                               \cup (IF members[u].can_receive THEN {} ELSE {"Listen"}))
           IN  IF Elevated(u) THEN GrantAllSafe
               ELSE IF members[u].timeout THEN live \cap ALLOW_IN_TIMEOUT ELSE live
    BY <1>6, <1>7 DEF calculate_server_permissions, Elevated
  <1>10. calculate_server_permissions(u, tie) =
           LET base == ApplyAll(default_permissions, old, ranks, tie)
               live == base \ ((IF members[u].can_publish THEN {} ELSE {"Speak", "Video"})
                               \cup (IF members[u].can_receive THEN {} ELSE {"Listen"}))
           IN  IF Elevated(u) THEN GrantAllSafe
               ELSE IF members[u].timeout THEN live \cap ALLOW_IN_TIMEOUT ELSE live
    BY DEF calculate_server_permissions
  <1> HIDE DEF old, new
  <1> QED BY <1>8, <1>9, <1>10

LEMMA DefaultGrantHeld ==
    ASSUME IInv, NEW q \in Requests, WriteDefault(q), NEW u \in Users, NEW tie \in Ties
    PROVE  calculate_server_permissions(u, tie)' \ calculate_server_permissions(u, tie)
              \subseteq req[q].perms
  <1> DEFINE over == [r \in Own(u) |-> roles[r].permissions]
             live(base) == base \ ((IF members[u].can_publish THEN {} ELSE {"Speak", "Video"})
                               \cup (IF members[u].can_receive THEN {} ELSE {"Listen"}))
             final(base) == IF Elevated(u) THEN GrantAllSafe
                            ELSE IF members[u].timeout THEN live(base) \cap ALLOW_IN_TIMEOUT
                            ELSE live(base)
             next == req[q].value
  <1>1. next \subseteq req[q].perms
    BY DEF IInv, PendingHeld, WriteDefault
  <1>2. ApplyAll(next, over, ranks, tie)
           \ ApplyAll(default_permissions, over, ranks, tie) \subseteq next
    BY DefaultGains
  <1>3. calculate_server_permissions(u, tie) =
           final(ApplyAll(default_permissions, over, ranks, tie))
    BY DEF calculate_server_permissions
  <1>4. calculate_server_permissions(u, tie)' = final(ApplyAll(next, over, ranks, tie))
    BY DEF calculate_server_permissions, WriteDefault, Own, Known, ranks, Elevated
  <1> HIDE DEF over, next
  <1> QED BY <1>1, <1>2, <1>3, <1>4

(* For every server and every interleaving: the permissions that members gain by
   set_role_permission and set_default_server_permissions are ones the caller had. *)
THEOREM ServerGrantsAreHeld == Spec => GrantsAreHeld
  <1> DEFINE Granted ==
        \A q \in Requests :
          WritesFresh(q) /\ req[q].op \in {"role_permission", "default_permissions"} =>
             \A u \in Users, tie \in Ties :
                calculate_server_permissions(u, tie)' \ calculate_server_permissions(u, tie)
                   \subseteq req[q].perms
  <1>1. Spec => []IInv
    BY InitHolds, StepHolds, PTL DEF Spec
  <1>2. IInv /\ [Next]_vars => [Granted]_vars
    <2> SUFFICES ASSUME IInv, [Next]_vars, NEW q \in Requests, WritesFresh(q),
                        req[q].op \in {"role_permission", "default_permissions"},
                        NEW u \in Users, NEW tie \in Ties
                 PROVE  calculate_server_permissions(u, tie)'
                           \ calculate_server_permissions(u, tie) \subseteq req[q].perms
      OBVIOUS
    <2>1. req[q].fresh /\ req'[q].op # req[q].op
      BY DEF WritesFresh
    <2> QED BY <2>1, GrantIsWrite, RoleGrantHeld, DefaultGrantHeld
  <1> QED BY <1>1, <1>2, PTL DEF Spec, GrantsAreHeld

-----------------------------------------------------------------------------
(* The order of the roles.  The roles that a caller may not move are the    *)
(* highest ones.  When each of them stays at its index, no other role finds *)
(* a place among them.                                                      *)

(* A role as high as one that u may not move cannot be moved by u either. *)
LEMMA FixedIsHighest ==
    ASSUME TypeOK, NEW u \in Users, NEW r \in Fixed(u), NEW s \in Known,
           roles[s].rank <= roles[r].rank
    PROVE  s \in Fixed(u)
  <1>1. \A t \in Roles : roles[t].rank \in Nat
    BY DEF TypeOK, RoleDoc
  <1>2. r \in Roles /\ s \in Roles /\ Own(u) \subseteq Roles
    BY DEF Fixed, Known, Own
  <1>3. \A t \in Own(u) : roles[t].rank < roles[s].rank => roles[t].rank < roles[r].rank
    BY <1>1, <1>2, SMT
  <1> QED BY <1>3 DEF Fixed, Outranks

KeepsOrder(u, doc) ==
    \A r \in Fixed(u), s \in Known : roles[r].rank < roles[s].rank => doc[r].rank < doc[s].rank

(* What edit_role_ranks accepts keeps the order of the roles it may not move:
   a role that came between them would share one of their indexes. *)
LEMMA AcceptedKeepsOrder ==
    ASSUME IInv, NEW u \in Users, NEW sort \in Ties,
           NEW order \in [Known -> 0 .. Cardinality(Known) - 1],
           \A r, s \in Known : order[r] = order[s] => r = s,
           \A r \in Fixed(u) : order[r] = Position(r, sort),
           NEW doc, \A r \in Known : doc[r].rank = order[r]
    PROVE  KeepsOrder(u, doc)
  <1> SUFFICES ASSUME NEW r \in Fixed(u), NEW s \in Known, roles[r].rank < roles[s].rank
               PROVE  doc[r].rank < doc[s].rank
    BY DEF KeepsOrder
  <1>a. ranks \in [Roles -> Nat] /\ \A t \in Roles : ranks[t] = roles[t].rank
    BY DEF ranks, IInv, TypeOK, RoleDoc
  <1>b. sort \in [Roles -> Nat] /\ Known \in SUBSET Roles /\ Fixed(u) \in SUBSET Known
    BY ServerAssumption DEF Known, Fixed
  <1>c. \A t \in Known : order[t] \in Nat
    BY KnownFinite, SMT
  <1>d. \A x \in Fixed(u), y \in Known : ranks[y] <= ranks[x] => y \in Fixed(u)
    <2> SUFFICES ASSUME NEW x \in Fixed(u), NEW y \in Known, ranks[y] <= ranks[x]
                 PROVE  y \in Fixed(u)
      OBVIOUS
    <2>1. roles[y].rank <= roles[x].rank
      BY <1>a, <1>b
    <2> QED BY <2>1, FixedIsHighest DEF IInv
  <1>e. r \in Known /\ ranks[r] < ranks[s] /\ doc[r].rank = order[r] /\ doc[s].rank = order[s]
    BY <1>a, <1>b
  <1> DEFINE B(t) == {x \in Known : Above(ranks, sort, x, t)}
             A == B(r) \cup {r}
             E == A \cup {s}
             p == order[r]
  <1>1. \A t \in Known : /\ ranks[t] \in Nat /\ sort[t] \in Nat /\ order[t] \in Nat
                     /\ IsFiniteSet(B(t)) /\ Cardinality(B(t)) \in Nat
    <2> SUFFICES ASSUME NEW t \in Known
                 PROVE  /\ ranks[t] \in Nat /\ sort[t] \in Nat /\ order[t] \in Nat
                        /\ IsFiniteSet(B(t)) /\ Cardinality(B(t)) \in Nat
      OBVIOUS
    <2>1. B(t) \in SUBSET Known
      OBVIOUS
    <2>2. IsFiniteSet(B(t))
      BY <2>1, KnownFinite, FS_Subset
    <2> HIDE DEF B
    <2>3. Cardinality(B(t)) \in Nat
      BY <2>2, FS_CardinalityType
    <2> QED BY <1>a, <1>b, <1>c, <2>2, <2>3
  <1>f. \A t \in Known : ranks[t] \in Nat /\ sort[t] \in Nat /\ order[t] \in Nat
    BY <1>1
  <1>2. \A t \in B(r) : ranks[t] <= ranks[r]
    BY <1>e, <1>f, SMT DEF Above
  <1>3. A \subseteq Fixed(u) /\ E \subseteq Known
    BY <1>2, <1>b, <1>d, <1>e
  <1>4. r \notin B(r)
    BY <1>e, <1>f, SMT DEF Above
  <1>5. s \notin A
    BY <1>2, <1>e, <1>f, SMT
  <1>6. \A t \in A : order[t] <= p
    <2> SUFFICES ASSUME NEW t \in A PROVE order[t] <= p
      OBVIOUS
    <2>1. CASE t = r
      BY <1>e, <1>f, <2>1, SMT
    <2>2. CASE t \in B(r)
      <3>1. B(t) \in SUBSET B(r)
        <4> SUFFICES ASSUME NEW x \in Known, Above(ranks, sort, x, t) PROVE Above(ranks, sort, x, r)
          OBVIOUS
        <4>1. Above(ranks, sort, t, r) /\ x \in Roles /\ t \in Roles /\ r \in Roles
          BY <1>b, <1>e, <2>2
        <4> QED BY <1>a, <1>b, <4>1, AboveTransitive
      <3>2. IsFiniteSet(B(r))
        BY <1>1, <1>e
      <3>3. order[t] = Cardinality(B(t)) /\ p = Cardinality(B(r))
        BY <1>3 DEF Position
      <3> HIDE DEF B
      <3>4. Cardinality(B(t)) <= Cardinality(B(r))
        BY <3>1, <3>2, FS_Subset
      <3> QED BY <3>3, <3>4
    <2> QED BY <2>1, <2>2
  <1>7. IsFiniteSet(E) /\ Cardinality(E) = p + 2 /\ p \in Nat
    <2>1. IsFiniteSet(B(r)) /\ Cardinality(B(r)) = p /\ p \in Nat
      BY <1>1, <1>e DEF Position
    <2> HIDE DEF B, p
    <2>2. IsFiniteSet(A) /\ Cardinality(A) = p + 1
      BY <1>4, <2>1, FS_AddElement
    <2> HIDE DEF A
    <2>3. IsFiniteSet(E) /\ Cardinality(E) = (p + 1) + 1
      BY <1>5, <2>2, FS_AddElement
    <2> QED BY <2>1, <2>3, SMT
  <1>8. IsFiniteSet(0 .. p) /\ Cardinality(0 .. p) = p + 1
    <2> HIDE DEF p
    <2>1. 0 \in Int /\ p \in Int /\ ~(0 > p) /\ p - 0 + 1 = p + 1
      BY <1>7, SMT
    <2>2. /\ IsFiniteSet(0 .. p)
          /\ Cardinality(0 .. p) = IF 0 > p THEN 0 ELSE p - 0 + 1
      BY <2>1, FS_Interval
    <2> QED BY <2>1, <2>2
  <1>9. ~(order[s] <= p)
    <2> SUFFICES ASSUME order[s] <= p PROVE FALSE
      OBVIOUS
    <2> DEFINE f == [t \in E |-> order[t]]
    <2>1. \A t \in E : order[t] \in 0 .. p
      <3> SUFFICES ASSUME NEW t \in E PROVE order[t] \in 0 .. p
        OBVIOUS
      <3>1. order[t] <= p
        BY <1>6
      <3>2. order[t] \in Nat /\ p \in Nat
        BY <1>1, <1>3
      <3> HIDE DEF p
      <3> QED BY <3>1, <3>2, SMT
    <2>2. f \in [E -> 0 .. p]
      BY <2>1
    <2>3. \A x, y \in E : f[x] = f[y] => x = y
      BY <1>3
    <2> HIDE DEF f, E, p
    <2>4. Cardinality(0 .. p) < Cardinality(E)
      BY <1>7, <1>8, SMT
    <2>5. \E x, y \in E : x # y /\ f[x] = f[y]
      BY <1>7, <1>8, <2>2, <2>4, FS_PigeonHole, SMT
    <2> QED BY <2>3, <2>5
  <1> QED BY <1>9, <1>e, <1>f, SMT

(* The inductive invariant: a fresh request is about to write ranks that keep it. *)
OrderHeld ==
    \A q \in Requests :
        req[q].op = "ranks" /\ req[q].fresh => KeepsOrder(req[q].user, req[q].doc)

LEMMA OthersStale ==
    ASSUME IInv, NEW p \in Requests,
           req'[p] = IF Pending(p) THEN [req[p] EXCEPT !.fresh = FALSE] ELSE req[p]
    PROVE  ~(req'[p].op = "ranks" /\ req'[p].fresh)
  <1>1. req[p] \in Request
    BY DEF IInv, TypeOK
  <1>2. CASE Pending(p)
    BY <1>1, <1>2, StaleTyped DEF Pending
  <1>3. CASE ~Pending(p)
    <2>1. req'[p] = Idle \/ req'[p] = Done
      BY <1>3 DEF Pending
    <2>2. req'[p].op # "ranks"
      BY <2>1, SMT DEF Idle, Done
    <2> QED BY <2>2
  <1> QED BY <1>2, <1>3

LEMMA CheckedOrder ==
    ASSUME IInv, OrderHeld, NEW q \in Requests, NEW x, Checked(q, x),
           x.op = "ranks" => KeepsOrder(x.user, x.doc)
    PROVE  OrderHeld'
  <1>1. req' = [req EXCEPT ![q] = x] /\ req \in [Requests -> Request]
    BY DEF Checked, IInv, TypeOK
  <1>2. ASSUME NEW u, NEW doc, KeepsOrder(u, doc) PROVE KeepsOrder(u, doc)'
    BY <1>2 DEF KeepsOrder, Checked, Fixed, Known, Outranks, Own, Elevated
  <1> SUFFICES ASSUME NEW p \in Requests, req'[p].op = "ranks", req'[p].fresh
               PROVE  KeepsOrder(req[p].user, req[p].doc)'
    BY DEF OrderHeld
  <1>3. PICK y : y = req'[p]
    OBVIOUS
  <1>4. KeepsOrder(y.user, y.doc)
    BY <1>1, <1>3 DEF OrderHeld
  <1>5. KeepsOrder(y.user, y.doc)'
    BY <1>2, <1>4
  <1> QED BY <1>3, <1>5 DEF KeepsOrder, Fixed, Outranks, Own, Elevated

(* Every route stops before its first write; edit_role_ranks has by then checked
   the order it is about to write. *)
LEMMA RouteOrder ==
    ASSUME IInv, OrderHeld, NEW q \in Requests, NEW u \in Users, NEW tie \in Ties,
           Route(q, u, tie)
    PROVE  OrderHeld'
  <1>1. ASSUME NEW order \in [Known -> 0 .. Cardinality(Known) - 1], NEW sort \in Ties,
               edit_role_ranks(q, u, order, tie, sort)
        PROVE  OrderHeld'
    <2>1. PICK d : d = [r \in Roles |-> IF r \in Known THEN [roles[r] EXCEPT !.rank = order[r]]
                                        ELSE NoRole]
      OBVIOUS
    <2>2. PICK x : x = [op |-> "ranks", user |-> u, fresh |-> TRUE, doc |-> d]
      OBVIOUS
    <2>3. Checked(q, x)
      BY <1>1, <2>1, <2>2 DEF edit_role_ranks
    <2>4. \A r \in Known : d[r].rank = order[r]
      <3> SUFFICES ASSUME NEW r \in Known PROVE d[r].rank = order[r]
        OBVIOUS
      <3>1. r \in Roles /\ roles[r] \in RoleDoc
        BY DEF Known, IInv, TypeOK
      <3>2. d[r] = [roles[r] EXCEPT !.rank = order[r]]
        BY <2>1, <3>1
      <3> QED BY <3>1, <3>2, SMT DEF RoleDoc
    <2>5. /\ \A r, s \in Known : order[r] = order[s] => r = s
          /\ \A r \in Fixed(u) : order[r] = Position(r, sort)
      BY <1>1 DEF edit_role_ranks
    <2>6. KeepsOrder(u, d)
      BY <2>4, <2>5, AcceptedKeepsOrder
    <2>7. x.user = u /\ x.doc = d
      BY <2>2
    <2> QED BY <2>3, <2>6, <2>7, CheckedOrder
  <1>2. ASSUME NEW x, Checked(q, x), x.op # "ranks"
        PROVE  OrderHeld'
    BY <1>2, CheckedOrder
  <1>3. ASSUME NEW r \in Roles, create_role(q, u, r, tie)
        PROVE  OrderHeld'
    BY <1>2, <1>3 DEF create_role
  <1>4. ASSUME NEW r \in Known, edit_role(q, u, r, tie)
        PROVE  OrderHeld'
    BY <1>2, <1>4 DEF edit_role
  <1>5. ASSUME NEW r \in Known, delete_role(q, u, r, tie)
        PROVE  OrderHeld'
    BY <1>2, <1>5 DEF delete_role
  <1>6. ASSUME NEW r \in Known, NEW v \in Overrides, set_role_permission(q, u, r, v, tie)
        PROVE  OrderHeld'
    BY <1>2, <1>6 DEF set_role_permission
  <1>7. ASSUME NEW v \in DefaultValues, set_default_server_permissions(q, u, v, tie)
        PROVE  OrderHeld'
    BY <1>2, <1>7 DEF set_default_server_permissions
  <1>8. ASSUME NEW t \in Users, NEW data \in DataMemberEdit, edit_member(q, u, t, data, tie)
        PROVE  OrderHeld'
    BY <1>2, <1>8 DEF edit_member
  <1>9. ASSUME NEW c \in Channels, NEW r \in Known, NEW v \in Overrides,
               set_channel_role_permissions(q, u, c, r, v, tie)
        PROVE  OrderHeld'
    BY <1>2, <1>9 DEF set_channel_role_permissions
  <1>10. ASSUME NEW c \in Channels, NEW v \in Overrides,
                set_default_channel_permissions(q, u, c, v, tie)
         PROVE  OrderHeld'
    BY <1>2, <1>10 DEF set_default_channel_permissions
  <1> QED BY <1>1, <1>3, <1>4, <1>5, <1>6, <1>7, <1>8, <1>9, <1>10 DEF Route

(* After a write nothing else that is in flight is fresh. *)
LEMMA WriteOrder ==
    ASSUME IInv, NEW q \in Requests, Write(q)
    PROVE  OrderHeld'
  <1>1. PICK next : Wrote(q, next) /\ next.op # "ranks"
    <2>1. Done.op # "ranks"
      BY SMT DEF Done
    <2>2. ASSUME DeletePullMembers(q)
          PROVE  [req[q] EXCEPT !.op = "delete_channels"].op # "ranks"
      BY <2>2, SMT DEF DeletePullMembers, IInv, TypeOK, Request, Idle, Done
    <2>3. ASSUME DeleteUnsetChannel(q)
          PROVE  [req[q] EXCEPT !.op = "delete_roles"].op # "ranks"
      BY <2>3, SMT DEF DeleteUnsetChannel, IInv, TypeOK, Request, Idle, Done
    <2>4. CASE DeletePullMembers(q)
      BY <2>2, <2>4 DEF DeletePullMembers
    <2>5. CASE DeleteUnsetChannel(q)
      BY <2>3, <2>5 DEF DeleteUnsetChannel
    <2> QED BY <2>1, <2>4, <2>5
            DEF Write, WriteRolePermission, WriteEdit, WriteDefault, insert_role,
                DeleteUnsetRole, set_role_ordering, update_member,
                set_channel_role_permission, WriteChannelDefault
  <1>2. ASSUME NEW p \in Requests PROVE ~(req'[p].op = "ranks" /\ req'[p].fresh)
    <2>1. CASE p = q
      BY <1>1, <2>1 DEF Wrote
    <2>2. CASE p # q
      <3>1. req'[p] = IF Pending(p) THEN [req[p] EXCEPT !.fresh = FALSE] ELSE req[p]
        BY <1>1, <2>2 DEF Wrote
      <3> QED BY <3>1, OthersStale
    <2> QED BY <2>1, <2>2
  <1> QED BY <1>2 DEF OrderHeld

LEMMA TimeoutOrder ==
    ASSUME IInv, NEW u \in Users, TimeoutEnds(u)
    PROVE  OrderHeld'
  <1>1. ASSUME NEW p \in Requests PROVE ~(req'[p].op = "ranks" /\ req'[p].fresh)
    <2>1. req'[p] = IF Pending(p) THEN [req[p] EXCEPT !.fresh = FALSE] ELSE req[p]
      BY DEF TimeoutEnds
    <2> QED BY <2>1, OthersStale
  <1> QED BY <1>1 DEF OrderHeld

LEMMA OrderStep == IInv /\ OrderHeld /\ [Next]_vars => OrderHeld'
  <1> SUFFICES ASSUME IInv, OrderHeld, [Next]_vars PROVE OrderHeld'
    OBVIOUS
  <1>1. CASE UNCHANGED vars
    BY <1>1 DEF OrderHeld, KeepsOrder, Fixed, Known, Outranks, Own, Elevated, vars
  <1>2. CASE Next
    BY <1>2, RouteOrder, WriteOrder, TimeoutOrder DEF Next
  <1> QED BY <1>1, <1>2

(* A reordering that moves on does so by its own write. *)
LEMMA ReorderIsWrite ==
    ASSUME IInv, [Next]_vars, NEW q \in Requests, req'[q].op # req[q].op, req[q].op = "ranks"
    PROVE  set_role_ordering(q)
  <1>1. CASE UNCHANGED vars
    BY <1>1 DEF vars
  <1>2. ASSUME NEW p \in Requests, req[p] = Idle, NEW u \in Users, NEW tie \in Ties,
               Route(p, u, tie)
        PROVE  FALSE
    BY <1>2, RouteServes, SMT DEF Idle
  <1>3. ASSUME NEW p \in Requests, Write(p)
        PROVE  p = q
    BY <1>3, WriteServes
  <1>4. ASSUME Write(q)
        PROVE  set_role_ordering(q)
    BY <1>4 DEF Write, WriteRolePermission, WriteEdit, WriteDefault, insert_role,
           DeletePullMembers, DeleteUnsetChannel, DeleteUnsetRole,
           update_member, set_channel_role_permission, WriteChannelDefault
  <1>5. ASSUME NEW u \in Users, TimeoutEnds(u)
        PROVE  FALSE
    BY <1>5, TimeoutServes
  <1> QED BY <1>1, <1>2, <1>3, <1>4, <1>5 DEF Next

(* For every server, every number of roles and every interleaving: edit_role_ranks
   changes neither the order of the roles that its caller may not move, nor brings
   another role above one of them, unless another write came in between. *)
THEOREM HierarchyAlwaysKept == Spec => HierarchyKept
  <1> DEFINE Kept ==
        \A q \in Requests :
          WritesFresh(q) /\ req[q].op = "ranks" =>
             \A r \in Fixed(req[q].user), s \in Known :
                roles[r].rank < roles[s].rank => roles'[r].rank < roles'[s].rank
  <1>1. Spec => []IInv
    BY InitHolds, StepHolds, PTL DEF Spec
  <1>2. Init => OrderHeld
    BY SMT DEF Init, OrderHeld, Idle
  <1>3. Spec => []OrderHeld
    BY <1>1, <1>2, OrderStep, PTL DEF Spec
  <1>4. IInv /\ OrderHeld /\ [Next]_vars => [Kept]_vars
    <2> SUFFICES ASSUME IInv, OrderHeld, [Next]_vars, NEW q \in Requests, WritesFresh(q),
                        req[q].op = "ranks"
                 PROVE  \A r \in Fixed(req[q].user), s \in Known :
                           roles[r].rank < roles[s].rank => roles'[r].rank < roles'[s].rank
      OBVIOUS
    <2>1. req[q].fresh /\ req'[q].op # req[q].op
      BY DEF WritesFresh
    <2>2. roles' = req[q].doc
      BY <2>1, ReorderIsWrite DEF set_role_ordering
    <2>3. KeepsOrder(req[q].user, req[q].doc)
      BY <2>1 DEF OrderHeld
    <2> QED BY <2>2, <2>3 DEF KeepsOrder
  <1> QED BY <1>1, <1>3, <1>4, PTL DEF Spec, HierarchyKept

-----------------------------------------------------------------------------
(***************************************************************************)
(* Stored files.  What holds of an entry that nobody raced for: at most one *)
(* upload writes its object, and the entry has no nonce until it did; what *)
(* links to the entry finds one with a nonce, and its object decrypts      *)
(* unless crond has just deleted it for the last file that refers to it.   *)
(***************************************************************************)
UploadState ==
    {v \in [step : Steps, content : Contents \cup {NoContent}] :
        v.content = NoContent <=> v.step \in {"idle", "done"}}

Writes(f, c) == upload[f].content = c /\ upload[f].step \in {"send", "commit"}
Links(f, c) == upload[f].content = c /\ upload[f].step \in {"link", "insert"}
Forgetting(c) == deletion.step = "forget" /\ deletion.entry = c
Finishing(f) == deletion.step = "finish" /\ deletion.file = f

FilesShape ==
    /\ files \in [FileIds -> File \cup {NoFile}]
    /\ hashes \in [Contents -> FileIds \cup {Empty, NoNonce}]
    /\ objects \in [Contents -> FileIds \cup {NoNonce}]
    /\ upload \in [FileIds -> UploadState]
    /\ use \in [UseSlots -> [file : FileIds \cup {NoFile}, parent : Parents \cup {NoParent}]]
    /\ deletion \in [step : Tasks, todo : SUBSET FileIds,
                     file : FileIds \cup {NoFile}, entry : Contents \cup {NoContent}]
    /\ IsFiniteSet({f \in FileIds : Exists(f)})
    /\ \A f \in FileIds : Exists(f) => upload[f].step = "done"
    /\ \A f \in deletion.todo : Exists(f)

(* The file whose entry crond deletes, and why its entry is that. *)
DeletedFine ==
    deletion.step \in {"fetch", "erase", "forget", "finish"} =>
        /\ deletion.file \in FileIds /\ Exists(deletion.file)
        /\ files[deletion.file].hash \in raced \cup {deletion.entry}

EntryFine(c) ==
    /\ \A f \in FileIds : Writes(f, c) =>
          hashes[c] = Empty /\ \A g \in FileIds : Writes(g, c) => g = f
    /\ \A f \in FileIds : Writes(f, c) /\ upload[f].step = "commit" => objects[c] = f
    /\ \A f \in FileIds : Links(f, c) => hashes[c] \in FileIds
    /\ hashes[c] \in FileIds => objects[c] = hashes[c] \/ Forgetting(c)
    /\ \A f \in References(c) : hashes[c] \in FileIds \/ Finishing(f)
    /\ Erasing(c) => References(c) \subseteq {deletion.file}

FilesIInv ==
    /\ FilesShape
    /\ DeletedFine
    /\ \A c \in Contents \ raced : EntryFine(c)

(* Steps that leave what concerns an entry alone. *)
LEMMA EntryQuiet ==
    ASSUME NEW c \in Contents, EntryFine(c), hashes'[c] = hashes[c], objects'[c] = objects[c],
           \A f \in FileIds : (Writes(f, c) \/ Links(f, c))' => upload'[f] = upload[f],
           References(c)' \subseteq References(c),
           Forgetting(c) => Forgetting(c)',
           \A f \in References(c)' : Finishing(f) => Finishing(f)',
           Erasing(c)' => Erasing(c) /\ deletion'.file = deletion.file
    PROVE  EntryFine(c)'
<1>1. \A f \in FileIds : (Writes(f, c)' => Writes(f, c)) /\ (Links(f, c)' => Links(f, c))
  BY DEF Writes, Links
<1>2. /\ \A f \in FileIds : Writes(f, c)' =>
            hashes'[c] = Empty /\ \A g \in FileIds : Writes(g, c)' => g = f
      /\ \A f \in FileIds : Writes(f, c)' /\ upload'[f].step = "commit" => objects'[c] = f
      /\ \A f \in FileIds : Links(f, c)' => hashes'[c] \in FileIds
  BY <1>1 DEF EntryFine
<1>3. hashes'[c] \in FileIds => objects'[c] = hashes'[c] \/ Forgetting(c)'
  BY DEF EntryFine
<1>4. \A f \in References(c)' : hashes'[c] \in FileIds \/ Finishing(f)'
  BY DEF EntryFine
<1>5. Erasing(c)' => References(c)' \subseteq {deletion'.file}
  BY DEF EntryFine
<1> QED
  BY <1>2, <1>3, <1>4, <1>5 DEF EntryFine

(* Writes to a record that keep its hash. *)
LEMMA RecordsKept ==
    ASSUME FilesIInv, files' \in [FileIds -> File \cup {NoFile}],
           \A f \in FileIds : /\ files'[f] = NoFile <=> files[f] = NoFile
                              /\ Exists(f) => files'[f].hash = files[f].hash,
           use' \in [UseSlots -> [file : FileIds \cup {NoFile}, parent : Parents \cup {NoParent}]],
           UNCHANGED <<hashes, objects, upload, deletion, raced>>
    PROVE  FilesIInv'
<1>1. /\ \A f \in FileIds : Exists(f)' <=> Exists(f)
      /\ {f \in FileIds : Exists(f)}' = {f \in FileIds : Exists(f)}
  BY DEF Exists
<1>2. FilesShape'
  BY <1>1 DEF FilesIInv, FilesShape
<1>3. DeletedFine'
  BY <1>1 DEF FilesIInv, DeletedFine
<1>4. ASSUME NEW c \in Contents \ raced PROVE EntryFine(c)'
  <2>1. References(c)' = References(c)
    BY <1>1 DEF References
  <2> QED
    BY <2>1, EntryQuiet DEF FilesIInv, Forgetting, Finishing, Erasing
<1> QED
  BY <1>2, <1>3, <1>4 DEF FilesIInv
-----------------------------------------------------------------------------
(* autumn *)

(* An upload goes on to v. *)
LEMMA UploadGoes ==
    ASSUME FilesShape, NEW f \in FileIds, NEW v \in UploadState, upload' = [upload EXCEPT ![f] = v]
    PROVE  /\ upload' \in [FileIds -> UploadState] /\ upload'[f] = v
           /\ \A g \in FileIds \ {f} : upload'[g] = upload[g]
  BY DEF FilesShape

(* A step of an upload that touches no record: what is left to show is what *)
(* holds of the entry it is about.                                         *)
LEMMA UploadStep ==
    ASSUME FilesIInv, NEW f \in FileIds, NEW v \in UploadState, upload[f].step # "done",
           upload' = [upload EXCEPT ![f] = v], raced \subseteq raced',
           hashes' \in [Contents -> FileIds \cup {Empty, NoNonce}],
           objects' \in [Contents -> FileIds \cup {NoNonce}],
           NEW x,
           \A c \in Contents \ {x} : hashes'[c] = hashes[c] /\ objects'[c] = objects[c],
           v.step \in {"send", "commit", "link", "insert"} => v.content = x,
           x \in Contents \ raced' => EntryFine(x)',
           UNCHANGED <<files, use, deletion>>
    PROVE  FilesIInv'
<1>1. /\ upload' \in [FileIds -> UploadState] /\ upload'[f] = v
      /\ \A g \in FileIds \ {f} : upload'[g] = upload[g]
  BY UploadGoes DEF FilesIInv
<1>2. \A g \in FileIds : (Exists(g)' <=> Exists(g)) /\ (Exists(g) => g # f)
  BY DEF FilesIInv, FilesShape, Exists
<1>3. {g \in FileIds : Exists(g)}' = {g \in FileIds : Exists(g)}
  BY <1>2
<1>4. FilesShape'
  BY <1>1, <1>2, <1>3 DEF FilesIInv, FilesShape
<1>5. DeletedFine'
  BY <1>2 DEF FilesIInv, DeletedFine
<1>6. ASSUME NEW c \in Contents \ raced', c # x PROVE EntryFine(c)'
  <2>1. References(c)' = References(c)
    BY <1>2 DEF References
  <2>2. \A g \in FileIds : (Writes(g, c) \/ Links(g, c))' => upload'[g] = upload[g]
    BY <1>1, <1>6 DEF Writes, Links
  <2>3. EntryFine(c)
    BY DEF FilesIInv
  <2> QED
    BY <1>6, <2>1, <2>2, <2>3, EntryQuiet DEF Forgetting, Finishing, Erasing
<1> QED
  BY <1>4, <1>5, <1>6 DEF FilesIInv

LEMMA upload_fileKeeps ==
    ASSUME FilesIInv, NEW f \in FileIds, NEW c \in Contents, upload_file(f, c)
    PROVE  FilesIInv'
<1>1. /\ upload[f].step = "idle" /\ UNCHANGED <<files, hashes, objects, use, deletion>>
      /\ upload[f].step # "done"
  BY DEF upload_file
<1>2. /\ hashes' \in [Contents -> FileIds \cup {Empty, NoNonce}]
      /\ objects' \in [Contents -> FileIds \cup {NoNonce}]
  BY <1>1 DEF FilesIInv, FilesShape
<1>3. CASE upload' = [upload EXCEPT ![f] = [step |-> "reserve", content |-> c]] /\ UNCHANGED raced
  <2> DEFINE v == [step |-> "reserve", content |-> c]
  <2>1. v \in UploadState /\ v.step = "reserve"
    BY ContentlessAssumption DEF UploadState, Steps
  <2>2. upload' = [upload EXCEPT ![f] = v]
    BY <1>3
  <2> HIDE DEF v
  <2>3. NoContent \notin Contents
    BY ContentlessAssumption
  <2> QED
    BY <1>1, <1>2, <1>3, <2>1, <2>2, <2>3, UploadStep
<1>4. ASSUME NEW e \in Found(c), hashes[e] # Empty, UNCHANGED raced,
             upload' = [upload EXCEPT ![f] = [step |-> "link", content |-> e]]
      PROVE  FilesIInv'
  <2>1. e \in Contents /\ hashes[e] \in FileIds
    BY <1>4 DEF Found, FilesIInv, FilesShape
  <2> DEFINE v == [step |-> "link", content |-> e]
  <2>2. v \in UploadState /\ v.step = "link" /\ v.content = e
    BY <2>1, ContentlessAssumption DEF UploadState, Steps
  <2>3. upload' = [upload EXCEPT ![f] = v]
    BY <1>4
  <2> HIDE DEF v
  <2>4. /\ upload'[f] = v /\ \A g \in FileIds \ {f} : upload'[g] = upload[g]
    BY <2>2, <2>3, UploadGoes DEF FilesIInv
  <2>5. /\ \A g \in FileIds : Writes(g, e)' => Writes(g, e) /\ upload'[g] = upload[g]
    BY <2>2, <2>4 DEF Writes
  <2>6. References(e)' = References(e)
    BY <1>1 DEF References, Exists
  <2>7. ASSUME e \notin raced PROVE EntryFine(e)'
    <3>1. EntryFine(e)
      BY <2>1, <2>7 DEF FilesIInv
    <3> QED
      BY <1>1, <2>1, <2>5, <2>6, <3>1 DEF EntryFine, Forgetting, Finishing, Erasing
  <2> QED
    BY <1>1, <1>2, <1>4, <2>2, <2>3, <2>7, UploadStep
<1>5. ASSUME NEW e \in Found(c), hashes[e] = Empty,
             upload' = [upload EXCEPT ![f] = [step |-> "send", content |-> c]],
             raced' = IF e # c \/ InFlight(c) # {} THEN raced \cup {c, e} ELSE raced
      PROVE  FilesIInv'
  <2> DEFINE v == [step |-> "send", content |-> c]
  <2>1. v \in UploadState /\ v.step = "send" /\ v.content = c
    BY ContentlessAssumption DEF UploadState, Steps
  <2>2. upload' = [upload EXCEPT ![f] = v]
    BY <1>5
  <2> HIDE DEF v
  <2>3. /\ upload'[f] = v /\ \A g \in FileIds \ {f} : upload'[g] = upload[g]
    BY <2>1, <2>2, UploadGoes DEF FilesIInv
  <2>4. raced \subseteq raced' /\ (c \notin raced' => e = c /\ InFlight(c) = {})
    BY <1>5
  <2>5. References(c)' = References(c)
    BY <1>1 DEF References, Exists
  <2>6. ASSUME c \notin raced' PROVE EntryFine(c)'
    <3>1. EntryFine(c) /\ hashes'[c] = Empty
      BY <1>1, <1>5, <2>4, <2>6 DEF FilesIInv
    <3>2. \A g \in FileIds : ~Writes(g, c) /\ ~Links(g, c)
      BY <2>4, <2>6 DEF InFlight, Writes, Links
    <3>3. \A g \in FileIds : (Writes(g, c) \/ Links(g, c))' => g = f
      BY <2>3, <3>2 DEF Writes, Links
    <3>4. ~Links(f, c)' /\ upload'[f].step # "commit"
      BY <2>1, <2>3 DEF Links
    <3>5. Empty \notin FileIds
      BY ContentlessAssumption
    <3> QED
      BY <1>1, <2>5, <3>1, <3>3, <3>4, <3>5 DEF EntryFine, Forgetting, Finishing, Erasing
  <2> QED
    BY <1>1, <1>2, <2>1, <2>2, <2>4, <2>6, UploadStep
<1> QED
  BY <1>3, <1>4, <1>5 DEF upload_file

(* An upload that ends, by an error or because the entry is another's. *)
LEMMA UploadEnds ==
    ASSUME FilesIInv, NEW f \in FileIds, upload[f].step # "done", End(f),
           UNCHANGED <<files, hashes, objects, use, deletion, raced>>
    PROVE  FilesIInv'
<1> DEFINE v == [step |-> "done", content |-> NoContent]
<1>1. v \in UploadState /\ v.step = "done"
  BY ContentlessAssumption DEF UploadState, Steps
<1>2. upload' = [upload EXCEPT ![f] = v]
  BY DEF End
<1> HIDE DEF v
<1>3. /\ hashes' \in [Contents -> FileIds \cup {Empty, NoNonce}]
      /\ objects' \in [Contents -> FileIds \cup {NoNonce}]
      /\ NoContent \notin Contents
  BY ContentlessAssumption DEF FilesIInv, FilesShape
<1> QED
  BY <1>1, <1>2, <1>3, UploadStep

(* The next step of an upload is about the same content. *)
LEMMA UploadNext ==
    ASSUME FilesShape, NEW f \in FileIds, upload[f].step \notin {"idle", "done"},
           NEW step \in Steps \ {"idle", "done"}, Go(f, step)
    PROVE  \E v \in UploadState : /\ v.step = step /\ v.content = upload[f].content
                                  /\ upload' = [upload EXCEPT ![f] = v]
<1> DEFINE v == [upload[f] EXCEPT !.step = step]
<1>1. upload[f] \in UploadState
  BY DEF FilesShape
<1>2. v \in UploadState /\ v.step = step /\ v.content = upload[f].content
  BY <1>1 DEF UploadState
<1>3. upload' = [upload EXCEPT ![f] = v]
  BY DEF Go
<1> QED
  BY <1>2, <1>3

LEMMA insert_attachment_hashKeeps ==
    ASSUME FilesIInv, NEW f \in FileIds, insert_attachment_hash(f)
    PROVE  FilesIInv'
<1>0. PICK c : c = upload[f].content
  OBVIOUS
<1>1. /\ upload[f].step = "reserve" /\ upload[f].step # "done"
      /\ UNCHANGED <<files, objects, use, deletion, raced>>
  BY DEF insert_attachment_hash
<1>2. CASE hashes[c] = NoNonce /\ hashes' = [hashes EXCEPT ![c] = Empty] /\ Go(f, "send")
  <2>1. PICK v \in UploadState : /\ v.step = "send" /\ v.content = c
                                 /\ upload' = [upload EXCEPT ![f] = v]
    <3>1. "send" \in Steps \ {"idle", "done"} /\ upload[f].step \notin {"idle", "done"}
      BY <1>1, SMT DEF Steps
    <3> QED
      BY <1>0, <1>2, <3>1, UploadNext, SMT DEF FilesIInv
  <2>2. /\ upload'[f] = v /\ \A g \in FileIds \ {f} : upload'[g] = upload[g]
    BY <2>1, UploadGoes DEF FilesIInv
  <2>3. /\ hashes' \in [Contents -> FileIds \cup {Empty, NoNonce}]
        /\ objects' \in [Contents -> FileIds \cup {NoNonce}]
        /\ \A d \in Contents \ {c} : hashes'[d] = hashes[d] /\ objects'[d] = objects[d]
    BY <1>1, <1>2 DEF FilesIInv, FilesShape
  <2>4. ASSUME c \in Contents \ raced PROVE EntryFine(c)'
    <3>1. EntryFine(c) /\ hashes'[c] = Empty
      BY <1>2, <2>4 DEF FilesIInv, FilesShape
    <3>2. Empty \notin FileIds /\ NoNonce \notin FileIds /\ NoNonce # Empty
      BY ContentlessAssumption
    <3>3. \A g \in FileIds : ~Writes(g, c) /\ ~Links(g, c)
      BY <1>2, <3>1, <3>2 DEF EntryFine
    <3>4. \A g \in FileIds : (Writes(g, c) \/ Links(g, c))' => g = f
      BY <2>2, <3>3 DEF Writes, Links
    <3>5. ~Links(f, c)' /\ upload'[f].step # "commit"
      BY <2>1, <2>2 DEF Links
    <3>6. References(c)' = References(c)
      BY <1>1 DEF References, Exists
    <3> QED
      BY <1>1, <1>2, <3>1, <3>2, <3>4, <3>5, <3>6 DEF EntryFine, Forgetting, Finishing, Erasing
  <2> QED
    BY <1>1, <2>1, <2>3, <2>4, UploadStep
<1>3. CASE End(f) /\ UNCHANGED hashes
  BY <1>1, <1>3, UploadEnds
<1> QED
  BY <1>0, <1>2, <1>3 DEF insert_attachment_hash

LEMMA upload_to_s3Keeps ==
    ASSUME FilesIInv, NEW f \in FileIds, upload_to_s3(f)
    PROVE  FilesIInv'
<1>0. PICK c : c = upload[f].content
  OBVIOUS
<1>1. /\ upload[f].step = "send" /\ upload[f].step # "done" /\ Go(f, "commit")
      /\ objects' = [objects EXCEPT ![c] = f]
      /\ UNCHANGED <<files, hashes, use, deletion, raced>>
  BY <1>0 DEF upload_to_s3
<1>2. PICK v \in UploadState : /\ v.step = "commit" /\ v.content = c
                               /\ upload' = [upload EXCEPT ![f] = v]
  <2>1. "commit" \in Steps \ {"idle", "done"} /\ upload[f].step \notin {"idle", "done"}
    BY <1>1, SMT DEF Steps
  <2> QED
    BY <1>0, <1>1, <2>1, UploadNext, SMT DEF FilesIInv
<1>3. /\ upload'[f] = v /\ \A g \in FileIds \ {f} : upload'[g] = upload[g]
  BY <1>2, UploadGoes DEF FilesIInv
<1>4. /\ hashes' \in [Contents -> FileIds \cup {Empty, NoNonce}]
      /\ objects' \in [Contents -> FileIds \cup {NoNonce}]
      /\ \A d \in Contents \ {c} : hashes'[d] = hashes[d] /\ objects'[d] = objects[d]
  BY <1>1 DEF FilesIInv, FilesShape
<1>5. ASSUME c \in Contents \ raced PROVE EntryFine(c)'
  <2>1. EntryFine(c) /\ objects'[c] = f /\ Writes(f, c)
    BY <1>0, <1>1, <1>5 DEF FilesIInv, FilesShape, Writes
  <2>2. hashes[c] = Empty /\ hashes'[c] = Empty /\ \A g \in FileIds : Writes(g, c) => g = f
    BY <1>1, <2>1 DEF EntryFine
  <2>3. \A g \in FileIds : Writes(g, c)' => g = f
    BY <1>3, <2>2 DEF Writes
  <2>4. \A g \in FileIds : ~Links(g, c)'
    <3>1. ~Links(f, c)'
      BY <1>2, <1>3 DEF Links
    <3>2. Empty \notin FileIds
      BY ContentlessAssumption
    <3>3. \A g \in FileIds : ~Links(g, c)
      BY <2>1, <2>2, <3>2 DEF EntryFine
    <3> QED
      BY <1>3, <3>1, <3>3 DEF Links
  <2>5. References(c)' = References(c) /\ Empty \notin FileIds
    BY <1>1, ContentlessAssumption DEF References, Exists
  <2> QED
    BY <1>1, <2>1, <2>2, <2>3, <2>4, <2>5 DEF EntryFine, Forgetting, Finishing, Erasing
<1> QED
  BY <1>1, <1>2, <1>4, <1>5, UploadStep

LEMMA set_attachment_hash_nonceKeeps ==
    ASSUME FilesIInv, NEW f \in FileIds, set_attachment_hash_nonce(f)
    PROVE  FilesIInv'
<1>0. PICK c : c = upload[f].content
  OBVIOUS
<1>1. /\ upload[f].step = "commit" /\ upload[f].step # "done" /\ Go(f, "insert")
      /\ hashes' = IF hashes[c] = NoNonce THEN hashes ELSE [hashes EXCEPT ![c] = f]
      /\ UNCHANGED <<files, objects, use, deletion, raced>>
  BY <1>0 DEF set_attachment_hash_nonce
<1>2. PICK v \in UploadState : /\ v.step = "insert" /\ v.content = c
                               /\ upload' = [upload EXCEPT ![f] = v]
  <2>1. "insert" \in Steps \ {"idle", "done"} /\ upload[f].step \notin {"idle", "done"}
    BY <1>1, SMT DEF Steps
  <2> QED
    BY <1>0, <1>1, <2>1, UploadNext, SMT DEF FilesIInv
<1>3. /\ upload'[f] = v /\ \A g \in FileIds \ {f} : upload'[g] = upload[g]
  BY <1>2, UploadGoes DEF FilesIInv
<1>4. /\ hashes' \in [Contents -> FileIds \cup {Empty, NoNonce}]
      /\ objects' \in [Contents -> FileIds \cup {NoNonce}]
      /\ \A d \in Contents \ {c} : hashes'[d] = hashes[d] /\ objects'[d] = objects[d]
  BY <1>1 DEF FilesIInv, FilesShape
<1>5. ASSUME c \in Contents \ raced PROVE EntryFine(c)'
  <2>1. EntryFine(c) /\ Writes(f, c)
    BY <1>0, <1>1, <1>5 DEF FilesIInv, Writes
  <2>2. hashes[c] = Empty /\ objects[c] = f /\ \A g \in FileIds : Writes(g, c) => g = f
    BY <1>1, <2>1 DEF EntryFine
  <2>3. NoNonce # Empty
    BY ContentlessAssumption
  <2>4. hashes'[c] = f /\ objects'[c] = f
    BY <1>1, <1>5, <2>2, <2>3 DEF FilesIInv, FilesShape
  <2>5. \A g \in FileIds : ~Writes(g, c)'
    BY <1>2, <1>3, <2>2 DEF Writes
  <2>6. References(c)' = References(c)
    BY <1>1 DEF References, Exists
  <2> QED
    BY <1>1, <2>1, <2>4, <2>5, <2>6 DEF EntryFine, Forgetting, Finishing, Erasing
<1> QED
  BY <1>1, <1>2, <1>4, <1>5, UploadStep

LEMMA insert_attachmentKeeps ==
    ASSUME FilesIInv, NEW f \in FileIds, insert_attachment(f)
    PROVE  FilesIInv'
<1>a. upload[f] \in UploadState /\ upload[f].step \in {"link", "insert"}
  BY DEF insert_attachment, FilesIInv, FilesShape
<1>0. PICK c \in Contents : c = upload[f].content
  BY <1>a DEF UploadState
<1> DEFINE d == [hash |-> c, used_for |-> NoParent, deleted |-> FALSE, reported |-> FALSE, old |-> FALSE]
           v == [step |-> "done", content |-> NoContent]
<1>1. /\ files' = [files EXCEPT ![f] = d]
      /\ raced' = IF Erasing(c) THEN raced \cup {c} ELSE raced
      /\ upload' = [upload EXCEPT ![f] = v]
      /\ UNCHANGED <<hashes, objects, use, deletion>>
  BY <1>0 DEF insert_attachment, End
<1>2. v \in UploadState /\ v.step = "done"
  BY ContentlessAssumption DEF UploadState, Steps
<1>3. d \in File /\ d.hash = c /\ d # NoFile
  <2>1. d \in File /\ d.hash = c
    BY DEF File
  <2> QED
    BY <2>1, ContentlessAssumption
<1> HIDE DEF v, d
<1>4. /\ upload' \in [FileIds -> UploadState] /\ upload'[f] = v
      /\ \A g \in FileIds \ {f} : upload'[g] = upload[g]
  BY <1>1, <1>2, UploadGoes DEF FilesIInv
<1>5. /\ files' \in [FileIds -> File \cup {NoFile}] /\ files'[f] = d
      /\ \A g \in FileIds \ {f} : files'[g] = files[g]
  BY <1>1, <1>3 DEF FilesIInv, FilesShape
<1>6. ~Exists(f) /\ Exists(f)' /\ \A g \in FileIds \ {f} : Exists(g)' <=> Exists(g)
  BY <1>a, <1>3, <1>5 DEF FilesIInv, FilesShape, Exists
<1>7. FilesShape'
  <2>1. {g \in FileIds : Exists(g)}' = {g \in FileIds : Exists(g)} \cup {f}
    BY <1>6
  <2>2. IsFiniteSet({g \in FileIds : Exists(g)}')
    <3>1. PICK S : S = {g \in FileIds : Exists(g)}
      OBVIOUS
    <3>2. IsFiniteSet(S)
      BY <3>1 DEF FilesIInv, FilesShape
    <3>3. IsFiniteSet(S \cup {f})
      BY <3>2, FS_AddElement
    <3> QED
      BY <2>1, <3>1, <3>3
  <2>3. \A g \in FileIds : Exists(g)' => upload'[g].step = "done"
    BY <1>2, <1>4, <1>6 DEF FilesIInv, FilesShape
  <2>4. \A g \in deletion'.todo : Exists(g)'
    BY <1>1, <1>6 DEF FilesIInv, FilesShape, Exists
  <2> QED
    BY <1>1, <1>4, <1>5, <2>2, <2>3, <2>4 DEF FilesIInv, FilesShape
<1>8. DeletedFine'
  BY <1>1, <1>5, <1>6 DEF FilesIInv, DeletedFine
<1>9. /\ References(c)' = References(c) \cup {f}
      /\ \A e \in Contents \ {c} : References(e)' \subseteq References(e)
  BY <1>3, <1>5, <1>6 DEF References
<1>10. \A g \in FileIds, e \in Contents : (Writes(g, e) \/ Links(g, e))' => upload'[g] = upload[g]
  BY <1>2, <1>4 DEF Writes, Links
<1>11. ASSUME NEW e \in Contents \ raced' PROVE EntryFine(e)'
  <2>1. EntryFine(e)
    BY <1>1 DEF FilesIInv
  <2>2. CASE e # c
    BY <1>1, <1>9, <1>10, <2>1, <2>2, EntryQuiet DEF Forgetting, Finishing, Erasing
  <2>3. CASE e = c
    <3>1. ~Erasing(c) /\ Links(f, c)
      BY <1>a, <1>0, <1>1, <2>3 DEF Links
    <3>2. hashes[c] \in FileIds
      BY <2>1, <2>3, <3>1 DEF EntryFine
    <3>3. \A g \in FileIds : (Writes(g, c)' => Writes(g, c)) /\ (Links(g, c)' => Links(g, c))
      BY <1>10 DEF Writes, Links
    <3>4. \A g \in FileIds : ~Writes(g, c)'
      BY <2>1, <2>3, <3>2, <3>3, ContentlessAssumption DEF EntryFine
    <3> QED
      BY <1>1, <2>1, <2>3, <3>1, <3>2, <3>4 DEF EntryFine, Forgetting, Finishing, Erasing
  <2> QED
    BY <2>2, <2>3
<1> QED
  BY <1>7, <1>8, <1>11 DEF FilesIInv

-----------------------------------------------------------------------------
(* delta, and the pruning of files *)

(* One record is written, and keeps its hash. *)
LEMMA RecordWritten ==
    ASSUME FilesIInv, NEW f \in FileIds, Exists(f), NEW d \in File, d.hash = files[f].hash,
           files' = [files EXCEPT ![f] = d],
           use' \in [UseSlots -> [file : FileIds \cup {NoFile}, parent : Parents \cup {NoParent}]],
           UNCHANGED <<hashes, objects, upload, deletion, raced>>
    PROVE  FilesIInv'
<1>1. d # NoFile /\ files[f] # NoFile
  BY ContentlessAssumption DEF Exists
<1>2. /\ files' \in [FileIds -> File \cup {NoFile}] /\ files'[f] = d
      /\ \A g \in FileIds \ {f} : files'[g] = files[g]
  BY DEF FilesIInv, FilesShape
<1>3. \A g \in FileIds : /\ files'[g] = NoFile <=> files[g] = NoFile
                         /\ Exists(g) => files'[g].hash = files[g].hash
  BY <1>1, <1>2
<1> QED
  BY <1>2, <1>3, RecordsKept

LEMMA AgeKeeps ==
    ASSUME FilesIInv, NEW f \in FileIds,
           Age(f) \/ mark_attachment_as_deleted(f) \/ mark_attachment_as_reported(f)
    PROVE  FilesIInv'
<1>1. /\ Exists(f) /\ UNCHANGED <<hashes, objects, upload, use, deletion, raced>>
      /\ \/ files' = [files EXCEPT ![f] = [files[f] EXCEPT !.old = TRUE]]
         \/ files' = [files EXCEPT ![f] = [files[f] EXCEPT !.deleted = TRUE]]
         \/ files' = [files EXCEPT ![f] = [files[f] EXCEPT !.reported = TRUE]]
  BY DEF Age, mark_attachment_as_deleted, mark_attachment_as_reported
<1>2. files[f] \in File
  BY <1>1 DEF FilesIInv, FilesShape, Exists
<1>3. PICK d \in File : d.hash = files[f].hash /\ files' = [files EXCEPT ![f] = d]
  BY <1>1, <1>2 DEF File
<1>4. use' \in [UseSlots -> [file : FileIds \cup {NoFile}, parent : Parents \cup {NoParent}]]
  BY <1>1 DEF FilesIInv, FilesShape
<1> QED
  BY <1>1, <1>3, <1>4, RecordWritten

LEMMA find_attachmentKeeps ==
    ASSUME FilesIInv, NEW s \in UseSlots, NEW f \in FileIds, NEW p \in Parents, find_attachment(s, f, p)
    PROVE  FilesIInv'
<1>1. /\ use' = [use EXCEPT ![s] = [file |-> f, parent |-> p]]
      /\ UNCHANGED <<files, hashes, objects, upload, deletion, raced>>
  BY DEF find_attachment
<1>2. use' \in [UseSlots -> [file : FileIds \cup {NoFile}, parent : Parents \cup {NoParent}]]
  BY <1>1 DEF FilesIInv, FilesShape
<1>3. files' \in [FileIds -> File \cup {NoFile}]
  BY <1>1 DEF FilesIInv, FilesShape
<1> QED
  BY <1>1, <1>2, <1>3, RecordsKept

LEMMA use_attachmentKeeps ==
    ASSUME FilesIInv, NEW s \in UseSlots, use_attachment(s)
    PROVE  FilesIInv'
<1>1. PICK f, p : f = use[s].file /\ p = use[s].parent
  OBVIOUS
<1>2. /\ f # NoFile /\ use' = [use EXCEPT ![s] = NoUse]
      /\ files' = IF Exists(f) THEN [files EXCEPT ![f].used_for = p] ELSE files
      /\ UNCHANGED <<hashes, objects, upload, deletion, raced>>
  BY <1>1 DEF use_attachment
<1>3. f \in FileIds /\ p \in Parents \cup {NoParent}
  BY <1>1, <1>2 DEF FilesIInv, FilesShape
<1>4. use' \in [UseSlots -> [file : FileIds \cup {NoFile}, parent : Parents \cup {NoParent}]]
  BY <1>2 DEF FilesIInv, FilesShape, NoUse
<1>5. CASE Exists(f)
  <2> DEFINE d == [files[f] EXCEPT !.used_for = p]
  <2>1. files[f] \in File
    BY <1>3, <1>5 DEF FilesIInv, FilesShape, Exists
  <2>2. d \in File /\ d.hash = files[f].hash
    BY <1>3, <2>1 DEF File
  <2>3. files' = [files EXCEPT ![f] = d]
    BY <1>2, <1>5
  <2> HIDE DEF d
  <2> QED
    BY <1>2, <1>3, <1>4, <1>5, <2>2, <2>3, RecordWritten
<1>6. CASE ~Exists(f)
  <2>1. files' = files /\ files' \in [FileIds -> File \cup {NoFile}]
    BY <1>2, <1>6 DEF FilesIInv, FilesShape
  <2> QED
    BY <1>2, <1>4, <2>1, RecordsKept
<1> QED
  BY <1>5, <1>6

LEMMA PruneKeeps ==
    ASSUME FilesIInv, fetch_dangling_files \/ filter_by_age \/ mark_attachments_as_deleted
    PROVE  FilesIInv'
<1>1. UNCHANGED <<hashes, objects, upload, use, deletion, raced>>
  BY DEF fetch_dangling_files, filter_by_age, mark_attachments_as_deleted
<1>2. use' \in [UseSlots -> [file : FileIds \cup {NoFile}, parent : Parents \cup {NoParent}]]
  BY <1>1 DEF FilesIInv, FilesShape
<1>3. CASE UNCHANGED files
  <2>1. files' \in [FileIds -> File \cup {NoFile}]
    BY <1>3 DEF FilesIInv, FilesShape
  <2> QED
    BY <1>1, <1>2, <1>3, <2>1, RecordsKept
<1>4. CASE mark_attachments_as_deleted
  <2> DEFINE d(f) == IF f \in prune.ids /\ Exists(f) THEN [files[f] EXCEPT !.deleted = TRUE] ELSE files[f]
  <2>1. files' = [f \in FileIds |-> d(f)]
    BY <1>4 DEF mark_attachments_as_deleted
  <2>2. ASSUME NEW f \in FileIds
        PROVE  /\ d(f) \in File \cup {NoFile} /\ (d(f) = NoFile <=> files[f] = NoFile)
               /\ Exists(f) => d(f).hash = files[f].hash
    <3>1. CASE Exists(f)
      <4>1. files[f] \in File /\ NoFile \notin File
        BY <3>1, ContentlessAssumption DEF FilesIInv, FilesShape, Exists
      <4>2. [files[f] EXCEPT !.deleted = TRUE] \in File /\ [files[f] EXCEPT !.deleted = TRUE].hash = files[f].hash
        BY <4>1 DEF File
      <4> QED
        BY <4>1, <4>2
    <3>2. CASE ~Exists(f)
      BY <3>2 DEF Exists
    <3> QED
      BY <3>1, <3>2
  <2> HIDE DEF d
  <2>3. /\ files' \in [FileIds -> File \cup {NoFile}]
        /\ \A f \in FileIds : files'[f] = d(f)
    BY <2>1, <2>2
  <2> QED
    BY <1>1, <1>2, <2>2, <2>3, RecordsKept
<1> QED
  BY <1>3, <1>4 DEF fetch_dangling_files, filter_by_age

-----------------------------------------------------------------------------
(* crond: file_deletion *)

Deletion ==
    [step : Tasks, todo : SUBSET FileIds, file : FileIds \cup {NoFile}, entry : Contents \cup {NoContent}]

(* A step of the task that only reads: the entry it is at, and what it had *)
(* deleted of another.                                                     *)
LEMMA DeletionMoves ==
    ASSUME FilesIInv, deletion' \in Deletion, \A f \in deletion'.todo : Exists(f), DeletedFine',
           raced \subseteq raced', UNCHANGED <<files, hashes, objects, upload, use>>,
           \A c \in Contents \ raced' : Forgetting(c) => Forgetting(c)',
           \A c \in Contents \ raced' : \A f \in References(c) : Finishing(f) => Finishing(f)',
           \A c \in Contents \ raced' : Erasing(c)' =>
              \/ Erasing(c) /\ deletion'.file = deletion.file
              \/ References(c) \subseteq {deletion'.file}
    PROVE  FilesIInv'
<1>1. \A f \in FileIds : Exists(f)' <=> Exists(f)
  BY DEF Exists
<1>2. FilesShape'
  <2>1. {f \in FileIds : Exists(f)}' = {f \in FileIds : Exists(f)}
    BY <1>1
  <2>2. \A f \in deletion'.todo : Exists(f)'
    BY DEF Exists
  <2> QED
    BY <1>1, <2>1, <2>2 DEF FilesIInv, FilesShape, Deletion
<1>3. ASSUME NEW c \in Contents \ raced' PROVE EntryFine(c)'
  <2>1. EntryFine(c) /\ References(c)' = References(c)
    BY <1>1 DEF FilesIInv, References
  <2>2. \A f \in FileIds : (Writes(f, c)' <=> Writes(f, c)) /\ (Links(f, c)' <=> Links(f, c))
    BY DEF Writes, Links
  <2>3. Erasing(c)' => References(c)' \subseteq {deletion'.file}
    BY <2>1 DEF EntryFine
  <2> QED
    BY <2>1, <2>2, <2>3 DEF EntryFine
<1> QED
  BY <1>2, <1>3 DEF FilesIInv
LEMMA AtMostOne ==
    ASSUME NEW S, IsFiniteSet(S), NEW f \in S, Cardinality(S) <= 1
    PROVE  S = {f}
<1>1. IsFiniteSet(S \ {f}) /\ Cardinality(S \ {f}) = Cardinality(S) - 1
  BY FS_RemoveElement
<1>2. Cardinality(S) \in Nat /\ Cardinality(S \ {f}) \in Nat
  BY <1>1, FS_CardinalityType
<1>3. Cardinality(S \ {f}) = 0
  BY <1>1, <1>2, SMT
<1>4. S \ {f} = {}
  BY <1>1, <1>3, FS_EmptySet
<1> QED
  BY <1>4

LEMMA fetch_deletedKeeps ==
    ASSUME FilesIInv, fetch_deleted_attachments
    PROVE  FilesIInv'
<1>0. PICK todo \in SUBSET FileIds : todo = {f \in FileIds : Deleted(f)}
  OBVIOUS
<1>1. /\ deletion.step = "asleep" /\ deletion' = [deletion EXCEPT !.step = "count", !.todo = todo]
      /\ UNCHANGED <<files, hashes, objects, upload, use, raced>>
  BY <1>0 DEF fetch_deleted_attachments
<1>2. deletion \in Deletion
  BY DEF FilesIInv, FilesShape, Deletion
<1>3. deletion' \in Deletion /\ deletion'.step = "count" /\ deletion'.todo = todo
  BY <1>1, <1>2 DEF Deletion, Tasks
<1>4. \A f \in deletion'.todo : Exists(f)
  BY <1>0, <1>3 DEF Deleted
<1>5. DeletedFine'
  BY <1>3 DEF DeletedFine
<1> QED
  BY <1>1, <1>3, <1>4, <1>5, DeletionMoves DEF Forgetting, Finishing, Erasing

LEMMA count_referencesKeeps ==
    ASSUME FilesIInv, NEW f \in deletion.todo, count_file_hash_references(f)
    PROVE  FilesIInv'
<1>1. deletion \in Deletion /\ f \in FileIds /\ Exists(f)
  BY DEF FilesIInv, FilesShape, Deletion
<1>0. PICK c \in Contents : c = files[f].hash
  BY <1>1 DEF FilesIInv, FilesShape, Exists, File
<1>2. PICK step \in {"fetch", "remove"} :
          /\ step = "fetch" => Cardinality(References(c)) <= 1
          /\ deletion' = [deletion EXCEPT !.file = f, !.entry = c, !.step = step]
          /\ deletion.step = "count" /\ UNCHANGED <<files, hashes, objects, upload, use, raced>>
  BY <1>0 DEF count_file_hash_references
<1>3. /\ deletion' \in Deletion /\ deletion'.step = step /\ deletion'.todo = deletion.todo
      /\ deletion'.file = f /\ deletion'.entry = c
  BY <1>0, <1>1, <1>2 DEF Deletion, Tasks
<1>4. \A g \in deletion'.todo : Exists(g)
  BY <1>3 DEF FilesIInv, FilesShape
<1>5. DeletedFine'
  BY <1>0, <1>1, <1>2, <1>3 DEF DeletedFine, Exists
<1>6. step = "fetch" => References(c) \subseteq {f}
  <2> SUFFICES ASSUME step = "fetch" PROVE References(c) = {f}
    OBVIOUS
  <2>1. PICK S : S = {g \in FileIds : Exists(g)}
    OBVIOUS
  <2>2. IsFiniteSet(S) /\ References(c) \subseteq S
    BY <2>1 DEF FilesIInv, FilesShape, References
  <2>3. IsFiniteSet(References(c)) /\ f \in References(c)
    BY <1>0, <1>1, <2>2, FS_Subset DEF References
  <2> QED
    BY <1>2, <2>3, AtMostOne
<1>7. \A d \in Contents : Erasing(d)' => References(d) \subseteq {deletion'.file}
  BY <1>3, <1>6 DEF Erasing
<1> QED
  BY <1>2, <1>3, <1>4, <1>5, <1>7, DeletionMoves DEF Forgetting, Finishing

LEMMA fetch_attachment_hashKeeps ==
    ASSUME FilesIInv, fetch_attachment_hash
    PROVE  FilesIInv'
<1>1. /\ deletion \in Deletion /\ deletion.step = "fetch" /\ UNCHANGED <<files, hashes, objects, upload, use>>
      /\ \A c \in Contents : ~Forgetting(c) /\ \A f \in References(c) : ~Finishing(f)
  BY DEF FilesIInv, FilesShape, Deletion, fetch_attachment_hash, Forgetting, Finishing
<1>2. CASE deletion' = [deletion EXCEPT !.step = "stopped"] /\ UNCHANGED raced
  <2>1. deletion' \in Deletion /\ deletion'.step = "stopped" /\ deletion'.todo = deletion.todo
    BY <1>1, <1>2 DEF Deletion, Tasks
  <2>2. \A g \in deletion'.todo : Exists(g)
    BY <2>1 DEF FilesIInv, FilesShape
  <2>3. DeletedFine' /\ \A c \in Contents : ~Erasing(c)'
    BY <2>1 DEF DeletedFine, Erasing
  <2> QED
    BY <1>1, <1>2, <2>1, <2>2, <2>3, DeletionMoves
<1>3. ASSUME NEW e \in Found(deletion.entry),
             deletion' = [deletion EXCEPT !.step = "erase", !.entry = e],
             raced' = IF e # deletion.entry THEN raced \cup {e, deletion.entry} ELSE raced
      PROVE  FilesIInv'
  <2>1. e \in Contents
    BY DEF Found
  <2>2. /\ deletion' \in Deletion /\ deletion'.step = "erase" /\ deletion'.todo = deletion.todo
        /\ deletion'.file = deletion.file /\ deletion'.entry = e
    BY <1>1, <1>3, <2>1 DEF Deletion, Tasks
  <2>3. \A g \in deletion'.todo : Exists(g)
    BY <2>2 DEF FilesIInv, FilesShape
  <2>4. raced \subseteq raced' /\ deletion.entry \in raced' \cup {e} /\ (e \in raced' \/ e = deletion.entry)
    BY <1>3
  <2>5. DeletedFine'
    <3>1. /\ deletion.file \in FileIds /\ Exists(deletion.file)
          /\ files[deletion.file].hash \in raced \cup {deletion.entry}
      BY <1>1 DEF FilesIInv, DeletedFine
    <3> QED
      BY <1>1, <2>2, <2>4, <3>1 DEF DeletedFine, Exists
  <2>6. \A c \in Contents \ raced' : Erasing(c)' => Erasing(c) /\ deletion'.file = deletion.file
    BY <1>1, <2>2, <2>4 DEF Erasing
  <2> QED
    BY <1>1, <2>2, <2>3, <2>4, <2>5, <2>6, DeletionMoves
<1> QED
  BY <1>2, <1>3 DEF fetch_attachment_hash

LEMMA RestartKeeps ==
    ASSUME FilesIInv, Restart
    PROVE  FilesIInv'
<1>1. /\ deletion' = Asleep /\ UNCHANGED <<files, hashes, objects, upload, use>>
      /\ raced' = IF deletion.step \in {"forget", "finish"} THEN raced \cup {deletion.entry} ELSE raced
  BY DEF Restart
<1>2. deletion' \in Deletion /\ deletion'.step = "asleep" /\ deletion'.todo = {}
  BY <1>1 DEF Asleep, Deletion, Tasks
<1>3. DeletedFine' /\ \A c \in Contents : ~Erasing(c)'
  BY <1>2 DEF DeletedFine, Erasing
<1>4. raced \subseteq raced'
  BY <1>1
<1>5. ASSUME NEW c \in Contents \ raced' PROVE ~Forgetting(c) /\ \A f \in References(c) : ~Finishing(f)
  <2>1. ~Forgetting(c)
    BY <1>1, <1>5 DEF Forgetting
  <2>2. ASSUME NEW f \in References(c), Finishing(f) PROVE FALSE
    <3>1. files[f].hash \in raced \cup {deletion.entry} /\ deletion.entry \in raced'
      BY <1>1, <2>2 DEF FilesIInv, DeletedFine, Finishing
    <3>2. files[f].hash = c
      BY DEF References
    <3> QED
      BY <1>4, <3>1, <3>2
  <2> QED
    BY <2>1, <2>2
<1> QED
  BY <1>1, <1>2, <1>3, <1>4, <1>5, DeletionMoves
(* What an entry that crond deletes part of has: no upload is at it, or it *)
(* was raced for.                                                          *)
LEMMA NoneInFlight ==
    ASSUME NEW c, InFlight(c) = {}, UNCHANGED upload
    PROVE  \A f \in FileIds : ~Writes(f, c)' /\ ~Links(f, c)'
  BY DEF InFlight, Writes, Links

(* The task deletes part of the entry it is at. *)
LEMMA EntryDeleted ==
    ASSUME FilesIInv, NEW c, c = deletion.entry, NEW step \in {"forget", "finish"},
           deletion.step \in {"erase", "forget"}, deletion' = [deletion EXCEPT !.step = step],
           raced' = Overtaken(c), UNCHANGED <<files, upload, use>>,
           hashes' \in [Contents -> FileIds \cup {Empty, NoNonce}],
           objects' \in [Contents -> FileIds \cup {NoNonce}],
           \A d \in Contents \ {c} : hashes'[d] = hashes[d] /\ objects'[d] = objects[d],
           c \in Contents \ raced' => EntryFine(c)'
    PROVE  FilesIInv'
<1>1. deletion \in Deletion
  BY DEF FilesIInv, FilesShape, Deletion
<1>2. /\ deletion' \in Deletion /\ deletion'.step = step /\ deletion'.todo = deletion.todo
      /\ deletion'.file = deletion.file /\ deletion'.entry = c
  BY <1>1 DEF Deletion, Tasks
<1>3. raced \subseteq raced' /\ \A f \in FileIds : Exists(f)' <=> Exists(f)
  BY DEF Overtaken, Exists
<1>4. FilesShape'
  <2>1. {f \in FileIds : Exists(f)}' = {f \in FileIds : Exists(f)}
    BY <1>3
  <2>2. \A f \in deletion'.todo : Exists(f)'
    BY <1>2 DEF FilesIInv, FilesShape, Exists
  <2> QED
    BY <1>2, <1>3, <2>1, <2>2 DEF FilesIInv, FilesShape, Deletion
<1>5. DeletedFine'
  <2>1. /\ deletion.file \in FileIds /\ Exists(deletion.file)
        /\ files[deletion.file].hash \in raced \cup {deletion.entry}
    BY DEF FilesIInv, DeletedFine
  <2> QED
    BY <1>2, <1>3, <2>1 DEF DeletedFine
<1>6. ASSUME NEW d \in Contents \ raced', d # c PROVE EntryFine(d)'
  <2>1. EntryFine(d) /\ References(d)' = References(d)
    BY <1>3 DEF FilesIInv, References
  <2>2. ~Forgetting(d) /\ ~Erasing(d)' /\ \A f \in References(d)' : ~Finishing(f)
    BY <1>2, <1>6 DEF Forgetting, Erasing, Finishing
  <2> QED
    BY <1>6, <2>1, <2>2, EntryQuiet
<1> QED
  BY <1>4, <1>5, <1>6 DEF FilesIInv

LEMMA delete_from_s3Keeps ==
    ASSUME FilesIInv, delete_from_s3
    PROVE  FilesIInv'
<1>0. PICK c : c = deletion.entry
  OBVIOUS
<1>1. /\ deletion.step = "erase" /\ objects' = [objects EXCEPT ![c] = NoNonce]
      /\ deletion' = [deletion EXCEPT !.step = "forget"] /\ raced' = Overtaken(c)
      /\ UNCHANGED <<files, hashes, upload, use>>
  BY <1>0 DEF delete_from_s3
<1>2. /\ hashes' \in [Contents -> FileIds \cup {Empty, NoNonce}]
      /\ objects' \in [Contents -> FileIds \cup {NoNonce}]
      /\ \A d \in Contents \ {c} : hashes'[d] = hashes[d] /\ objects'[d] = objects[d]
  BY <1>1 DEF FilesIInv, FilesShape
<1>3. deletion'.step = "forget" /\ deletion'.entry = c /\ deletion'.file = deletion.file
  BY <1>0, <1>1 DEF FilesIInv, FilesShape
<1>4. ASSUME c \in Contents \ raced' PROVE EntryFine(c)'
  <2>1. c \notin raced /\ \A f \in FileIds : ~Writes(f, c)' /\ ~Links(f, c)'
    BY <1>1, <1>4, NoneInFlight DEF Overtaken
  <2>2. EntryFine(c) /\ References(c)' = References(c) /\ Erasing(c) /\ Forgetting(c)'
    BY <1>0, <1>1, <1>3, <1>4, <2>1 DEF FilesIInv, References, Exists, Erasing, Forgetting
  <2>3. \A f \in References(c) : hashes[c] \in FileIds
    BY <1>1, <2>2 DEF EntryFine, Finishing
  <2> QED
    BY <1>1, <1>3, <2>1, <2>2, <2>3 DEF EntryFine
<1> QED
  BY <1>0, <1>1, <1>2, <1>4, EntryDeleted

LEMMA delete_attachment_hashKeeps ==
    ASSUME FilesIInv, delete_attachment_hash
    PROVE  FilesIInv'
<1>0. PICK c : c = deletion.entry
  OBVIOUS
<1>1. /\ deletion.step = "forget" /\ hashes' = [hashes EXCEPT ![c] = NoNonce]
      /\ deletion' = [deletion EXCEPT !.step = "finish"] /\ raced' = Overtaken(c)
      /\ UNCHANGED <<files, objects, upload, use>>
  BY <1>0 DEF delete_attachment_hash
<1>2. /\ hashes' \in [Contents -> FileIds \cup {Empty, NoNonce}]
      /\ objects' \in [Contents -> FileIds \cup {NoNonce}]
      /\ \A d \in Contents \ {c} : hashes'[d] = hashes[d] /\ objects'[d] = objects[d]
  BY <1>1 DEF FilesIInv, FilesShape
<1>3. deletion'.step = "finish" /\ deletion'.entry = c /\ deletion'.file = deletion.file
  BY <1>0, <1>1 DEF FilesIInv, FilesShape
<1>4. ASSUME c \in Contents \ raced' PROVE EntryFine(c)'
  <2>1. c \notin raced /\ \A f \in FileIds : ~Writes(f, c)' /\ ~Links(f, c)'
    BY <1>1, <1>4, NoneInFlight DEF Overtaken
  <2>2. EntryFine(c) /\ References(c)' = References(c) /\ Erasing(c)
    BY <1>0, <1>1, <1>4, <2>1 DEF FilesIInv, References, Exists, Erasing
  <2>3. hashes'[c] \notin FileIds
    BY <1>1, <1>4, ContentlessAssumption DEF FilesIInv, FilesShape
  <2>4. \A f \in References(c)' : Finishing(f)'
    BY <1>3, <2>2 DEF EntryFine, Finishing
  <2>5. ~Erasing(c)'
    BY <1>3 DEF Erasing
  <2> QED
    BY <2>1, <2>3, <2>4, <2>5 DEF EntryFine
<1> QED
  BY <1>0, <1>1, <1>2, <1>4, EntryDeleted

LEMMA delete_attachmentKeeps ==
    ASSUME FilesIInv, delete_attachment
    PROVE  FilesIInv'
<1>0. PICK f : f = deletion.file
  OBVIOUS
<1>1. /\ files' = [files EXCEPT ![f] = NoFile]
      /\ deletion' = Asleep \/ deletion' = [Asleep EXCEPT !.step = "count", !.todo = deletion.todo \ {f}]
      /\ raced' = {c \in raced : ~Fresh(c) \/ References(c) \ {f} # {}}
      /\ UNCHANGED <<hashes, objects, upload, use>>
  BY <1>0 DEF delete_attachment
<1>2. /\ deletion' \in Deletion /\ deletion'.todo \subseteq deletion.todo \ {f}
      /\ deletion'.step \in {"asleep", "count"}
  <2>1. Asleep \in Deletion /\ Asleep.todo = {} /\ Asleep.step = "asleep"
    BY DEF Asleep, Deletion, Tasks
  <2>2. PICK todo \in SUBSET FileIds : todo = deletion.todo \ {f}
    BY DEF FilesIInv, FilesShape
  <2>3. CASE deletion' = [Asleep EXCEPT !.step = "count", !.todo = todo]
    BY <2>1, <2>2, <2>3 DEF Deletion, Tasks
  <2> QED
    BY <1>1, <2>1, <2>2, <2>3
<1>3. /\ files' \in [FileIds -> File \cup {NoFile}]
      /\ \A g \in FileIds : g # f => files'[g] = files[g]
      /\ f \in FileIds => files'[f] = NoFile
  BY <1>1 DEF FilesIInv, FilesShape
<1>4. \A g \in FileIds : Exists(g)' <=> (Exists(g) /\ g # f)
  BY <1>3 DEF Exists
<1>5. FilesShape'
  <2>1. PICK S, T : S = {g \in FileIds : Exists(g)} /\ T = {g \in FileIds : Exists(g)}'
    OBVIOUS
  <2>2. IsFiniteSet(S) /\ T \subseteq S
    BY <1>4, <2>1 DEF FilesIInv, FilesShape
  <2>3. IsFiniteSet(T)
    BY <2>2, FS_Subset
  <2>4. \A g \in deletion'.todo : Exists(g)'
    BY <1>2, <1>4 DEF FilesIInv, FilesShape, Deletion
  <2> QED
    BY <1>1, <1>2, <1>3, <1>4, <2>1, <2>3, <2>4 DEF FilesIInv, FilesShape, Deletion
<1>6. DeletedFine' /\ \A c \in Contents : ~Erasing(c)'
  BY <1>2 DEF DeletedFine, Erasing
<1>7. \A c \in Contents : References(c)' \subseteq References(c) \ {f}
  BY <1>3, <1>4 DEF References
<1>8. ASSUME NEW c \in Contents \ raced' PROVE EntryFine(c)'
  <2>1. CASE c \notin raced
    <3>1. ~Forgetting(c)
      BY DEF delete_attachment, Forgetting
    <3>2. \A g \in References(c)' : ~Finishing(g)
      BY <1>0, <1>7 DEF Finishing
    <3>3. EntryFine(c)
      BY <2>1 DEF FilesIInv
    <3> QED
      BY <1>1, <1>6, <1>7, <3>1, <3>2, <3>3, EntryQuiet
  <2>2. CASE c \in raced
    <3>1. Fresh(c) /\ References(c) \ {f} = {}
      BY <1>1, <1>8, <2>2
    <3>2. References(c)' = {}
      BY <1>7, <3>1
    <3>3. hashes'[c] \notin FileIds
      BY <1>1, <3>1, ContentlessAssumption DEF Fresh
    <3>4. \A g \in FileIds : ~Writes(g, c)' /\ ~Links(g, c)'
      BY <1>1, <3>1, NoneInFlight DEF Fresh
    <3> QED
      BY <1>6, <3>2, <3>3, <3>4 DEF EntryFine
  <2> QED
    BY <2>1, <2>2
<1> QED
  BY <1>5, <1>6, <1>8 DEF FilesIInv

LEMMA FilesInitOK == FilesInit => FilesIInv
<1> SUFFICES ASSUME FilesInit PROVE FilesIInv
  OBVIOUS
<1>1. \A f \in FileIds : ~Exists(f) /\ upload[f].step = "idle"
  BY DEF FilesInit, Exists
<1>2. IsFiniteSet({f \in FileIds : Exists(f)})
  <2>1. {f \in FileIds : Exists(f)} = {}
    BY <1>1
  <2> QED
    BY <2>1, FS_EmptySet
<1>3. deletion \in Deletion /\ deletion.step = "asleep" /\ deletion.todo = {}
  BY DEF FilesInit, Asleep, Deletion, Tasks
<1>4. upload \in [FileIds -> UploadState]
  BY ContentlessAssumption DEF FilesInit, UploadState, Steps
<1>5. use \in [UseSlots -> [file : FileIds \cup {NoFile}, parent : Parents \cup {NoParent}]]
  BY DEF FilesInit, NoUse
<1>6. FilesShape
  BY <1>1, <1>2, <1>3, <1>4, <1>5 DEF FilesInit, FilesShape, Deletion
<1>7. DeletedFine
  BY <1>3 DEF DeletedFine
<1>8. ASSUME NEW c \in Contents PROVE EntryFine(c)
  <2>1. hashes[c] \notin FileIds /\ References(c) = {} /\ ~Erasing(c)
    BY <1>1, <1>3, ContentlessAssumption DEF FilesInit, References, Erasing
  <2>2. \A f \in FileIds : ~Writes(f, c) /\ ~Links(f, c)
    BY <1>1 DEF Writes, Links
  <2> QED
    BY <2>1, <2>2 DEF EntryFine
<1> QED
  BY <1>6, <1>7, <1>8 DEF FilesIInv

LEMMA FilesStepKeeps == ASSUME FilesIInv, [FilesNext]_fileVars PROVE FilesIInv'
<1>1. CASE UNCHANGED fileVars
  <2>1. /\ files' \in [FileIds -> File \cup {NoFile}]
        /\ use' \in [UseSlots -> [file : FileIds \cup {NoFile}, parent : Parents \cup {NoParent}]]
        /\ UNCHANGED <<files, hashes, objects, upload, deletion, raced>>
    BY <1>1 DEF fileVars, FilesIInv, FilesShape
  <2> QED
    BY <2>1, RecordsKept
<1>2. ASSUME NEW f \in FileIds, Autumn(f) PROVE FilesIInv'
  <2>1. CASE UploadFails(f)
    <3>1. upload[f].step # "done" /\ End(f) /\ UNCHANGED <<files, hashes, objects, use, deletion, raced>>
      BY <2>1 DEF UploadFails
    <3> QED
      BY <3>1, UploadEnds
  <2> QED
    BY <1>2, <2>1, upload_fileKeeps, insert_attachment_hashKeeps, upload_to_s3Keeps,
       set_attachment_hash_nonceKeeps, insert_attachmentKeeps, AgeKeeps DEF Autumn
<1>3. CASE Delta
  BY <1>3, find_attachmentKeeps, use_attachmentKeeps, AgeKeeps DEF Delta
<1>4. CASE DeletionTask
  BY <1>4, fetch_deletedKeeps, count_referencesKeeps, fetch_attachment_hashKeeps, delete_from_s3Keeps,
     delete_attachment_hashKeeps, delete_attachmentKeeps DEF DeletionTask
<1> QED
  BY <1>1, <1>2, <1>3, <1>4, PruneKeeps, RestartKeeps DEF FilesNext

(* Whichever entry the database returns for a stored file has an object    *)
(* that its nonce decrypts, or is half way; the file's own always has, until *)
(* crond erases it for the last file that refers to it.  This holds for any *)
(* number of files, uploads and restarts of crond; excepted are entries    *)
(* that two parties handled at once or crond left half deleted.            *)
THEOREM FilesAlwaysReadable == FilesSpec => []FilesReadable
<1>1. ASSUME FilesIInv PROVE FilesReadable
  <2>1. ASSUME NEW e \in Contents \ raced, hashes[e] # NoNonce
        PROVE  Decrypts(e) \/ HalfWay(e)
    <3>1. hashes[e] \in FileIds \/ hashes[e] = Empty
      BY <1>1, <2>1 DEF FilesIInv, FilesShape
    <3>2. hashes[e] \in FileIds => objects[e] = hashes[e] \/ Forgetting(e)
      BY <1>1, <2>1 DEF FilesIInv, EntryFine
    <3> QED
      BY <3>1, <3>2 DEF Decrypts, HalfWay, Forgetting
  <2> SUFFICES ASSUME NEW f \in FileIds, Exists(f), files[f].hash \notin raced, deletion.file # f
               PROVE  /\ Decrypts(files[f].hash)
                      /\ \A e \in Found(files[f].hash) \ raced : Decrypts(e) \/ HalfWay(e)
    BY DEF FilesReadable
  <2>2. PICK c \in Contents \ raced : c = files[f].hash
    BY <1>1 DEF FilesIInv, FilesShape, Exists, File
  <2>3. EntryFine(c) /\ f \in References(c)
    BY <1>1, <2>2 DEF FilesIInv, References
  <2>4. hashes[c] \in FileIds /\ ~Erasing(c)
    BY <2>3 DEF EntryFine, Finishing
  <2>5. ~Forgetting(c)
    BY <2>4 DEF Erasing, Forgetting
  <2>6. Decrypts(c)
    BY <2>3, <2>4, <2>5 DEF EntryFine, Decrypts
  <2>7. \A e \in Found(c) \ raced : e \in Contents \ raced /\ hashes[e] # NoNonce
    BY DEF Found
  <2> QED
    BY <2>1, <2>2, <2>6, <2>7
<1> QED
  BY <1>1, FilesInitOK, FilesStepKeeps, PTL DEF FilesSpec
=============================================================================
