------------------------------- MODULE Membership -------------------------------
(***************************************************************************)
(* The members of the tenants and their identities in Keycloak             *)
(* (backend/app/main.py, services/keycloak.py, bootstrap_admin.py,         *)
(* security.py).  To enter, a person needs an enabled identity that        *)
(* carries the tenant, and an active row in memberships, whose role        *)
(* counts.  A request reads the database, then changes Keycloak in several *)
(* calls, and commits its row at the end: no transaction spans both.       *)
(***************************************************************************)
EXTENDS Naturals, FiniteSets

CONSTANTS
  Tenants,
  Emails,
  NoTenant,        \* an identity without the attribute tenant_id
  Requesters,      \* requests under way at the same time
  MaxAdminCalls,   \* how many requests are made
  MaxOutages       \* how many calls to Keycloak or the database fail

ASSUME TenantsAssumption == NoTenant \notin Tenants
ASSUME OutagesAssumption == MaxAdminCalls \in Nat /\ MaxOutages \in Nat

MemberRole == {"admin", "staff"}
NoMember == [role |-> "staff", active |-> FALSE, exists |-> FALSE]
NoIdentity == [tenant |-> NoTenant, enabled |-> FALSE, roles |-> {}, exists |-> FALSE]
NoRequest == [pc |-> "none"]

VARIABLES
  members,     \* the row of each tenant and email
  identities,  \* the Keycloak user of each email
  calls,       \* the requests under way
  made,        \* how many requests were made
  outages,     \* how many calls failed
  muddled,     \* emails with a failed request or two at a time
  raced        \* whether two updates of a tenant ever overlapped

membershipVars == <<members, identities, calls, made, outages, muddled, raced>>

Member == [role : MemberRole, active : BOOLEAN, exists : BOOLEAN]
Identity == [tenant : Tenants \cup {NoTenant}, enabled : BOOLEAN,
             roles : SUBSET MemberRole, exists : BOOLEAN]
AdminCall ==
  [pc : {"post", "read", "attach", "enable", "clear", "grant", "write"},
   kind : {"create", "update", "bootstrap"}, tenant : Tenants, email : Emails,
   role : MemberRole, active : BOOLEAN, loaded : Member]

MembershipTypeOK ==
  /\ members \in [Tenants -> [Emails -> Member]]
  /\ identities \in [Emails -> Identity]
  /\ calls \in [Requesters -> AdminCall \cup {NoRequest}]
  /\ made \in Nat /\ outages \in Nat
  /\ muddled \subseteq Emails /\ raced \in BOOLEAN

IsAdmin(t, e) == members[t][e].role = "admin" /\ members[t][e].active
Admins(t) == {e \in Emails : IsAdmin(t, e)}

(* current_principal: the identity is enabled and carries the tenant, the  *)
(* membership is active.                                                   *)
CanEnter(t, e) ==
  /\ identities[e].enabled /\ identities[e].tenant = t
  /\ members[t][e].active

(* Tenants whose administrators were bootstrapped, and perhaps somebody    *)
(* whom Keycloak knows and no tenant does.                                 *)
MembershipInit ==
  /\ \E founders \in [Emails -> Tenants \cup {NoTenant}], known \in SUBSET Emails :
       /\ members = [t \in Tenants |-> [e \in Emails |->
            IF founders[e] = t THEN [role |-> "admin", active |-> TRUE, exists |-> TRUE]
            ELSE NoMember]]
       /\ identities = [e \in Emails |->
            IF founders[e] # NoTenant
            THEN [tenant |-> founders[e], enabled |-> TRUE, roles |-> {"admin"}, exists |-> TRUE]
            ELSE [NoIdentity EXCEPT !.exists = e \in known, !.enabled = e \in known]]
       /\ known \cap {e \in Emails : founders[e] # NoTenant} = {}
  /\ calls = [q \in Requesters |-> NoRequest]
  /\ made = 0 /\ outages = 0 /\ muddled = {} /\ raced = FALSE

(***************************************************************************)
(* Requests                                                                *)
(***************************************************************************)

OthersOn(q, e) == \E p \in Requesters \ {q} : calls[p] # NoRequest /\ calls[p].email = e
OtherUpdates(q, t) ==
  \E p \in Requesters \ {q} : calls[p] # NoRequest /\ calls[p].tenant = t /\ calls[p].kind = "update"

Make(q, c) ==
  /\ calls[q] = NoRequest /\ made < MaxAdminCalls
  /\ made' = made + 1
  /\ calls' = [calls EXCEPT ![q] = c]
  /\ muddled' = muddled \cup (IF OthersOn(q, c.email) THEN {c.email} ELSE {})
  /\ raced' = (raced \/ (c.kind = "update" /\ OtherUpdates(q, c.tenant)))
  /\ UNCHANGED <<members, identities, outages>>

(* create_admin_member: the email must be new to the tenant.               *)
AskCreate(q) ==
  \E t \in Tenants, e \in Emails, role \in MemberRole :
    /\ \E by \in Admins(t) : CanEnter(t, by)
    /\ ~members[t][e].exists
    /\ Make(q, [pc |-> "post", kind |-> "create", tenant |-> t, email |-> e, role |-> role,
                active |-> TRUE, loaded |-> NoMember])

(* Mutant: the count is compared with zero.                                *)
KeepsNone(t, e, role, active) ==
  members[t][e].role = "admin" /\ (role # "admin" \/ ~active) => Cardinality(Admins(t)) > 0

(* The last administrator may not be demoted or deactivated.               *)
KeepsAnAdmin(t, e, role, active) ==
  members[t][e].role = "admin" /\ (role # "admin" \/ ~active) => Cardinality(Admins(t)) > 1

(* update_admin_member *)
AskUpdate(q) ==
  \E t \in Tenants, e \in Emails, role \in MemberRole, active \in BOOLEAN :
    /\ \E by \in Admins(t) : CanEnter(t, by)
    /\ members[t][e].exists
    /\ KeepsAnAdmin(t, e, role, active)
    /\ Make(q, [pc |-> "read", kind |-> "update", tenant |-> t, email |-> e, role |-> role,
                active |-> active, loaded |-> members[t][e]])

(* bootstrap_admin, run by the operator of the deployment.                 *)
AskBootstrap(q) ==
  \E t \in Tenants, e \in Emails :
    Make(q, [pc |-> "post", kind |-> "bootstrap", tenant |-> t, email |-> e,
             role |-> "admin", active |-> TRUE, loaded |-> NoMember])

(***************************************************************************)
(* Keycloak                                                                *)
(***************************************************************************)

Go(q, pc) == calls' = [calls EXCEPT ![q].pc = pc]
Alter(e, identity) == identities' = [identities EXCEPT ![e] = identity]

(* POST of the user, with the tenant; 409 when it exists.                  *)
PostUser(q) ==
  LET c == calls[q] IN
  /\ c.pc = "post" /\ Go(q, "read")
  /\ IF identities[c.email].exists THEN UNCHANGED identities
     ELSE Alter(c.email, [tenant |-> c.tenant, enabled |-> TRUE, roles |-> {}, exists |-> TRUE])
  /\ UNCHANGED <<members, made, outages, muddled, raced>>

(* An identity may be taken when it has no tenant or this one, and changed *)
(* when it has this one.                                                   *)
TenantFits(c) ==
  identities[c.email].tenant \in
    {c.tenant} \cup (IF c.kind = "update" THEN {} ELSE {NoTenant})

(* GET of the user; another tenant's ends the request with an error.       *)
ReadUser(q) ==
  LET c == calls[q] IN
  /\ c.pc = "read" /\ TenantFits(c)
  /\ Go(q, IF c.kind = "update" THEN "enable" ELSE "attach")
  /\ UNCHANGED <<members, identities, made, outages, muddled, raced>>

(* PUT of the whole user as it was read, with the tenant, enabled.         *)
AttachTenant(q) ==
  LET c == calls[q] IN
  /\ c.pc = "attach" /\ Go(q, "grant")
  /\ Alter(c.email, [identities[c.email] EXCEPT !.tenant = c.tenant, !.enabled = TRUE])
  /\ UNCHANGED <<members, made, outages, muddled, raced>>

(* Mutant: the identity stays enabled.                                     *)
LeaveEnabled(q) ==
  LET c == calls[q] IN
  /\ c.pc = "enable" /\ Go(q, "clear")
  /\ UNCHANGED <<identities, members, made, outages, muddled, raced>>

(* PUT of the whole user with enabled.                                     *)
SetEnabled(q) ==
  LET c == calls[q] IN
  /\ c.pc = "enable" /\ Go(q, "clear")
  /\ Alter(c.email, [identities[c.email] EXCEPT !.tenant = c.tenant, !.enabled = c.active])
  /\ UNCHANGED <<members, made, outages, muddled, raced>>

(* DELETE of the managed roles.                                            *)
ClearRoles(q) ==
  LET c == calls[q] IN
  /\ c.pc = "clear" /\ Go(q, "grant")
  /\ Alter(c.email, [identities[c.email] EXCEPT !.roles = {}])
  /\ UNCHANGED <<members, made, outages, muddled, raced>>

GrantRole(q) ==
  LET c == calls[q] IN
  /\ c.pc = "grant" /\ Go(q, "write")
  /\ Alter(c.email, [identities[c.email] EXCEPT !.roles = @ \cup {c.role}])
  /\ UNCHANGED <<members, made, outages, muddled, raced>>

(***************************************************************************)
(* The database                                                            *)
(***************************************************************************)

(* The row after the commit: an update writes what differs from what was   *)
(* loaded.                                                                 *)
After(c, row) ==
  IF c.kind = "update"
  THEN [row EXCEPT !.role = IF c.role # c.loaded.role THEN c.role ELSE @,
                   !.active = IF c.active # c.loaded.active THEN c.active ELSE @]
  ELSE [role |-> c.role, active |-> TRUE, exists |-> TRUE]

(* The insert is refused when the email was added meanwhile.               *)
WriteMember(q) ==
  LET c == calls[q] IN
  /\ c.pc = "write"
  /\ c.kind = "create" => ~members[c.tenant][c.email].exists
  /\ members' = [members EXCEPT ![c.tenant][c.email] = After(c, @)]
  /\ calls' = [calls EXCEPT ![q] = NoRequest]
  /\ UNCHANGED <<identities, made, outages, muddled, raced>>

(* An error answer of Keycloak, a request that is lost, or an insert that  *)
(* is refused leaves Keycloak as the calls made so far have it.            *)
GiveUp(q) ==
  LET c == calls[q] IN
  /\ c # NoRequest
  /\ \/ c.pc = "read" /\ ~TenantFits(c) /\ UNCHANGED outages
     \/ c.pc = "write" /\ c.kind = "create" /\ members[c.tenant][c.email].exists
          /\ UNCHANGED outages
     \/ outages < MaxOutages /\ outages' = outages + 1
  /\ calls' = [calls EXCEPT ![q] = NoRequest]
  /\ muddled' = muddled \cup 
       (IF c.pc = "post" \/ (c.pc = "read" /\ (c.kind = "update" \/ ~TenantFits(c)))
        THEN {} ELSE {c.email})
  /\ UNCHANGED <<members, identities, made, raced>>

MembershipNext ==
  \E q \in Requesters :
    \/ AskCreate(q) \/ AskUpdate(q) \/ AskBootstrap(q)
    \/ PostUser(q) \/ ReadUser(q) \/ AttachTenant(q)
    \/ SetEnabled(q) \/ ClearRoles(q) \/ GrantRole(q)
    \/ WriteMember(q) \/ GiveUp(q)

MembershipSpec == MembershipInit /\ [][MembershipNext]_membershipVars

(***************************************************************************)
(* Properties                                                              *)
(***************************************************************************)

Quiet(e) == e \notin muddled /\ \A q \in Requesters : calls[q] # NoRequest => calls[q].email # e

(* A tenant with members has an administrator as long as no two updates of *)
(* the tenant overlapped, and one who can enter unless a request failed or *)
(* was overtaken (update_admin_member counts the others before it calls    *)
(* Keycloak, which it changes before the row).                             *)
AdministratorRemains ==
  \A t \in Tenants : (\E e \in Emails : members[t][e].exists) /\ ~raced =>
    /\ Admins(t) # {}
    /\ muddled = {} => \E e \in Admins(t) : CanEnter(t, e)

(* Apart from requests under way, failed or overtaken, Keycloak and the    *)
(* memberships agree on everybody: who is active can enter with the role   *)
(* of the row, who is not cannot; and an email is in one tenant            *)
(* (create_user, update_user_access).                                      *)
IdentityAgrees ==
  \A t \in Tenants, e \in Emails : members[t][e].exists /\ Quiet(e) =>
    /\ identities[e].tenant = t
    /\ identities[e].enabled = members[t][e].active
    /\ members[t][e].role \in identities[e].roles
=============================================================================
