-------------------------- MODULE TenantSessionProofs --------------------------
(***************************************************************************)
(* Proofs about the tenants' sessions, for every number of tenants,        *)
(* connections and sessions.                                               *)
(***************************************************************************)
EXTENDS TenantSession, TLAPS

(* Two transactions never share a connection.                              *)
OneTransactionPerConnection ==
  \A u, v \in Visitors : u # v /\ InTransaction(u) /\ InTransaction(v) =>
    visit[u].on # visit[v].on

(* A connection nobody uses, and one whose session has committed before,   *)
(* has no tenant; one in its first transaction has its session's.          *)
SettingFollowsSession ==
  /\ base = [c \in Connections |-> Unset]
  /\ \A c \in Connections : setting[c] # Unset =>
       \E v \in Visitors : visit[v].at = "set" /\ visit[v].on = c /\ visit[v].tenant = setting[c]

TenantInv ==
  /\ TenantTypeOK
  /\ OneTransactionPerConnection
  /\ SettingFollowsSession
  /\ NoForeignRows

(* Before any session the invariant holds.                                 *)
LEMMA TenantInitInv == TenantInit => TenantInv
<1> SUFFICES ASSUME TenantInit PROVE TenantInv
  OBVIOUS
<1> USE DEF TenantInit, NoVisit
<1>1. TenantTypeOK
  BY DEF TenantTypeOK
<1>2. OneTransactionPerConnection
  BY DEF OneTransactionPerConnection, InTransaction
<1>3. SettingFollowsSession
  BY DEF SettingFollowsSession
<1>4. NoForeignRows
  BY DEF NoForeignRows
<1> QED
  BY <1>1, <1>2, <1>3, <1>4 DEF TenantInv

(* What the type says of one session.                                      *)
LEMMA VisitFields ==
  ASSUME NEW r \in Visit \cup {NoVisit}
  PROVE  /\ r.at \in {"closed", "open", "between", "set", "later"}
         /\ r.at = "closed" <=> r = NoVisit
         /\ r.at # "closed" => r.tenant \in Owners /\ r.rows \subseteq Owners
         /\ r.at \in {"set", "later"} => r.on \in Connections
  BY DEF Visit, NoVisit

(* A session is opened for a tenant; it holds no connection yet.            *)
LEMMA VisitsInv ==
  ASSUME TenantInv, NEW v \in Visitors, NEW t \in Owners, Visits(v, t)
  PROVE  TenantInv'
<1> DEFINE r == [at |-> "open", tenant |-> t, rows |-> {}]
<1> USE DEF TenantInv, TenantTypeOK, Visits
<1>1. r \in Visit /\ r.at = "open" /\ r # NoVisit /\ r.rows = {}
  BY DEF Visit, NoVisit
<1>2. visit' = [visit EXCEPT ![v] = r] /\ setting' = setting /\ base' = base
  OBVIOUS
<1> HIDE DEF r
<1>3. visits' \in Nat
  BY DEF Visits
<1>4. TenantTypeOK'
  BY <1>1, <1>2, <1>3
<1>5. OneTransactionPerConnection'
  BY <1>1, <1>2 DEF OneTransactionPerConnection, InTransaction
<1>6. SettingFollowsSession'
  BY <1>1, <1>2 DEF SettingFollowsSession, NoVisit
<1>7. NoForeignRows'
  BY <1>1, <1>2 DEF NoForeignRows
<1> QED
  BY <1>4, <1>5, <1>6, <1>7

(* A session sets its tenant in the transaction it has open.               *)
LEMMA SetTenantInv ==
  ASSUME TenantInv, NEW v \in Visitors, NEW c \in Connections, SetTenant(v, c)
  PROVE  TenantInv'
<1> DEFINE r == [at |-> "set", tenant |-> visit[v].tenant, on |-> c, rows |-> {}]
<1> USE DEF TenantInv, TenantTypeOK
<1>1. visit[v].at = "open" /\ visit[v].tenant \in Owners
  BY VisitFields DEF SetTenant
<1>2. /\ r \in Visit /\ r.at = "set" /\ r # NoVisit /\ r.rows = {}
      /\ r.on = c /\ r.tenant = visit[v].tenant
  BY <1>1 DEF Visit, NoVisit
<1>3. /\ visit' = [visit EXCEPT ![v] = r]
      /\ setting' = [setting EXCEPT ![c] = visit[v].tenant]
      /\ base' = base /\ visits' = visits
  BY DEF SetTenant
<1>4. \A u \in Visitors : InTransaction(u) => visit[u].on # c
  BY DEF SetTenant, Pool
<1> HIDE DEF r
<1>5. TenantTypeOK'
  BY <1>1, <1>2, <1>3
<1>6. OneTransactionPerConnection'
  BY <1>2, <1>3, <1>4 DEF OneTransactionPerConnection, InTransaction
<1>7. SettingFollowsSession'
  BY <1>1, <1>2, <1>3 DEF SettingFollowsSession
<1>8. NoForeignRows'
  BY <1>2, <1>3 DEF NoForeignRows
<1> QED
  BY <1>5, <1>6, <1>7, <1>8

(* A session goes on in a new transaction, on a connection of the pool.    *)
LEMMA BeginLaterInv ==
  ASSUME TenantInv, NEW v \in Visitors, NEW c \in Connections, BeginLater(v, c)
  PROVE  TenantInv'
<1> DEFINE r == [at |-> "later", tenant |-> visit[v].tenant, on |-> c, rows |-> {}]
<1> USE DEF TenantInv, TenantTypeOK
<1>1. visit[v].at = "between" /\ visit[v].tenant \in Owners
  BY VisitFields DEF BeginLater
<1>2. /\ r \in Visit /\ r.at = "later" /\ r # NoVisit /\ r.rows = {}
      /\ r.on = c /\ r.tenant = visit[v].tenant
  BY <1>1 DEF Visit, NoVisit
<1>3. /\ visit' = [visit EXCEPT ![v] = r]
      /\ setting' = setting /\ base' = base /\ visits' = visits
  BY DEF BeginLater
<1>4. \A u \in Visitors : InTransaction(u) => visit[u].on # c
  BY DEF BeginLater, Pool
<1> HIDE DEF r
<1>5. TenantTypeOK'
  BY <1>1, <1>2, <1>3
<1>6. OneTransactionPerConnection'
  BY <1>2, <1>3, <1>4 DEF OneTransactionPerConnection, InTransaction
<1>7. SettingFollowsSession'
  BY <1>1, <1>2, <1>3 DEF SettingFollowsSession
<1>8. NoForeignRows'
  BY <1>2, <1>3 DEF NoForeignRows
<1> QED
  BY <1>5, <1>6, <1>7, <1>8

(* What a query shows is the tenant of the connection, which is the        *)
(* session's or none.                                                      *)
LEMMA QueryInv ==
  ASSUME TenantInv, NEW v \in Visitors, Query(v)
  PROVE  TenantInv'
<1> DEFINE r == [visit[v] EXCEPT !.rows = Visible(visit[v].on)]
<1> USE DEF TenantInv, TenantTypeOK
<1>1. /\ visit[v].at \in {"set", "later"} /\ visit[v].tenant \in Owners
      /\ visit[v].on \in Connections /\ visit[v] # NoVisit
  BY VisitFields DEF Query, InTransaction, NoVisit
<1>2. Visible(visit[v].on) \subseteq {visit[v].tenant}
  <2>1. setting[visit[v].on] = Unset \/ setting[visit[v].on] = visit[v].tenant
    <3> SUFFICES ASSUME setting[visit[v].on] # Unset
                 PROVE  setting[visit[v].on] = visit[v].tenant
      OBVIOUS
    <3>1. PICK u \in Visitors : /\ visit[u].at = "set" /\ visit[u].on = visit[v].on
                                /\ visit[u].tenant = setting[visit[v].on]
      BY <1>1 DEF SettingFollowsSession
    <3>2. u = v
      BY <1>1, <3>1 DEF OneTransactionPerConnection, InTransaction
    <3> QED
      BY <3>1, <3>2
  <2> QED
    BY <2>1, OwnersAssumption DEF Visible
<1>3. /\ r \in Visit /\ r # NoVisit /\ r.at = visit[v].at /\ r.on = visit[v].on
      /\ r.tenant = visit[v].tenant /\ r.rows = Visible(visit[v].on)
  <2>1. visit[v] \in [at : {"set", "later"}, tenant : Owners, on : Connections,
                      rows : SUBSET Owners]
    BY <1>1 DEF Visit, NoVisit
  <2>2. Visible(visit[v].on) \in SUBSET Owners
    BY DEF Visible
  <2> QED
    BY <1>1, <2>1, <2>2 DEF Visit, NoVisit
<1>4. /\ visit' = [visit EXCEPT ![v] = r]
      /\ setting' = setting /\ base' = base /\ visits' = visits
  BY DEF Query
<1> HIDE DEF r
<1>5. TenantTypeOK'
  BY <1>3, <1>4
<1>6. OneTransactionPerConnection'
  BY <1>3, <1>4 DEF OneTransactionPerConnection, InTransaction
<1>7. SettingFollowsSession'
  BY <1>3, <1>4 DEF SettingFollowsSession
<1>8. NoForeignRows'
  BY <1>2, <1>3, <1>4 DEF NoForeignRows
<1> QED
  BY <1>5, <1>6, <1>7, <1>8

(* A commit or rollback gives the connection back without a tenant.        *)
LEMMA EndTransactionInv ==
  ASSUME TenantInv, NEW v \in Visitors, EndTransaction(v)
  PROVE  TenantInv'
<1> USE DEF TenantInv, TenantTypeOK
<1>1. /\ visit[v].at \in {"set", "later"} /\ visit[v].tenant \in Owners
      /\ visit[v].rows \subseteq Owners
      /\ visit[v].on \in Connections /\ visit[v] # NoVisit
  BY VisitFields DEF EndTransaction, InTransaction, NoVisit
<1>2. PICK r \in {NoVisit, [at |-> "between", tenant |-> visit[v].tenant,
                            rows |-> visit[v].rows]} :
        visit' = [visit EXCEPT ![v] = r]
  BY DEF EndTransaction
<1>3. /\ r \in Visit \cup {NoVisit} /\ r.at \in {"closed", "between"}
      /\ r # NoVisit => r.tenant = visit[v].tenant /\ r.rows = visit[v].rows
  BY <1>1, <1>2 DEF Visit, NoVisit
<1>4. /\ setting' = [setting EXCEPT ![visit[v].on] = Unset]
      /\ base' = base /\ visits' = visits
  BY <1>1 DEF EndTransaction, SettingFollowsSession
<1>5. TenantTypeOK'
  BY <1>1, <1>2, <1>3, <1>4
<1>6. OneTransactionPerConnection'
  BY <1>2, <1>3 DEF OneTransactionPerConnection, InTransaction
<1>7. SettingFollowsSession'
  BY <1>1, <1>2, <1>3, <1>4 DEF SettingFollowsSession
<1>8. NoForeignRows'
  BY <1>1, <1>2, <1>3 DEF NoForeignRows
<1> QED
  BY <1>5, <1>6, <1>7, <1>8

(* Every step keeps the invariant.                                         *)
LEMMA TenantStepInv == TenantInv /\ [TenantNext]_tenantVars => TenantInv'
<1> SUFFICES ASSUME TenantInv, [TenantNext]_tenantVars PROVE TenantInv'
  OBVIOUS
<1>1. CASE UNCHANGED tenantVars
  BY <1>1 DEF tenantVars, TenantInv, TenantTypeOK, OneTransactionPerConnection, InTransaction,
              SettingFollowsSession, NoForeignRows
<1>2. CASE TenantNext
  BY <1>2, VisitsInv, SetTenantInv, BeginLaterInv, QueryInv, EndTransactionInv DEF TenantNext
<1> QED
  BY <1>1, <1>2

(* No session reads rows of another tenant, whatever connections it is     *)
(* given and however many transactions it runs (tenant_session and the     *)
(* policies of 001_row_level_security.sql).                                *)
THEOREM NoForeignRowsHolds == TenantSpec => []NoForeignRows
<1>1. TenantInv => NoForeignRows
  BY DEF TenantInv
<1> QED
  BY <1>1, TenantInitInv, TenantStepInv, PTL DEF TenantSpec
=============================================================================
