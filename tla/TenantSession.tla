----------------------------- MODULE TenantSession -----------------------------
(***************************************************************************)
(* Sessions of the tenants on one pool of connections: tenant_session      *)
(* (backend/app/database.py) sets app.tenant_id in the first transaction,  *)
(* and the policies of backend/sql/001_row_level_security.sql compare each *)
(* row with it.  A session gives its connection back at every commit and   *)
(* rollback, and its next transaction may get another one.                 *)
(*                                                                         *)
(* The database user is one the policies apply to: the owner of the tables *)
(* (FORCE), not a superuser.                                               *)
(***************************************************************************)
EXTENDS Naturals, FiniteSets

CONSTANTS
  Connections,   \* the pool
  Owners,        \* the tenants
  Unset,         \* current_setting('app.tenant_id', true) is null or ''
  Visitors,      \* sessions at the same time
  MaxVisits      \* how many sessions are opened

ASSUME OwnersAssumption == Unset \notin Owners
ASSUME VisitsAssumption == MaxVisits \in Nat

VARIABLES
  setting,    \* app.tenant_id as the transaction on each connection sees it
  base,       \* what it falls back to at the end of the transaction
  visit,      \* each session
  visits      \* how many were opened

tenantVars == <<setting, base, visit, visits>>

NoVisit == [at |-> "closed"]
(* rows are the tenants whose rows the last query returned.                *)
Visit == [at : {"open", "between"}, tenant : Owners, rows : SUBSET Owners]
  \cup [at : {"set", "later"}, tenant : Owners, on : Connections, rows : SUBSET Owners]

TenantTypeOK ==
  /\ setting \in [Connections -> Owners \cup {Unset}]
  /\ base \in [Connections -> Owners \cup {Unset}]
  /\ visit \in [Visitors -> Visit \cup {NoVisit}]
  /\ visits \in Nat

TenantInit ==
  /\ setting = [c \in Connections |-> Unset] /\ base = setting
  /\ visit = [v \in Visitors |-> NoVisit]
  /\ visits = 0

InTransaction(v) == visit[v].at \in {"set", "later"}
Pool == Connections \ {visit[v].on : v \in {u \in Visitors : InTransaction(u)}}

(* async with SessionFactory(): no connection is taken yet.                *)
Visits(v, t) ==
  /\ visit[v] = NoVisit /\ visits < MaxVisits
  /\ visit' = [visit EXCEPT ![v] = [at |-> "open", tenant |-> t, rows |-> {}]]
  /\ visits' = visits + 1
  /\ UNCHANGED <<setting, base>>

(* Mutant: set_config(..., false), for the connection.                     *)
SetForConnection(v, c) ==
  /\ visit[v].at = "open" /\ c \in Pool
  /\ setting' = [setting EXCEPT ![c] = visit[v].tenant]
  /\ base' = setting'
  /\ visit' = [visit EXCEPT ![v] = [at |-> "set", tenant |-> @.tenant, on |-> c, rows |-> {}]]
  /\ UNCHANGED visits

(* set_config(..., true), until the end of the transaction.                *)
SetTenant(v, c) ==
  /\ visit[v].at = "open" /\ c \in Pool
  /\ setting' = [setting EXCEPT ![c] = visit[v].tenant]
  /\ visit' = [visit EXCEPT ![v] = [at |-> "set", tenant |-> @.tenant, on |-> c, rows |-> {}]]
  /\ UNCHANGED <<base, visits>>

(* A statement after a commit begins a transaction, with no set_config.    *)
BeginLater(v, c) ==
  /\ visit[v].at = "between" /\ c \in Pool
  /\ visit' = [visit EXCEPT ![v] = [at |-> "later", tenant |-> @.tenant, on |-> c, rows |-> {}]]
  /\ UNCHANGED <<setting, base, visits>>

(* The policy: tenant_id = current_setting('app.tenant_id', true).         *)
Visible(c) == {t \in Owners : t = setting[c]}

Query(v) ==
  /\ InTransaction(v)
  /\ visit' = [visit EXCEPT ![v].rows = Visible(visit[v].on)]
  /\ UNCHANGED <<setting, base, visits>>

(* Commit or rollback; the session goes on or is closed.                   *)
EndTransaction(v) ==
  /\ InTransaction(v)
  /\ setting' = [setting EXCEPT ![visit[v].on] = base[visit[v].on]]
  /\ \/ visit' = [visit EXCEPT ![v] = [at |-> "between", tenant |-> @.tenant, rows |-> @.rows]]
     \/ visit' = [visit EXCEPT ![v] = NoVisit]
  /\ UNCHANGED <<base, visits>>

TenantNext ==
  \E v \in Visitors :
    \/ \E t \in Owners : Visits(v, t)
    \/ \E c \in Connections : SetTenant(v, c) \/ BeginLater(v, c)
    \/ Query(v) \/ EndTransaction(v)

TenantSpec == TenantInit /\ [][TenantNext]_tenantVars

(***************************************************************************)
(* Properties                                                              *)
(***************************************************************************)

(* No query returns rows of another tenant, also in the later transactions *)
(* of a session and on a connection that served others: there the setting  *)
(* is gone, and the policy shows nothing (tenant_session).                 *)
NoForeignRows == \A v \in Visitors : visit[v] # NoVisit => visit[v].rows \subseteq {visit[v].tenant}
=============================================================================
