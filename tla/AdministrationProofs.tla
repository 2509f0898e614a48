-------------------------- MODULE AdministrationProofs --------------------------
(***************************************************************************)
(* Proofs about who belongs to a tenant (Membership) and what a tenant     *)
(* configures (Settings), for every number of tenants, people, requests,   *)
(* names and versions.                                                     *)
(***************************************************************************)
EXTENDS Membership, Settings, SequenceTheorems, FiniteSetTheorems, TLAPS

(***************************************************************************)
(* What a tenant configures                                                *)
(***************************************************************************)

(* A change that nobody has overtaken has seen the present versions.       *)
ChangeFits(c) ==
  c.what = "scorecard" =>
    /\ c.target \in 1 .. Len(c.seen) + 1
    /\ c.alone => c.seen = scorecards

OneActive == \E t \in DOMAIN scorecards : \A i \in DOMAIN scorecards : scorecards[i] <=> i = t

SettingsInv ==
  /\ SettingsTypeOK
  /\ \A k \in Clerks : ChangeFits(change[k])
  /\ alone /\ scorecards # <<>> => OneActive
  /\ \A t \in Register, n \in Names : registers[t][n] <= 1

(* What the type says of one request.                                      *)
LEMMA ChangeFields ==
  ASSUME NEW c \in Change
  PROVE  /\ c.what \in {"none", "scorecard", "insert", "rename", "delete"}
         /\ c.what = "none" <=> c = NoChange
         /\ c.what = "scorecard" => /\ c.target \in Nat \ {0} /\ c.seen \in Seq(BOOLEAN)
                                    /\ c.alone \in BOOLEAN
         /\ c.what \in {"insert", "rename", "delete"} => c.in \in Register /\ c.name \in Names
         /\ c.what \in {"rename", "delete"} => c.from \in Names
BY DEF Change, NoChange

(* No request is under way at first, and nothing is configured.            *)
LEMMA SettingsInitInv == SettingsInit => SettingsInv
<1> SUFFICES ASSUME SettingsInit PROVE SettingsInv
  OBVIOUS
<1> QED
  BY DEF SettingsInit, SettingsInv, SettingsTypeOK, ChangeFits, NoChange, Change

(* A request is made or ends, and nothing else changes.                    *)
LEMMA RequestInv ==
  ASSUME SettingsInv, NEW k \in Clerks, NEW c \in Change, ChangeFits(c),
         change' = [change EXCEPT ![k] = c], changes' \in Nat,
         UNCHANGED <<scorecards, registers, alone>>
  PROVE  SettingsInv'
<1>1. SettingsTypeOK'
  BY DEF SettingsInv, SettingsTypeOK
<1>2. \A l \in Clerks : ChangeFits(change[l])'
  BY DEF SettingsInv, SettingsTypeOK, ChangeFits
<1> QED
  BY <1>1, <1>2 DEF SettingsInv, OneActive

(* A request reads the scorecard versions.                                 *)
LEMMA ReadScorecardsInv ==
  ASSUME SettingsInv, NEW k \in Clerks, ReadScorecards(k)
  PROVE  SettingsInv'
<1>1. PICK target \in 1 .. Len(scorecards) + 1 :
        Propose(k, [what |-> "scorecard", target |-> target, seen |-> scorecards, alone |-> TRUE])
  BY DEF ReadScorecards
<1> DEFINE c == [what |-> "scorecard", target |-> target, seen |-> scorecards, alone |-> TRUE]
<1>2. c \in Change /\ ChangeFits(c)
  BY DEF Change, ChangeFits, SettingsInv, SettingsTypeOK
<1>3. /\ change' = [change EXCEPT ![k] = c] /\ changes' \in Nat
      /\ UNCHANGED <<scorecards, registers, alone>>
  BY <1>1 DEF Propose, SettingsInv, SettingsTypeOK
<1> HIDE DEF c
<1> QED
  BY <1>2, <1>3, RequestInv

(* A request reads a register.                                             *)
LEMMA ReadRegisterInv ==
  ASSUME SettingsInv, NEW k \in Clerks, ReadRegister(k)
  PROVE  SettingsInv'
<1>1. PICK t \in Register, n \in Names, m \in Names :
        \/ Propose(k, [what |-> "insert", in |-> t, name |-> n])
        \/ Propose(k, [what |-> "rename", in |-> t, from |-> n, name |-> m])
        \/ Propose(k, [what |-> "delete", in |-> t, from |-> n, name |-> n])
  BY DEF ReadRegister
<1>2. PICK c \in Change : Propose(k, c) /\ c.what # "scorecard"
  BY <1>1 DEF Change
<1>3. /\ change' = [change EXCEPT ![k] = c] /\ changes' \in Nat
      /\ UNCHANGED <<scorecards, registers, alone>>
  BY <1>2 DEF Propose, SettingsInv, SettingsTypeOK
<1> QED
  BY <1>2, <1>3, RequestInv DEF ChangeFits

(* A request ends without a commit.                                        *)
LEMMA DropInv ==
  ASSUME SettingsInv, NEW k \in Clerks, Drop(k)
  PROVE  SettingsInv'
<1>1. NoChange \in Change /\ ChangeFits(NoChange)
  BY DEF NoChange, Change, ChangeFits
<1> QED
  BY <1>1, RequestInv DEF Drop, SettingsInv, SettingsTypeOK

(* One list appended to another: where the elements of each are.           *)
LEMMA Appended ==
  ASSUME NEW S, NEW s \in Seq(S), NEW t \in Seq(S)
  PROVE  /\ s \o t \in Seq(S) /\ Len(s \o t) = Len(s) + Len(t)
         /\ DOMAIN (s \o t) = 1 .. Len(s) + Len(t)
         /\ \A i \in 1 .. Len(s) : (s \o t)[i] = s[i]
         /\ Len(t) = 1 => (s \o t)[Len(s) + 1] = t[1]
<1>1. s \o t \in Seq(S) /\ Len(s \o t) = Len(s) + Len(t) /\ Len(s) \in Nat /\ Len(t) \in Nat
  OBVIOUS
<1>2. DOMAIN (s \o t) = 1 .. Len(s) + Len(t)
  BY <1>1
<1>3. \A i \in 1 .. Len(s) + Len(t) : (s \o t)[i] = IF i <= Len(s) THEN s[i] ELSE t[i - Len(s)]
  BY ConcatProperties
<1>4. ASSUME NEW i \in 1 .. Len(s) PROVE (s \o t)[i] = s[i]
  BY <1>1, <1>3
<1>5. ASSUME Len(t) = 1 PROVE (s \o t)[Len(s) + 1] = t[1]
  <2>1. Len(s) + 1 \in 1 .. Len(s) + Len(t) /\ ~(Len(s) + 1 <= Len(s)) /\ Len(s) + 1 - Len(s) = 1
    BY <1>1, <1>5
  <2> QED
    BY <1>3, <2>1
<1> QED
  BY <1>1, <1>2, <1>4, <1>5

(* What a commit makes of the versions, one by one: a version it has read  *)
(* is active if it is the target, or stays if it was so already.           *)
LEMMA Versions ==
  ASSUME NEW c \in Change, c.what = "scorecard", NEW rows \in Seq(BOOLEAN),
         NEW last \in {<<>>, <<TRUE>>}
  PROVE  /\ WithActive(c, rows) \o last \in Seq(BOOLEAN)
         /\ DOMAIN (WithActive(c, rows) \o last) = 1 .. Len(rows) + Len(last)
         /\ c.seen = rows => \A i \in 1 .. Len(rows) :
              (WithActive(c, rows) \o last)[i] <=> i = c.target
         /\ last = <<TRUE>> => (WithActive(c, rows) \o last)[Len(rows) + 1]
<1> DEFINE active == WithActive(c, rows)
           all == active \o last
<1>1. c.target \in Nat /\ c.seen \in Seq(BOOLEAN)
  BY ChangeFields
<1>2. active = [i \in 1 .. Len(rows) |->
        IF i \in DOMAIN c.seen /\ c.seen[i] # (i = c.target) THEN i = c.target ELSE rows[i]]
  BY DEF WithActive
<1>3. ASSUME NEW i \in 1 .. Len(rows) PROVE rows[i] \in BOOLEAN /\ active[i] \in BOOLEAN
  <2>1. rows[i] \in BOOLEAN
    OBVIOUS
  <2>2. active[i] = rows[i] \/ active[i] = (i = c.target)
    BY <1>2
  <2>3. (i = c.target) \in BOOLEAN
    BY Zenon
  <2> HIDE DEF active
  <2> QED
    BY <2>1, <2>2, <2>3, Zenon
<1>4. active \in Seq(BOOLEAN) /\ Len(active) = Len(rows)
  <2>1. active \in [1 .. Len(rows) -> BOOLEAN] /\ Len(rows) \in Nat
    BY <1>2, <1>3
  <2> QED
    BY <2>1
<1>5. ASSUME c.seen = rows, NEW i \in 1 .. Len(rows)
      PROVE  active[i] <=> i = c.target
  <2>1. i \in DOMAIN c.seen /\ c.seen[i] \in BOOLEAN
    BY <1>5
  <2>2. CASE c.seen[i] # (i = c.target)
    BY <1>2, <2>1, <2>2
  <2>3. CASE c.seen[i] = (i = c.target)
    <3>1. active[i] = c.seen[i]
      BY <1>2, <1>5, <2>3
    <3> QED
      BY <2>3, <3>1, Zenon
  <2> QED
    BY <2>2, <2>3
<1> HIDE DEF active
<1>6. /\ last \in Seq(BOOLEAN) /\ Len(last) \in Nat
      /\ last = <<TRUE>> => Len(last) = 1 /\ last[1] = TRUE
  <2>1. <<TRUE>> \in Seq(BOOLEAN) /\ Len(<<TRUE>>) = 1 /\ <<TRUE>>[1] = TRUE
    OBVIOUS
  <2>2. <<>> \in Seq(BOOLEAN) /\ <<>> # <<TRUE>>
    BY <2>1
  <2> QED
    BY <2>1, <2>2
<1>7. /\ all \in Seq(BOOLEAN) /\ Len(all) = Len(rows) + Len(last)
      /\ DOMAIN all = 1 .. Len(rows) + Len(last)
      /\ \A i \in 1 .. Len(rows) : all[i] = active[i]
      /\ last = <<TRUE>> => all[Len(rows) + 1]
  <2>1. /\ all \in Seq(BOOLEAN) /\ Len(all) = Len(active) + Len(last)
        /\ DOMAIN all = 1 .. Len(active) + Len(last)
        /\ \A i \in 1 .. Len(active) : all[i] = active[i]
        /\ Len(last) = 1 => all[Len(active) + 1] = last[1]
    BY <1>4, <1>6, Appended
  <2>2. ASSUME last = <<TRUE>> PROVE all[Len(rows) + 1] = TRUE
    BY <1>4, <1>6, <2>1, <2>2, Zenon
  <2> HIDE DEF all
  <2>3. /\ Len(all) = Len(rows) + Len(last) /\ DOMAIN all = 1 .. Len(rows) + Len(last)
        /\ \A i \in 1 .. Len(rows) : all[i] = active[i]
    BY <1>4, <2>1, Zenon
  <2> QED
    BY <2>1, <2>2, <2>3, Zenon
<1> QED
  BY <1>5, <1>7 DEF active

(* A change of the active scorecard is committed; the others under way     *)
(* have been overtaken.                                                    *)
LEMMA CommitScorecardInv ==
  ASSUME SettingsInv, NEW k \in Clerks, CommitScorecard(k)
  PROVE  SettingsInv'
<1> DEFINE c == change[k]
           last == IF c.target = Len(c.seen) + 1 THEN <<TRUE>> ELSE <<>>
<1>1. /\ c.what = "scorecard" /\ alone' = c.alone /\ registers' = registers /\ changes' = changes
      /\ scorecards' = WithActive(c, scorecards) \o last
      /\ change' = [l \in Clerks |->
           IF l = k THEN NoChange
           ELSE IF change[l].what = "scorecard" THEN [change[l] EXCEPT !.alone = FALSE]
           ELSE change[l]]
  BY DEF CommitScorecard
<1>2. /\ c \in Change /\ scorecards \in Seq(BOOLEAN) /\ ChangeFits(c)
      /\ c.target \in Nat \ {0} /\ c.seen \in Seq(BOOLEAN) /\ c.alone \in BOOLEAN
  BY <1>1, ChangeFields DEF SettingsInv, SettingsTypeOK
<1>3. /\ scorecards' \in Seq(BOOLEAN)
      /\ DOMAIN scorecards' = 1 .. Len(scorecards) + Len(last)
      /\ c.seen = scorecards => \A i \in 1 .. Len(scorecards) : scorecards'[i] <=> i = c.target
      /\ last = <<TRUE>> => scorecards'[Len(scorecards) + 1]
  BY <1>1, <1>2, Versions
<1>4. \A l \in Clerks : change'[l] \in Change /\ (change'[l].what = "scorecard" => ~change'[l].alone)
  <2> SUFFICES ASSUME NEW l \in Clerks
               PROVE change'[l] \in Change /\ (change'[l].what = "scorecard" => ~change'[l].alone)
    OBVIOUS
  <2>1. change[l] \in Change
    BY DEF SettingsInv, SettingsTypeOK
  <2>2. CASE l = k
    BY <1>1, <2>2 DEF NoChange, Change
  <2>3. CASE l # k /\ change[l].what = "scorecard"
    BY <1>1, <2>1, <2>3 DEF Change
  <2>4. CASE l # k /\ change[l].what # "scorecard"
    BY <1>1, <2>1, <2>4
  <2> QED
    BY <2>2, <2>3, <2>4
<1>5. \A l \in Clerks : ChangeFits(change[l])'
  <2> SUFFICES ASSUME NEW l \in Clerks, change'[l].what = "scorecard"
               PROVE  /\ change'[l].target \in 1 .. Len(change'[l].seen) + 1
                      /\ ~change'[l].alone
    BY DEF ChangeFits
  <2>1. change[l] \in Change /\ ChangeFits(change[l])
    BY DEF SettingsInv, SettingsTypeOK
  <2>2. l # k /\ change[l].what = "scorecard" /\ change'[l] = [change[l] EXCEPT !.alone = FALSE]
    BY <1>1, <2>1 DEF NoChange
  <2>3. change'[l].target = change[l].target /\ change'[l].seen = change[l].seen
    BY <2>1, <2>2 DEF Change
  <2> QED
    BY <1>4, <2>1, <2>2, <2>3 DEF ChangeFits
<1>6. alone' /\ scorecards' # <<>> => OneActive'
  <2> SUFFICES ASSUME c.alone
               PROVE  \E t \in DOMAIN scorecards' : \A i \in DOMAIN scorecards' :
                        scorecards'[i] <=> i = t
    BY <1>1 DEF OneActive
  <2>1. c.seen = scorecards /\ c.target \in 1 .. Len(scorecards) + 1
    BY <1>1, <1>2 DEF ChangeFits
  <2>2. \A i \in 1 .. Len(scorecards) : scorecards'[i] <=> i = c.target
    BY <1>3, <2>1
  <2>3. CASE c.target = Len(scorecards) + 1
    <3>1. DOMAIN scorecards' = 1 .. Len(scorecards) + 1 /\ scorecards'[Len(scorecards) + 1]
      BY <1>3, <2>1, <2>3
    <3>2. \A i \in DOMAIN scorecards' : scorecards'[i] <=> i = c.target
      BY <1>2, <2>2, <2>3, <3>1
    <3> QED
      BY <2>3, <3>1, <3>2, <1>2
  <2>4. CASE c.target # Len(scorecards) + 1
    <3>1. DOMAIN scorecards' = 1 .. Len(scorecards)
      BY <1>2, <1>3, <2>1, <2>4
    <3> QED
      BY <1>2, <2>1, <2>2, <2>4, <3>1
  <2> QED
    BY <2>3, <2>4
<1>7. SettingsTypeOK'
  <2>1. change' \in [Clerks -> Change]
    BY <1>1, <1>4
  <2> QED
    BY <1>1, <1>2, <1>3, <2>1 DEF SettingsInv, SettingsTypeOK
<1> QED
  BY <1>1, <1>5, <1>6, <1>7 DEF SettingsInv

(* A name is added, changed or removed, under the unique key.              *)
LEMMA CommitRegisterInv ==
  ASSUME SettingsInv, NEW k \in Clerks, CommitRegister(k)
  PROVE  SettingsInv'
<1> DEFINE c == change[k]
           added(n) == IF c.what # "delete" /\ n = c.name THEN 1 ELSE 0
           gone(n) == IF c.what # "insert" /\ n = c.from /\ registers[c.in][n] > 0 THEN 1 ELSE 0
           after == [n \in Names |-> registers[c.in][n] + added(n) - gone(n)]
<1>1. /\ c.what \in {"insert", "rename", "delete"} /\ KeyHolds(c)
      /\ c.what = "rename" => registers[c.in][c.from] > 0
      /\ registers' = [registers EXCEPT ![c.in] = after]
      /\ change' = [change EXCEPT ![k] = NoChange]
      /\ scorecards' = scorecards /\ changes' = changes /\ alone' = alone
  BY DEF CommitRegister
<1>2. /\ c \in Change /\ c.in \in Register /\ c.name \in Names
      /\ registers \in [Register -> [Names -> Nat]]
  BY <1>1, ChangeFields DEF SettingsInv, SettingsTypeOK
<1>3. \A n \in Names : registers[c.in][n] \in {0, 1}
  BY <1>2 DEF SettingsInv
<1>4. ASSUME NEW n \in Names PROVE after[n] \in {0, 1}
  BY <1>1, <1>3, <1>4 DEF KeyHolds
<1> HIDE DEF c, after
<1>5. registers' \in [Register -> [Names -> Nat]] /\ \A t \in Register, n \in Names : registers'[t][n] <= 1
  <2>1. \A t \in Register : registers'[t] = IF t = c.in THEN after ELSE registers[t]
    BY <1>1, <1>2
  <2>2. after \in [Names -> Nat]
    BY <1>4 DEF after
  <2>3. \A t \in Register : registers'[t] \in [Names -> Nat] /\ \A n \in Names : registers'[t][n] <= 1
    <3> SUFFICES ASSUME NEW t \in Register
                 PROVE  registers'[t] \in [Names -> Nat] /\ \A n \in Names : registers'[t][n] <= 1
      OBVIOUS
    <3>1. CASE t = c.in
      BY <1>4, <2>1, <2>2, <3>1
    <3>2. CASE t # c.in
      BY <1>2, <2>1, <3>2 DEF SettingsInv
    <3> QED
      BY <3>1, <3>2
  <2>4. registers' = [t \in Register |-> registers'[t]]
    BY <1>1, <1>2
  <2> QED
    BY <2>3, <2>4
<1>6. NoChange \in Change /\ NoChange.what # "scorecard"
  BY DEF NoChange, Change
<1>7. SettingsTypeOK'
  BY <1>1, <1>5, <1>6 DEF SettingsInv, SettingsTypeOK
<1>8. \A l \in Clerks : ChangeFits(change[l])'
  BY <1>1, <1>6 DEF SettingsInv, SettingsTypeOK, ChangeFits
<1> QED
  BY <1>1, <1>5, <1>7, <1>8 DEF SettingsInv, OneActive

(* No step breaks the invariant.                                           *)
LEMMA SettingsStepInv == SettingsInv /\ [SettingsNext]_settingsVars => SettingsInv'
<1> SUFFICES ASSUME SettingsInv, [SettingsNext]_settingsVars PROVE SettingsInv'
  OBVIOUS
<1>1. CASE SettingsNext
  BY <1>1, ReadScorecardsInv, CommitScorecardInv, ReadRegisterInv, CommitRegisterInv, DropInv
  DEF SettingsNext
<1>2. CASE UNCHANGED settingsVars
  BY <1>2 DEF settingsVars, SettingsInv, SettingsTypeOK, ChangeFits, OneActive
<1> QED
  BY <1>1, <1>2

(* After a change that overlapped no other exactly one scorecard is        *)
(* active, and no name is there twice (create_scorecard,                   *)
(* activate_scorecard, create_glossary, update_glossary,                   *)
(* create_admin_team).                                                     *)
THEOREM SettingsAreSingularHolds == SettingsSpec => []SettingsAreSingular
<1>1. SettingsInv => SettingsAreSingular
  <2> SUFFICES ASSUME SettingsInv, alone, scorecards # <<>>
               PROVE  Cardinality({i \in DOMAIN scorecards : scorecards[i]}) = 1
    BY DEF SettingsInv, SettingsAreSingular
  <2>1. PICK t \in DOMAIN scorecards : \A i \in DOMAIN scorecards : scorecards[i] <=> i = t
    BY DEF SettingsInv, OneActive
  <2>2. {i \in DOMAIN scorecards : scorecards[i]} = {t}
    BY <2>1
  <2> QED
    BY <2>2, FS_Singleton
<1> QED
  BY <1>1, SettingsInitInv, SettingsStepInv, PTL DEF SettingsSpec

(***************************************************************************)
(* Members and their identities                                            *)
(***************************************************************************)

On(q, e) == calls[q] # NoRequest /\ calls[q].email = e
Updates(q, t) == calls[q] # NoRequest /\ calls[q].kind = "update" /\ calls[q].tenant = t
Has(t, e) == members[t][e].exists

(* A row is active only if it exists, and has an identity then; so has     *)
(* whoever a request has read in Keycloak.  Only an update may take away.  *)
RowsInv ==
  /\ \A t \in Tenants, e \in Emails :
       (members[t][e].active => Has(t, e)) /\ (Has(t, e) => identities[e].exists)
  /\ \A q \in Requesters : calls[q] # NoRequest =>
       /\ calls[q].pc # "post" => identities[calls[q].email].exists
       /\ calls[q].kind = "update" => Has(calls[q].tenant, calls[q].email)
       /\ calls[q].kind # "update" => calls[q].active
       /\ calls[q].kind = "bootstrap" => calls[q].role = "admin"

(* What Keycloak has of somebody is what the rows say.                     *)
Agree(e) ==
  \A t \in Tenants : Has(t, e) =>
    /\ identities[e].tenant = t
    /\ identities[e].enabled = members[t][e].active
    /\ members[t][e].role \in identities[e].roles

(* How far a request has brought Keycloak: never to another tenant, and to *)
(* what its row is going to say.                                           *)
CallFits(q) ==
  LET c == calls[q]
      i == identities[c.email]
  IN /\ \A t \in Tenants : Has(t, c.email) => i.tenant = t
     /\ c.pc \in {"post", "read", "attach", "enable"} => Agree(c.email)
     /\ c.pc = "attach" => c.kind # "update" /\ i.tenant \in {c.tenant, NoTenant}
     /\ c.pc \in {"enable", "clear"} => c.kind = "update"
     /\ c.pc \in {"enable", "clear", "grant", "write"} => i.tenant = c.tenant
     /\ c.pc \in {"clear", "grant", "write"} => i.enabled = c.active
     /\ c.pc = "write" => c.role \in i.roles
     /\ c.kind = "update" => c.loaded = members[c.tenant][c.email]

(* Whoever is not muddled is the subject of one request at most.           *)
EmailInv(e) ==
  /\ \A p, q \in Requesters : On(p, e) /\ On(q, e) => p = q
  /\ (\A q \in Requesters : ~On(q, e)) => Agree(e)
  /\ \A q \in Requesters : On(q, e) => CallFits(q)

IdentityInv == \A e \in Emails : e \notin muddled => EmailInv(e)

(* Somebody else is an administrator, or the subject of the update is one  *)
(* and stays one.                                                          *)
KeepsAdmin(q) ==
  LET c == calls[q]
  IN \/ \E e \in Emails \ {c.email} : IsAdmin(c.tenant, e)
     \/ IsAdmin(c.tenant, c.email) /\ c.role = "admin" /\ c.active

HasAdmin(t) == \E e \in Emails : IsAdmin(t, e)

UpdatesApart ==
  \A t \in Tenants, p, q \in Requesters : Updates(p, t) /\ Updates(q, t) => p = q

UpdatesKeepAdmin ==
  \A t \in Tenants, q \in Requesters : Updates(q, t) => KeepsAdmin(q)

TenantsHaveAdmin ==
  /\ \A t \in Tenants : (\E e \in Emails : Has(t, e)) => HasAdmin(t)
  /\ \A q \in Requesters : calls[q] # NoRequest /\ calls[q].kind = "create" =>
       HasAdmin(calls[q].tenant)

AdminInv == ~raced => UpdatesApart /\ UpdatesKeepAdmin /\ TenantsHaveAdmin

MembershipInv == MembershipTypeOK /\ RowsInv /\ IdentityInv /\ AdminInv

-----------------------------------------------------------------------------
(* What the type says of a request.                                        *)
LEMMA RequestFields ==
  ASSUME MembershipTypeOK, NEW q \in Requesters, calls[q] # NoRequest
  PROVE  /\ calls[q] \in AdminCall
         /\ calls[q].email \in Emails /\ calls[q].tenant \in Tenants
         /\ identities[calls[q].email] \in Identity
         /\ members[calls[q].tenant][calls[q].email] \in Member
BY DEF MembershipTypeOK, AdminCall

(* A request that is under way has a step.                                 *)
LEMMA RequestIsReal == \A c \in AdminCall : c # NoRequest
BY DEF AdminCall, NoRequest

(* Somebody nothing happens to.                                            *)
LEMMA EmailKept ==
  ASSUME NEW e \in Emails, EmailInv(e), identities'[e] = identities[e],
         \A t \in Tenants : members'[t][e] = members[t][e],
         \A q \in Requesters : On(q, e)' <=> On(q, e),
         \A q \in Requesters : On(q, e) => calls'[q] = calls[q],
         \A q \in Requesters : On(q, e) => calls[q].tenant \in Tenants
  PROVE  EmailInv(e)'
<1>1. \A t \in Tenants : Has(t, e)' <=> Has(t, e)
  BY DEF Has
<1>2. Agree(e)' <=> Agree(e)
  BY <1>1 DEF Agree
<1>3. \A q \in Requesters : On(q, e) /\ CallFits(q) => CallFits(q)'
  <2> SUFFICES ASSUME NEW q \in Requesters, On(q, e), CallFits(q)
               PROVE  CallFits(q)'
    OBVIOUS
  <2>1. calls'[q] = calls[q] /\ calls[q].email = e /\ calls[q].tenant \in Tenants
    BY DEF On
  <2> QED
    BY <1>1, <1>2, <2>1 DEF CallFits, Agree
<1> QED
  BY <1>2, <1>3 DEF EmailInv

(* As long as rows and requests stay, so do the administrators.            *)
LEMMA AdminKept ==
  ASSUME AdminInv, UNCHANGED <<members, raced>>,
         \A q \in Requesters : calls'[q] # NoRequest =>
           /\ calls[q] # NoRequest
           /\ calls'[q].email = calls[q].email /\ calls'[q].tenant = calls[q].tenant
           /\ calls'[q].kind = calls[q].kind /\ calls'[q].role = calls[q].role
           /\ calls'[q].active = calls[q].active
  PROVE  AdminInv'
<1>1. \A t \in Tenants, e \in Emails : IsAdmin(t, e)' <=> IsAdmin(t, e)
  BY DEF IsAdmin
<1>2. UpdatesApart => UpdatesApart'
  BY DEF UpdatesApart, Updates
<1>3. UpdatesKeepAdmin => UpdatesKeepAdmin'
  BY DEF UpdatesKeepAdmin, Updates, KeepsAdmin, IsAdmin
<1>4. TenantsHaveAdmin => TenantsHaveAdmin'
  BY DEF TenantsHaveAdmin, HasAdmin, Has, IsAdmin
<1> QED
  BY <1>2, <1>3, <1>4 DEF AdminInv

(* A request has made its next call to Keycloak.                           *)
LEMMA KeycloakStep ==
  ASSUME MembershipInv, NEW q \in Requesters, calls[q] # NoRequest, NEW e \in Emails,
         e = calls[q].email, NEW c \in AdminCall, NEW pc, c = [calls[q] EXCEPT !.pc = pc],
         c.pc # "post", calls' = [calls EXCEPT ![q] = c],
         NEW i \in Identity, identities' = [identities EXCEPT ![e] = i], i.exists,
         UNCHANGED <<members, made, outages, muddled, raced>>,
         EmailInv(e) /\ CallFits(q) => CallFits(q)'
  PROVE  MembershipInv'
<1>1. /\ MembershipTypeOK /\ calls[q] \in AdminCall /\ calls \in [Requesters -> AdminCall \cup {NoRequest}]
      /\ identities \in [Emails -> Identity]
  BY RequestFields DEF MembershipInv, MembershipTypeOK
<1>2. /\ c.email = e /\ c.tenant = calls[q].tenant /\ c.kind = calls[q].kind
      /\ c.role = calls[q].role /\ c.active = calls[q].active /\ c.loaded = calls[q].loaded
  BY <1>1 DEF AdminCall
<1>3. /\ calls'[q] = c /\ \A p \in Requesters \ {q} : calls'[p] = calls[p]
      /\ identities'[e] = i /\ \A f \in Emails \ {e} : identities'[f] = identities[f]
  BY <1>1
<1>4. c # NoRequest
  BY RequestIsReal
<1>5. MembershipTypeOK'
  BY <1>1 DEF MembershipTypeOK
<1>6. RowsInv'
  <2>1. \A t \in Tenants, f \in Emails : Has(t, f)' <=> Has(t, f)
    BY DEF Has
  <2>2. \A p \in Requesters : calls[p] # NoRequest =>
          calls[p].tenant \in Tenants /\ calls[p].email \in Emails
    BY <1>1, RequestFields
  <2>3. \A t \in Tenants, f \in Emails :
          (members'[t][f].active => Has(t, f)') /\ (Has(t, f)' => identities'[f].exists)
    BY <1>3, <2>1 DEF MembershipInv, RowsInv
  <2>4. ASSUME NEW p \in Requesters, calls'[p] # NoRequest
        PROVE  /\ calls'[p].pc # "post" => identities'[calls'[p].email].exists
               /\ calls'[p].kind = "update" => Has(calls[p].tenant, calls[p].email)
               /\ calls'[p].tenant = calls[p].tenant /\ calls'[p].email = calls[p].email
               /\ calls'[p].kind # "update" => calls'[p].active
               /\ calls'[p].kind = "bootstrap" => calls'[p].role = "admin"
    <3>1. CASE p = q
      BY <1>2, <1>3, <3>1 DEF MembershipInv, RowsInv
    <3>2. CASE p # q
      BY <1>3, <2>2, <2>4, <3>2 DEF MembershipInv, RowsInv
    <3> QED
      BY <3>1, <3>2
  <2> QED
    BY <2>3, <2>4 DEF RowsInv, Has
<1>7. IdentityInv'
  <2> SUFFICES ASSUME NEW f \in Emails, f \notin muddled, EmailInv(f) PROVE EmailInv(f)'
    BY DEF MembershipInv, IdentityInv
  <2>1. \A p \in Requesters : On(p, f)' <=> On(p, f)
    BY <1>2, <1>3, <1>4 DEF On
  <2>2. CASE f # e
    <3>1. /\ \A p \in Requesters : On(p, f) => calls'[p] = calls[p]
          /\ \A p \in Requesters : On(p, f) => calls[p].tenant \in Tenants
      BY <1>1, <1>3, <2>2, RequestFields DEF On
    <3> QED
      BY <1>3, <2>1, <2>2, <3>1, EmailKept
  <2>3. CASE f = e
    <3>1. On(q, e) /\ \A p \in Requesters : On(p, e) => p = q
      BY <2>3 DEF On, EmailInv
    <3>2. CallFits(q)
      BY <2>3, <3>1 DEF EmailInv
    <3> QED
      BY <2>1, <2>3, <3>1, <3>2 DEF EmailInv
  <2> QED
    BY <2>2, <2>3
<1>8. AdminInv'
  BY <1>2, <1>3, AdminKept DEF MembershipInv
<1> QED
  BY <1>5, <1>6, <1>7, <1>8 DEF MembershipInv

(* Each call of a request to Keycloak.                                     *)
LEMMA CallInv ==
  ASSUME MembershipInv, NEW q \in Requesters,
         \/ PostUser(q) \/ ReadUser(q) \/ AttachTenant(q)
         \/ SetEnabled(q) \/ ClearRoles(q) \/ GrantRole(q)
  PROVE  MembershipInv'
<1>1. calls[q] # NoRequest
  BY DEF PostUser, ReadUser, AttachTenant, SetEnabled, ClearRoles, GrantRole, NoRequest
<1>2. MembershipTypeOK /\ RowsInv
  BY DEF MembershipInv
<1>3. PICK e \in Emails : e = calls[q].email
  BY <1>1, <1>2, RequestFields
<1>4. PICK j \in Identity : j = identities[e]
  BY <1>2 DEF MembershipTypeOK
<1>5. PICK d \in AdminCall : d = calls[q]
  BY <1>1, <1>2, RequestFields
<1>6. PICK pc \in {"read", "attach", "enable", "clear", "grant", "write"} :
        calls' = [calls EXCEPT ![q].pc = pc]
  BY DEF PostUser, ReadUser, AttachTenant, SetEnabled, ClearRoles, GrantRole, Go
<1>7. PICK c : c = [d EXCEPT !.pc = pc]
  OBVIOUS
<1>8. /\ c \in AdminCall /\ c.pc = pc /\ c.email = e /\ c.tenant = d.tenant
      /\ c.kind = d.kind /\ c.role = d.role /\ c.active = d.active /\ c.loaded = d.loaded
      /\ d.tenant \in Tenants /\ d.role \in MemberRole /\ d.active \in BOOLEAN
  BY <1>3, <1>5, <1>6, <1>7 DEF AdminCall
<1>9. calls' = [calls EXCEPT ![q] = c] /\ calls'[q] = c
  BY <1>2, <1>5, <1>6, <1>7 DEF MembershipTypeOK
<1>10. UNCHANGED <<members, made, outages, muddled, raced>>
  BY DEF PostUser, ReadUser, AttachTenant, SetEnabled, ClearRoles, GrantRole
<1>11. d.pc # "post" => j.exists
  BY <1>1, <1>2, <1>3, <1>4, <1>5 DEF RowsInv
<1>12. \A t \in Tenants, f \in Emails : Has(t, f)' <=> Has(t, f)
  BY <1>10 DEF Has
<1>13. \A t \in Tenants : Has(t, e) => j.exists
  BY <1>2, <1>4 DEF RowsInv
<1>14. ASSUME NEW i \in Identity, identities' = [identities EXCEPT ![e] = i], i.exists,
              EmailInv(e) /\ CallFits(q) => CallFits(q)'
       PROVE  MembershipInv'
  BY <1>1, <1>3, <1>5, <1>7, <1>8, <1>9, <1>10, <1>14, KeycloakStep
<1>15. CASE identities' = identities /\ j.exists
            /\ (EmailInv(e) /\ CallFits(q) => CallFits(q)')
  <2>1. identities' = [identities EXCEPT ![e] = j]
    BY <1>2, <1>4, <1>15 DEF MembershipTypeOK
  <2> QED
    BY <1>4, <1>14, <1>15, <2>1
<1>16. CASE PostUser(q) \/ ReadUser(q)
  <2>1. CASE identities' = identities /\ j.exists
    <3> SUFFICES ASSUME EmailInv(e), CallFits(q) PROVE CallFits(q)'
      BY <1>15, <2>1
    <3>1. /\ \A t \in Tenants : Has(t, e) => j.tenant = t
          /\ Agree(e)
          /\ d.kind = "update" => d.loaded = members[d.tenant][e]
      BY <1>3, <1>4, <1>5, <1>16 DEF CallFits, PostUser, ReadUser
    <3>2. Agree(e)'
      BY <1>10, <1>12, <2>1, <3>1 DEF Agree
    <3>3. pc \in {"read", "attach", "enable"}
      BY <1>2, <1>5, <1>6, <1>16 DEF PostUser, ReadUser, Go, MembershipTypeOK, AdminCall
    <3>4. /\ pc = "attach" => d.kind # "update" /\ j.tenant \in {d.tenant, NoTenant}
          /\ pc = "enable" => d.kind = "update" /\ j.tenant = d.tenant
      BY <1>2, <1>3, <1>4, <1>5, <1>6, <1>16
      DEF PostUser, ReadUser, Go, MembershipTypeOK, AdminCall, TenantFits
    <3>5. identities'[e] = j /\ members' = members
      BY <1>4, <1>10, <2>1
    <3> QED
      BY <1>8, <1>9, <1>12, <3>1, <3>2, <3>3, <3>4, <3>5 DEF CallFits
  <2>2. CASE ~(identities' = identities /\ j.exists)
    <3>1. /\ d.pc = "post" /\ pc = "read" /\ ~j.exists
          /\ identities' = [identities EXCEPT ![e] =
               [tenant |-> d.tenant, enabled |-> TRUE, roles |-> {}, exists |-> TRUE]]
      BY <1>2, <1>3, <1>4, <1>5, <1>6, <1>11, <1>16, <2>2
      DEF PostUser, ReadUser, Go, Alter, MembershipTypeOK, AdminCall
    <3>2. PICK i : i = [tenant |-> d.tenant, enabled |-> TRUE, roles |-> {}, exists |-> TRUE]
      OBVIOUS
    <3>3. i \in Identity /\ i.exists /\ identities' = [identities EXCEPT ![e] = i]
      BY <1>8, <3>1, <3>2 DEF Identity
    <3>4. \A t \in Tenants : ~Has(t, e)'
      BY <1>12, <1>13, <3>1
    <3>5. Agree(e)'
      BY <3>4 DEF Agree
    <3>6. CallFits(q) => (d.kind = "update" => d.loaded = members[d.tenant][e])
      BY <1>3, <1>5 DEF CallFits
    <3>7. CallFits(q) => CallFits(q)'
      BY <1>8, <1>9, <1>10, <3>1, <3>4, <3>5, <3>6 DEF CallFits
    <3> QED
      BY <1>14, <3>3, <3>7
  <2> QED
    BY <2>1, <2>2
<1>17. ASSUME NEW i \in Identity, identities' = [identities EXCEPT ![e] = i], i.exists,
              pc \in {"clear", "grant", "write"},
              CallFits(q) => /\ \A t \in Tenants : Has(t, e) => t = c.tenant
                             /\ pc = "clear" => c.kind = "update"
                             /\ i.tenant = c.tenant /\ i.enabled = c.active
                             /\ pc = "write" => c.role \in i.roles
       PROVE  MembershipInv'
  <2>1. identities'[e] = i
    BY <1>2, <1>17 DEF MembershipTypeOK
  <2>2. CallFits(q) => (c.kind = "update" => c.loaded = members[c.tenant][e])
    BY <1>3, <1>5, <1>8 DEF CallFits
  <2>3. CallFits(q) => CallFits(q)'
    BY <1>8, <1>9, <1>10, <1>12, <1>17, <2>1, <2>2 DEF CallFits
  <2> QED
    BY <1>14, <1>17, <2>3
<1>18. CallFits(q) => /\ \A t \in Tenants : Has(t, e) => j.tenant = t
                      /\ d.pc = "attach" => d.kind # "update" /\ j.tenant \in {d.tenant, NoTenant}
                      /\ d.pc \in {"enable", "clear"} => d.kind = "update"
                      /\ d.pc \in {"enable", "clear", "grant"} => j.tenant = d.tenant
                      /\ d.pc \in {"clear", "grant"} => j.enabled = d.active
  BY <1>3, <1>4, <1>5 DEF CallFits
<1>19. d.kind # "update" => d.active
  BY <1>1, <1>2, <1>5 DEF RowsInv
<1>20. CASE AttachTenant(q) \/ SetEnabled(q)
  <2>1. /\ d.pc \in {"attach", "enable"} /\ pc = IF d.pc = "attach" THEN "grant" ELSE "clear"
        /\ identities' = [identities EXCEPT ![e] = [j EXCEPT !.tenant = d.tenant,
              !.enabled = IF d.pc = "attach" THEN TRUE ELSE d.active]]
    <3>1. ASSUME NEW next, Go(q, next) PROVE pc = next
      BY <1>2, <1>6, <3>1 DEF Go, MembershipTypeOK, AdminCall, NoRequest
    <3>2. CASE AttachTenant(q)
      <4>1. d.pc = "attach" /\ Go(q, "grant")
            /\ identities' = [identities EXCEPT ![e] = [j EXCEPT !.tenant = d.tenant,
                                                               !.enabled = TRUE]]
        BY <1>3, <1>4, <1>5, <3>2 DEF AttachTenant, Alter
      <4> QED
        BY <3>1, <4>1
    <3>3. CASE SetEnabled(q)
      <4>1. d.pc = "enable" /\ Go(q, "clear")
            /\ identities' = [identities EXCEPT ![e] = [j EXCEPT !.tenant = d.tenant,
                                                               !.enabled = d.active]]
        BY <1>3, <1>4, <1>5, <3>3 DEF SetEnabled, Alter
      <4> QED
        BY <3>1, <4>1
    <3> QED
      BY <1>20, <3>2, <3>3
  <2>2. PICK i : i = [j EXCEPT !.tenant = d.tenant,
                               !.enabled = IF d.pc = "attach" THEN TRUE ELSE d.active]
    OBVIOUS
  <2>3. /\ i \in Identity /\ i.exists /\ i.tenant = d.tenant
        /\ i.enabled = IF d.pc = "attach" THEN TRUE ELSE d.active
    BY <1>8, <1>11, <2>1, <2>2 DEF Identity
  <2>4. CallFits(q) => /\ \A t \in Tenants : Has(t, e) => t = d.tenant
                       /\ d.pc = "enable" => d.kind = "update"
                       /\ d.pc = "attach" => d.active
    BY <1>18, <1>19, <2>1, TenantsAssumption
  <2>5. CallFits(q) => i.enabled = d.active
    BY <1>8, <2>1, <2>3, <2>4
  <2> QED
    BY <1>8, <1>17, <2>1, <2>2, <2>3, <2>4, <2>5
<1>21. CASE ClearRoles(q) \/ GrantRole(q)
  <2>1. /\ d.pc \in {"clear", "grant"} /\ pc = IF d.pc = "clear" THEN "grant" ELSE "write"
        /\ identities' = [identities EXCEPT ![e] = [j EXCEPT !.roles =
              IF d.pc = "clear" THEN {} ELSE j.roles \cup {d.role}]]
    BY <1>2, <1>3, <1>4, <1>5, <1>6, <1>21
    DEF ClearRoles, GrantRole, Go, Alter, MembershipTypeOK, AdminCall, Identity
  <2>2. PICK i : i = [j EXCEPT !.roles = IF d.pc = "clear" THEN {} ELSE j.roles \cup {d.role}]
    OBVIOUS
  <2>3. /\ i \in Identity /\ i.exists /\ i.tenant = j.tenant /\ i.enabled = j.enabled
        /\ pc = "write" => d.role \in i.roles
    BY <1>8, <1>11, <2>1, <2>2 DEF Identity
  <2>4. CallFits(q) => /\ \A t \in Tenants : Has(t, e) => t = d.tenant
                       /\ j.tenant = d.tenant /\ j.enabled = d.active
    BY <1>18, <2>1
  <2> QED
    BY <1>8, <1>17, <2>1, <2>2, <2>3, <2>4
<1> QED
  BY <1>16, <1>20, <1>21

(* A request begins.                                                       *)
LEMMA MakeInv ==
  ASSUME MembershipInv, NEW q \in Requesters, NEW c \in AdminCall, Make(q, c),
         c.pc = IF c.kind = "update" THEN "read" ELSE "post",
         c.kind = "update" => /\ Has(c.tenant, c.email)
                              /\ c.loaded = members[c.tenant][c.email]
                              /\ \/ \E e \in Emails \ {c.email} : IsAdmin(c.tenant, e)
                                 \/ IsAdmin(c.tenant, c.email) /\ c.role = "admin" /\ c.active,
         c.kind = "create" => HasAdmin(c.tenant),
         c.kind # "update" => c.active,
         c.kind = "bootstrap" => c.role = "admin"
  PROVE  MembershipInv'
<1>1. /\ MembershipTypeOK /\ RowsInv /\ c # NoRequest
      /\ c.email \in Emails /\ c.tenant \in Tenants
      /\ c.kind \in {"create", "update", "bootstrap"}
  BY RequestIsReal DEF MembershipInv, AdminCall
<1>2. /\ calls[q] = NoRequest /\ calls' = [calls EXCEPT ![q] = c]
      /\ UNCHANGED <<members, identities, outages>> /\ made' = made + 1
      /\ muddled' = muddled \cup (IF OthersOn(q, c.email) THEN {c.email} ELSE {})
      /\ raced' = (raced \/ (c.kind = "update" /\ OtherUpdates(q, c.tenant)))
  BY DEF Make
<1>3. calls'[q] = c /\ \A p \in Requesters \ {q} : calls'[p] = calls[p]
  BY <1>1, <1>2 DEF MembershipTypeOK
<1>4. \A t \in Tenants, f \in Emails : Has(t, f)' <=> Has(t, f)
  BY <1>2 DEF Has
<1>5. MembershipTypeOK'
  <2>1. raced' \in BOOLEAN
    BY <1>2
  <2>2. muddled' \subseteq Emails /\ made' \in Nat
    BY <1>1, <1>2 DEF MembershipTypeOK
  <2>3. calls' \in [Requesters -> AdminCall \cup {NoRequest}]
    BY <1>1, <1>2 DEF MembershipTypeOK
  <2> QED
    BY <1>1, <1>2, <2>1, <2>2, <2>3 DEF MembershipTypeOK
<1>6. RowsInv'
  <2>1. ASSUME NEW p \in Requesters, calls'[p] # NoRequest
        PROVE  /\ calls'[p].pc # "post" => identities[calls'[p].email].exists
               /\ calls'[p].kind = "update" => Has(calls'[p].tenant, calls'[p].email)
               /\ calls'[p].kind # "update" => calls'[p].active
               /\ calls'[p].kind = "bootstrap" => calls'[p].role = "admin"
    BY <1>1, <1>3, <2>1 DEF RowsInv
  <2> QED
    BY <1>1, <1>2, <2>1 DEF RowsInv, Has
<1>7. IdentityInv'
  <2> SUFFICES ASSUME NEW f \in Emails, f \notin muddled', EmailInv(f) PROVE EmailInv(f)'
    BY <1>2 DEF MembershipInv, IdentityInv
  <2>1. \A p \in Requesters : On(p, f) => p # q /\ calls[p].tenant \in Tenants
    BY <1>1, <1>2, RequestFields DEF On
  <2>2. CASE f # c.email
    <3>1. \A p \in Requesters : On(p, f)' <=> On(p, f)
      BY <1>2, <1>3, <2>2 DEF On
    <3> QED
      BY <1>2, <1>3, <2>1, <3>1, EmailKept
  <2>3. CASE f = c.email
    <3>1. \A p \in Requesters : ~On(p, f)
      BY <1>2, <2>1, <2>3 DEF OthersOn, On
    <3>2. Agree(f)
      BY <3>1 DEF EmailInv
    <3>3. Agree(f)'
      BY <1>2, <1>4, <3>2 DEF Agree
    <3>4. \A p \in Requesters : On(p, f)' <=> p = q
      BY <1>1, <1>3, <2>3, <3>1 DEF On
    <3>5. c.pc \in {"post", "read"}
      BY <1>1
    <3>6. \A t \in Tenants : Has(t, f)' => identities'[f].tenant = t
      BY <3>3 DEF Agree
    <3>7. CallFits(q)'
      BY <1>2, <1>3, <2>3, <3>3, <3>5, <3>6 DEF CallFits
    <3> QED
      BY <3>3, <3>4, <3>7 DEF EmailInv
  <2> QED
    BY <2>2, <2>3
<1>8. AdminInv'
  <2> SUFFICES ASSUME ~raced' PROVE UpdatesApart' /\ UpdatesKeepAdmin' /\ TenantsHaveAdmin'
    BY DEF AdminInv
  <2>1. /\ UpdatesApart /\ UpdatesKeepAdmin /\ TenantsHaveAdmin
        /\ c.kind = "update" => ~OtherUpdates(q, c.tenant)
    BY <1>2 DEF MembershipInv, AdminInv
  <2>2. \A t \in Tenants : /\ \A p \in Requesters \ {q} : Updates(p, t)' <=> Updates(p, t)
                           /\ ~Updates(q, t)
                           /\ Updates(q, t)' => /\ c.kind = "update" /\ t = c.tenant
                                                /\ \A p \in Requesters \ {q} : ~Updates(p, t)
    BY <1>1, <1>2, <1>3, <2>1 DEF Updates, OtherUpdates
  <2>3. UpdatesApart'
    BY <2>1, <2>2 DEF UpdatesApart
  <2>4. \A t \in Tenants, e \in Emails : IsAdmin(t, e)' <=> IsAdmin(t, e)
    BY <1>2 DEF IsAdmin
  <2>5. UpdatesKeepAdmin'
    <3> SUFFICES ASSUME NEW t \in Tenants, NEW p \in Requesters, Updates(p, t)'
                 PROVE  KeepsAdmin(p)'
      BY DEF UpdatesKeepAdmin
    <3>1. CASE p = q
      BY <1>1, <1>2, <1>3, <2>2, <3>1 DEF KeepsAdmin, IsAdmin
    <3>2. CASE p # q
      <4>1. KeepsAdmin(p) /\ calls'[p] = calls[p]
        BY <1>3, <2>1, <2>2, <3>2 DEF UpdatesKeepAdmin
      <4> QED
        BY <1>2, <4>1 DEF KeepsAdmin, IsAdmin
    <3> QED
      BY <3>1, <3>2
  <2>6. TenantsHaveAdmin'
    BY <1>2, <1>3, <2>1 DEF TenantsHaveAdmin, HasAdmin, IsAdmin, Has
  <2> QED
    BY <2>3, <2>5, <2>6
<1> QED
  BY <1>5, <1>6, <1>7, <1>8 DEF MembershipInv

(* Who asks for an update is an administrator, and the count keeps one.    *)
LEMMA CountKeepsAdmin ==
  ASSUME NEW t \in Tenants, NEW e \in Emails, NEW role \in MemberRole,
         NEW active \in BOOLEAN, HasAdmin(t), KeepsAnAdmin(t, e, role, active)
  PROVE  \/ \E f \in Emails \ {e} : IsAdmin(t, f)
         \/ IsAdmin(t, e) /\ role = "admin" /\ active
<1> SUFFICES ASSUME \A f \in Emails \ {e} : ~IsAdmin(t, f)
             PROVE  IsAdmin(t, e) /\ role = "admin" /\ active
  OBVIOUS
<1>1. Admins(t) = {e} /\ IsAdmin(t, e)
  BY DEF HasAdmin, Admins
<1>2. Cardinality(Admins(t)) = 1
  BY <1>1, FS_Singleton
<1>3. ~(Cardinality(Admins(t)) > 1)
  BY <1>2
<1> QED
  BY <1>1, <1>3, Zenon DEF KeepsAnAdmin, IsAdmin

(* The three requests.                                                     *)
LEMMA AskInv ==
  ASSUME MembershipInv, NEW q \in Requesters, AskCreate(q) \/ AskUpdate(q) \/ AskBootstrap(q)
  PROVE  MembershipInv'
<1>1. NoMember \in Member /\ "staff" \in MemberRole /\ "admin" \in MemberRole
  BY DEF NoMember, Member, MemberRole
<1>2. \A t \in Tenants : (\E by \in Admins(t) : CanEnter(t, by)) => HasAdmin(t)
  BY DEF Admins, HasAdmin
<1>3. CASE AskCreate(q)
  <2>1. PICK t \in Tenants, e \in Emails, role \in MemberRole :
          /\ HasAdmin(t)
          /\ Make(q, [pc |-> "post", kind |-> "create", tenant |-> t, email |-> e,
                      role |-> role, active |-> TRUE, loaded |-> NoMember])
    BY <1>2, <1>3 DEF AskCreate
  <2>2. PICK c : c = [pc |-> "post", kind |-> "create", tenant |-> t, email |-> e,
                      role |-> role, active |-> TRUE, loaded |-> NoMember]
    OBVIOUS
  <2>3. /\ c \in AdminCall /\ c.pc = "post" /\ c.kind = "create" /\ c.tenant = t
        /\ c.active /\ Make(q, c)
    BY <1>1, <2>1, <2>2 DEF AdminCall
  <2> QED
    BY <2>1, <2>3, MakeInv
<1>4. CASE AskBootstrap(q)
  <2>1. PICK t \in Tenants, e \in Emails :
          Make(q, [pc |-> "post", kind |-> "bootstrap", tenant |-> t, email |-> e,
                   role |-> "admin", active |-> TRUE, loaded |-> NoMember])
    BY <1>4 DEF AskBootstrap
  <2>2. PICK c : c = [pc |-> "post", kind |-> "bootstrap", tenant |-> t, email |-> e,
                      role |-> "admin", active |-> TRUE, loaded |-> NoMember]
    OBVIOUS
  <2>3. /\ c \in AdminCall /\ c.pc = "post" /\ c.kind = "bootstrap" /\ c.active
        /\ c.role = "admin" /\ Make(q, c)
    BY <1>1, <2>1, <2>2 DEF AdminCall
  <2> QED
    BY <2>3, MakeInv
<1>5. CASE AskUpdate(q)
  <2>1. PICK t \in Tenants, e \in Emails, role \in MemberRole, active \in BOOLEAN :
          /\ HasAdmin(t) /\ members[t][e].exists /\ KeepsAnAdmin(t, e, role, active)
          /\ Make(q, [pc |-> "read", kind |-> "update", tenant |-> t, email |-> e,
                      role |-> role, active |-> active, loaded |-> members[t][e]])
    BY <1>2, <1>5 DEF AskUpdate
  <2>2. PICK c : c = [pc |-> "read", kind |-> "update", tenant |-> t, email |-> e,
                      role |-> role, active |-> active, loaded |-> members[t][e]]
    OBVIOUS
  <2>3. members[t][e] \in Member
    BY DEF MembershipInv, MembershipTypeOK
  <2>4. /\ c \in AdminCall /\ c.pc = "read" /\ c.kind = "update" /\ c.tenant = t
        /\ c.email = e /\ c.role = role /\ c.active = active /\ c.loaded = members[t][e]
        /\ Make(q, c)
    BY <2>1, <2>2, <2>3 DEF AdminCall
  <2>5. \/ \E f \in Emails \ {e} : IsAdmin(t, f)
        \/ IsAdmin(t, e) /\ role = "admin" /\ active
    BY <2>1, CountKeepsAdmin
  <2>6. Has(t, e)
    BY <2>1 DEF Has
  <2> QED
    BY <2>4, <2>5, <2>6, MakeInv
<1> QED
  BY <1>3, <1>4, <1>5

(* A request that ends without a row.                                      *)
LEMMA GiveUpInv ==
  ASSUME MembershipInv, NEW q \in Requesters, GiveUp(q)
  PROVE  MembershipInv'
<1>1. /\ MembershipTypeOK /\ RowsInv /\ calls[q] # NoRequest
      /\ calls' = [calls EXCEPT ![q] = NoRequest] /\ UNCHANGED <<members, identities, made, raced>>
      /\ muddled' = muddled \cup
           (IF calls[q].pc = "post"
               \/ (calls[q].pc = "read" /\ (calls[q].kind = "update" \/ ~TenantFits(calls[q])))
            THEN {} ELSE {calls[q].email})
  BY DEF MembershipInv, GiveUp
<1>2. calls'[q] = NoRequest /\ \A p \in Requesters \ {q} : calls'[p] = calls[p]
  BY <1>1 DEF MembershipTypeOK
<1>3. \A t \in Tenants, f \in Emails : Has(t, f)' <=> Has(t, f)
  BY <1>1 DEF Has
<1>4. MembershipTypeOK'
  <2>1. outages' \in Nat
    BY <1>1 DEF GiveUp, MembershipTypeOK
  <2>2. calls[q].email \in Emails
    BY <1>1, RequestFields
  <2> QED
    BY <1>1, <2>1, <2>2 DEF MembershipTypeOK
<1>5. RowsInv'
  <2>1. \A p \in Requesters : calls'[p] # NoRequest => calls'[p] = calls[p] /\ calls[p] # NoRequest
    BY <1>2
  <2>2. \A p \in Requesters : calls'[p] # NoRequest =>
          /\ calls'[p].pc # "post" => identities'[calls'[p].email].exists
          /\ calls'[p].kind = "update" => Has(calls'[p].tenant, calls'[p].email)
          /\ calls'[p].kind # "update" => calls'[p].active
          /\ calls'[p].kind = "bootstrap" => calls'[p].role = "admin"
    BY <1>1, <2>1 DEF RowsInv
  <2> QED
    BY <1>1, <2>2 DEF RowsInv, Has
<1>6. IdentityInv'
  <2> SUFFICES ASSUME NEW f \in Emails, f \notin muddled', EmailInv(f) PROVE EmailInv(f)'
    BY <1>1 DEF MembershipInv, IdentityInv
  <2>1. \A p \in Requesters : On(p, f) => calls[p].tenant \in Tenants
    BY <1>1, RequestFields DEF On
  <2>2. CASE calls[q].email # f
    <3>1. /\ \A p \in Requesters : On(p, f)' <=> On(p, f)
          /\ \A p \in Requesters : On(p, f) => calls'[p] = calls[p]
      BY <1>2, <2>2 DEF On
    <3> QED
      BY <1>1, <2>1, <3>1, EmailKept
  <2>3. CASE calls[q].email = f
    <3>1. calls[q].pc \in {"post", "read"} /\ On(q, f)
      BY <1>1, <2>3 DEF On
    <3>2. CallFits(q) /\ \A p \in Requesters : On(p, f) => p = q
      BY <3>1 DEF EmailInv
    <3>3. Agree(f)
      BY <2>3, <3>1, <3>2 DEF CallFits
    <3>4. Agree(f)'
      BY <1>1, <1>3, <3>3 DEF Agree
    <3>5. \A p \in Requesters : ~On(p, f)'
      BY <1>2, <3>2 DEF On
    <3> QED
      BY <3>4, <3>5 DEF EmailInv
  <2> QED
    BY <2>2, <2>3
<1>7. AdminInv'
  <2>1. \A p \in Requesters : calls'[p] # NoRequest => calls'[p] = calls[p] /\ calls[p] # NoRequest
    BY <1>2
  <2> QED
    BY <1>1, <2>1, AdminKept DEF MembershipInv
<1> QED
  BY <1>4, <1>5, <1>6, <1>7 DEF MembershipInv

(* The row that a request commits.                                         *)
LEMMA AfterFields ==
  ASSUME NEW c \in AdminCall, NEW row \in Member
  PROVE  /\ After(c, row) \in Member
         /\ After(c, row).exists = IF c.kind = "update" THEN row.exists ELSE TRUE
         /\ c.kind = "update" /\ c.loaded = row =>
              After(c, row).role = c.role /\ After(c, row).active = c.active
         /\ c.kind # "update" => After(c, row).role = c.role /\ After(c, row).active
         /\ c.kind = "update" /\ c.role = "admin" /\ c.active
              /\ row.role = "admin" /\ row.active =>
              After(c, row).role = "admin" /\ After(c, row).active
BY DEF After, AdminCall, Member

(* A request commits its row.                                              *)
LEMMA WriteInv ==
  ASSUME MembershipInv, NEW q \in Requesters, WriteMember(q)
  PROVE  MembershipInv'
<1>1. /\ MembershipTypeOK /\ RowsInv /\ calls[q] # NoRequest
      /\ UNCHANGED <<identities, made, outages, muddled, raced>>
      /\ calls' = [calls EXCEPT ![q] = NoRequest]
  BY DEF MembershipInv, WriteMember, NoRequest
<1>2. PICK c \in AdminCall : c = calls[q]
  BY <1>1, RequestFields
<1>3. PICK t \in Tenants : t = c.tenant
  BY <1>2 DEF AdminCall
<1>4. PICK e \in Emails : e = c.email
  BY <1>2 DEF AdminCall
<1>5. PICK old \in Member : old = members[t][e]
  BY <1>1 DEF MembershipTypeOK
<1>6. PICK row : row = After(c, old)
  OBVIOUS
<1>7. /\ c.pc = "write" /\ (c.kind = "create" => ~old.exists)
      /\ members' = [members EXCEPT ![t][e] = row]
  BY <1>2, <1>3, <1>4, <1>5, <1>6 DEF WriteMember
<1>8. /\ row \in Member /\ row.exists
      /\ c.kind = "update" /\ c.loaded = old => row.role = c.role /\ row.active = c.active
      /\ c.kind # "update" => row.role = c.role /\ row.active /\ c.active
      /\ c.kind = "update" => old.exists
      /\ c.kind = "update" /\ c.role = "admin" /\ c.active
           /\ old.role = "admin" /\ old.active => row.role = "admin" /\ row.active
  <2>1. c.kind = "update" => old.exists
    BY <1>1, <1>2, <1>3, <1>4, <1>5 DEF RowsInv, Has
  <2>2. c.kind # "update" => c.active
    BY <1>1, <1>2 DEF RowsInv
  <2> QED
    BY <1>6, <2>1, <2>2, AfterFields
<1>9. /\ members' \in [Tenants -> [Emails -> Member]]
      /\ members'[t][e] = row
      /\ \A s \in Tenants, f \in Emails : s # t \/ f # e => members'[s][f] = members[s][f]
  BY <1>1, <1>7, <1>8 DEF MembershipTypeOK
<1>10. calls'[q] = NoRequest /\ \A p \in Requesters \ {q} : calls'[p] = calls[p]
  BY <1>1 DEF MembershipTypeOK
<1>11. \A p \in Requesters : calls'[p] # NoRequest => calls'[p] = calls[p] /\ calls[p] # NoRequest
  BY <1>10
<1>12. /\ Has(t, e)' /\ \A s \in Tenants, f \in Emails : Has(s, f) => Has(s, f)'
       /\ \A s \in Tenants, f \in Emails : s # t \/ f # e => (Has(s, f)' <=> Has(s, f))
  BY <1>8, <1>9 DEF Has
<1>13. MembershipTypeOK'
  BY <1>1, <1>9 DEF MembershipTypeOK
<1>14. RowsInv'
  <2>1. identities[e].exists
    BY <1>1, <1>2, <1>4, <1>7 DEF RowsInv
  <2>2. ASSUME NEW s \in Tenants, NEW f \in Emails
        PROVE  (members'[s][f].active => Has(s, f)') /\ (Has(s, f)' => identities'[f].exists)
    BY <1>1, <1>9, <1>12, <2>1 DEF RowsInv
  <2>3. \A p \in Requesters : calls'[p] # NoRequest =>
          /\ calls'[p].pc # "post" => identities'[calls'[p].email].exists
          /\ calls'[p].kind # "update" => calls'[p].active
          /\ calls'[p].kind = "bootstrap" => calls'[p].role = "admin"
    BY <1>1, <1>11 DEF RowsInv
  <2>4. \A p \in Requesters : calls'[p] # NoRequest =>
          /\ calls'[p].tenant \in Tenants /\ calls'[p].email \in Emails
          /\ calls'[p].kind = "update" => Has(calls'[p].tenant, calls'[p].email)
    BY <1>1, <1>11, RequestFields DEF RowsInv
  <2>5. \A p \in Requesters : calls'[p] # NoRequest =>
          (calls'[p].kind = "update" => members'[calls'[p].tenant][calls'[p].email].exists)
    BY <1>12, <2>4 DEF Has
  <2> QED
    BY <2>2, <2>3, <2>5 DEF RowsInv, Has
<1>15. IdentityInv'
  <2> SUFFICES ASSUME NEW f \in Emails, f \notin muddled, EmailInv(f) PROVE EmailInv(f)'
    BY <1>1 DEF MembershipInv, IdentityInv
  <2>1. CASE f # e
    <3>1. /\ \A p \in Requesters : On(p, f)' <=> On(p, f)
          /\ \A p \in Requesters : On(p, f) => calls'[p] = calls[p]
      BY <1>2, <1>4, <1>10, <2>1 DEF On
    <3>2. \A p \in Requesters : On(p, f) => calls[p].tenant \in Tenants
      BY <1>1, RequestFields DEF On
    <3> QED
      BY <1>1, <1>9, <2>1, <3>1, <3>2, EmailKept
  <2>2. CASE f = e
    <3>1. On(q, e) /\ CallFits(q) /\ \A p \in Requesters : On(p, e) => p = q
      BY <1>1, <1>2, <1>4, <2>2 DEF On, EmailInv
    <3>2. \A p \in Requesters : ~On(p, e)'
      BY <1>10, <3>1 DEF On
    <3>3. /\ \A s \in Tenants : Has(s, e) => identities[e].tenant = s
          /\ identities[e].tenant = t /\ identities[e].enabled = c.active
          /\ c.role \in identities[e].roles
          /\ c.kind = "update" => c.loaded = old
      BY <1>2, <1>3, <1>4, <1>5, <1>7, <3>1 DEF CallFits
    <3>4. row.role = c.role /\ row.active = c.active
      <4>1. CASE c.kind = "update"
        BY <1>8, <3>3, <4>1
      <4>2. CASE c.kind # "update"
        <5>1. row.active /\ c.active /\ row.active \in BOOLEAN /\ c.active \in BOOLEAN
          BY <1>8, <4>2 DEF Member, AdminCall
        <5> QED
          BY <1>8, <4>2, <5>1
      <4> QED
        BY <4>1, <4>2
    <3>5. \A s \in Tenants : Has(s, e)' => s = t
      BY <1>12, <3>3
    <3>6. Agree(e)'
      BY <1>1, <1>9, <3>3, <3>4, <3>5 DEF Agree
    <3> QED
      BY <2>2, <3>2, <3>6 DEF EmailInv
  <2> QED
    BY <2>1, <2>2
<1>16. AdminInv'
  <2> SUFFICES ASSUME ~raced PROVE UpdatesApart' /\ UpdatesKeepAdmin' /\ TenantsHaveAdmin'
    BY <1>1 DEF AdminInv
  <2>1. UpdatesApart /\ UpdatesKeepAdmin /\ TenantsHaveAdmin
    BY DEF MembershipInv, AdminInv
  <2>2. \A s \in Tenants, f \in Emails : s # t \/ f # e => (IsAdmin(s, f)' <=> IsAdmin(s, f))
    BY <1>9 DEF IsAdmin
  <2>3. IsAdmin(t, e)' <=> row.role = "admin" /\ row.active
    BY <1>9 DEF IsAdmin
  <2>4. IsAdmin(t, e) <=> old.role = "admin" /\ old.active
    BY <1>5 DEF IsAdmin
  <2>5. ASSUME c.kind # "update", NEW s \in Tenants, NEW f \in Emails, IsAdmin(s, f)
        PROVE  IsAdmin(s, f)'
    <3>1. c.kind = "create" => ~old.active
      BY <1>1, <1>5, <1>7 DEF RowsInv, Has
    <3>2. c.kind = "bootstrap" => c.role = "admin"
      BY <1>1, <1>2 DEF RowsInv
    <3>3. c.kind \in {"create", "bootstrap"}
      BY <2>5 DEF AdminCall
    <3>4. IsAdmin(t, e) => IsAdmin(t, e)'
      BY <1>8, <2>3, <2>4, <3>1, <3>2, <3>3
    <3> QED
      BY <2>2, <2>5, <3>4
  <2>6. HasAdmin(t)'
    <3>1. CASE c.kind = "update"
      <4>1. KeepsAdmin(q)
        BY <1>1, <1>2, <1>3, <2>1, <3>1 DEF UpdatesKeepAdmin, Updates
      <4>2. \/ \E f \in Emails \ {e} : IsAdmin(t, f)
            \/ IsAdmin(t, e) /\ c.role = "admin" /\ c.active
        BY <1>2, <1>3, <1>4, <4>1 DEF KeepsAdmin
      <4>3. CASE \E f \in Emails \ {e} : IsAdmin(t, f)
        BY <2>2, <4>3 DEF HasAdmin
      <4>4. CASE IsAdmin(t, e) /\ c.role = "admin" /\ c.active
        BY <1>8, <2>3, <2>4, <3>1, <4>4 DEF HasAdmin
      <4> QED
        BY <4>2, <4>3, <4>4
    <3>2. CASE c.kind = "create"
      BY <1>1, <1>2, <1>3, <2>1, <2>5, <3>2 DEF TenantsHaveAdmin, HasAdmin
    <3>3. CASE c.kind = "bootstrap"
      <4>1. c.role = "admin"
        BY <1>1, <1>2, <3>3 DEF RowsInv
      <4> QED
        BY <1>8, <2>3, <3>3, <4>1 DEF HasAdmin
    <3> QED
      BY <3>1, <3>2, <3>3 DEF AdminCall
  <2>7. \A s \in Tenants : HasAdmin(s) => HasAdmin(s)'
    BY <2>2, <2>6 DEF HasAdmin
  <2>8. UpdatesApart'
    BY <1>11, <2>1 DEF UpdatesApart, Updates
  <2>9. UpdatesKeepAdmin'
    <3> SUFFICES ASSUME NEW s \in Tenants, NEW p \in Requesters, Updates(p, s)'
                 PROVE  KeepsAdmin(p)'
      BY DEF UpdatesKeepAdmin
    <3>1. calls'[p] = calls[p] /\ calls[p] # NoRequest /\ p # q /\ Updates(p, s)
      BY <1>10, <1>11 DEF Updates
    <3>2. PICK d \in AdminCall : d = calls[p]
      BY <1>1, <3>1, RequestFields
    <3>3. d.tenant = s /\ d.email \in Emails
      BY <3>1, <3>2 DEF Updates, AdminCall
    <3>4. \/ \E f \in Emails \ {d.email} : IsAdmin(s, f)
          \/ IsAdmin(s, d.email) /\ d.role = "admin" /\ d.active
      BY <2>1, <3>1, <3>2, <3>3 DEF UpdatesKeepAdmin, KeepsAdmin
    <3>5. \A f \in Emails : IsAdmin(s, f) => IsAdmin(s, f)'
      <4>1. s = t => c.kind # "update"
        BY <1>1, <1>2, <1>3, <2>1, <3>1 DEF UpdatesApart, Updates
      <4> QED
        BY <2>2, <2>5, <4>1
    <3>6. \/ \E f \in Emails \ {d.email} : IsAdmin(s, f)'
          \/ IsAdmin(s, d.email)' /\ d.role = "admin" /\ d.active
      BY <3>3, <3>4, <3>5
    <3> QED
      BY <3>1, <3>2, <3>3, <3>6 DEF KeepsAdmin, IsAdmin
  <2>10. TenantsHaveAdmin'
    <3>1. \A s \in Tenants : (\E f \in Emails : Has(s, f)') => HasAdmin(s)'
      BY <1>12, <2>1, <2>6, <2>7 DEF TenantsHaveAdmin
    <3>2. ASSUME NEW p \in Requesters, calls'[p] # NoRequest, calls'[p].kind = "create"
          PROVE  HasAdmin(calls[p].tenant)' /\ calls'[p] = calls[p]
      <4>1. PICK s \in Tenants : s = calls[p].tenant /\ calls'[p] = calls[p]
        BY <1>1, <1>11, <3>2, RequestFields
      <4>2. HasAdmin(s)
        BY <1>11, <2>1, <3>2, <4>1 DEF TenantsHaveAdmin
      <4>3. HasAdmin(s)'
        BY <2>7, <4>2
      <4> QED
        BY <4>1, <4>3 DEF HasAdmin, IsAdmin
    <3> QED
      BY <3>1, <3>2 DEF TenantsHaveAdmin, HasAdmin, IsAdmin
  <2> QED
    BY <2>8, <2>9, <2>10
<1> QED
  BY <1>13, <1>14, <1>15, <1>16 DEF MembershipInv

Founder == [role |-> "admin", active |-> TRUE, exists |-> TRUE]
FounderIdentity(t) == [tenant |-> t, enabled |-> TRUE, roles |-> {"admin"}, exists |-> TRUE]

(* At first Keycloak knows the founders, and perhaps strangers.            *)
LEMMA MembershipInitInv == MembershipInit => MembershipInv
<1> SUFFICES ASSUME MembershipInit PROVE MembershipInv
  OBVIOUS
<1>1. PICK founders \in [Emails -> Tenants \cup {NoTenant}], known \in SUBSET Emails :
        /\ members = [t \in Tenants |-> [e \in Emails |->
             IF founders[e] = t THEN Founder ELSE NoMember]]
        /\ identities = [e \in Emails |->
             IF founders[e] # NoTenant
             THEN [tenant |-> founders[e], enabled |-> TRUE, roles |-> {"admin"}, exists |-> TRUE]
             ELSE [NoIdentity EXCEPT !.exists = e \in known, !.enabled = e \in known]]
  BY DEF MembershipInit, Founder
<1>2. /\ Founder \in Member /\ NoMember \in Member /\ ~NoMember.exists /\ ~NoMember.active
      /\ Founder.role = "admin" /\ Founder.active = TRUE /\ Founder.exists
  BY DEF Founder, Member, NoMember, MemberRole
<1>3. \A e \in Emails : identities[e] \in Identity
  <2> SUFFICES ASSUME NEW e \in Emails PROVE identities[e] \in Identity
    OBVIOUS
  <2>1. CASE founders[e] # NoTenant
    BY <1>1, <2>1 DEF Identity, MemberRole
  <2>2. CASE founders[e] = NoTenant
    <3>1. identities[e] = [NoIdentity EXCEPT !.exists = e \in known, !.enabled = e \in known]
      BY <1>1, <2>2
    <3>2. (e \in known) \in BOOLEAN
      OBVIOUS
    <3>3. PICK knows \in BOOLEAN : knows = (e \in known)
      BY <3>2, Zenon
    <3>4. identities[e] = [NoIdentity EXCEPT !.exists = knows, !.enabled = knows]
      BY <3>1, <3>3, Zenon
    <3> QED
      BY <3>4 DEF Identity, NoIdentity
  <2> QED
    BY <2>1, <2>2
<1>4. MembershipTypeOK
  <2>1. members \in [Tenants -> [Emails -> Member]]
    BY <1>1, <1>2
  <2>2. identities \in [Emails -> Identity]
    BY <1>1, <1>3
  <2>3. /\ calls \in [Requesters -> AdminCall \cup {NoRequest}]
        /\ made \in Nat /\ outages \in Nat /\ muddled \subseteq Emails /\ raced \in BOOLEAN
    BY DEF MembershipInit
  <2> QED
    BY <2>1, <2>2, <2>3 DEF MembershipTypeOK
<1>5. \A t \in Tenants, e \in Emails :
        /\ members[t][e] = IF founders[e] = t THEN Founder ELSE NoMember
        /\ Has(t, e) <=> founders[e] = t
        /\ members[t][e].active => Has(t, e)
        /\ Has(t, e) => IsAdmin(t, e)
  BY <1>1, <1>2 DEF Has, IsAdmin
<1>6. \A t \in Tenants, e \in Emails : Has(t, e) =>
        /\ members[t][e] = Founder /\ identities[e].tenant = t
        /\ identities[e].enabled = TRUE /\ identities[e].exists
        /\ identities[e].roles = {"admin"}
  <2>1. \A t \in Tenants, e \in Emails : Has(t, e) =>
          members[t][e] = Founder /\ identities[e] = FounderIdentity(t)
    <3> SUFFICES ASSUME NEW t \in Tenants, NEW e \in Emails, Has(t, e)
                 PROVE  members[t][e] = Founder /\ identities[e] = FounderIdentity(t)
      OBVIOUS
    <3>1. founders[e] = t /\ founders[e] # NoTenant /\ members[t][e] = Founder
      BY <1>5, TenantsAssumption
    <3>2. identities[e] = [tenant |-> founders[e], enabled |-> TRUE, roles |-> {"admin"},
                           exists |-> TRUE]
      BY <1>1, <3>1
    <3> QED
      BY <3>1, <3>2 DEF FounderIdentity
  <2>2. \A t \in Tenants :
          /\ FounderIdentity(t).tenant = t /\ FounderIdentity(t).enabled = TRUE
          /\ FounderIdentity(t).exists /\ FounderIdentity(t).roles = {"admin"}
    BY DEF FounderIdentity
  <2> QED
    BY <2>1, <2>2
<1>7. \A q \in Requesters : calls[q] = NoRequest
  BY DEF MembershipInit
<1>8. RowsInv
  BY <1>5, <1>6, <1>7 DEF RowsInv
<1>9. \A e \in Emails : Agree(e)
  <2>1. ASSUME NEW e \in Emails, NEW t \in Tenants, Has(t, e)
        PROVE  /\ identities[e].tenant = t
               /\ identities[e].enabled = members[t][e].active
               /\ members[t][e].role \in identities[e].roles
    <3>1. /\ members[t][e] = Founder /\ identities[e].enabled = TRUE
          /\ identities[e].tenant = t /\ identities[e].roles = {"admin"}
      BY <1>6, <2>1
    <3>2. identities[e].enabled = members[t][e].active
      BY <1>2, <3>1
    <3> QED
      BY <1>2, <3>1, <3>2
  <2> QED
    BY <2>1 DEF Agree
<1>10. IdentityInv
  BY <1>7, <1>9 DEF IdentityInv, EmailInv, On
<1>11. AdminInv
  <2>1. \A q \in Requesters, t \in Tenants : ~Updates(q, t)
    BY <1>7 DEF Updates
  <2>2. \A t \in Tenants : (\E e \in Emails : Has(t, e)) => HasAdmin(t)
    BY <1>5 DEF HasAdmin
  <2>3. TenantsHaveAdmin
    BY <1>7, <2>2, Zenon DEF TenantsHaveAdmin
  <2> QED
    BY <2>1, <2>3 DEF AdminInv, UpdatesApart, UpdatesKeepAdmin
<1> QED
  BY <1>4, <1>8, <1>10, <1>11 DEF MembershipInv

(* No step breaks the invariant.                                           *)
LEMMA MembershipNextInv ==
  MembershipInv /\ [MembershipNext]_membershipVars => MembershipInv'
<1> SUFFICES ASSUME MembershipInv, [MembershipNext]_membershipVars PROVE MembershipInv'
  OBVIOUS
<1>1. CASE MembershipNext
  BY <1>1, AskInv, CallInv, WriteInv, GiveUpInv DEF MembershipNext
<1>2. CASE UNCHANGED membershipVars
  <2>1. UNCHANGED <<members, identities, calls, made, outages, muddled, raced>>
    BY <1>2 DEF membershipVars
  <2>2. MembershipTypeOK' /\ RowsInv'
    BY <2>1 DEF MembershipInv, MembershipTypeOK, RowsInv, Has
  <2>3. ASSUME NEW e \in Emails, EmailInv(e) PROVE EmailInv(e)'
    <3>1. /\ \A q \in Requesters : On(q, e)' <=> On(q, e)
          /\ \A q \in Requesters : On(q, e) => calls[q].tenant \in Tenants
      BY <2>1, RequestFields DEF On, MembershipInv
    <3> QED
      BY <2>1, <2>3, <3>1, EmailKept
  <2>4. IdentityInv' /\ AdminInv'
    BY <2>1, <2>3, AdminKept DEF MembershipInv, IdentityInv
  <2> QED
    BY <2>2, <2>4 DEF MembershipInv
<1> QED
  BY <1>1, <1>2

(* Rows, identities and requests are well-formed.                          *)
THEOREM MembersTyped == MembershipSpec => []MembershipTypeOK
<1>1. MembershipInv => MembershipTypeOK
  BY DEF MembershipInv
<1> QED
  BY <1>1, MembershipInitInv, MembershipNextInv, PTL DEF MembershipSpec

(* Keycloak and the memberships agree on whoever has no request under way, *)
(* failed or overtaken (create_user, update_user_access).                  *)
THEOREM IdentityAgreesHolds == MembershipSpec => []IdentityAgrees
<1>1. MembershipInv => IdentityAgrees
  <2> SUFFICES ASSUME MembershipInv, NEW t \in Tenants, NEW e \in Emails,
                      members[t][e].exists, Quiet(e)
               PROVE  /\ identities[e].tenant = t
                      /\ identities[e].enabled = members[t][e].active
                      /\ members[t][e].role \in identities[e].roles
    BY DEF IdentityAgrees
  <2>1. e \notin muddled /\ \A q \in Requesters : ~On(q, e)
    BY DEF Quiet, On
  <2>2. Agree(e)
    BY <2>1 DEF MembershipInv, IdentityInv, EmailInv
  <2> QED
    BY <2>2 DEF Agree, Has
<1> QED
  BY <1>1, MembershipInitInv, MembershipNextInv, PTL DEF MembershipSpec

(* An administrator whose row no update is about can enter.                *)
LEMMA AdminEnters ==
  ASSUME MembershipInv, muddled = {}, NEW t \in Tenants, NEW e \in Emails, IsAdmin(t, e),
         \A q \in Requesters : On(q, e) /\ Updates(q, t) => calls[q].active
  PROVE  CanEnter(t, e)
<1>1. /\ Has(t, e) /\ EmailInv(e) /\ members[t][e].active
      /\ MembershipTypeOK /\ identities[e].enabled \in BOOLEAN
  BY DEF MembershipInv, RowsInv, IdentityInv, IsAdmin, MembershipTypeOK, Identity
<1>2. CASE Agree(e)
  <2>1. identities[e].tenant = t /\ identities[e].enabled = members[t][e].active
    BY <1>1, <1>2 DEF Agree
  <2> QED
    BY <1>1, <2>1, Zenon DEF CanEnter
<1>3. CASE ~Agree(e)
  <2>1. PICK q \in Requesters : On(q, e)
    BY <1>1, <1>3 DEF EmailInv
  <2>2. PICK c \in AdminCall : c = calls[q]
    BY <1>1, <2>1, RequestFields DEF On
  <2>3. c.email = e /\ c.pc \in {"post", "read", "attach", "enable", "clear", "grant", "write"}
    BY <2>1, <2>2 DEF On, AdminCall
  <2>4. CallFits(q)
    BY <1>1, <2>1 DEF EmailInv
  <2>5. c.pc \in {"clear", "grant", "write"}
    BY <1>3, <2>2, <2>3, <2>4 DEF CallFits
  <2>6. identities[e].tenant = t /\ c.tenant = t /\ identities[e].enabled = c.active
    BY <1>1, <2>2, <2>3, <2>4, <2>5 DEF CallFits
  <2>7. c.active
    BY <2>1, <2>2, <2>6 DEF On, Updates, MembershipInv, RowsInv
  <2> QED
    BY <1>1, <2>6, <2>7, Zenon DEF CanEnter
<1> QED
  BY <1>2, <1>3

(* Updates that do not overlap leave every tenant an administrator, and    *)
(* one who can enter unless a request failed or was overtaken.             *)
THEOREM AdministratorRemainsHolds == MembershipSpec => []AdministratorRemains
<1>1. MembershipInv => AdministratorRemains
  <2> SUFFICES ASSUME MembershipInv, NEW t \in Tenants,
                      \E e \in Emails : members[t][e].exists, ~raced
               PROVE  /\ Admins(t) # {}
                      /\ muddled = {} => \E e \in Admins(t) : CanEnter(t, e)
    BY DEF AdministratorRemains
  <2>1. UpdatesApart /\ UpdatesKeepAdmin /\ TenantsHaveAdmin
    BY DEF MembershipInv, AdminInv
  <2>2. PICK e \in Emails : IsAdmin(t, e)
    BY <2>1 DEF TenantsHaveAdmin, HasAdmin, Has
  <2>3. Admins(t) # {}
    BY <2>2 DEF Admins
  <2>4. \E f \in Emails : /\ IsAdmin(t, f)
                          /\ \A q \in Requesters : On(q, f) /\ Updates(q, t) => calls[q].active
    <3>1. CASE \A q \in Requesters : ~Updates(q, t)
      BY <2>2, <3>1
    <3>2. CASE \E q \in Requesters : Updates(q, t)
      <4>1. PICK q \in Requesters : Updates(q, t)
        BY <3>2
      <4>2. KeepsAdmin(q) /\ \A p \in Requesters : Updates(p, t) => p = q
        BY <2>1, <4>1 DEF UpdatesKeepAdmin, UpdatesApart
      <4>3. \/ \E f \in Emails \ {calls[q].email} : IsAdmin(t, f)
            \/ IsAdmin(t, calls[q].email) /\ calls[q].active /\ calls[q].email \in Emails
        BY <4>1, <4>2, RequestFields DEF KeepsAdmin, Updates, MembershipInv
      <4> QED
        BY <4>2, <4>3 DEF On
    <3> QED
      BY <3>1, <3>2
  <2> QED
    BY <2>3, <2>4, AdminEnters DEF Admins
<1> QED
  BY <1>1, MembershipInitInv, MembershipNextInv, PTL DEF MembershipSpec
=============================================================================
