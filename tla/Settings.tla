-------------------------------- MODULE Settings --------------------------------
(***************************************************************************)
(* What a tenant configures (backend/app/main.py): the versions of its     *)
(* scorecard, of which one is to be active, and its registers: teams,      *)
(* glossary terms and the single rows of AI and security settings.  A      *)
(* request reads, decides, and commits the columns it changed from what it *)
(* read; only the unique keys of the tables stand between two requests.    *)
(***************************************************************************)
EXTENDS Naturals, Sequences, FiniteSets

CONSTANTS
  Clerks,       \* requests under way at the same time
  Names,        \* normalized terms and team names
  MaxChanges    \* how many requests are made

ASSUME ChangesAssumption == MaxChanges \in Nat

Register == {"teams", "glossary_terms", "ai_settings", "security_settings"}
(* The tables whose key is the tenant.                                     *)
SingleRow == {"ai_settings", "security_settings"}

VARIABLES
  scorecards,  \* whether each scorecard version is active
  registers,   \* how many rows there are of each name
  change,      \* the request of each clerk
  changes,     \* how many requests were made
  alone        \* whether the last scorecard change overlapped no other

settingsVars == <<scorecards, registers, change, changes, alone>>

NoChange == [what |-> "none"]
Change ==
  [what : {"none"}]
  \cup [what : {"scorecard"}, target : Nat \ {0}, seen : Seq(BOOLEAN), alone : BOOLEAN]
  \cup [what : {"insert"}, in : Register, name : Names]
  \cup [what : {"rename"}, in : Register, from : Names, name : Names]
  \cup [what : {"delete"}, in : Register, from : Names, name : Names]

SettingsTypeOK ==
  /\ scorecards \in Seq(BOOLEAN)
  /\ registers \in [Register -> [Names -> Nat]]
  /\ change \in [Clerks -> Change]
  /\ changes \in Nat /\ alone \in BOOLEAN

SettingsInit ==
  /\ scorecards = <<>>
  /\ registers = [t \in Register |-> [n \in Names |-> 0]]
  /\ change = [k \in Clerks |-> NoChange]
  /\ changes = 0 /\ alone = TRUE

Propose(k, c) ==
  /\ change[k] = NoChange /\ changes < MaxChanges
  /\ changes' = changes + 1
  /\ change' = [change EXCEPT ![k] = c]
  /\ UNCHANGED <<scorecards, registers, alone>>

(***************************************************************************)
(* Scorecards                                                              *)
(***************************************************************************)

(* create_scorecard reads max and the active versions; activate_scorecard  *)
(* reads all: the target is the new or the chosen version.                 *)
ReadScorecards(k) ==
  \E target \in 1 .. Len(scorecards) + 1 :
    Propose(k, [what |-> "scorecard", target |-> target, seen |-> scorecards, alone |-> TRUE])

(* Mutant: only the version to be activated is loaded and written.         *)
ActivatesOnly(c, rows) ==
  [i \in 1 .. Len(rows) |-> IF i = c.target THEN TRUE ELSE rows[i]]

(* A version that was read is written if it is active and not the target,  *)
(* or the target and not active; one that was not read stays.              *)
WithActive(c, rows) ==
  [i \in 1 .. Len(rows) |->
     IF i \in DOMAIN c.seen /\ c.seen[i] # (i = c.target) THEN i = c.target ELSE rows[i]]

(* A new version is inserted active, under the unique (tenant, version).   *)
CommitScorecard(k) ==
  LET c == change[k] new == c.target = Len(c.seen) + 1 IN
  /\ c.what = "scorecard"
  /\ new => Len(scorecards) < c.target
  /\ scorecards' = WithActive(c, scorecards) \o (IF new THEN <<TRUE>> ELSE <<>>)
  /\ alone' = c.alone
  /\ change' = [l \in Clerks |->
       IF l = k THEN NoChange
       ELSE IF change[l].what = "scorecard" THEN [change[l] EXCEPT !.alone = FALSE]
       ELSE change[l]]
  /\ UNCHANGED <<registers, changes>>

(***************************************************************************)
(* Registers                                                               *)
(***************************************************************************)

(* Creations look for the name first; the single rows are created by the   *)
(* first update, under the tenant's name.                                  *)
ReadRegister(k) ==
  \E t \in Register, n \in Names :
    /\ t \in SingleRow => n = CHOOSE m \in Names : TRUE
    /\ \/ registers[t][n] = 0 /\ Propose(k, [what |-> "insert", in |-> t, name |-> n])
       \/ registers[t][n] > 0 /\ t \notin SingleRow
            /\ \E m \in Names : Propose(k, [what |-> "rename", in |-> t, from |-> n, name |-> m])
       \/ registers[t][n] > 0 /\ t = "glossary_terms"
            /\ Propose(k, [what |-> "delete", in |-> t, from |-> n, name |-> n])

(* The unique keys: (tenant, normalized_term), (tenant, name), (tenant).   *)
KeyHolds(c) ==
  registers[c.in][c.name] = 0 \/ (c.what # "insert" /\ c.name = c.from)

(* A row that is gone makes an update fail; its deletion is a warning.     *)
CommitRegister(k) ==
  LET c == change[k] IN
  /\ c.what \in {"insert", "rename", "delete"} /\ KeyHolds(c)
  /\ c.what = "rename" => registers[c.in][c.from] > 0
  /\ registers' = [registers EXCEPT ![c.in] = [n \in Names |->
       @[n] + (IF c.what # "delete" /\ n = c.name THEN 1 ELSE 0)
            - (IF c.what # "insert" /\ n = c.from /\ @[n] > 0 THEN 1 ELSE 0)]]
  /\ change' = [change EXCEPT ![k] = NoChange]
  /\ UNCHANGED <<scorecards, changes, alone>>

(* A request ends without a commit: refused by a key, or lost.             *)
Drop(k) ==
  /\ change[k] # NoChange
  /\ change' = [change EXCEPT ![k] = NoChange]
  /\ UNCHANGED <<scorecards, registers, changes, alone>>

SettingsNext ==
  \E k \in Clerks : \/ ReadScorecards(k) \/ CommitScorecard(k)
                    \/ ReadRegister(k) \/ CommitRegister(k) \/ Drop(k)

SettingsSpec == SettingsInit /\ [][SettingsNext]_settingsVars

(***************************************************************************)
(* Properties                                                              *)
(***************************************************************************)

(* After a change that overlapped no other there is exactly one active     *)
(* scorecard, whatever earlier races left: the worker takes any active     *)
(* version it finds.  Names are distinct in spite of the races between     *)
(* their check and the insert (create_scorecard, activate_scorecard,       *)
(* create_glossary, update_glossary, create_admin_team).                   *)
SettingsAreSingular ==
  /\ alone /\ scorecards # <<>> =>
       Cardinality({i \in DOMAIN scorecards : scorecards[i]}) = 1
  /\ \A t \in Register, n \in Names : registers[t][n] <= 1
=============================================================================
