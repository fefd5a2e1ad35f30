---------------------------- MODULE RuleConfigs ----------------------------
(***************************************************************************)
(* The rule configurations of the surveillance service: the table          *)
(* surveillance_rule_configs, the rule engine's cache of it, and the calls  *)
(* that update a rule (RuleConfigService and RuleConfigRepository).        *)
(*                                                                         *)
(* A call reads the row, writes the whole row back, loads the tenant's     *)
(* effective configurations and installs them, in four steps with nothing  *)
(* around them.  A tenant without a row of its own gets the default        *)
(* tenant's, id included.                                                  *)
(*                                                                         *)
(* Abstractions.  A row's id is the tenant and rule it was inserted for.   *)
(* `threshold' is the one of threshold_numeric, _count and _percent that   *)
(* the rule reads.  The two reads of LoadEffectiveRuleConfigs are one.     *)
(* Callers hold a role that may write; nobody consumes the events that     *)
(* announce a change.                                                      *)
(***************************************************************************)
EXTENDS Integers, FiniteSets

CONSTANTS
  Tenants,
  DefaultTenant,
  Rules,
  Managers,     \* who may be updating a rule at the same time
  Fallback,     \* Fallback[rule]: the environment's setting
  Requests,     \* what they may ask for; Keep for a field left out
  Keep,
  Absent        \* no row, no cache entry, no call

Setting == [enabled : BOOLEAN, threshold : Nat]

Row == [id : Tenants \X Rules, setting : Setting]
Call == [stage : {"write", "load", "install"}, tenant : Tenants, rule : Rules,
         row : Row, loaded : [Rules -> Setting]]

ASSUME RuleConfigsAssumption ==
  /\ DefaultTenant \in Tenants
  /\ Fallback \in [Rules -> Setting]
  /\ Requests \subseteq [tenant : Tenants, rule : Rules,
                          enabled : BOOLEAN \union {Keep}, threshold : Nat \union {Keep}]
  /\ Absent \notin [Rules -> Setting] /\ Absent \notin Row /\ Absent \notin Call
  /\ Keep \notin BOOLEAN \union Nat

VARIABLES
  table,      \* table[t][rule]: the row, or Absent
  cache,      \* cache[t]: what the engine uses for tenant t, or Absent
  call,       \* call[u]: u's update in progress
  disturbed   \* history: calls overlapped, or settings could not be loaded

configVars == <<table, cache, call, disturbed>>

ConfigsTypeOK ==
  /\ table \in [Tenants -> [Rules -> Row \union {Absent}]]
  /\ cache \in [Tenants -> [Rules -> Setting] \union {Absent}]
  /\ call \in [Managers -> Call \union {Absent}]
  /\ disturbed \in BOOLEAN

\* EnsureDefaultRuleConfigs: ON CONFLICT DO NOTHING.
WithDefaults(rows) ==
  [rows EXCEPT ![DefaultTenant] =
     [rule \in Rules |->
        IF @[rule] # Absent THEN @[rule]
        ELSE [id |-> <<DefaultTenant, rule>>, setting |-> Fallback[rule]]]]

\* GetRuleConfig: the tenant's row, else the default tenant's.
StoredIn(rows, t, rule) ==
  IF rows[t][rule] # Absent THEN rows[t][rule] ELSE rows[DefaultTenant][rule]

\* LoadEffectiveRuleConfigs, when the database answers.
EffectiveIn(rows, t) ==
  [rule \in Rules |->
     IF StoredIn(rows, t, rule) = Absent THEN Fallback[rule]
     ELSE StoredIn(rows, t, rule).setting]
Effective(t) == EffectiveIn(table, t)

\* What the engine of a process that starts has.
FreshCache(rows) ==
  [t \in Tenants |-> IF t = DefaultTenant THEN EffectiveIn(rows, t) ELSE Absent]

ConfigsInit ==
  /\ table = WithDefaults([t \in Tenants |-> [rule \in Rules |-> Absent]])
  /\ cache = FreshCache(table)
  /\ call = [u \in Managers |-> Absent]
  /\ disturbed = FALSE

Overlay(s, q) ==
  [enabled |-> IF q.enabled = Keep THEN s.enabled ELSE q.enabled,
   threshold |-> IF q.threshold = Keep THEN s.threshold ELSE q.threshold]

\* UpdateRule, EnableRule, DisableRule: the row is read and overlaid.
ReadRule(u, q) ==
  /\ call[u] = Absent
  /\ LET row == StoredIn(table, q.tenant, q.rule)
     IN /\ row # Absent
        /\ call' = [call EXCEPT ![u] =
             [stage |-> "write", tenant |-> q.tenant, rule |-> q.rule,
              row |-> [row EXCEPT !.setting = Overlay(@, q)], loaded |-> Fallback]]
  /\ disturbed' = (disturbed \/ \E v \in Managers : call[v] # Absent)
  /\ UNCHANGED <<table, cache>>

IdTaken(id) == \E t \in Tenants, rule \in Rules :
  table[t][rule] # Absent /\ table[t][rule].id = id

\* UpsertRuleConfig.  A tenant's first row would be inserted with the id of
\* the default tenant's row: the primary key refuses it and the call fails.
WriteRule(u) ==
  /\ call[u] # Absent
  /\ call[u].stage = "write"
  /\ LET t == call[u].tenant
         rule == call[u].rule
         id == IF table[t][rule] # Absent THEN table[t][rule].id ELSE call[u].row.id
     IN IF table[t][rule] = Absent /\ IdTaken(id)
        THEN /\ call' = [call EXCEPT ![u] = Absent]
             /\ UNCHANGED table
        ELSE /\ table' = [table EXCEPT ![t][rule] = [call[u].row EXCEPT !.id = id]]
             /\ call' = [call EXCEPT ![u].stage = "load"]
  /\ UNCHANGED <<cache, disturbed>>

\* refreshTenant, first half.
LoadRules(u) ==
  /\ call[u] # Absent
  /\ call[u].stage = "load"
  /\ call' = [call EXCEPT ![u].stage = "install", ![u].loaded = Effective(call[u].tenant)]
  /\ UNCHANGED <<table, cache, disturbed>>

\* The database does not answer: the environment's settings are loaded.
LoadFails(u) ==
  /\ call[u] # Absent
  /\ call[u].stage = "load"
  /\ call' = [call EXCEPT ![u].stage = "install", ![u].loaded = Fallback]
  /\ disturbed' = TRUE
  /\ UNCHANGED <<table, cache>>

\* A call that ends without a word to the engine.
InstallNothing(u) ==
  /\ call[u] # Absent
  /\ call[u].stage = "install"
  /\ call' = [call EXCEPT ![u] = Absent]
  /\ UNCHANGED <<table, cache, disturbed>>

\* SetTenantRuleConfigs: whatever was loaded, however long ago.
InstallRules(u) ==
  /\ call[u] # Absent
  /\ call[u].stage = "install"
  /\ cache' = [cache EXCEPT ![call[u].tenant] = call[u].loaded]
  /\ call' = [call EXCEPT ![u] = Absent]
  /\ UNCHANGED <<table, disturbed>>

\* The service starts again: calls are gone, and EnsureDefaults fills the
\* default tenant's cache, or fails, which is logged.
RestartConfigs ==
  /\ call' = [u \in Managers |-> Absent]
  /\ \/ /\ table' = WithDefaults(table)
        /\ cache' = FreshCache(table')
        /\ UNCHANGED disturbed
     \/ /\ cache' = [t \in Tenants |-> Absent]
        /\ disturbed' = TRUE
        /\ UNCHANGED table

\* ruleSetting: the engine falls back to the default tenant's settings only
\* when it has none at all for the tenant.
RuleSetting(t, rule) ==
  IF cache[t] # Absent THEN cache[t][rule]
  ELSE IF cache[DefaultTenant] # Absent THEN cache[DefaultTenant][rule]
  ELSE Fallback[rule]
=============================================================================
