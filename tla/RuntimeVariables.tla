-------------------------- MODULE RuntimeVariables --------------------------
(***************************************************************************)
(* SET, GET and SHOW VARIABLES (and CACHE ENABLE / DISABLE, which are SETs)  *)
(* over RuntimeVariableManager.  A SET parses its text, applies the value   *)
(* to the component that uses it and records a canonical text of it, each   *)
(* under a lock of its own; set_mutex_ holds the three together.  One       *)
(* boolean, one number and one immutable variable stand for the seventy.    *)
(***************************************************************************)
EXTENDS Integers

CONSTANT Setters  \* connections that send SET

VARIABLES
  runtime_values,  \* the texts of the mutable variables
  inForce,         \* the value each component works with
  set_mutex,       \* the setter that holds it, as a set
  setter           \* each connection: its next step, and what it sets

variableVars == <<runtime_values, inForce, set_mutex, setter>>

kVariableMutability ==
  [v \in {"cache.enabled", "cache.ttl_seconds", "wal.sync_interval_ms"} |-> v # "wal.sync_interval_ms"]

Variables == DOMAIN kVariableMutability
Mutable == {v \in Variables : kVariableMutability[v]}

(* from the configuration file *)
base_config == [v \in Variables |-> IF v = "cache.enabled" THEN 1 ELSE 60]

(* the texts clients send *)
Texts == {"true", "on", "1", "false", "off", "0", "60", "-1", "1x"}
Invalid == -2

ParseBool(text) ==
  IF text \in {"true", "on", "1", "yes"} THEN 1 ELSE IF text \in {"false", "off", "0", "no"} THEN 0 ELSE Invalid

Number == [t \in {"1", "0", "60", "-1"} |-> CASE t = "1" -> 1 [] t = "0" -> 0 [] t = "60" -> 60 [] t = "-1" -> -1]

ParseInt(text) == IF text \in DOMAIN Number THEN Number[text] ELSE Invalid

Parse(v, text) == IF v = "cache.enabled" THEN ParseBool(text) ELSE ParseInt(text)

TextOf(n) == CHOOSE t \in DOMAIN Number : Number[t] = n

Canonical(v, value) ==
  IF v = "cache.enabled" THEN (IF value = 1 THEN "true" ELSE "false") ELSE TextOf(value)

AtEase == [pc |-> "idle", var |-> "cache.enabled", value |-> 0]

VariablesInit ==
  /\ runtime_values = [v \in Mutable |-> Canonical(v, base_config[v])]
  /\ inForce = base_config
  /\ set_mutex = {}
  /\ setter = [s \in Setters |-> AtEase]

\* Mutant: SETs are not serialized.
SetUnserialized(s, v, text) ==
  /\ setter[s].pc = "idle"
  /\ v \in Mutable /\ Parse(v, text) # Invalid
  /\ setter' = [setter EXCEPT ![s] = [pc |-> "apply", var |-> v, value |-> Parse(v, text)]]
  /\ UNCHANGED <<runtime_values, inForce, set_mutex>>

(* An unknown or immutable variable, or a text that does not parse, is an   *)
(* error and no step                                                        *)
SetVariable(s, v, text) ==
  /\ setter[s].pc = "idle" /\ set_mutex = {}
  /\ v \in Mutable /\ Parse(v, text) # Invalid
  /\ setter' = [setter EXCEPT ![s] = [pc |-> "apply", var |-> v, value |-> Parse(v, text)]]
  /\ set_mutex' = {s}
  /\ UNCHANGED <<runtime_values, inForce>>

(* ApplyCacheEnabled, ApplyCacheTtl: through the cache controller           *)
Apply(s) ==
  /\ setter[s].pc = "apply" /\ setter[s].value >= 0
  /\ inForce' = [inForce EXCEPT ![setter[s].var] = setter[s].value]
  /\ setter' = [setter EXCEPT ![s].pc = "record"]
  /\ UNCHANGED <<runtime_values, set_mutex>>

(* "must be >= 0"                                                           *)
ApplyFails(s) ==
  /\ setter[s].pc = "apply" /\ setter[s].value < 0
  /\ setter' = [setter EXCEPT ![s] = AtEase]
  /\ set_mutex' = set_mutex \ {s}
  /\ UNCHANGED <<runtime_values, inForce>>

RecordValue(s) ==
  /\ setter[s].pc = "record"
  /\ runtime_values' = [runtime_values EXCEPT ![setter[s].var] = Canonical(setter[s].var, setter[s].value)]
  /\ setter' = [setter EXCEPT ![s] = AtEase]
  /\ set_mutex' = set_mutex \ {s}
  /\ UNCHANGED inForce

HandleSet(s) == \E v \in Variables, text \in Texts : SetVariable(s, v, text)
HandleCacheEnable(s) == SetVariable(s, "cache.enabled", "true")
HandleCacheDisable(s) == SetVariable(s, "cache.enabled", "false")

VariablesNext ==
  \E s \in Setters :
    \/ HandleSet(s) \/ HandleCacheEnable(s) \/ HandleCacheDisable(s)
    \/ Apply(s) \/ ApplyFails(s) \/ RecordValue(s)

VariablesSpec == VariablesInit /\ [][VariablesNext]_variableVars

-----------------------------------------------------------------------------
GetVariableInternal(v) ==
  IF v \in DOMAIN runtime_values THEN runtime_values[v] ELSE TextOf(base_config[v])

(* While no SET is under way, what GET and SHOW VARIABLES report is, read   *)
(* back as the text of a SET, what is in force ("prevents a slower component *)
(* callback from making runtime_values_ disagree with the actual            *)
(* last-applied setting", "round trip").                                    *)
ReportedInForce ==
  (\A s \in Setters : setter[s].pc = "idle") =>
    \A v \in Variables : Parse(v, GetVariableInternal(v)) = inForce[v]
=============================================================================
