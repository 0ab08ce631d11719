---------------------------- MODULE ProxmoxOptions ----------------------------
(***************************************************************************)
(* How the inventory script settles its connection settings before it     *)
(* sends a request: main (proxmox.py l. 589-622) reads validateCert from  *)
(* the config file and PROXMOX_INVALID_CERT, parses the command line      *)
(* (whose defaults are the PROXMOX_* variables) and dispatches on --list / *)
(* --host; ProxmoxAPI.__init__ (l. 119-154), called first by main_list and *)
(* main_host, fills missing credentials from the config file, raises for  *)
(* the first one still missing and appends '/' to the url.                *)
(*                                                                         *)
(* A setting's value is abstracted to where it came from: "None" (unset), *)
(* "" (given empty), or the source of a non-empty string ("cli", "env",   *)
(* "cfg").  Whether a url string ends with '/' is kept.                    *)
(***************************************************************************)
EXTENDS Integers, Sequences, FiniteSets, TLC

CONSTANT Fields   \* <<"url", "username", "password">>, in __init__'s check order

FieldSet == {Fields[k] : k \in 1..Len(Fields)}
ASSUME Len(Fields) = Cardinality(FieldSet)

Value  == [from : {"None", "", "cli", "env", "cfg"}, slash : BOOLEAN]
NoneV  == [from |-> "None", slash |-> FALSE]
EmptyV == [from |-> "", slash |-> FALSE]
Falsy(v) == v.from \in {"None", ""}

(* The config file next to the script: absent, or present with some keys. *)
CfgFiles ==
  {[present |-> FALSE, keys |-> [f \in FieldSet |-> "missing"],
    validateCert |-> "missing"]}
  \cup [present : {TRUE}, keys : [FieldSet -> {"missing", "set"}],
        validateCert : {"missing", "true", "false"}]

VARIABLES
  cli,         \* per field: "absent" (option not given), "" or "set"
  env,         \* per field: PROXMOX_URL / _USERNAME / _PASSWORD "unset" or "set"
  cfgFile,     \* the JSON config file
  urlSlash,    \* the url text given, whatever its source, ends with '/'
  envInvalid,  \* PROXMOX_INVALID_CERT is in the environment
  trustFlag,   \* --trust-invalid-certs is on the command line
  mode,        \* "list" (--list), "host" (--host only) or "none"
  pc,          \* "start" | "args" | "dispatch" | "api" | "exit1" | "raised" | "auth"
  validate,    \* bool_validate_cert, then options.validate
  options,     \* options.url / username / password
  raisedFor    \* the field __init__'s exception names

vars == <<cli, env, cfgFile, urlSlash, envInvalid, trustFlag, mode, pc,
          validate, options, raisedFor>>

Given(src) == [from |-> src, slash |-> urlSlash]

-----------------------------------------------------------------------------
Init ==
  /\ cli \in [FieldSet -> {"absent", "", "set"}]
  /\ env \in [FieldSet -> {"unset", "set"}]
  /\ cfgFile \in CfgFiles
  /\ urlSlash \in BOOLEAN
  /\ envInvalid \in BOOLEAN
  /\ trustFlag \in BOOLEAN
  /\ mode \in {"list", "host", "none"}
  /\ pc = "start"
  /\ validate = TRUE
  /\ options = [f \in FieldSet |-> NoneV]
  /\ raisedFor = "none"

(* Mutant: PROXMOX_INVALID_CERT tested before the config file is read.    *)
ReadCertSettingEnvFirst ==
  /\ pc = "start"
  /\ validate' = IF cfgFile.present /\ cfgFile.validateCert # "missing"
                 THEN cfgFile.validateCert = "true"
                 ELSE ~envInvalid
  /\ pc' = "args"
  /\ UNCHANGED <<cli, env, cfgFile, urlSlash, envInvalid, trustFlag, mode,
                 options, raisedFor>>

(* l. 595-604: validateCert from the config file if it has the key, then  *)
(* PROXMOX_INVALID_CERT turns validation off.                             *)
ReadCertSetting ==
  /\ pc = "start"
  /\ validate' = IF envInvalid THEN FALSE
                 ELSE IF cfgFile.present /\ cfgFile.validateCert # "missing"
                      THEN cfgFile.validateCert = "true"
                      ELSE TRUE
  /\ pc' = "args"
  /\ UNCHANGED <<cli, env, cfgFile, urlSlash, envInvalid, trustFlag, mode,
                 options, raisedFor>>

(* l. 606-614: an option not given takes its default, the environment     *)
(* variable (None when unset); --trust-invalid-certs stores False, its    *)
(* default is bool_validate_cert.                                          *)
ParseArgs ==
  /\ pc = "args"
  /\ options' = [f \in FieldSet |->
                   CASE cli[f] = "set"    -> Given("cli")
                     [] cli[f] = ""       -> EmptyV
                     [] env[f] = "set"    -> Given("env")
                     [] OTHER             -> NoneV]
  /\ validate' = (validate /\ ~trustFlag)
  /\ pc' = "dispatch"
  /\ UNCHANGED <<cli, env, cfgFile, urlSlash, envInvalid, trustFlag, mode,
                 raisedFor>>

(* l. 616-622: --list runs main_list, else --host runs main_host, both of *)
(* which construct ProxmoxAPI first; with neither, usage and exit 1.      *)
Dispatch ==
  /\ pc = "dispatch"
  /\ pc' = IF mode = "none" THEN "exit1" ELSE "api"
  /\ UNCHANGED <<cli, env, cfgFile, urlSlash, envInvalid, trustFlag, mode,
                 validate, options, raisedFor>>

(* l. 123-141: when any credential is missing and the file exists, each   *)
(* missing one is read from its key (None on KeyError).                    *)
FillFromConfigAll(o) ==        \* mutant: every field read from the file
  IF (\E f \in FieldSet : Falsy(o[f])) /\ cfgFile.present
  THEN [f \in FieldSet |-> IF cfgFile.keys[f] = "set" THEN Given("cfg") ELSE NoneV]
  ELSE o
FillFromConfig(o) ==
  IF (\E f \in FieldSet : Falsy(o[f])) /\ cfgFile.present
  THEN [f \in FieldSet |->
          IF ~Falsy(o[f]) THEN o[f]
          ELSE IF cfgFile.keys[f] = "set" THEN Given("cfg") ELSE NoneV]
  ELSE o

(* Mutant: the if/elif chain checked from the last field.                *)
FirstMissingLast(o) ==
  LET ks == {k \in 1..Len(Fields) : Falsy(o[Fields[k]])}
  IN  IF ks = {} THEN "none"
      ELSE Fields[CHOOSE k \in ks : \A j \in ks : k >= j]

(* The first field, in check order, still missing (l. 143-150).           *)
FirstMissing(o) ==
  LET ks == {k \in 1..Len(Fields) : Falsy(o[Fields[k]])}
  IN  IF ks = {} THEN "none"
      ELSE Fields[CHOOSE k \in ks : \A j \in ks : k <= j]

(* Mutant: the trailing '/' assigned to a misspelt attribute.            *)
ApiInitTypo ==
  /\ pc = "api"
  /\ LET o == FillFromConfig(options)
     IN  IF FirstMissing(o) # "none"
         THEN /\ pc' = "raised" /\ raisedFor' = FirstMissing(o)
              /\ options' = o
         ELSE /\ pc' = "auth" /\ UNCHANGED raisedFor
              /\ options' = o @@ ("uri" :> [o["url"] EXCEPT !.slash = TRUE])
  /\ UNCHANGED <<cli, env, cfgFile, urlSlash, envInvalid, trustFlag, mode,
                 validate>>

(* ProxmoxAPI.__init__: fill, raise for the first missing field, else     *)
(* make the url end with '/' (l. 152-154).                                 *)
ApiInit ==
  /\ pc = "api"
  /\ LET o == FillFromConfig(options)
     IN  IF FirstMissing(o) # "none"
         THEN /\ pc' = "raised" /\ raisedFor' = FirstMissing(o)
              /\ options' = o
         ELSE /\ pc' = "auth" /\ UNCHANGED raisedFor
              /\ options' = [o EXCEPT !["url"].slash = TRUE]
  /\ UNCHANGED <<cli, env, cfgFile, urlSlash, envInvalid, trustFlag, mode,
                 validate>>

Next == ReadCertSetting \/ ParseArgs \/ Dispatch \/ ApiInit

Spec == Init /\ [][Next]_vars

-----------------------------------------------------------------------------
(* Properties.                                                             *)

TypeOK ==
  /\ pc \in {"start", "args", "dispatch", "api", "exit1", "raised", "auth"}
  /\ validate \in BOOLEAN
  /\ options \in [FieldSet -> Value]
  /\ raisedFor \in FieldSet \cup {"none"}

(* Where a setting may come from: a non-empty command-line value; else,   *)
(* when the option was not given at all, its environment variable; else   *)
(* the config file's key.                                                  *)
Supplier(f) ==
  CASE cli[f] = "set"                         -> "cli"
    [] cli[f] = "absent" /\ env[f] = "set"    -> "env"
    [] cfgFile.present /\ cfgFile.keys[f] = "set" -> "cfg"
    [] OTHER                                  -> "None"

(* The error messages name the sources in order (--url, or PROXMOX_URL,   *)
(* or the "url" key): once __init__ returns, every credential has the     *)
(* value of the first source that supplies it, and a source given later  *)
(* in that order never overrides an earlier one.                          *)
CredentialPrecedence ==
  pc = "auth" => \A f \in FieldSet : options[f].from = Supplier(f)

(* __init__ raises only for a setting no source supplies, and only for    *)
(* the first such one in its check order; it never raises when every      *)
(* setting is supplied.                                                    *)
RaisesOnlyWhenMissing ==
  /\ pc = "raised" =>
       LET k == CHOOSE k \in 1..Len(Fields) : Fields[k] = raisedFor
       IN  /\ Supplier(raisedFor) = "None"
           /\ \A j \in 1..k-1 : Supplier(Fields[j]) # "None"
  /\ (pc \in {"raised", "auth"} /\ \A f \in FieldSet : Supplier(f) # "None")
       => pc = "auth"

(* Certificate validation is off only when asked for: by                 *)
(* --trust-invalid-certs, by PROXMOX_INVALID_CERT, or by validateCert     *)
(* false in the config file; and either of the first two always turns it  *)
(* off.                                                                    *)
CertCheckOffOnlyWhenAsked ==
  pc \in {"dispatch", "api", "exit1", "raised", "auth"} =>
    (~validate <=> (\/ trustFlag \/ envInvalid
                    \/ cfgFile.present /\ cfgFile.validateCert = "false"))
=============================================================================
