------------------------------- MODULE Config -------------------------------
(***************************************************************************)
(* Resolving the configuration (aiter-server/src/config.rs) and the        *)
(* Razorpay settings (payments/client.rs): defaults, then the file, then   *)
(* the environment.                                                        *)
(*                                                                         *)
(* A file is what the parser sees of it, line by line: something it skips, *)
(* something without an "=", or a setting.  An environment gives each key  *)
(* a value, None or NonUnicode.                                            *)
(***************************************************************************)
EXTENDS Naturals, Sequences, FiniteSets, FiniteSetsExt, Functions

CONSTANTS
  None,         \* no value
  NonUnicode,   \* a variable whose value is not valid Unicode
  Ports         \* the values that parse as a port

DefaultPort == "8080"
DefaultBaseUrl == "https://api.razorpay.com"

ASSUME PortsAssumption ==
  DefaultPort \in Ports /\ {None, NonUnicode, ""} \cap Ports = {}
ASSUME NoneAssumption == None \notin {"", "sandbox", "live", "sand"}

RazorpayKeys ==
  {"RAZORPAY_KEY_ID", "RAZORPAY_KEY_SECRET", "RAZORPAY_MODE",
   "RAZORPAY_BASE_URL", "RAZORPAY_WEBHOOK_SECRET"}
KnownKeys == RazorpayKeys \cup {"PORT"}

Skipped       == [kind |-> "skipped"]
Malformed     == [kind |-> "malformed"]
Setting(k, v) == [kind |-> "setting", key |-> k, value |-> v]

NoFile      == [kind |-> "none", lines |-> <<>>]
Unreadable  == [kind |-> "unreadable", lines |-> <<>>]
Text(lines) == [kind |-> "text", lines |-> lines]
-----------------------------------------------------------------------------
(* The loader                                                              *)

\* std::env::var(key).ok()
Var(env, key) == IF env[key] = NonUnicode THEN None ELSE env[key]

\* parse_file gets to the end: the first malformed line is an error.
Parses(file) == file.kind # "unreadable" /\ Malformed \notin Range(file.lines)

\* Mutant: an empty value counts as a value.
GivenEmpty(file, key) ==
  LET at == {i \in DOMAIN file.lines :
               file.lines[i].kind = "setting" /\ file.lines[i].key = key}
  IN  IF at = {} THEN None ELSE file.lines[Max(at)].value

\* The entry of key in the map parse_file returns: the last value that is not
\* empty.
Given(file, key) ==
  LET at == {i \in DOMAIN file.lines : /\ file.lines[i].kind = "setting"
                                       /\ file.lines[i].key = key
                                       /\ file.lines[i].value # ""}
  IN  IF at = {} THEN None ELSE file.lines[Max(at)].value

\* resolve
Resolve(env, file, key) ==
  IF Var(env, key) # None THEN Var(env, key) ELSE Given(file, key)

\* resolve_port: only the file's port is validated, and only when it is used.
PortResolves(env, file) ==
  Var(env, "PORT") # None \/ Given(file, "PORT") \in Ports \cup {None}

ResolvePort(env, file) ==
  LET raw == Resolve(env, file, "PORT") IN IF raw \in Ports THEN raw ELSE DefaultPort

\* load_from_with: whether it succeeds, and with what.
Loads(env, file) == Parses(file) /\ PortResolves(env, file)

Load(env, file) ==
  [port        |-> ResolvePort(env, file),
   file_loaded |-> file # NoFile,
   razorpay    |-> [key \in RazorpayKeys |-> Resolve(env, file, key)]]
-----------------------------------------------------------------------------
(* RazorpayConfig                                                          *)

ConfigError == [error |-> "config"]

ModeOf(mode) == IF mode = "live" THEN "Live" ELSE "Sandbox"

Razorpay(s) ==
  [key_id         |-> s["RAZORPAY_KEY_ID"],
   key_secret     |-> s["RAZORPAY_KEY_SECRET"],
   mode           |-> ModeOf(s["RAZORPAY_MODE"]),
   base_url       |-> IF s["RAZORPAY_BASE_URL"] = None THEN DefaultBaseUrl
                      ELSE s["RAZORPAY_BASE_URL"],
   webhook_secret |-> s["RAZORPAY_WEBHOOK_SECRET"]]

\* Mutant: the mode is not validated.
AnyMode(s) ==
  IF None \in {s["RAZORPAY_KEY_ID"], s["RAZORPAY_KEY_SECRET"]}
  THEN ConfigError ELSE Razorpay(s)

\* RazorpaySettings::to_razorpay_config
ToRazorpayConfig(s) ==
  IF \/ None \in {s["RAZORPAY_KEY_ID"], s["RAZORPAY_KEY_SECRET"]}
     \/ s["RAZORPAY_MODE"] \notin {None, "sandbox", "live"}
  THEN ConfigError ELSE Razorpay(s)

\* RazorpayConfig::from_env, the path from before the loader: a key, a mode or
\* a base URL that is not Unicode is an error, a webhook secret is no secret.
FromEnv(env) ==
  IF \/ \E key \in {"RAZORPAY_KEY_ID", "RAZORPAY_KEY_SECRET"} : Var(env, key) = None
     \/ env["RAZORPAY_MODE"] \notin {None, "sandbox", "live"}
     \/ env["RAZORPAY_BASE_URL"] = NonUnicode
  THEN ConfigError
  ELSE Razorpay([key \in RazorpayKeys |-> Var(env, key)])

\* RazorpayClient::for_state: the settings the server was started with, or
\* None for a state that was built without them.
ForState(settings, env) ==
  IF settings = None THEN FromEnv(env) ELSE ToRazorpayConfig(settings)
-----------------------------------------------------------------------------
(* The template of `aiter-server init`                                     *)

\* template_contents; a block of comments is one line here.
Template ==
  <<Skipped, Setting("PORT", DefaultPort), Skipped,
    Setting("RAZORPAY_KEY_ID", ""), Setting("RAZORPAY_KEY_SECRET", ""),
    Setting("RAZORPAY_MODE", "sandbox"), Skipped, Setting("RAZORPAY_WEBHOOK_SECRET", "")>>

\* What is left of a line that was not written to its end.
Shorter(value) ==
  {""} \cup CASE value = DefaultPort -> {"80"}
              [] value = "sandbox"   -> {"sand"}
              [] OTHER               -> {}

Cut(line) ==
  {Skipped} \cup IF line.kind = "setting"
                 THEN {Malformed} \cup {Setting(line.key, v) : v \in Shorter(line.value)}
                 ELSE {}

\* The file while the template is being written; a dash of its comments may
\* be cut in two, which leaves no valid UTF-8.
TornTemplates ==
  {Text(<<>>), Unreadable} \cup
  UNION {{Text(SubSeq(Template, 1, n - 1) \o <<line>>) : line \in Cut(Template[n])} :
           n \in DOMAIN Template}
=============================================================================
