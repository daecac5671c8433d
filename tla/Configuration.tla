--------------------------- MODULE Configuration ---------------------------
(***************************************************************************)
(* internal/config and the flag and environment binding of internal/cli:   *)
(* which value a setting has when it is given as a flag, as a              *)
(* TEMPLATE_GO_API_* variable or not at all.                               *)
(*                                                                         *)
(* A text is a class of strings that pflag and Viper treat alike.  pflag   *)
(* refuses a text it cannot parse; Viper's getters cast it, and what does  *)
(* not cast is the zero value.                                             *)
(***************************************************************************)
EXTENDS Integers

Strings == {"addr", "metrics-addr", "log-level", "log-format", "trusted-proxy-header",
            "database-url", "authz-policy-dir"}
Durations == {"read-timeout", "read-header-timeout", "write-timeout", "idle-timeout",
              "request-timeout", "shutdown-grace"}
Bools == {"authz-enabled", "rate-limit-enabled", "tracing-enabled"}
Ints == {"db-max-conns", "rate-limit-burst"}
Floats == {"rate-limit-rps"}
Lists == {"cors-allowed-origins"}
Settings == Strings \cup Durations \cup Bools \cup Ints \cup Floats \cup Lists

KindOf(s) == CASE s \in Strings -> "string" [] s \in Durations -> "duration"
               [] s \in Bools -> "bool" [] s \in Ints -> "int"
               [] s \in Floats -> "float" [] s \in Lists -> "list"

\* Durations are in milliseconds, but a few nanoseconds count as one.
Second == 1000
\* A value that is neither positive nor not positive; Go's NaN <= 0 is false.
NaN == 999999

DefaultOf(s) ==
    CASE s = "addr" -> ":8080" [] s = "metrics-addr" -> ":9090"
      [] s = "log-level" -> "info" [] s = "log-format" -> "json"
      [] s \in {"trusted-proxy-header", "database-url", "authz-policy-dir"} -> "empty"
      [] s \in {"read-timeout", "read-header-timeout"} -> 5 * Second
      [] s = "write-timeout" -> 10 * Second [] s = "idle-timeout" -> 120 * Second
      [] s \in {"request-timeout", "shutdown-grace"} -> 15 * Second
      [] s \in {"authz-enabled", "rate-limit-enabled"} -> TRUE [] s = "tracing-enabled" -> FALSE
      [] s = "db-max-conns" -> 0 [] s = "rate-limit-burst" -> 20 [] s = "rate-limit-rps" -> 10
      [] s = "cors-allowed-origins" -> {}

-----------------------------------------------------------------------------
(* Texts and their values.                                                 *)

StringTexts == {"empty", "blank", ":8080", "url", "text", "other"}
AsIs == [t \in StringTexts |-> t]
Whole == [one |-> 1, zero |-> 0, negative |-> -1]
Time == [second |-> Second, zero |-> 0, negative |-> -Second]
Truth == [true |-> TRUE, false |-> FALSE]
Real == [one |-> 1, zero |-> 0, negative |-> -1, nan |-> NaN]

\* What a flag accepts; a list is split at commas.
Parse == [string |-> AsIs, int |-> Whole, duration |-> Time, bool |-> Truth, float |-> Real,
          list |-> [empty |-> {}, single |-> {"a"}, commas |-> {"a", "b"}, blanks |-> {"a b"}]]
Refused(s, text) == text \notin DOMAIN Parse[KindOf(s)]

\* What Viper's getters make of a variable: a duration without a unit is in
\* nanoseconds, a list is split at blanks, and the rest is the zero value.
Cast == [string |-> AsIs, int |-> Whole, bool |-> Truth, float |-> Real,
         duration |-> [second |-> Second, zero |-> 0, negative |-> -Second, unitless |-> 1],
         list |-> [single |-> {"a"}, commas |-> {"a,b"}, blanks |-> {"a", "b"}, junk |-> {"junk"}]]
Zero == [string |-> "empty", int |-> 0, duration |-> 0, bool |-> FALSE, float |-> 0, list |-> {}]
CastOf(s, text) ==
    IF text \in DOMAIN Cast[KindOf(s)] THEN Cast[KindOf(s)][text] ELSE Zero[KindOf(s)]

\* The texts that are worth telling apart for a setting.
TextsOf(s) == IF s \in Strings THEN StringTexts
              ELSE DOMAIN Parse[KindOf(s)] \cup DOMAIN Cast[KindOf(s)] \cup {"empty", "junk"}

-----------------------------------------------------------------------------
(* Load and Validate.                                                      *)

\* MUTANT: SetEnvKeyReplacer is missing, so no variable matches a key with a dash.
InEnv_NoReplacer(s, env) == s \in DOMAIN env /\ env[s] # "empty" /\ s = "addr"

\* AutomaticEnv: an empty variable counts as unset.
InEnv(s, env) == s \in DOMAIN env /\ env[s] # "empty"

\* A flag that was given comes before the environment, and that before the default.
Load(flags, env) ==
    [s \in Settings |->
        IF s \in DOMAIN flags THEN Parse[KindOf(s)][flags[s]]
        ELSE IF InEnv(s, env) THEN CastOf(s, env[s]) ELSE DefaultOf(s)]

TrimmedEmpty(text) == text \in {"empty", "blank"}

Validate(c) ==
    /\ ~TrimmedEmpty(c["addr"])
    /\ c["metrics-addr"] # "empty" => c["metrics-addr"] # c["addr"]
    /\ c["request-timeout"] > 0 /\ c["shutdown-grace"] > 0
    /\ c["log-format"] \in {"json", "text"}
    /\ ~TrimmedEmpty(c["database-url"])
    /\ c["rate-limit-enabled"] => c["rate-limit-rps"] > 0 /\ c["rate-limit-burst"] > 0
=============================================================================
