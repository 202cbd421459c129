------------------------------ MODULE Database ------------------------------
(***************************************************************************)
(* A database handle from its first option to its connections (driver.rs,  *)
(* driver/uri.rs, driver/credentials.rs, and the option buffer of the C    *)
(* ABI in ffi/handle.rs and ffi/options.rs).  Options set before Init are  *)
(* buffered and replayed by Init; later ones apply at once and drop the    *)
(* cached client stack that connections share.                             *)
(*                                                                         *)
(* The C ABI serializes the calls on a handle, so a call is one step.  A   *)
(* connection URI is the record of what its parser tells apart.            *)
(***************************************************************************)
EXTENDS Integers, Sequences, SequencesExt, FiniteSets

CONSTANTS
  Options   \* the calls tried: <<key, value>>, the value a URI record for "uri"

None == "unset"
NoUri == [none |-> TRUE]
NoStack == [none |-> TRUE]
Unset(f) == IF f = "uri" THEN NoUri ELSE None

Keys == {"endpoint", "emulator", "keyfile", "keyfile_json", "target", "delegates", "token", "quota"}

SecretKeys == {"keyfile_json", "token"}    \* URI_SECRET_OPTIONS
UriKeys == Keys \ SecretKeys               \* URI_QUERY_OPTIONS

Fields == Keys \cup {"database", "uri"}

VARIABLES
  staged,   \* "Pending" while options are buffered, "Ready" after Init
  buffer,   \* OptionBuffer: <<key, value>> pairs
  cfg,      \* the fields of SpannerDatabase
  cached,   \* the shared client stack, or NoStack
  host,     \* SPANNER_EMULATOR_HOST is set
  conn      \* the stack the last connection got with the configuration then, or NoStack

vars == <<staged, buffer, cfg, cached, host, conn>>

NewDatabase == [f \in Fields |-> IF f = "emulator" THEN "false" ELSE Unset(f)]

Init ==
  /\ staged = "Pending" /\ buffer = <<>>
  /\ cfg = NewDatabase
  /\ cached = NoStack /\ conn = NoStack
  /\ host \in BOOLEAN

-----------------------------------------------------------------------------
(* Options.  A setter yields the fields it leaves behind and whether it      *)
(* returned an error: the fields it wrote before the error stay written.     *)

Done(c) == [ok |-> TRUE, cfg |-> c]
Refused(c) == [ok |-> FALSE, cfg |-> c]

Emptied == {"delegates", "quota"}    \* what "" unsets; elsewhere "" is a value

SetField(c, key, value) ==
  IF key \notin Keys \/ (key = "emulator" /\ value \notin {"true", "false"}) THEN Refused(c)
  ELSE Done([c EXCEPT ![key] = IF value = "" /\ key \in Emptied THEN None ELSE value])

(* One parameter after the other, up to the first that is refused. *)
SetAll(c, params) ==
  FoldLeft(LAMBDA r, p : IF r.ok THEN SetField(r.cfg, p.key, p.value) ELSE r, Done(c), params)

parse_connection_uri(u) ==
  /\ u.scheme /\ ~u.fragment /\ u.slashes /\ u.path # None
  /\ \A i \in DOMAIN u.params : u.params[i].escaped /\ u.params[i].key \in UriKeys

(* The database itself takes the path, the authority and the parameters. *)
Expand(c, u) ==
  SetAll([c EXCEPT !["database"] = u.path,
                   !["endpoint"] = IF u.authority = None THEN @ ELSE u.authority],
         u.params)

(* Mutant: nothing is tried on a scratch database. *)
apply_connection_uri_eager(c, u) ==
  IF ~parse_connection_uri(u) THEN Refused(c) ELSE Expand(c, u)

(* The parameters are tried on a scratch database first. *)
apply_connection_uri(c, u) ==
  IF ~parse_connection_uri(u) \/ ~SetAll(NewDatabase, u.params).ok THEN Refused(c)
  ELSE Expand(c, u)

set_option(c, key, value) ==
  IF key # "uri" THEN SetField(c, key, value)
  ELSE LET r == apply_connection_uri(c, value)
       IN  IF r.ok THEN Done([r.cfg EXCEPT !["uri"] = value]) ELSE r

(* OptionBuffer::set: the last value per key, at the key's first position. *)
BufferSet(buf, key, value) ==
  IF \E i \in DOMAIN buf : buf[i][1] = key
  THEN [i \in DOMAIN buf |-> IF buf[i][1] = key THEN <<key, value>> ELSE buf[i]]
  ELSE Append(buf, <<key, value>>)

Replay(buf) ==
  FoldLeft(LAMBDA r, o : IF r.ok THEN set_option(r.cfg, o[1], o[2]) ELSE r, Done(NewDatabase), buf)

(* Mutant: a live option leaves the stack. *)
SetOption_keeps_stack(key, value) ==
  /\ IF staged = "Pending"
     THEN buffer' = BufferSet(buffer, key, value) /\ UNCHANGED <<cfg, cached>>
     ELSE cfg' = set_option(cfg, key, value).cfg /\ UNCHANGED <<buffer, cached>>
  /\ UNCHANGED <<staged, host, conn>>

(* SetOption of the C ABI: buffered before Init; on a live database the cached *)
(* stack goes first, also when the value is then refused.                      *)
SetOption(key, value) ==
  /\ IF staged = "Pending"
     THEN buffer' = BufferSet(buffer, key, value) /\ UNCHANGED <<cfg, cached>>
     ELSE cfg' = set_option(cfg, key, value).cfg /\ cached' = NoStack /\ UNCHANGED buffer
  /\ UNCHANGED <<staged, host, conn>>

(* A refused replay drops the database it was building and leaves the handle *)
(* pending with its options.                                                 *)
database_init ==
  /\ staged = "Pending"
  /\ IF Replay(buffer).ok THEN staged' = "Ready" /\ buffer' = <<>> /\ cfg' = Replay(buffer).cfg
     ELSE UNCHANGED <<staged, buffer, cfg>>
  /\ UNCHANGED <<cached, host, conn>>

-----------------------------------------------------------------------------
(* Connections. *)

Set(c, key) == c[key] # None

explicit_credential_option(c) == \E k \in {"keyfile_json", "keyfile", "target", "token"} : Set(c, k)

conflicting_credential_with_access_token(c) ==
  \E k \in {"keyfile_json", "keyfile", "target"} : Set(c, k)

credential_choice(c, emulator) ==
  CASE emulator -> "Anonymous"
    [] ~emulator /\ Set(c, "token") -> "AccessToken"
    [] ~emulator /\ ~Set(c, "token") /\ Set(c, "target") -> "Impersonate"
    [] ~emulator /\ ~Set(c, "token") /\ ~Set(c, "target")
         /\ (Set(c, "keyfile_json") \/ Set(c, "keyfile")) -> "Keyfile"
    [] OTHER -> "Adc"

(* Which configured settings the built credential carries. *)
build_credentials(c, emulator) ==
  LET keys == IF Set(c, "keyfile_json") THEN {"key"} ELSE IF Set(c, "keyfile") THEN {"key"} ELSE {}
      quota == IF Set(c, "quota") THEN {"quota"} ELSE {}
  IN  CASE credential_choice(c, emulator) = "Anonymous"   -> {}
        [] credential_choice(c, emulator) = "AccessToken" -> {"token"} \cup quota
        [] credential_choice(c, emulator) = "Impersonate" -> {"target"} \cup keys \cup quota
        [] credential_choice(c, emulator) = "Keyfile"     -> keys \cup quota
        [] OTHER                                          -> quota

connect_allowed(c, emulator) ==
  /\ Set(c, "database")
  /\ emulator => ~explicit_credential_option(c) /\ ~Set(c, "quota")
  /\ ~(Set(c, "token") /\ conflicting_credential_with_access_token(c))

Emulator == cfg["emulator"] = "true" \/ host

Stack ==
  [from |-> cfg, emulator |-> Emulator, carries |-> build_credentials(cfg, Emulator),
   endpoint |-> IF Set(cfg, "endpoint") THEN cfg["endpoint"] ELSE IF host THEN "host" ELSE None]

(* connect_shared: the cached stack, or a new one.  A keyfile that cannot be    *)
(* read, a credential that cannot be built or an unreachable server fails the   *)
(* call and caches nothing (the step in which nothing changes).                 *)
new_connection ==
  /\ staged = "Ready"
  /\ IF cached # NoStack THEN conn' = [stack |-> cached, cfg |-> cfg] /\ UNCHANGED cached
     ELSE /\ connect_allowed(cfg, Emulator)
          /\ cached' = Stack
          /\ conn' = [stack |-> Stack, cfg |-> cfg]
  /\ UNCHANGED <<staged, buffer, cfg, host>>

(* The environment changes. *)
SetHost == host' = ~host /\ UNCHANGED <<staged, buffer, cfg, cached, conn>>

Next == (\E o \in Options : SetOption(o[1], o[2])) \/ database_init \/ new_connection \/ SetHost

Spec == Init /\ [][Next]_vars

-----------------------------------------------------------------------------
(* Properties. *)

(* A pending database has no stack and no fields yet, and its buffer names a    *)
(* key once.                                                                    *)
TypeOK ==
  /\ staged \in {"Pending", "Ready"}
  /\ staged = "Pending" => cached = NoStack /\ cfg = NewDatabase
  /\ \A i, j \in DOMAIN buffer : buffer[i][1] = buffer[j][1] => i = j
  /\ DOMAIN cfg = Fields /\ cfg["emulator"] \in {"true", "false"}

(* A connection never runs on a stack built from options older than the last    *)
(* set_option, whatever was cached before.                                      *)
StackIsCurrent == conn # NoStack => conn.stack.from = conn.cfg

(* No credential the caller configured is silently dropped: the stack carries   *)
(* every kind of credential, and the quota project, its configuration names;    *)
(* the emulator, also one named by the environment, meets none.                 *)
CredentialsHonoured ==
  conn # NoStack =>
    LET c == conn.stack.from IN
    conn.stack.carries =
      (IF Set(c, "keyfile_json") \/ Set(c, "keyfile") THEN {"key"} ELSE {})
        \cup {k \in {"target", "token", "quota"} : Set(c, k)}

(* What an option may change, said of the option as a whole: nothing unless   *)
(* all of it is valid; otherwise the one field, or the fields the URI carries, *)
(* the last parameter that names a field deciding it.                          *)
Valid(key, value) == key \in Keys /\ (key = "emulator" => value \in {"true", "false"})
Value(key, value) == IF value = "" /\ key \in {"delegates", "quota"} THEN None ELSE value
ValidUri(u) ==
  /\ u.scheme /\ ~u.fragment /\ u.slashes /\ u.path # None
  /\ \A i \in DOMAIN u.params :
       LET q == u.params[i] IN q.escaped /\ q.key \notin SecretKeys /\ Valid(q.key, q.value)
UriField(c, u, f) ==
  LET named == {i \in DOMAIN u.params : u.params[i].key = f}
  IN  CASE named # {} -> Value(f, u.params[CHOOSE i \in named : \A j \in named : j <= i].value)
        [] f = "uri" -> u
        [] f = "database" -> u.path
        [] f = "endpoint" /\ named = {} /\ u.authority # None -> u.authority
        [] OTHER -> c[f]
Effect(c, key, value) ==
  CASE key = "uri" /\ ValidUri(value) -> [f \in Fields |-> UriField(c, value, f)]
    [] key # "uri" /\ Valid(key, value) -> [c EXCEPT ![key] = Value(key, value)]
    [] OTHER -> c

(* "a rejected URI leaves the configuration untouched", in every field, and an  *)
(* accepted one "overwrites only the fields the URI actually carries", a query  *)
(* parameter beating the authority (driver/uri.rs); so does every other option, *)
(* and an Init takes no step but these for the options buffered before it.      *)
AppliesWhole ==
  /\ staged = "Ready" =>
       \A o \in Options : SetOption(o[1], o[2]) => cfg' = Effect(cfg, o[1], o[2])
  /\ staged # staged' =>
       /\ cfg' = FoldLeft(LAMBDA c, o : Effect(c, o[1], o[2]), NewDatabase, buffer)
       /\ \A i \in DOMAIN buffer :
            IF buffer[i][1] = "uri" THEN ValidUri(buffer[i][2]) ELSE Valid(buffer[i][1], buffer[i][2])
OptionsApplyWhole == [][AppliesWhole]_vars

(* A connection runs on a stack of the current options with all the credentials *)
(* they name, and there is none before Init.                                    *)
ConnectsAsConfigured == TypeOK /\ StackIsCurrent /\ CredentialsHonoured
=============================================================================
