------------------------------ MODULE Options ------------------------------
(***************************************************************************)
(* The options of a connection and of its statements (src/options.rs,      *)
(* src/staleness.rs, src/request.rs, src/retry.rs, src/timeout.rs): how a  *)
(* value is parsed, stored, reported and inherited, and what a read        *)
(* transaction and a commit make of it.                                    *)
(*                                                                         *)
(* One key stands for each way an option is parsed.  A value is a string   *)
(* or a number; a string is its meaning (a word, or a word with a number)  *)
(* and whether it has blanks around it.  Numbers count in halves, so that  *)
(* fractions occur: n stands for n / 2.                                    *)
(***************************************************************************)
EXTENDS Integers, FiniteSets

CONSTANTS
  Conn, Statements,  \* the connection and the statements it creates
  OptionValues,      \* the values tried
  MaxDelay,          \* MAX_COMMIT_DELAY_CAP: 500 ms
  MaxSeconds,        \* the longest Duration
  MaxU32,            \* u32::MAX, the most attempts
  MaxI64,            \* i64::MAX, the largest integer option
  Exact,             \* up to here an f64 holds every number (2^53)
  MaxStaleness,      \* the longest staleness the client takes
  FirstTime,         \* the first timestamp the client takes
  Now,               \* the times a transaction may begin at
  MaxSets            \* bound: set_option calls

VARIABLES
  alive,    \* the objects there are
  config,   \* their SharedConfig
  flags,    \* read_only: the AtomicBool behind each Arc, named for its first owner
  counts,   \* commit_stats: the count behind each Arc
  bound,    \* of the last read transaction: who began it, how, when and with which bound
  last,     \* the last set_option and its result
  wanted,   \* history: the read-only flag as last set
  own,      \* history: the count of each object's own last commit with statistics
  sets

vars == <<alive, config, flags, counts, bound, last, wanted, own, sets>>

Objects == {Conn} \cup Statements
Keys == {"read_only", "isolation", "tag", "staleness", "max_delay", "commit_stats",
         "optimizer", "precision", "timeout", "attempts", "rows"}
ConnectionOnly == {"read_only", "isolation", "tag"}
StatementOnly == {"rows"}

String(text, n) == [type |-> "string", text |-> text, n |-> n, pad |-> FALSE]
Trim(v) == [v EXCEPT !.pad = FALSE]
NoValue == String("none", 0)
NoBound == [kind |-> "strong", n |-> 0]
Unset == [raw |-> NoValue, parsed |-> NoBound]
DefaultRows == 4

(* Numbers count in halves: an integer is even. *)
ASSUME OptionsAssumption ==
  /\ Conn \notin Statements
  /\ {MaxDelay, MaxSeconds, MaxU32, MaxI64, MaxStaleness, FirstTime, MaxSets} \subseteq Nat
  /\ Now \subseteq Nat
  /\ Exact \in Nat /\ Exact % 4 = 0
  /\ OptionValues \subseteq [type : {"string", "int", "double"}, text : STRING, n : Int, pad : BOOLEAN]
  /\ \A v \in OptionValues : v.type = "int" => v.n % 2 = 0

(* SharedConfig::default, and rows_per_batch of a new statement. *)
default(o) ==
  [read_only |-> o, stats |-> o, isolation |-> "default", tag |-> NoValue, staleness |-> Unset,
   max_delay |-> Unset, commit_stats |-> FALSE, optimizer |-> NoValue,
   precision |-> "nanoseconds", timeout |-> NoValue, attempts |-> NoValue, rows |-> DefaultRows]

-----------------------------------------------------------------------------
(* What a parser returns: a value, or an error and the value there was.    *)
Good(v) == [ok |-> TRUE, v |-> v]
Bad(v) == [ok |-> FALSE, v |-> v]

Whole(v) == v.n % 2 = 0

(* `as f64` and parse::<f64>: the nearest number an f64 holds, the even one of *)
(* two.  Its numbers are 1 apart up to Exact, 2 up to twice that, then 4.      *)
Spacing(n) == IF n <= Exact THEN 1 ELSE IF n <= 2 * Exact THEN 2 ELSE 4
to_f64(n) ==
  LET u == Spacing(n)
      below == n \div u
      up == 2 * (n % u) > u \/ (2 * (n % u) = u /\ below % 2 = 1)
  IN  u * (IF up THEN below + 1 ELSE below)

(* Mutant: the text is kept before it is parsed. *)
RawParsed_set_raw_first(old, v, parsed) ==
  IF v.type # "string" THEN Bad(old)
  ELSE IF v.text = "" THEN Good(Unset)
  ELSE IF ~parsed.ok THEN Bad([old EXCEPT !.raw = Trim(v)])
  ELSE Good([raw |-> Trim(v), parsed |-> parsed.v])

(* RawParsed::set: a blank string unsets both halves. *)
RawParsed_set(old, v, parsed) ==
  IF v.type # "string" THEN Bad(old)
  ELSE IF v.text = "" THEN Good(Unset)
  ELSE IF ~parsed.ok THEN Bad(old)
  ELSE Good([raw |-> Trim(v), parsed |-> parsed.v])

parse_duration(v) ==
  IF v.text = "number" /\ to_f64(v.n) \in 0..MaxSeconds
  THEN Good([kind |-> "duration", n |-> to_f64(v.n)]) ELSE Bad(NoBound)

(* "exact:", "max:", "read:", "min:" and a bare timestamp. *)
parse_read_bound(v) ==
  CASE v.text \in {"exact", "max"} ->
         LET d == parse_duration(String("number", v.n))
         IN IF d.ok THEN Good([kind |-> v.text, n |-> d.v.n]) ELSE d
    [] v.text \in {"read", "min"} /\ v.n >= 0 -> Good([kind |-> v.text, n |-> v.n])
    [] v.text = "timestamp" -> Good([kind |-> "read", n |-> v.n])
    [] OTHER -> Bad(NoBound)

parse_max_commit_delay(v) ==
  LET d == parse_duration(v)
  IN IF d.ok /\ d.v.n > MaxDelay THEN Bad(NoBound) ELSE d

bool_option(old, v) ==
  IF v.type = "string" /\ ~v.pad /\ v.text \in {"true", "false"} THEN Good(v.text = "true")
  ELSE Bad(old)

bool_option_unsettable(old, v) ==
  IF v.type = "string" /\ v.text = "" THEN Good(FALSE) ELSE bool_option(old, v)

(* The value is kept as it is, blanks and all. *)
non_empty_string_option(old, v) ==
  IF v.type # "string" THEN Bad(old)
  ELSE IF v.text = "" /\ ~v.pad THEN Good(NoValue) ELSE Good(v)

f64_option(old, v) ==
  IF v.type = "string" /\ v.text = "" THEN Good(NoValue)
  ELSE IF v.text = "number" /\ to_f64(v.n) \in 0..MaxSeconds
       THEN Good(String("number", to_f64(v.n)))
  ELSE Bad(old)

parse_max_attempts(old, v) ==
  IF v.type = "string" /\ v.text = "" THEN Good(NoValue)
  ELSE IF v.text = "number" /\ Whole(v) /\ v.n \div 2 \in 1..MaxU32 THEN Good(String("number", v.n))
  ELSE Bad(old)

positive_usize(old, v) ==
  IF v.type \in {"string", "int"} /\ ~v.pad /\ v.text = "number" /\ Whole(v) /\ v.n > 0
  THEN Good(v.n \div 2) ELSE Bad(old)

parse_option(old, v) ==
  IF v.type # "string" THEN Bad(old)
  ELSE IF v.text = "" THEN Good("nanoseconds")
  ELSE IF v.text \in {"nanoseconds", "microseconds"} THEN Good(v.text)
  ELSE Bad(old)

(* A level Spanner does not have is raised to the next that satisfies it. *)
parse_isolation_level(old, v) ==
  IF v.type # "string" \/ v.pad THEN Bad(old)
  ELSE IF v.text \in {"default", "serializable", "repeatable_read"} THEN Good(v.text)
  ELSE IF v.text \in {"snapshot", "read_committed"} THEN Good("repeatable_read")
  ELSE IF v.text = "linearizable" THEN Good("serializable")
  ELSE Bad(old)

(* set_option: the key's parser, or an error when the object lacks the key.*)
Parse(o, key, v) ==
  LET old == IF key = "read_only" THEN flags[config[o].read_only] ELSE config[o][key]
  IN IF key \in (IF o = Conn THEN StatementOnly ELSE ConnectionOnly) THEN Bad(old)
     ELSE CASE key = "staleness" -> RawParsed_set(old, v, parse_read_bound(Trim(v)))
            [] key = "max_delay" -> RawParsed_set(old, v, parse_max_commit_delay(Trim(v)))
            [] key = "commit_stats" -> bool_option_unsettable(old, v)
            [] key = "read_only" -> bool_option(old, v)
            [] key \in {"optimizer", "tag"} -> non_empty_string_option(old, v)
            [] key = "precision" -> parse_option(old, v)
            [] key = "isolation" -> parse_isolation_level(old, v)
            [] key = "timeout" -> f64_option(old, v)
            [] key = "attempts" -> parse_max_attempts(old, v)
            [] key = "rows" -> positive_usize(old, v)

BoolString(b) == String(IF b THEN "true" ELSE "false", 0)

isolation_to_adbc_string(level) == String(level, 0)

(* get_option_string; NoValue is the NotFound error. *)
get_option_string(o, key) ==
  LET c == config[o]
  IN IF key \in (IF o = Conn THEN StatementOnly ELSE ConnectionOnly) THEN NoValue
     ELSE CASE key \in {"staleness", "max_delay"} -> c[key].raw
            [] key = "commit_stats" -> BoolString(c[key])
            [] key = "read_only" -> BoolString(flags[c.read_only])
            [] key = "isolation" -> isolation_to_adbc_string(c[key])
            [] key = "precision" -> String(c[key], 0)
            [] key = "rows" -> String("number", 2 * c[key])
            [] key \in {"optimizer", "tag", "timeout", "attempts"} -> c[key]

(* int_from_stored_string, double_from_stored_string. *)
typed_getter(o, key, type) ==
  LET s == get_option_string(o, key)
  IN IF s.text = "number" /\ (type = "double" \/ (Whole(s) /\ s.n <= MaxI64)) THEN Good(s.n) ELSE Bad(0)

-----------------------------------------------------------------------------
NoTxn == [by |-> Conn, uses |-> "none", want |-> NoBound, got |-> NoBound, at |-> 0]
NoSet == [by |-> Conn, key |-> "none", v |-> NoValue, ok |-> TRUE]

Init ==
  /\ alive = {Conn}
  /\ config = [o \in Objects |-> default(o)]
  /\ flags = [o \in Objects |-> FALSE] /\ counts = [o \in Objects |-> 0]
  /\ bound = NoTxn /\ last = NoSet
  /\ wanted = FALSE /\ own = [o \in Objects |-> 0] /\ sets = 0

set_option(o, key, v) ==
  LET r == Parse(o, key, v)
  IN /\ config' = IF key = "read_only" THEN config ELSE [config EXCEPT ![o][key] = r.v]
     /\ flags' = IF key = "read_only" THEN [flags EXCEPT ![config[o].read_only] = r.v] ELSE flags
     /\ wanted' = IF key = "read_only" /\ r.ok THEN v.text = "true" ELSE wanted
     /\ last' = [by |-> o, key |-> key, v |-> v, ok |-> r.ok]
     /\ sets' = sets + 1
     /\ bound' = NoTxn
     /\ UNCHANGED <<alive, counts, own>>

(* Mutant: the statement takes the flag's value and not the flag. *)
inherit_copies_flag(c, s) == [c EXCEPT !.stats = s, !.rows = DefaultRows, !.read_only = s]

(* The two Arcs differ: the flag is shared, the count is the statement's.  *)
inherit(c, s) == [c EXCEPT !.stats = s, !.rows = DefaultRows]

new_statement(s) ==
  /\ s \notin alive
  /\ alive' = alive \cup {s}
  /\ config' = [config EXCEPT ![s] = inherit(config[Conn], s)]
  /\ flags' = [flags EXCEPT ![s] = flags[Conn]]
  /\ bound' = NoTxn /\ last' = NoSet
  /\ UNCHANGED <<counts, wanted, own, sets>>

(* A commit with this object's configuration; only one that asked for      *)
(* statistics is sent any, and only these are recorded.                    *)
record(o, n) ==
  /\ o \in alive
  /\ counts' = IF config[o].commit_stats THEN [counts EXCEPT ![config[o].stats] = n] ELSE counts
  /\ own' = IF config[o].commit_stats THEN [own EXCEPT ![o] = n] ELSE own
  /\ bound' = NoTxn /\ last' = NoSet
  /\ UNCHANGED <<alive, config, flags, wanted, sets>>

mutation_count(o) == counts[config[o].stats]

(* A bounded staleness becomes the oldest timestamp it allows. *)
pinned_for_multi_use(b) ==
  CASE b.kind = "max" -> [b EXCEPT !.kind = "exact"]
    [] b.kind = "min" -> [b EXCEPT !.kind = "read"]
    [] OTHER -> b

(* to_timestamp_bound: the client has limits of its own, which the parser did *)
(* not ask about.                                                            *)
Sendable(b) ==
  /\ b.kind \in {"exact", "max"} => b.n <= MaxStaleness
  /\ b.kind \in {"read", "min"} => b.n >= FirstTime

(* single_use and multi_use, of a query, of a snapshot: a bound out of the     *)
(* client's range fails the call before anything is begun.                     *)
begin(o, uses, now) ==
  LET b == config[o].staleness.parsed
      got == IF uses = "multi" THEN pinned_for_multi_use(b) ELSE b
  IN /\ o \in alive
     /\ bound' = [by |-> o, uses |-> IF Sendable(got) THEN uses ELSE "refused", want |-> b,
                  at |-> now, got |-> got]
     /\ last' = NoSet
     /\ UNCHANGED <<alive, config, flags, counts, wanted, own, sets>>

Next ==
  \/ sets < MaxSets /\ \E o \in alive, key \in Keys, v \in OptionValues : set_option(o, key, v)
  \/ \E s \in Statements : new_statement(s)
  \/ \E o \in Objects, n \in 1..2 : record(o, n)
  \/ \E o \in Objects, uses \in {"single", "multi"}, now \in Now : begin(o, uses, now)

Spec == Init /\ [][Next]_vars

-----------------------------------------------------------------------------
(* The text get_option reports and the bound the driver works with move    *)
(* together, whatever was refused in between.                              *)
RawAndParsedAgree ==
  \A o \in alive :
    LET s == config[o].staleness
        d == config[o].max_delay
    IN /\ s = Unset \/ parse_read_bound(s.raw) = Good(s.parsed)
       /\ d = Unset \/ parse_max_commit_delay(d.raw) = Good(d.parsed)

(* Setting an option to what get_option reports is accepted and changes    *)
(* nothing, so options can be copied from one object to another.           *)
ReadBackIsFixedPoint ==
  \A o \in alive : \A key \in Keys :
    LET v == get_option_string(o, key)
        r == Parse(o, key, v)
    IN v # NoValue => r.ok /\ r.v = (IF key = "read_only" THEN flags[config[o].read_only] ELSE config[o][key])

(* An option kept as an f64 is the number set, rounded as `as f64` rounds an   *)
(* integer beyond 2^53; the others keep the number itself.                     *)
Kept(key, n) == IF key = "timeout" THEN to_f64(n) ELSE n

(* A number that was accepted is what the getter of its type reports: exactly, *)
(* unless an f64 cannot hold it; then it is the nearest f64, and no integer at *)
(* all when that is beyond the i64s.                                           *)
TypedReadBack ==
  last.ok /\ last.v.type \in {"int", "double"} =>
    LET n == last.v.n
        read == typed_getter(last.by, last.key, last.v.type)
    IN /\ read = Good(Kept(last.key, n)) \/ (last.v.type = "int" /\ Kept(last.key, n) > MaxI64)
       /\ n <= Exact /\ n <= MaxI64 => read = Good(n)

(* The mutation count an object reports is of a commit it ran itself, the  *)
(* last one that asked for statistics.                                     *)
OwnCommitCount == \A o \in alive : mutation_count(o) = own[o]

(* Every statement, also one created before, sees the connection's flag as *)
(* it was last set.                                                        *)
ReadOnlyIsLive == \A o \in alive : flags[config[o].read_only] = wanted

(* The timestamps a bound lets Spanner read at, up to the present. *)
Allowed(b, now) ==
  {t \in -MaxSeconds..MaxSeconds :
     CASE b.kind = "strong" -> t >= now
       [] b.kind = "exact" -> t = now - b.n
       [] b.kind = "max" -> now - b.n <= t /\ t <= now
       [] b.kind = "read" -> t = b.n
       [] b.kind = "min" -> t >= b.n}

(* A snapshot of several queries gets a bound Spanner accepts for it, and      *)
(* reads nothing older or newer than the option allows; pinning the bound      *)
(* makes the client refuse none that it would take of a single query.          *)
SnapshotBoundLegal ==
  /\ bound.uses = "multi" => /\ bound.got.kind \in {"strong", "exact", "read"}
                             /\ Allowed(bound.got, bound.at) \subseteq Allowed(bound.want, bound.at)
  /\ bound.uses = "refused" => ~Sendable(bound.want)

(* An option means what it reports: the text read back is the value in use,    *)
(* can be set again, and reaches Spanner as a bound it accepts unless it is    *)
(* beyond what the client can send.                                            *)
OptionsMeanWhatTheySay ==
  RawAndParsedAgree /\ ReadBackIsFixedPoint /\ TypedReadBack /\ SnapshotBoundLegal

(* Of what a statement takes over from its connection the read-only flag is    *)
(* shared, and the count of the last commit is not.                            *)
OptionsShared == ReadOnlyIsLive /\ OwnCommitCount
=============================================================================
