----------------------------- MODULE MCDatabase -----------------------------
(* The database and the connection for TLC: the handle up to its connections *)
(* (Database, over two sets of options), the options of a connection and its *)
(* statements (Options), the catalog calls (Objects) and the matcher they    *)
(* use (LikePattern).  They share no variable; part says which of them a     *)
(* behaviour is of, and the others rest.                                     *)
EXTENDS Options

CONSTANTS
  Catalogs, Filters, MaxDdl,
  Chars, MaxPattern, MaxValue

VARIABLES
  part,
  staged, buffer, cfg, cached, host, conn,                             \* Database
  history, call, txn, batches, result,                                 \* Objects
  p, v, pi, vi, star, verdict                                          \* LikePattern

databaseVars == <<staged, buffer, cfg, cached, host, conn>>
objectVars == <<history, call, txn, batches, result>>
likeVars == <<p, v, pi, vi, star, verdict>>

-----------------------------------------------------------------------------
(* The options that make a URI and a credential conflict interesting. *)
Param(k, w) == [key |-> k, value |-> w, escaped |-> TRUE]
Uri(authority, params) ==
  [scheme |-> TRUE, fragment |-> FALSE, slashes |-> TRUE, path |-> "db",
   authority |-> authority, params |-> params]

Bare == Uri("unset", <<>>)
Rich == Uri("e1", <<Param("quota", "q")>>)
Twice == Uri("e1", <<Param("endpoint", "e2")>>)
Emu == Uri("unset", <<Param("emulator", "true")>>)
BadUris == {[Bare EXCEPT !.scheme = FALSE], [Bare EXCEPT !.fragment = TRUE],
            [Bare EXCEPT !.slashes = FALSE], [Bare EXCEPT !.path = "unset"],
            Uri("unset", <<Param("token", "t")>>), Uri("unset", <<Param("other", "x")>>),
            Uri("unset", <<[Param("quota", "q") EXCEPT !.escaped = FALSE]>>),
            Uri("e1", <<Param("quota", "q"), Param("emulator", "maybe")>>)}

UriOptions ==
  {<<"uri", u>> : u \in {Bare, Rich, Twice} \cup BadUris}
    \cup {<<"endpoint", "">>, <<"endpoint", "e2">>, <<"quota", "q">>, <<"quota", "">>, <<"other", "x">>}
CredentialOptions ==
  {<<"uri", Bare>>, <<"uri", Emu>>, <<"emulator", "true">>, <<"emulator", "false">>,
   <<"keyfile", "k">>, <<"keyfile_json", "j">>, <<"target", "p">>, <<"token", "t">>, <<"quota", "q">>}

ByUri == INSTANCE Database WITH Options <- UriOptions
ByKey == INSTANCE Database WITH Options <- CredentialOptions
Catalog == INSTANCE Objects
Like == INSTANCE LikePattern

ASSUME Catalog!BoundAssumption
ASSUME Like!LikeBounds

(* Values of every type, each in and out of every range, with and without    *)
(* blanks around them; 14 is an integer no f64 holds, which it rounds to 16, *)
(* beyond MaxI64.                                                            *)
Text(text) == String(text, 0)
Padded(w) == [w EXCEPT !.pad = TRUE]
Number(type, n) == [type |-> type, text |-> "number", n |-> n, pad |-> FALSE]
TheValues ==
  {Text(w) : w \in {"", "true", "false", "microseconds", "snapshot", "linearizable", "default"}}
    \cup {String("max", 3), String("max", -1), String("read", 0), String("min", 1), String("timestamp", 4)}
    \cup {Number("string", n) : n \in {-2, 0, 1, 4}} \cup {Number("int", n) : n \in {4, 14}}
    \cup {Number("double", 3), Padded(Text("")), Padded(Text("true")), Padded(String("exact", 14))}
TheNow == {6}

(* Both wildcards, the backslash and a letter. *)
TheChars == {"%", "_", "backslash", "a"}

-----------------------------------------------------------------------------
(* Four schemas: a parent whose key is referenced in the other order and     *)
(* from another schema, the same without the foreign key, the parent's key   *)
(* reordered, and a table with only the implicit rowid.                      *)
Col(n) == [name |-> n, hidden |-> FALSE]
NoParent == <<"", "">>
Key(s, t, n, type, cols, checks, parent, refs) ==
  [schema |-> s, table |-> t, name |-> n, type |-> type, cols |-> cols, checks |-> checks,
   parent |-> parent, refs |-> refs]

Parent(order) == Key("", "p", "pk_p", "PRIMARY KEY", order, {}, NoParent, <<>>)
ParentTable == [schema |-> "", name |-> "p", type |-> "BASE TABLE", cols |-> <<Col("x"), Col("y")>>]
ChildTable == [schema |-> "s", name |-> "c", type |-> "BASE TABLE", cols |-> <<Col("x"), Col("y")>>]
ChildKey == Key("s", "c", "pk_c", "PRIMARY KEY", <<"x">>, {}, NoParent, <<>>)
ChildFk == Key("s", "c", "fk_c", "FOREIGN KEY", <<"x", "y">>, {}, <<"", "pk_p">>, <<"y", "x">>)
View == [schema |-> "", name |-> "v", type |-> "VIEW", cols |-> <<Col("x")>>]
Keyless == [schema |-> "", name |-> "p", type |-> "BASE TABLE",
            cols |-> <<Col("x"), [name |-> "rowid", hidden |-> TRUE], Col("y")>>]
Rowid == Key("", "p", "pk_p", "PRIMARY KEY", <<"rowid">>, {}, NoParent, <<>>)
RowidCheck == Key("", "p", "ck_p", "CHECK", <<>>, {"rowid"}, NoParent, <<>>)
Check == Key("s", "c", "ck_c", "CHECK", <<>>, {"y"}, NoParent, <<>>)

TheCatalogs ==
  {[schemas |-> {"", "s"}, tables |-> {ParentTable, ChildTable, View},
    keys |-> {Parent(<<"x", "y">>), ChildKey, ChildFk}],
   [schemas |-> {"", "s"}, tables |-> {ParentTable, ChildTable},
    keys |-> {Parent(<<"y", "x">>), ChildKey, ChildFk, Check}],
   [schemas |-> {"", "s"}, tables |-> {ParentTable, ChildTable},
    keys |-> {Parent(<<"x", "y">>), ChildKey}],
   [schemas |-> {""}, tables |-> {Keyless}, keys |-> {Rowid, RowidCheck}]}

Names == {"", "s", "p", "c", "v", "x", "y", "rowid"}
Matching(s, t, c, types) ==
  [names |-> Names, schema |-> s, table |-> t, column |-> c, typed |-> types # Names, types |-> types]
TheFilters ==
  {Matching(Names, Names, Names, Names), Matching({"s"}, Names, Names, Names),
   Matching(Names, {"c"}, Names, Names), Matching(Names, Names, {"y"}, Names), Matching({"s"}, {"c"}, {"y"}, Names),
   Matching(Names, Names, Names, {"VIEW"}), Matching(Names, Names, Names, {})}

-----------------------------------------------------------------------------
MCInit ==
  /\ part \in {"uri", "credentials", "options", "objects", "like"}
  /\ ByUri!Init /\ (part \notin {"uri", "credentials"} => ~host)
  /\ Init
  /\ IF part = "objects" THEN Catalog!Init
     ELSE history = <<>> /\ call = Catalog!Idle /\ txn = 0 /\ batches = <<>> /\ result = Catalog!NullList
  /\ IF part = "like" THEN Like!Init
     ELSE p = <<>> /\ v = <<>> /\ pi = 0 /\ vi = 0 /\ star = Like!NoStar /\ verdict = "running"

(* A verdict ends the matcher. *)
Matched == verdict # "running" /\ UNCHANGED likeVars

MCNext ==
  /\ UNCHANGED part
  /\ \/ part = "uri" /\ ByUri!Next /\ UNCHANGED <<vars, objectVars, likeVars>>
     \/ part = "credentials" /\ ByKey!Next /\ UNCHANGED <<vars, objectVars, likeVars>>
     \/ part = "options" /\ Next /\ UNCHANGED <<databaseVars, objectVars, likeVars>>
     \/ part = "objects" /\ Catalog!Next /\ UNCHANGED <<databaseVars, vars, likeVars>>
     \/ part = "like" /\ (Like!Next \/ Matched) /\ UNCHANGED <<databaseVars, vars, objectVars>>

MCSpec == MCInit /\ [][MCNext]_<<part, databaseVars, vars, objectVars, likeVars>>

-----------------------------------------------------------------------------
(* Database: an option that is refused changes no field, a URI that is       *)
(* accepted only the fields it carries.                                      *)
OptionsApplyWhole == [][part = "uri" => ByUri!AppliesWhole]_databaseVars

(* Database: no connection runs on a client stack older than the last        *)
(* set_option, or without a credential the options name.                     *)
ConnectsAsConfigured == part = "credentials" => ByKey!ConnectsAsConfigured

(* Objects: the result is the schema as it was at one moment the staleness   *)
(* allows, whatever DDL lands between the queries.                           *)
OneSnapshot == part = "objects" => Catalog!OneSnapshot

(* LikePattern: the backtracking matcher decides LIKE, and the predicate     *)
(* pushed down keeps the names the matcher keeps.                            *)
FiltersAgree == part = "like" => Like!FiltersAgree
=============================================================================
