------------------------------ MODULE SqlText ------------------------------
(***************************************************************************)
(* The SQL text scanner of src/sql.rs, on which the driver decides how     *)
(* many statements a text holds, how each is run, and which parameters it  *)
(* has, and the column-to-parameter resolution of src/bind.rs.             *)
(*                                                                         *)
(* A text is a sequence of characters; a keyword stands for its letters,   *)
(* so THEN next to RETURN is one word that is neither.  The behaviours     *)
(* type a text one character at a time; the invariants compare what the    *)
(* scanner makes of it with a reference.                                   *)
(***************************************************************************)
EXTENDS Integers, Sequences, FiniteSets, SequencesExt

CONSTANTS
  Chars,    \* the characters typed
  MaxLen    \* bound: the length of a text

VARIABLE text

LengthAssumption == MaxLen \in Nat

Backtick == "backtick"
Quote == "quote"
Backslash == "backslash"
Newline == "newline"
Space == " "
Keywords == {"THEN", "RETURN", "CASE", "END", "INSERT", "DROP"}
Letters == {"a", "p", "P"} \cup Keywords
Digits == {"1"}
Quotes == {Quote, Backtick}

is_ident_char(c) == c \in Letters \cup Digits
is_whitespace(c) == c \in {Space, Newline}
ToLower(s) == [i \in DOMAIN s |-> IF s[i] = "P" THEN "p" ELSE s[i]]
At(t, i, c) == i <= Len(t) /\ t[i] = c

-----------------------------------------------------------------------------
(* Mutant: a backslash does not bind the next character in backticks. *)
consume_quoted_raw_backtick(t, i) ==
  LET quote == t[i]
      tail == quote # Backtick /\ At(t, i + 1, quote)
      triple == tail /\ At(t, i + 2, quote)
      scan[j \in (i + 1)..(Len(t) + 2), run \in 0..2] ==
        IF j > Len(t) THEN Len(t)
        ELSE IF t[j] = Backslash /\ quote # Backtick THEN scan[j + 2, 0]
        ELSE IF t[j] # quote THEN scan[j + 1, 0]
        ELSE IF ~triple \/ run = 2 THEN j ELSE scan[j + 1, run + 1]
  IN IF tail /\ ~triple THEN i + 1 ELSE scan[IF triple THEN i + 3 ELSE i + 1, 0]

(* The last character of the literal or quoted identifier opened at i. *)
consume_quoted(t, i) ==
  LET quote == t[i]
      tail == quote # Backtick /\ At(t, i + 1, quote)
      triple == tail /\ At(t, i + 2, quote)
      scan[j \in (i + 1)..(Len(t) + 2), run \in 0..2] ==
        IF j > Len(t) THEN Len(t)
        ELSE IF t[j] = Backslash THEN scan[j + 2, 0]
        ELSE IF t[j] # quote THEN scan[j + 1, 0]
        ELSE IF ~triple \/ run = 2 THEN j ELSE scan[j + 1, run + 1]
  IN IF tail /\ ~triple THEN i + 1 ELSE scan[IF triple THEN i + 3 ELSE i + 1, 0]

FirstOr(S, default) == IF S = {} THEN default ELSE CHOOSE x \in S : \A y \in S : x <= y

consume_line_comment(t, i) == FirstOr({j \in (i + 1)..Len(t) : t[j] = Newline}, Len(t))

(* Mutant: the star that opens the comment also closes it. *)
consume_block_comment_overlap(t, i) ==
  FirstOr({j \in (i + 2)..Len(t) : t[j - 1] = "*" /\ t[j] = "/"}, Len(t))

consume_block_comment(t, i) ==
  FirstOr({j \in (i + 3)..Len(t) : t[j - 1] = "*" /\ t[j] = "/"}, Len(t))

consume_word(t, i) == FirstOr({j \in i..Len(t) : j = Len(t) \/ ~is_ident_char(t[j + 1])}, i)

(* Lexer::next: the lexeme that starts at i. *)
next(t, i) ==
  LET Lexeme(kind, last) == [kind |-> kind, from |-> i, to |-> last]
  IN CASE t[i] \in Quotes -> Lexeme("Quoted", consume_quoted(t, i))
       [] t[i] = "#" \/ (t[i] = "-" /\ At(t, i + 1, "-")) -> Lexeme("Comment", consume_line_comment(t, i))
       [] t[i] = "/" /\ At(t, i + 1, "*") -> Lexeme("Comment", consume_block_comment(t, i))
       [] is_ident_char(t[i]) -> Lexeme("Word", consume_word(t, i))
       [] OTHER -> Lexeme("Other", i)

lex(t) ==
  LET from[i \in 1..(Len(t) + 1)] ==
        LET AndRest(l) == <<l>> \o from[l.to + 1] IN IF i > Len(t) THEN <<>> ELSE AndRest(next(t, i))
  IN from[1]

Slice(t, l) == SubSeq(t, l.from, l.to)
IsOther(t, l, c) == l.kind = "Other" /\ t[l.from] = c
Blank(t, l) == l.kind = "Other" /\ is_whitespace(t[l.from])

(* Mutant: a comment between two tokens separates them. *)
significant_lexemes_with_comments(t) == SelectSeq(lex(t), LAMBDA l : ~Blank(t, l))

significant_lexemes(t) == SelectSeq(lex(t), LAMBDA l : l.kind # "Comment" /\ ~Blank(t, l))

-----------------------------------------------------------------------------
Trim(t) ==
  LET solid == {i \in DOMAIN t : ~is_whitespace(t[i])}
      first == CHOOSE i \in solid : \A j \in solid : i <= j
      last == CHOOSE i \in solid : \A j \in solid : i >= j
  IN IF solid = {} THEN <<>> ELSE SubSeq(t, first, last)

has_statement(t) == significant_lexemes(t) # <<>>

push_statement(statements, current) ==
  LET trimmed == Trim(current) IN IF has_statement(trimmed) THEN Append(statements, trimmed) ELSE statements

split_statements(t) ==
  LET Step(acc, l) == IF IsOther(t, l, ";") THEN [done |-> push_statement(acc.done, acc.current), current |-> <<>>]
                      ELSE [acc EXCEPT !.current = @ \o Slice(t, l)]
      end == FoldLeft(Step, [done |-> <<>>, current |-> <<>>], lex(t))
  IN push_statement(end.done, end.current)

strip_trailing_terminators(t) ==
  LET statements == split_statements(t) IN IF Len(statements) = 1 THEN statements[1] ELSE t

(* The letters the first word of the lexemes s starts with, <<>> for none. *)
KeywordAmong(t, s) ==
  LET from[i \in 1..(Len(s) + 1)] ==
        IF i > Len(s) THEN <<>>
        ELSE IF IsOther(t, s[i], "@") /\ i < Len(s) /\ IsOther(t, s[i + 1], "{")
        THEN from[FirstOr({j \in (i + 1)..Len(s) : IsOther(t, s[j], "}")}, Len(s)) + 1]
        ELSE IF s[i].kind # "Word" THEN <<>>
        ELSE LET w == Slice(t, s[i]) IN SubSeq(w, 1, FirstOr({j \in DOMAIN w : w[j] \in Digits}, Len(w) + 1) - 1)
  IN from[1]

first_keyword(t) == KeywordAmong(t, significant_lexemes(t))

is_ddl(t) == first_keyword(t) = <<"DROP">>
is_dml(t) == first_keyword(t) = <<"INSERT">>

is_dml_returning(t) ==
  LET Step(acc, l) ==
        IF l.kind = "Quoted" THEN [acc EXCEPT !.then = FALSE]
        ELSE IF l.kind # "Word" THEN acc
        ELSE LET w == Slice(t, l)
             IN [found |-> acc.found \/ (acc.then /\ acc.depth = 0 /\ w = <<"RETURN">>),
                 then |-> w = <<"THEN">>,
                 depth |-> CASE w = <<"CASE">> -> acc.depth + 1
                             [] w = <<"END">> /\ acc.depth > 0 -> acc.depth - 1
                             [] OTHER -> acc.depth]
  IN FoldLeft(Step, [found |-> FALSE, then |-> FALSE, depth |-> 0], lex(t)).found

(* The name lexeme l spells after an @, <<>> for none. *)
ParameterName(t, l) ==
  LET w == Slice(t, l)
      inner == IF Len(w) > 1 /\ w[1] = Backtick /\ w[Len(w)] = Backtick THEN SubSeq(w, 2, Len(w) - 1) ELSE <<>>
  IN CASE l.kind = "Word" /\ w[1] \in Letters -> w
       [] l.kind = "Quoted" /\ Backslash \notin Range(inner) -> inner
       [] OTHER -> <<>>

AddParameter(params, name) ==
  IF name = <<>> \/ \E p \in Range(params) : ToLower(p) = ToLower(name) THEN params
  ELSE Append(params, name)

ParametersAmong(t, s) ==
  LET from[i \in 1..(Len(s) + 2), params \in Seq(Seq(Chars))] ==
        IF i >= Len(s) THEN params
        ELSE IF ~IsOther(t, s[i], "@") THEN from[i + 1, params]
        ELSE IF IsOther(t, s[i + 1], "@") \/ IsOther(t, s[i + 1], "{") THEN from[i + 2, params]
        ELSE LET name == ParameterName(t, s[i + 1])
                 taken == s[i + 1].kind = "Quoted" \/ name # <<>>
             IN from[IF taken THEN i + 2 ELSE i + 1, AddParameter(params, name)]
  IN from[1, <<>>]

named_parameters(t) == ParametersAmong(t, significant_lexemes(t))

Refused == <<"refused">>

(* The parameter each of the columns binds to, or Refused. *)
ResolveAmong(params, columns, bind_by_name) ==
  LET Same(column) == {p \in Range(params) : ToLower(p) = ToLower(column)}
  IN IF ~bind_by_name THEN IF Len(params) = Len(columns) THEN params ELSE Refused
     ELSE IF \/ \E i \in DOMAIN columns : Same(columns[i]) = {}
             \/ \E i, j \in DOMAIN columns : i # j /\ ToLower(columns[i]) = ToLower(columns[j])
          THEN Refused
          ELSE [i \in DOMAIN columns |-> CHOOSE p \in Same(columns[i]) : TRUE]

resolve_parameter_names(t, columns, bind_by_name) == ResolveAmong(named_parameters(t), columns, bind_by_name)

quote_ident(id) ==
  IF id = <<>> \/ \E c \in Range(id) : c \in {Backtick, Backslash, Newline} THEN Refused
  ELSE <<Backtick>> \o id \o <<Backtick>>

qualified_table(schema, table) ==
  IF schema = <<>> THEN quote_ident(table)
  ELSE IF Refused \in {quote_ident(schema), quote_ident(table)} THEN Refused
  ELSE quote_ident(schema) \o <<".">> \o quote_ident(table)

-----------------------------------------------------------------------------
Init == text = <<>>

Type(c) == /\ Len(text) < MaxLen
           /\ text' = Append(text, c)

Next == \E c \in Chars : Type(c)

Spec == Init /\ [][Next]_text

-----------------------------------------------------------------------------
(* The reference scanner: GoogleSQL's literals and comments as a finite    *)
(* automaton fed one character at a time, with no look-ahead.              *)
TopLevel == {"top", "dash", "slash", "opened2"}

Feed(s, c) ==
  LET FromTop == CASE c = "-" -> [mode |-> "dash", quote |-> ""]
                   [] c = "/" -> [mode |-> "slash", quote |-> ""]
                   [] c = "#" -> [mode |-> "line", quote |-> ""]
                   [] c \in Quotes -> [mode |-> "opened", quote |-> c]
                   [] OTHER -> [mode |-> "top", quote |-> ""]
      To(m) == [s EXCEPT !.mode = m]
      InTriple == CASE c = Backslash -> To("triple_escape") [] c # s.quote -> To("triple")
                    [] s.mode = "triple" -> To("triple1") [] s.mode = "triple1" -> To("triple2")
                    [] OTHER -> To("top")
  IN CASE s.mode = "dash" -> IF c = "-" THEN To("line") ELSE FromTop
       [] s.mode = "slash" -> IF c = "*" THEN To("block") ELSE FromTop
       [] s.mode = "line" -> IF c = Newline THEN To("top") ELSE s
       [] s.mode = "block" -> IF c = "*" THEN To("star") ELSE s
       [] s.mode = "star" -> IF c = "/" THEN To("top") ELSE IF c = "*" THEN s ELSE To("block")
       [] s.mode = "opened" /\ c = s.quote -> IF c = Backtick THEN To("top") ELSE To("opened2")
       [] s.mode \in {"opened", "single"} ->
            IF c = Backslash THEN To("escape") ELSE IF c = s.quote THEN To("top") ELSE To("single")
       [] s.mode = "escape" -> To("single")
       [] s.mode = "opened2" -> IF c = s.quote THEN To("triple") ELSE FromTop
       [] s.mode = "triple_escape" -> To("triple")
       [] s.mode \in {"triple", "triple1", "triple2"} -> InTriple
       [] OTHER -> FromTop

ModeBefore(t, i) == FoldLeft(Feed, [mode |-> "top", quote |-> ""], SubSeq(t, 1, i - 1)).mode

Commentless(t) ==
  FoldLeft(LAMBDA acc, l : acc \o (IF l.kind = "Comment" THEN <<Space>> ELSE Slice(t, l)), <<>>, lex(t))

-----------------------------------------------------------------------------
(* The semicolons that end a statement are those outside every literal,    *)
(* quoted identifier and comment, by GoogleSQL's rules.                    *)
TopLevelTerminators ==
  {l.from : l \in {x \in Range(lex(text)) : IsOther(text, x, ";")}}
    = {i \in DOMAIN text : text[i] = ";" /\ ModeBefore(text, i) \in TopLevel}

(* A statement split off stands by itself: scanned again, when it is       *)
(* executed or counted, it is that one statement, and has something to run.*)
StatementsStand ==
  \A s \in Range(split_statements(text)) :
    /\ split_statements(s) = <<s>>
    /\ strip_trailing_terminators(s) = s
    /\ significant_lexemes(s) # <<>>

(* A comment is as good as a space to every decision taken on the text:    *)
(* the number of statements, the class, the clause and the parameters.     *)
CommentsAreSpaces ==
  LET t == Commentless(text)
  IN /\ Len(split_statements(t)) = Len(split_statements(text))
     /\ first_keyword(t) = first_keyword(text)
     /\ is_dml_returning(t) = is_dml_returning(text)
     /\ named_parameters(t) = named_parameters(text)

(* A statement hint in front, with a brace in a literal in it, does not    *)
(* change the class of the statement.                                      *)
HintsTransparent ==
  LET hinted == <<"@", "{", "a", Quote, "}", Quote, "}">> \o text
  IN is_dml(hinted) = is_dml(text) /\ is_ddl(hinted) = is_ddl(text)

(* A text returns rows exactly when THEN and RETURN stand next to each     *)
(* other outside every CASE.  Unclosed is the number of CASEs open before  *)
(* word k, an END too many closing nothing.                                *)
ReturningAtTopLevel ==
  LET w == SelectSeq(lex(text), LAMBDA l : l.kind \in {"Word", "Quoted"})
      Is(k, keyword) == w[k].kind = "Word" /\ Slice(text, w[k]) = <<keyword>>
      Net(i, k) == Cardinality({j \in i..(k - 1) : Is(j, "CASE")})
                     - Cardinality({j \in i..(k - 1) : Is(j, "END")})
      Unclosed(k) == \E i \in 1..k : Net(i, k) > 0
  IN is_dml_returning(text) <=>
       \E k \in 1..(Len(w) - 1) : Is(k, "THEN") /\ Is(k + 1, "RETURN") /\ ~Unclosed(k)

(* The parameters are the names after an @ that is not itself the second   *)
(* of a pair, however they are spelled.                                    *)
ParametersFound ==
  LET s == significant_lexemes(text)
      Marker(k) == k > 0 /\ IsOther(text, s[k], "@")
      RunStart(k) == CHOOSE i \in 1..k : (\A j \in i..k : Marker(j)) /\ ~Marker(i - 1)
      Live(k) == Marker(k) /\ (k - RunStart(k)) % 2 = 0
  IN {ToLower(p) : p \in Range(named_parameters(text))}
       = {ToLower(ParameterName(text, s[k + 1])) : k \in {i \in 1..(Len(s) - 1) : Live(i)}} \ {<<>>}

(* No request supplies one parameter twice, in two spellings, which        *)
(* Spanner refuses: whatever the columns are called, positionally or by    *)
(* name.                                                                   *)
OneValuePerParameter ==
  \A columns \in {<<>>, <<<<"p">>>>, <<<<"P">>, <<"a">>>>, <<<<"p">>, <<"P">>>>}, by_name \in BOOLEAN :
    LET names == resolve_parameter_names(text, columns, by_name)
    IN names # Refused => /\ Len(names) = Len(columns)
                          /\ \A i, j \in DOMAIN names : ToLower(names[i]) = ToLower(names[j]) => i = j

(* A name that is accepted is one token to both of Spanner's parsers: the  *)
(* one that knows escapes in backticks, and the DDL parser, which ends the *)
(* identifier at the first backtick.                                       *)
QuotedNameIsOneToken ==
  LET q == quote_ident(text)
      full == <<"DROP", Space>> \o qualified_table(<<"a">>, text) \o <<";", "a">>
  IN q # Refused =>
       /\ lex(q) = <<[kind |-> "Quoted", from |-> 1, to |-> Len(q)]>>
       /\ \A i \in 2..(Len(q) - 1) : q[i] # Backtick
       /\ Len(split_statements(full)) = 2

=============================================================================
