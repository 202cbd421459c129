---------------------------- MODULE MCStatement ----------------------------
(* A statement for TLC: the handle reused from call to call                 *)
(* (StatementHandle), the scanner that classifies its text (SqlText, over   *)
(* four alphabets) and the values bound to it and read back (Values).  They *)
(* share no variable; part says which of them a behaviour is of, and the    *)
(* others rest.                                                             *)
EXTENDS StatementHandle

CONSTANTS
  NanoDigits, MicroDigits, MilliDigits, MaxInt, MaxDay, DayMillis, Chrono, FourDigits,
  NUMERIC_SCALE, DecimalDigits, MaxText, MaxLen

VARIABLES
  part,
  text,             \* SqlText
  input, wire, pc   \* Values

valueVars == <<input, wire, pc>>

(* The words and characters typed, for each part of the scanner. *)
Alphabet ==
  [literals   |-> {"quote", "backtick", "backslash", ";", "a"},
   comments   |-> {"-", "#", "/", "*", "newline", ";", "a"},
   keywords   |-> {"THEN", "RETURN", "CASE", "END", "INSERT", " ", "backtick"},
   parameters |-> {"@", "{", "p", "P", "1", "#", "newline", "backtick"}]
Longest == [literals |-> MaxLen + 1, comments |-> MaxLen, keywords |-> MaxLen, parameters |-> MaxLen - 1]
Scans == DOMAIN Alphabet

Sql(scan) == INSTANCE SqlText WITH Chars <- Alphabet[scan], MaxLen <- Longest[scan]
Value == INSTANCE Values

ASSUME MaxLen \in Nat \ {0}
ASSUME Value!ValuesAssumption

(* Texts of up to two statements. *)
AllTexts == UNION {[1..n -> PartKinds] : n \in 0..2}
SomeBindings == {<<>>, <<0>>, <<1>>, <<0, 1>>, <<2>>}

(* Values scaled down: one, two and three digits for milli-, micro- and     *)
(* nanoseconds, and integers of a few thousand, in the order of the real    *)
(* ones: the nanoseconds of an i64 end before the years of four digits,     *)
(* these before chrono's range, and that before the microseconds of an i64. *)
TheDecimalDigits == {0, 1, 9}
TheChrono == -20..20
TheFourDigits == -8..12

MCInit ==
  /\ part \in {"handle", "values"} \cup Scans
  /\ Init /\ Sql("literals")!Init
  /\ IF part = "values" THEN Value!Init ELSE input = [kind |-> "text", v |-> <<>>] /\ wire = Value!NoValue /\ pc = "bind"

MCNext ==
  /\ UNCHANGED part
  /\ \/ part = "handle" /\ Next /\ UNCHANGED <<text, valueVars>>
     \/ \E scan \in Scans : part = scan /\ Sql(scan)!Next /\ UNCHANGED <<vars, valueVars>>
     \/ part = "values" /\ Value!Next /\ UNCHANGED <<vars, text>>

MCSpec == MCInit /\ [][MCNext]_<<part, vars, text, valueVars>>

-----------------------------------------------------------------------------
(* SqlText: the scanner finds what a reference on positions finds: the      *)
(* semicolons outside every literal and comment, THEN RETURN outside every  *)
(* CASE, the parameters (each supplied once), a quoted name as one token.   *)
ScannerAgrees ==
  /\ part \in {"literals", "comments"} => Sql("literals")!TopLevelTerminators
  /\ part = "literals" => Sql("literals")!QuotedNameIsOneToken
  /\ part = "keywords" => Sql("keywords")!ReturningAtTopLevel
  /\ part = "parameters" => Sql("parameters")!ParametersFound /\ Sql("parameters")!OneValuePerParameter

(* SqlText: texts that mean the same are treated the same: a statement      *)
(* split off is that one statement when it is scanned again, a hint in      *)
(* front leaves the class alone, and a comment is as good as a space.       *)
TextsEquivalent ==
  /\ part = "comments" => Sql("comments")!StatementsStand
  /\ part = "keywords" => Sql("keywords")!HintsTransparent
  /\ part = "parameters" => Sql("parameters")!CommentsAreSpaces

(* Values: a timestamp, date or decimal bound and read back is the value    *)
(* that was bound, or is refused; only canonical texts are read.            *)
ValuesRoundTrip == part = "values" => Value!ValuesRoundTrip
=============================================================================
