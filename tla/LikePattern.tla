---------------------------- MODULE LikePattern ----------------------------
(***************************************************************************)
(* The ADBC LIKE matcher (src/metadata.rs), one action per turn of its     *)
(* loop, and the form in which a pattern is pushed down to Spanner         *)
(* (src/objects.rs).  A character is a member of Chars, among them the     *)
(* wildcards % and _ and the backslash; offsets count characters.          *)
(***************************************************************************)
EXTENDS Naturals, Sequences

CONSTANTS
  Chars,        \* the characters of patterns and values
  MaxPattern,   \* bound: the length of a pattern
  MaxValue      \* bound: the length of a value

VARIABLES
  p, v,         \* the pattern and the value
  pi, vi,       \* how much of each is consumed
  star,         \* where to go back to: the last % and what it has eaten
  verdict       \* "running", "match" or "mismatch"

vars == <<p, v, pi, vi, star, verdict>>

LikeBounds == MaxPattern \in Nat /\ MaxValue \in Nat

Backslash == "backslash"
Strings(n) == UNION {[1..k -> Chars] : k \in 0..n}
NoStar == [set |-> FALSE, sp |-> 0, sv |-> 0]
Star(sp, sv) == [set |-> TRUE, sp |-> sp, sv |-> sv]

Init ==
  /\ p \in Strings(MaxPattern) /\ v \in Strings(MaxValue)
  /\ pi = 0 /\ vi = 0 /\ star = NoStar /\ verdict = "running"

Looping == verdict = "running" /\ vi < Len(v)
AtPercent == pi < Len(p) /\ p[pi + 1] = "%"
AtSame == pi < Len(p) /\ p[pi + 1] \in {"_", v[vi + 1]}

percent ==
  /\ Looping /\ AtPercent
  /\ star' = Star(pi, vi)
  /\ pi' = pi + 1
  /\ UNCHANGED <<p, v, vi, verdict>>

(* Mutant: a % in the value is taken by the % of the pattern as a literal. *)
consume_literal_first ==
  /\ Looping /\ AtSame
  /\ pi' = pi + 1 /\ vi' = vi + 1
  /\ UNCHANGED <<p, v, star, verdict>>

consume ==
  /\ Looping /\ ~AtPercent /\ AtSame
  /\ pi' = pi + 1 /\ vi' = vi + 1
  /\ UNCHANGED <<p, v, star, verdict>>

(* The last % eats one more character. *)
backtrack ==
  /\ Looping /\ ~AtPercent /\ ~AtSame /\ star.set
  /\ pi' = star.sp + 1 /\ vi' = star.sv + 1
  /\ star' = Star(star.sp, vi')
  /\ UNCHANGED <<p, v, verdict>>

mismatch ==
  /\ Looping /\ ~AtPercent /\ ~AtSame /\ ~star.set
  /\ verdict' = "mismatch"
  /\ UNCHANGED <<p, v, pi, vi, star>>

(* The value is used up: what is left of the pattern may only be %. *)
finish ==
  /\ verdict = "running" /\ vi = Len(v)
  /\ verdict' = IF \A i \in (pi + 1)..Len(p) : p[i] = "%" THEN "match" ELSE "mismatch"
  /\ UNCHANGED <<p, v, pi, vi, star>>

matches == percent \/ consume \/ backtrack \/ mismatch \/ finish

Next == matches

Spec == Init /\ [][Next]_vars

sql_like_pattern(s) ==
  LET doubled[i \in 0..Len(s)] ==
        IF i = 0 THEN <<>>
        ELSE doubled[i - 1] \o (IF s[i] = Backslash THEN <<Backslash, Backslash>> ELSE <<s[i]>>)
  IN doubled[Len(s)]

-----------------------------------------------------------------------------
(* The reference: whether q, from character i, matches w from character j. *)
Like(q, w) ==
  LET m[i \in 1..(Len(q) + 1), j \in 1..(Len(w) + 1)] ==
        IF i > Len(q) THEN j > Len(w)
        ELSE IF q[i] = "%" THEN \E k \in j..(Len(w) + 1) : m[i + 1, k]
        ELSE j <= Len(w) /\ q[i] \in {"_", w[j]} /\ m[i + 1, j + 1]
  IN m[1, 1]

(* LIKE of GoogleSQL, where a backslash makes the next character literal. *)
ServerLike(q, w) ==
  LET m[i \in 1..(Len(q) + 1), j \in 1..(Len(w) + 1)] ==
        IF i > Len(q) THEN j > Len(w)
        ELSE IF q[i] = Backslash /\ i < Len(q)
             THEN j <= Len(w) /\ q[i + 1] = w[j] /\ m[i + 2, j + 1]
        ELSE IF q[i] = "%" THEN \E k \in j..(Len(w) + 1) : m[i + 1, k]
        ELSE j <= Len(w) /\ q[i] \in {"_", w[j]} /\ m[i + 1, j + 1]
  IN m[1, 1]

(* The verdict of the backtracking matcher is that of LIKE, though it goes *)
(* back to the last % only.                                                *)
VerdictIsLike == verdict # "running" => (verdict = "match" <=> Like(p, v))

(* The predicate pushed down keeps exactly the names the matcher keeps, so *)
(* the rows the server leaves out are rows the client would have dropped.  *)
PushDownAgrees == verdict # "running" => (verdict = "match" <=> ServerLike(sql_like_pattern(p), v))

(* The three ways to decide a pattern agree: the matcher, LIKE, and what is     *)
(* pushed down to Spanner.                                                      *)
FiltersAgree == VerdictIsLike /\ PushDownAgrees
=============================================================================
