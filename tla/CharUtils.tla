----------------------------- MODULE CharUtils -----------------------------
(***************************************************************************)
(* Strings (pyis/share/str_utils.cpp).  A string is a sequence of code     *)
(* points, and the Unicode categories are tables of ranges.                *)
(***************************************************************************)
EXTENDS Integers, SequencesExt

CONSTANTS
  CodePoints,     \* the code points there are
  LetterTable,    \* l_category_table: <<first, last>>, in ascending order
  NumberTable,    \* n_category_table
  SeparatorTable, \* z_category_table
  Space,          \* ' '
  Quote,          \* '\''
  Blanks,         \* what trims and is_unicode_space take for white space
  Lower           \* tolower, a function on the code points it changes

-----------------------------------------------------------------------------
(* A map with an entry set, as std::unordered_map's operator[] leaves it.  *)
With(map, key, value) ==
  [k \in DOMAIN map \cup {key} |-> IF k = key THEN value ELSE map[k]]

(* Where sub is found in s at or after from; 0 for npos.                   *)
Find(s, sub, from) ==
  LET at == {p \in from .. Len(s) - Len(sub) + 1 : SubSeq(s, p, p + Len(sub) - 1) = sub}
  IN  IF at = {} THEN 0 ELSE Min(at)

(* split_str: delims is a set of characters.                               *)
SplitStr(s, delims, removeEmpty) ==
  LET push(res, token) == IF removeEmpty /\ token = <<>> THEN res ELSE Append(res, token)
      step(r, c) == IF c \in delims THEN [res |-> push(r.res, r.open), open |-> <<>>]
                    ELSE [r EXCEPT !.open = Append(@, c)]
      end == FoldLeft(step, [res |-> <<>>, open |-> <<>>], s)
  IN  IF end.open = <<>> THEN end.res ELSE Append(end.res, end.open)

JoinStr(tokens, delim) ==
  FoldLeftDomain(LAMBDA res, k : res \o tokens[k] \o (IF k < Len(tokens) THEN delim ELSE <<>>),
                 <<>>, tokens)

RTrim(s) == SubSeq(s, 1, SelectLastInSeq(s, LAMBDA c : c \notin Blanks))
LTrim(s) ==
  LET first == SelectInSeq(s, LAMBDA c : c \notin Blanks)
  IN  IF first = 0 THEN <<>> ELSE SubSeq(s, first, Len(s))
Trim(s) == LTrim(RTrim(s))

(* replace_all: what has been put in is not searched again.                *)
ReplaceText(s, sub, by) ==
  LET rest[p \in 1 .. Len(s) + 1] ==
        LET next == Find(s, sub, p)
        IN  IF next = 0 THEN SubSeq(s, p, Len(s))
            ELSE SubSeq(s, p, next - 1) \o by \o rest[next + Len(sub)]
  IN  rest[1]

-----------------------------------------------------------------------------
(* Mutant: the range itself is looked at, not the one before it.           *)
InTableAhead(table, ch) ==
  LET k == SelectInSeq(table, LAMBDA r : r[1] > ch \/ (r[1] = ch /\ r[2] >= ch))
  IN  k # 0 /\ (table[k][1] = ch \/ (k > 1 /\ ch <= table[k][2]))

(***************************************************************************)
(* The lookup of is_unicode_letter and is_unicode_number: lower_bound of   *)
(* <<ch, ch>>, which is the first range not less than it, and the range    *)
(* before it.  Behind the beginning of the last range it finds nothing.    *)
(***************************************************************************)
InTable(table, ch) ==
  LET k == SelectInSeq(table, LAMBDA r : r[1] > ch \/ (r[1] = ch /\ r[2] >= ch))
  IN  k # 0 /\ (table[k][1] = ch \/ (k > 1 /\ ch <= table[k - 1][2]))

Letters == [c \in CodePoints |-> InTable(LetterTable, c)]
Numbers == [c \in CodePoints |-> InTable(NumberTable, c)]

is_unicode_letter(c) == Letters[c]
is_unicode_number(c) == Numbers[c]
is_unicode_seperator(c) == \E k \in DOMAIN SeparatorTable :
  SeparatorTable[k][1] <= c /\ c <= SeparatorTable[k][2]
is_unicode_space(c) == c \in Blanks
not_category_LNZ(c) ==
  ~is_unicode_letter(c) /\ ~is_unicode_number(c) /\ ~is_unicode_seperator(c)

tolower(c) == IF c \in DOMAIN Lower THEN Lower[c] ELSE c
=============================================================================
