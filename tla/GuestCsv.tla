------------------------------ MODULE GuestCsv ------------------------------
(* How a guest list file is read.  Somebody's spreadsheet writes a table as *)
(* text, in one of the dialects there are; the import takes the text apart, *)
(* looks at the headings, and judges row after row.  A text is a sequence   *)
(* of characters, of which a word, an address or a digit is one; the        *)
(* encoding of the file is left out.                                        *)
EXTENDS Naturals, Sequences, SequencesExt, FiniteSets, FiniteSetsExt

CONSTANTS
  Table,         \* what is written: records of heads and rows
  Style,         \* the dialects: delimiter, end of a row, whether all is quoted
  HeadingOf,     \* the heading that a word stands for
  Lowered,       \* the words and addresses in lower case
  Address,       \* the words that are e-mail addresses
  Digit,
  MinDigits, MaxDigits,   \* a phone number has 8 to 15 digits
  KnownKeys      \* what the active guest list may hold

ASSUME CsvAssumption == MinDigits \in Nat /\ MaxDigits \in Nat

VARIABLES
  sheet,         \* the table and its style
  parsed,        \* what parseGuestListCsv made of the file
  judged         \* the rows of validateRows, and the keys they met

csvVars == <<sheet, parsed, judged>>

Quote == "\""
Blank == {" ", "\t", "\n", "\r"}
NotYet == [step |-> "none"]

CsvInit == sheet = NotYet /\ parsed = NotYet /\ judged = NotYet

\* trim
Trimmed(s) ==
  LET solid == {n \in DOMAIN s : s[n] \notin Blank}
  IN IF solid = {} THEN <<>> ELSE SubSeq(s, Min(solid), Max(solid))

-----------------------------------------------------------------------------
(* The spreadsheet.                                                        *)

Doubled(c) == IF c = Quote THEN <<Quote, Quote>> ELSE <<c>>

WrittenCell(style, cell) ==
  IF style.quoteAll \/ ToSet(cell) \cap {style.delimiter, Quote, "\n", "\r"} # {}
  THEN <<Quote>> \o FlattenSeq([n \in DOMAIN cell |-> Doubled(cell[n])]) \o <<Quote>>
  ELSE cell

WrittenRow(style, cells) ==
  FlattenSeq([n \in DOMAIN cells |->
    (IF n = 1 THEN <<>> ELSE <<style.delimiter>>) \o WrittenCell(style, cells[n])])
  \o style.end

Written(table, style) ==
  WrittenRow(style, table.heads)
    \o FlattenSeq([n \in DOMAIN table.rows |-> WrittenRow(style, table.rows[n])])

WriteSheet(table, style) ==
  /\ sheet = NotYet
  /\ sheet' = [step |-> "written", table |-> table, style |-> style]
  /\ UNCHANGED <<parsed, judged>>

-----------------------------------------------------------------------------
(* parseGuestListCsv                                                       *)

\* The first line ends at a line feed, with or without a return before it.
FirstLine(text) ==
  LET ends == {n \in DOMAIN text : text[n] = "\n"}
  IN IF ends = {} THEN text ELSE SubSeq(text, 1, Min(ends) - 1)

\* The candidate that the first line holds most of, and of several the first.
DetectDelimiter(line) ==
  LET candidates == <<",", ";", "\t">>
      Count(n) == Cardinality({p \in DOMAIN line : line[p] = candidates[n]})
  IN candidates[CHOOSE n \in 1 .. 3 : \A k \in 1 .. 3 :
       Count(k) < Count(n) \/ (Count(k) = Count(n) /\ n <= k)]

EndField(s) == [s EXCEPT !.row = Append(@, s.field), !.field = <<>>]
EndRow(s) ==
  [s EXCEPT !.rows = Append(@, Append(s.row, s.field)), !.row = <<>>, !.field = <<>>]

\* A quote begins or ends the quoting; a doubled one within is a character.
TakeQuote(s, next) ==
  IF s.quoted /\ next = Quote THEN [s EXCEPT !.field = Append(@, Quote), !.skip = TRUE]
  ELSE [s EXCEPT !.quoted = ~@]

\* One character; the second of a pair has been taken with the first.
TakeChar(s, char, next, delimiter) ==
  IF s.skip THEN [s EXCEPT !.skip = FALSE]
  ELSE IF char = Quote THEN TakeQuote(s, next)
  ELSE IF ~s.quoted /\ char = delimiter THEN EndField(s)
  ELSE IF ~s.quoted /\ char \in {"\n", "\r"}
  THEN [EndRow(s) EXCEPT !.skip = (char = "\r" /\ next = "\n")]
  ELSE [s EXCEPT !.field = Append(@, char)]

ParseDelimited(text, delimiter) ==
  LET Char(n) == IF n <= Len(text) THEN text[n] ELSE ""
      taken[n \in 0 .. Len(text)] ==
        IF n = 0
        THEN [rows |-> <<>>, row |-> <<>>, field |-> <<>>, quoted |-> FALSE, skip |-> FALSE]
        ELSE TakeChar(taken[n - 1], Char(n), Char(n + 1), delimiter)
  IN taken[Len(text)]

IsBlankRow(row) == \A n \in DOMAIN row : row[n] = <<>>

NormalizeHeader(cell) ==
  IF Len(cell) = 1 /\ cell[1] \in DOMAIN HeadingOf THEN HeadingOf[cell[1]] ELSE ""

Allowed == {"full_name", "email", "phone", "sponsor_id", "zone_code", "ticket_type_slug"}

\* An empty heading, a heading twice, one that is not known, no name, nothing
\* that identifies a guest.
SoundHeads(heads) ==
  /\ ToSet(heads) \subseteq Allowed /\ IsInjective(heads)
  /\ "full_name" \in ToSet(heads)
  /\ ToSet(heads) \cap {"email", "phone", "sponsor_id"} # {}

\* A row may be shorter than the headings, or longer.
ValuesOf(heads, row) ==
  [h \in ToSet(heads) |->
     LET n == CHOOSE p \in DOMAIN heads : heads[p] = h
     IN IF n \in DOMAIN row THEN row[n] ELSE <<>>]

Refused == [step |-> "refused"]

ParseGuestListCsv(text) ==
  LET end == ParseDelimited(text, DetectDelimiter(FirstLine(text)))
      all == EndRow(end).rows
      trimmed == [n \in DOMAIN all |-> [p \in DOMAIN all[n] |-> Trimmed(all[n][p])]]
      records == SelectSeq(trimmed, LAMBDA row : ~IsBlankRow(row))
      heads == [n \in DOMAIN records[1] |-> NormalizeHeader(records[1][n])]
  IN IF end.quoted \/ Len(records) < 2 \/ ~SoundHeads(heads) THEN Refused
     ELSE [step |-> "rows",
           rows |-> [n \in 1 .. Len(records) - 1 |->
                      [number |-> n + 1, values |-> ValuesOf(heads, records[n + 1])]]]

ParseSheet ==
  /\ sheet # NotYet /\ parsed = NotYet
  /\ parsed' = ParseGuestListCsv(Written(sheet.table, sheet.style))
  /\ UNCHANGED <<sheet, judged>>

-----------------------------------------------------------------------------
(* validateRows                                                            *)

Value(row, h) == IF h \in DOMAIN row.values THEN row.values[h] ELSE <<>>

Lower(s) == [n \in DOMAIN s |-> IF s[n] \in DOMAIN Lowered THEN Lowered[s[n]] ELSE s[n]]

\* Only digits stay, and a plus that comes first.
NormalizePhone(s) ==
  LET kept == SelectSeq(s, LAMBDA c : c \in Digit \cup {"+"})
      digits == SelectSeq(kept, LAMBDA c : c \in Digit)
  IN IF kept # <<>> /\ kept[1] = "+" THEN <<"+">> \o digits ELSE kept

IsValidEmail(s) == Len(s) = 1 /\ s[1] \in Address
IsValidPhone(s) == Len(SelectSeq(s, LAMBDA c : c \in Digit)) \in MinDigits .. MaxDigits

NoIdentity == <<"none", <<>> >>

\* The first thing that a guest is known by.
IdentityKey(row) ==
  LET email == Lower(Value(row, "email"))
      phone == NormalizePhone(Value(row, "phone"))
      sponsor == Lower(Value(row, "sponsor_id"))
  IN IF email # <<>> THEN <<"email", email>>
     ELSE IF phone # <<>> THEN <<"phone", phone>>
     ELSE IF sponsor # <<>> THEN <<"sponsor", sponsor>>
     ELSE NoIdentity

WellFormed(row) ==
  LET email == Lower(Value(row, "email"))
      phone == NormalizePhone(Value(row, "phone"))
  IN /\ Value(row, "full_name") # <<>> /\ IdentityKey(row) # NoIdentity
     /\ email # <<>> => IsValidEmail(email)
     /\ phone # <<>> => IsValidPhone(phone)

\* A key is taken by an earlier row of the file, sound or not, or known already.
IsValidRow(rows, n, known) ==
  /\ WellFormed(rows[n])
  /\ IdentityKey(rows[n]) \notin known \cup {IdentityKey(rows[k]) : k \in 1 .. n - 1}

ValidateSheet(known) ==
  /\ parsed.step = "rows" /\ judged = NotYet
  /\ judged' = [step |-> "judged", known |-> known,
       valid |-> [n \in DOMAIN parsed.rows |-> IsValidRow(parsed.rows, n, known)]]
  /\ UNCHANGED <<sheet, parsed>>

CsvNext ==
  \/ \E table \in Table, style \in Style : WriteSheet(table, style)
  \/ ParseSheet
  \/ \E known \in KnownKeys : ValidateSheet(known)

CsvSpec == CsvInit /\ [][CsvNext]_csvVars

-----------------------------------------------------------------------------
(* Properties                                                              *)

\* What the spreadsheet holds, whatever it is written like.
HeadsOf(table) == [n \in DOMAIN table.heads |-> NormalizeHeader(Trimmed(table.heads[n]))]
FilledRows(table) ==
  SelectSeq(table.rows, LAMBDA row : \E n \in DOMAIN row : Trimmed(row[n]) # <<>>)

\* blueprint/core-design-decisions/guest-list-csv-import.md:56: a file is read
\* as the table it was written from, in every dialect: delimiters, quotes and
\* ends of rows inside of a cell stay in the cell, and a file is refused for
\* its headings or for having no guest, and for nothing else.
SheetsAreReadBack ==
  parsed # NotYet =>
    LET rows == FilledRows(sheet.table)
        heads == HeadsOf(sheet.table)
    IN IF ~SoundHeads(heads) \/ rows = <<>> THEN parsed = Refused
       ELSE /\ parsed.step = "rows" /\ Len(parsed.rows) = Len(rows)
            /\ \A n \in DOMAIN rows, p \in DOMAIN heads :
                 Value(parsed.rows[n], heads[p]) =
                   IF p \in DOMAIN rows[n] THEN Trimmed(rows[n][p]) ELSE <<>>

\* A list that passes has a key for every guest, and no key twice: what the
\* unique key of the entries would refuse does not get to the transaction, and
\* no guest is on the active list already.
PassedListsAreUnique ==
  judged # NotYet /\ (\A n \in DOMAIN judged.valid : judged.valid[n]) =>
    LET keys == [n \in DOMAIN parsed.rows |-> IdentityKey(parsed.rows[n])]
    IN IsInjective(keys) /\ ToSet(keys) \cap (judged.known \cup {NoIdentity}) = {}

FilesAreReadRight == SheetsAreReadBack /\ PassedListsAreUnique
=============================================================================
