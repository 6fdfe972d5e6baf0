----------------------------- MODULE CsvParser ------------------------------
(***************************************************************************)
(* csv_parser_getRow of utils/csv.c, one character a step: the quotes of a *)
(* field, the end of a field, of a row and of the file, and the growth of  *)
(* its two buffers.  A character is the delimiter, a quote, the end of a   *)
(* line, a carriage return, or any other.                                  *)
(***************************************************************************)
EXTENDS Integers, Sequences

CONSTANTS
  Texts,               \* what the file may hold, as [text, rows]: rows is
                       \* what was written as text, or AnyRows
  AnyRows,
  Letters,             \* the characters with no meaning to the parser
  AcceptedChars,       \* room of a new field: 64 in the code
  AcceptedFields       \* room of a new row: 64 in the code

Delimiter == "delimiter"
Quote     == "quote"
Newline   == "newline"
Return    == "return"
Chars == Letters \cup {Delimiter, Quote, Newline, Return}

ASSUME CsvAssumption ==
  /\ \A t \in Texts : t.text \in Seq(Chars)
  /\ Letters \cap {Delimiter, Quote, Newline, Return} = {}
  /\ AcceptedChars \in Nat /\ AcceptedChars >= 2
  /\ AcceptedFields \in Nat /\ AcceptedFields >= 2

VARIABLES
  file,                \* the file: a member of Texts
  at,                  \* characters read of it
  call,                \* "new", "row" (in csv_parser_getRow), "returned",
                       \* "null" (returned NULL), "destroyed"
  field,               \* currField, up to currFieldCharIter
  charsRoom,           \* acceptedCharsInField
  fields,              \* csvRow->fields
  fieldsRoom,          \* pointers allocated for csvRow->fields
  numRowRealloc,
  inside_complex_field, lastCharIsQuote, seriesOfQuotesLength,
  rows                 \* history: the rows returned

locals == << field, charsRoom, fields, fieldsRoom, numRowRealloc,
             inside_complex_field, lastCharIsQuote, seriesOfQuotesLength >>
csvVars == << file, at, call, locals, rows >>

StartField ==
  /\ field' = << >> /\ charsRoom' = AcceptedChars
  /\ inside_complex_field' = FALSE

CsvInit ==
  /\ file \in Texts /\ at = 0 /\ call = "new" /\ rows = << >>
  /\ field = << >> /\ charsRoom = AcceptedChars
  /\ fields = << >> /\ fieldsRoom = AcceptedFields /\ numRowRealloc = 0
  /\ inside_complex_field = FALSE /\ lastCharIsQuote = FALSE /\ seriesOfQuotesLength = 0

-----------------------------------------------------------------------------
(* A call of csv_parser_getRow; the first one opens the file.              *)
GetRow ==
  /\ call \in {"new", "returned"} /\ call' = "row"
  /\ StartField
  /\ fields' = << >> /\ fieldsRoom' = AcceptedFields /\ numRowRealloc' = 0
  /\ lastCharIsQuote' = FALSE /\ seriesOfQuotesLength' = 0
  /\ UNCHANGED << file, at, rows >>

(* fopen fails: the message is kept, and NULL ends the caller's loop as the*)
(* end of the file does.                                                   *)
OpenFails ==
  /\ call = "new" /\ call' = "null"
  /\ UNCHANGED << file, at, locals, rows >>

Eof == at = Len(file.text)
currChar == IF Eof THEN Newline ELSE file.text[at + 1]
Advance == at' = IF Eof THEN at ELSE at + 1

ReachedEof ==
  /\ call = "row" /\ Eof /\ field = << >> /\ fields = << >>
  /\ call' = "null"
  /\ UNCHANGED << file, at, locals, rows >>

Parsing == call = "row" /\ ~ (Eof /\ field = << >> /\ fields = << >>)

SkipReturn ==
  /\ Parsing /\ currChar = Return /\ Advance
  /\ UNCHANGED << file, call, locals, rows >>

(* The quote a field starts with is not part of it.                        *)
FieldStart == field = << >> /\ ~ lastCharIsQuote
OpeningQuote ==
  /\ Parsing /\ FieldStart /\ currChar = Quote /\ Advance
  /\ inside_complex_field' = TRUE /\ lastCharIsQuote' = TRUE
  /\ UNCHANGED << file, call, field, charsRoom, fields, fieldsRoom, numRowRealloc,
                  seriesOfQuotesLength, rows >>

Another == Parsing /\ currChar # Return /\ ~ (FieldStart /\ currChar = Quote)

(* Every second quote of a series stands for one; after an odd one the     *)
(* field may end.                                                          *)
SeriesNow ==
  IF FieldStart THEN seriesOfQuotesLength
  ELSE IF currChar = Quote THEN seriesOfQuotesLength + 1 ELSE 0
InsideNow ==
  IF ~ FieldStart /\ currChar = Quote THEN SeriesNow % 2 = 0 ELSE inside_complex_field
Doubled == ~ FieldStart /\ currChar = Quote /\ InsideNow

FieldEnds == Eof \/ (currChar \in {Delimiter, Newline} /\ ~ InsideNow)

(* Mutant: the closing quote stays in the field.                           *)
ValueWithQuote == field

(* The closing quote, the last character stored, is cut off.               *)
Value == IF lastCharIsQuote THEN SubSeq(field, 1, Len(field) - 1) ELSE field

GrowFields(size) ==
  IF size % AcceptedFields = 0
    THEN /\ fieldsRoom' = (numRowRealloc + 2) * AcceptedFields
         /\ numRowRealloc' = numRowRealloc + 1
    ELSE UNCHANGED << fieldsRoom, numRowRealloc >>

EndField ==
  /\ Another /\ FieldEnds /\ currChar = Delimiter /\ Advance
  /\ fields' = Append(fields, Value)
  /\ GrowFields(Len(fields) + 1)
  /\ StartField
  /\ lastCharIsQuote' = FALSE /\ seriesOfQuotesLength' = SeriesNow
  /\ UNCHANGED << file, call, rows >>

EndRow ==
  /\ Another /\ FieldEnds /\ currChar # Delimiter /\ Advance
  /\ fields' = Append(fields, Value)
  /\ rows' = Append(rows, fields') /\ call' = "returned"
  /\ UNCHANGED << file, field, charsRoom, fieldsRoom, numRowRealloc, inside_complex_field,
                  lastCharIsQuote, seriesOfQuotesLength >>

(* Mutant: the room is compared with the room of a new field.              *)
GrowCharsOnce(size) ==
  charsRoom' = IF size = AcceptedChars - 1 THEN 2 * charsRoom ELSE charsRoom

GrowChars(size) == charsRoom' = IF size = charsRoom - 1 THEN 2 * charsRoom ELSE charsRoom

(* The character is stored; a doubled quote over the one before it.        *)
Store ==
  /\ Another /\ ~ FieldEnds /\ Advance
  /\ field' = IF Doubled THEN [field EXCEPT ![Len(field)] = Quote] ELSE Append(field, currChar)
  /\ GrowChars(Len(field'))
  /\ inside_complex_field' = InsideNow /\ seriesOfQuotesLength' = SeriesNow
  /\ lastCharIsQuote' = (currChar = Quote)
  /\ UNCHANGED << file, call, fields, fieldsRoom, numRowRealloc, rows >>

(* The caller is done with the parser.                                     *)
Destroy ==
  /\ call = "null" /\ call' = "destroyed"
  /\ UNCHANGED << file, at, locals, rows >>

ParserStep ==
  \/ GetRow \/ OpenFails \/ ReachedEof \/ SkipReturn \/ OpeningQuote
  \/ EndField \/ EndRow \/ Store

CsvNext == ParserStep \/ Destroy
CsvSpec == CsvInit /\ [][CsvNext]_csvVars
=============================================================================
