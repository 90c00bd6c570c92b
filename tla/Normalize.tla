------------------------------ MODULE Normalize ------------------------------
(***************************************************************************)
(* What a row of the EU listing becomes: core/normalize.py and the stable  *)
(* id of core/models.py, as operators on values.                           *)
(*                                                                         *)
(* A text is Blank or [word, caps]: caps tells the spelling in capitals    *)
(* from the lower-case one.  Surrounding blanks are stripped by every      *)
(* function here and are not represented.  The name of a DSC also has the  *)
(* code at its end, or None: [word, code, caps]; an address is             *)
(* [user, domain, caps] with domain Blank where it has no "@".             *)
(***************************************************************************)
EXTENDS Naturals, Sequences, SequencesExt

CONSTANTS
    Blank,         \* the empty text, a missing key
    None,          \* Python's None
    Date,          \* dates; a date text is one of them, Blank, or unreadable
    Country,       \* two-letter codes, in capitals
    AreaLabelMap,  \* AREA_LABEL_MAP: lower-case label -> area
    Other          \* AreaEnum.other

Lower(text) == IF text = Blank THEN Blank ELSE [text EXCEPT !.caps = FALSE]

-----------------------------------------------------------------------------
\* The identity of a flagger; lower-cased, so that a respelling keeps it.
DeriveStableId(name, dsc, date) == <<Lower(name), Lower(dsc), date>>

AreaOf(label) ==
    IF Lower(label) \in DOMAIN AreaLabelMap THEN AreaLabelMap[Lower(label)]
    ELSE Other

\* Mutant of NormalizeAreas: two labels of one area give it twice.
NormalizeAreasTwice(labels) == [k \in DOMAIN labels |-> AreaOf(labels[k])]

\* Each area once, in the order of the first label that maps to it.
NormalizeAreas(labels) ==
    FoldLeft(LAMBDA seen, label :
                 IF AreaOf(label) \in ToSet(seen) THEN seen
                 ELSE Append(seen, AreaOf(label)),
             <<>>, labels)

\* The trailing "(CC)", in capitals only.
ExtractDscCountryCode(dsc) ==
    IF dsc # Blank /\ dsc.caps THEN dsc.code ELSE None

\* Mutant of DscCountry: the DSC's code is not replaced by the row's country.
DscCountryOrNone(dsc, country) == ExtractDscCountryCode(dsc)

DscCountry(dsc, country) ==
    IF ExtractDscCountryCode(dsc) # None THEN ExtractDscCountryCode(dsc)
    ELSE country

ParseEuDate(text) == IF text \in Date THEN text ELSE None

\* The address behind a "mailto:" link, percent-decoded.
DecodeUrlEncodedEmail(url) ==
    IF url = Blank \/ url.address = Blank THEN None ELSE url.address

Email(raw) ==
    IF raw.contact # Blank THEN raw.contact ELSE DecodeUrlEncodedEmail(raw.contactUrl)

\* Lower-case; None for no address and for one without a domain.
ExtractEmailDomain(email) ==
    IF email = None THEN None
    ELSE IF email.domain = Blank THEN None
    ELSE [word |-> email.domain, caps |-> FALSE]

-----------------------------------------------------------------------------
\* normalize_row raises RowNormalizationError unless all three are there.
Normalizes(raw) ==
    /\ raw.name # Blank
    /\ raw.country \in Country
    /\ ParseEuDate(raw.date) # None

NormalizeRow(raw) ==
    [name    |-> raw.name,
     country |-> raw.country,
     date    |-> ParseEuDate(raw.date),
     dsc     |-> DscCountry(raw.dsc, raw.country),
     areas   |-> NormalizeAreas(raw.areas),
     email   |-> Email(raw),
     domain  |-> ExtractEmailDomain(Email(raw))]

IdOfRow(raw) == DeriveStableId(raw.name, raw.dsc, ParseEuDate(raw.date))

\* normalize_rows: a row that does not normalize is skipped.
Normalized(rows) == SelectSeq(rows, Normalizes)

\* What a payload says of the flagger id: the last row of that id, or absent.
Listed(rows, id, absent) ==
    LET own == SelectSeq(Normalized(rows), LAMBDA raw : IdOfRow(raw) = id)
    IN  IF own = <<>> THEN absent ELSE NormalizeRow(Last(own))
=============================================================================
