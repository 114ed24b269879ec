-------------------------- MODULE LetterboxdExport --------------------------
(* Official Letterboxd export archives: what the parser accepts, and how the *)
(* exported rows find their films in the catalog.                            *)
(*                                                                           *)
(* An archive is [bounded, members]: bounded says that its size, its number  *)
(* of members and their uncompressed total keep the limits.  A member is     *)
(* [name, intact, utf8, strict, columns, rows]: name is the basename in      *)
(* lower case, intact that it decompresses to its advertised size, strict    *)
(* that the CSV reader raises nothing and no row is wider than the header.   *)
(* A row maps each column to its trimmed cell.  A name or title is           *)
(* [key, spelling]: only the key survives case folding and the collapse of   *)
(* white space.                                                              *)
EXTENDS Naturals, Sequences, FiniteSets, FiniteSetsExt, Functions

CONSTANTS
    Catalog,    \* title, original title and year of each film slug
    HalfStars,  \* the ratings of the scale
    NoRating,   \* a watch without a rating
    Years,      \* the positive integers a year cell can hold
    NoYear,     \* the year of a film or row that has none
    Blank       \* an empty cell, an absent title

ASSUME ExportAssumption ==
    /\ NoRating \notin HalfStars /\ NoYear \notin Years /\ Blank \notin Years \cup HalfStars
    /\ \A s \in DOMAIN Catalog : Catalog[s].year \in Years \cup {NoYear}

WatchedColumns == {"name", "year", "uri"}
RatingColumns  == WatchedColumns \cup {"rating"}

-----------------------------------------------------------------------------
(* The archive and its two tables.                                           *)

Named(archive, name) == {k \in DOMAIN archive.members : archive.members[k].name = name}

(* One watched.csv and at most one ratings.csv, in whatever folder.          *)
MembersFound(archive) ==
    /\ archive.bounded
    /\ Cardinality(Named(archive, "watched.csv")) = 1
    /\ Cardinality(Named(archive, "ratings.csv")) <= 1
    /\ \A name \in {"watched.csv", "ratings.csv"}, k \in DOMAIN archive.members :
          k \in Named(archive, name) => archive.members[k].intact

Member(archive, name) == archive.members[CHOOSE k \in Named(archive, name) : TRUE]

Tabular(member, required) ==
    /\ member.utf8 /\ member.strict
    /\ IsInjective(member.columns) /\ required \subseteq Range(member.columns)

Rows(member) == SelectSeq(member.rows, LAMBDA row : \E c \in DOMAIN row : row[c] # Blank)

Folded(name) == name.key
YearOf(row)  == IF row.year \in Years THEN row.year ELSE NoYear
Identity(row) == <<Folded(row.name), YearOf(row)>>

WatchedSound(rows) ==
    /\ rows # <<>>
    /\ \A k \in DOMAIN rows : rows[k].uri # Blank /\ rows[k].name # Blank
    /\ \A j, k \in DOMAIN rows :
          rows[j].uri = rows[k].uri => Identity(rows[j]) = Identity(rows[k])

RatingsSound(rows) ==
    /\ \A k \in DOMAIN rows : rows[k].uri # Blank /\ rows[k].rating \in HalfStars
    /\ \A j, k \in DOMAIN rows :
          rows[j].uri = rows[k].uri => rows[j].rating = rows[k].rating

WatchedRows(archive) == Rows(Member(archive, "watched.csv"))

(* A blank ratings.csv is as good as none.                                   *)
RatingRows(archive) == IF Named(archive, "ratings.csv") = {} THEN <<>>
                       ELSE Rows(Member(archive, "ratings.csv"))

RatingsReadable(member) ==
    member.utf8 /\ (member.columns = <<>> \/ Tabular(member, RatingColumns))

Accepted(archive) ==
    /\ MembersFound(archive)
    /\ Tabular(Member(archive, "watched.csv"), WatchedColumns)
    /\ WatchedSound(WatchedRows(archive))
    /\ Named(archive, "ratings.csv") # {} => RatingsReadable(Member(archive, "ratings.csv"))
    /\ RatingsSound(RatingRows(archive))

RatingOf(uri, rows) ==
    LET rated == {k \in DOMAIN rows : rows[k].uri = uri}
    IN  IF rated = {} THEN NoRating ELSE rows[CHOOSE k \in rated : TRUE].rating

(* The entries are the first rows of their URIs.                             *)
Entries(rows) == {k \in DOMAIN rows : \A j \in 1 .. k - 1 : rows[j].uri # rows[k].uri}

-----------------------------------------------------------------------------
(* Resolution against the films of the catalog.                              *)

CatalogByYears(films, rows) ==
    {s \in films : \E k \in DOMAIN rows : Catalog[s].year = YearOf(rows[k])}

Titled(films, row, title) ==
    {s \in films : /\ Catalog[s][title] # Blank
                   /\ <<Folded(Catalog[s][title]), Catalog[s].year>> = Identity(row)}

(* Original titles count only where no display title matches.                *)
Candidates(films, row) ==
    LET primary == Titled(films, row, "title")
    IN  IF primary # {} THEN primary ELSE Titled(films, row, "original")

(* One candidate resolves a row; of several rows of one film the last wins.  *)
Resolved(films, rows) ==
    LET found == CatalogByYears(films, rows)
    IN  {x \in Entries(rows) \X found : Candidates(found, rows[x[1]]) = {x[2]}}

Profile(archive, films) ==
    LET rows    == WatchedRows(archive)
        matches == Resolved(films, rows)
        Last(s) == Max({x[1] : x \in {y \in matches : y[2] = s}})
    IN  [s \in {x[2] : x \in matches} |->
            RatingOf(rows[Last(s)].uri, RatingRows(archive))]
=============================================================================
