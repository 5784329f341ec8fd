----------------------------- MODULE NameRules -----------------------------
(***************************************************************************)
(* The name rules of the split of users.full_name: what a request, the     *)
(* backfill, the verification queries and the refill make of a name.  A    *)
(* name is the sequence of its words: how much white space separates them  *)
(* is not kept apart, as the verification ignores it too.  '' is << >>,    *)
(* and Null is NULL or None.                                               *)
(***************************************************************************)
EXTENDS Sequences

CONSTANT Null

Name == Seq(STRING)
Part == {Null} \cup Name

\* split_full_name: the first word, and the rest.
SplitFullName(full) ==
    IF full \in {Null, << >>} THEN [first |-> << >>, last |-> << >>]
    ELSE [first |-> <<Head(full)>>, last |-> Tail(full)]

\* join_names, and btrim(concat_ws(' ', ...)) of the refill.
Words(part) == IF part = Null THEN << >> ELSE part
JoinNames(first, last) == Words(first) \o Words(last)

\* _clean, and "x or None": blank becomes None.
Clean(part) == IF part = << >> THEN Null ELSE part

\* Mutant: a missing last name is always ''.
DeriveNoTail(body) ==
    LET full == IF Clean(body.full) # Null THEN body.full
                ELSE Clean(JoinNames(body.first, body.last))
        first == IF Clean(body.first) # Null \/ full = Null THEN Clean(body.first)
                 ELSE SplitFullName(full).first
        last == IF Clean(body.last) = Null /\ first # Null THEN << >> ELSE Clean(body.last)
    IN  [full |-> full, first |-> first, last |-> last]

\* The first half of resolve_names: the representation that is missing is derived
\* from the other, the last name only if the first one is the first word.
Derive(body) ==
    LET full == IF Clean(body.full) # Null THEN body.full
                ELSE Clean(JoinNames(body.first, body.last))
        split == SplitFullName(full)
        first == IF Clean(body.first) # Null \/ full = Null THEN Clean(body.first) ELSE split.first
        last == IF Clean(body.last) # Null \/ first = Null THEN Clean(body.last)
                ELSE IF first = split.first THEN split.last ELSE << >>
    IN  [full |-> full, first |-> first, last |-> last]

\* The second half: what the write mode stores; Null is a column it leaves alone.
ResolveNames(body, mode) ==
    LET names == Derive(body)
    IN  CASE mode = "legacy" -> [names EXCEPT !.first = Null, !.last = Null]
          [] mode = "new" -> [names EXCEPT !.full = Null]
          [] OTHER -> names

\* names_for: the parts a row has, and those its full name gives for the others.
NamesFor(row) ==
    LET split == SplitFullName(row.full)
        first == IF row.first # Null THEN row.first ELSE split.first
    IN  [first |-> first,
         last |-> IF row.last # Null THEN row.last ELSE IF split.first = first THEN split.last ELSE << >>]

\* COALESCE in the UPDATE of the backfill: only NULL columns are written.
Fill(row, names) ==
    [row EXCEPT !.first = IF @ = Null THEN names.first ELSE @,
                !.last = IF @ = Null THEN names.last ELSE @]

\* Mutant: a legacy read never looks at the new columns.
BuildLegacyOnly(row, source) ==
    IF source = "new"
    THEN [full |-> Clean(JoinNames(row.first, row.last)), first |-> row.first, last |-> row.last]
    ELSE [full |-> Clean(row.full), first |-> SplitFullName(row.full).first,
          last |-> SplitFullName(row.full).last]

\* build_user_response, from the read source.
BuildUserResponse(row, source) ==
    LET joined == Clean(JoinNames(row.first, row.last))
        full == IF source = "new" \/ Clean(row.full) = Null THEN joined ELSE row.full
        split == SplitFullName(full)
    IN  IF source # "new" /\ row.first = Null /\ full # Null
        THEN [full |-> full, first |-> split.first, last |-> split.last]
        ELSE [full |-> full, first |-> row.first, last |-> row.last]

\* validate_name_presence of UserCreate.
CreateValid(body) == Clean(body.full) # Null \/ Clean(body.first) # Null

\* validate_update of UserUpdate; a body may change the e-mail only.
UpdateValid(body) == body.full # << >> /\ body.first # << >>

\* check_user_body of the traffic generator: a response it accepts.
Sound(response) ==
    /\ response.full # Null
    /\ response.first # Null
    /\ response.full = JoinNames(response.first, response.last)

\* A row the backfill has to fill (NEEDS_BACKFILL, not_migrated, 0005).
NeedsBackfill(row) == row.first = Null \/ row.last = Null

\* legacy_new_disagree: both representations are set and spell different names.
Disagree(row) ==
    row.full # Null /\ row.first # Null /\ row.full # JoinNames(row.first, row.last)
=============================================================================
