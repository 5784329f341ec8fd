---------------------------- MODULE NameProofs ----------------------------
(***************************************************************************)
(* The migration of the user names, for every number of users, requests    *)
(* and replicas, every set of bodies and every way the operator may go:    *)
(* no request meets a missing column, no user is left without a name, and  *)
(* on the way forward every replica answers with the name that was saved.  *)
(***************************************************************************)
EXTENDS NameMigration, SequenceTheorems, FiniteSetTheorems, WellFoundedInduction, TLAPS

\* What a column may hold: never ''.  Only last_name may be ''.
Kept == {Null} \cup (Name \ {<< >>})
Row == [full : Kept, first : Kept, last : Part]
Parts == [first : Name, last : Name]

\* The flags the phases go through, in their order.
Legacy == At("legacy", "legacy")
Dual == At("dual", "legacy")
ReadNew == At("dual", "new")
New == At("new", "new")
Point == {Legacy, Dual, ReadNew, New}
NextPoint == {<<Legacy, Dual>>, <<Dual, ReadNew>>, <<ReadNew, New>>}

\* The locals of a request.
Op == [user : User, body : course.bodies, seen : Row \cup {NoRow},
       write : {"legacy", "dual", "new"}, read : {"legacy", "new"}]

Active(w) == pc[w] # "idle"
Sees(w) == At(op[w].write, op[w].read)

----------------------------------------------------------------------------
(* The inductive invariant.                                                *)

Typed ==
    /\ course \in Course
    /\ column \in BOOLEAN
    /\ flags \in Point /\ cached \in [Replica -> Point]
    /\ pc \in [Request -> {"idle", "create", "update", "save", "answer"}]
    /\ op = [w \in Request |-> op[w]]
    /\ \A w \in Request : Active(w) => op[w] \in Op
    /\ contract \in {"no", "checked", "done", "refill"}

\* What the validators let through, and the rows PUT found are still there.
Valid ==
    \A w \in Request :
        /\ pc[w] = "create" => CreateValid(op[w].body)
        /\ pc[w] \in {"update", "save"} => UpdateValid(op[w].body) /\ Exists(op[w].user)

\* Whoever holds a row FOR UPDATE has it as it is.
Held ==
    /\ locked \in [User -> Request \cup {Job, Nobody}]
    /\ \A u \in User, w \in Request : locked[u] = w => pc[w] = "save" /\ op[w].user = u
    /\ \A w \in Request : pc[w] = "save" => locked[op[w].user] = w /\ op[w].seen = row[op[w].user]

Batched ==
    /\ DOMAIN job.batch \in SUBSET User
    /\ DOMAIN job.batch # {} <=> job.step = "update"
    /\ \A u \in User : locked[u] = Job <=> u \in DOMAIN job.batch
    /\ \A u \in DOMAIN job.batch : Exists(u) /\ job.batch[u] = row[u]
    /\ checkpoint \in User \cup {0}

\* The flags a replica or a request goes by are those of the table or the ones the
\* operator moved on from last.
Near ==
    \E prev \in Point :
        /\ prev = flags \/ <<prev, flags>> \in NextPoint \/ (course.back /\ <<flags, prev>> \in NextPoint)
        /\ ForwardFromDual => Legacy \notin {prev, flags}
        /\ \A p \in Replica : cached[p] \in {prev, flags}
        /\ \A w \in Request : Active(w) => Sees(w) \in {prev, flags}

\* 0005 runs when nobody goes by another phase any more.
Contracted ==
    /\ contract # "no" =>
          /\ flags = New
          /\ \A p \in Replica : cached[p] = New
          /\ \A w \in Request : Active(w) => Sees(w) = New
    /\ column <=> contract # "done"
    /\ contract = "refill" => course.back
    /\ ~failed

Control == Typed /\ Valid /\ Held /\ Batched /\ Near /\ Contracted

\* Somebody answers from the new columns.
NewInUse ==
    \/ flags.read = "new"
    \/ \E p \in Replica : cached[p].read = "new"
    \/ \E w \in Request : Active(w) /\ op[w].read = "new"

\* A row has a name, both parts of it or none, and both when they are in use.
Named(r) ==
    /\ r \in Row
    /\ r.full # Null \/ r.first # Null
    /\ r.first = Null <=> r.last = Null

Rows ==
    /\ row \in [User -> Row \cup {NoRow}]
    /\ saved = [u \in User |-> saved[u]]
    /\ \A u \in User : Exists(u) =>
          /\ Named(row[u])
          /\ saved[u] \in Parts
          /\ contract = "done" => row[u].full = Null
          /\ NewInUse => row[u].first # Null

NamesInv == Control /\ Rows

\* The requests and the rows say the same of a user, on the way forward.
Spelled(r) == JoinNames(r.first, r.last)
Tells(r, s) == s = IF r.first = Null THEN SplitFullName(r.full) ELSE [first |-> r.first, last |-> r.last]

FullTold == flags.write # "new" => \A u \in User : Exists(u) => row[u].full = Spelled(saved[u])
PartsTold == NewInUse => \A u \in User : Exists(u) => Spelled(row[u]) = Spelled(saved[u])
PartsAgree == ForwardFromDual => \A u \in User : Exists(u) => Tells(row[u], saved[u])

\* A body that gives a full name gives no parts, or both parts of it; while a
\* request may still write the old column only, a name comes whole.
OneShaped(b) ==
    Clean(b.full) # Null =>
        \/ b.first = Null /\ b.last = Null
        \/ Clean(b.first) # Null /\ b.last # Null /\ b.full = JoinNames(b.first, b.last)
Whole(b) == b.first = Null <=> b.last = Null

Plain ==
    /\ ~course.back
    /\ \A b \in course.bodies : OneShaped(b) /\ (course.start = "legacy" => Whole(b))

Told == Plain => FullTold /\ PartsTold /\ PartsAgree

\* The bodies of which that is true.
OneShape == \A c \in Course : \A b \in c.bodies : OneShaped(b)
WholeNames == \A c \in Course : c.start = "legacy" => \A b \in c.bodies : Whole(b)

ToldInv == NamesInv /\ Told
----------------------------------------------------------------------------
(* What the name rules make of names.                                      *)

LEMMA NullIsNoName == Null \notin Name /\ << >> \in Name /\ Null # << >>
BY NamesAssumption, EmptySeq DEF Name

\* The first word and the rest of a name spell it.
LEMMA FirstAndRest ==
    ASSUME NEW s \in Name \ {<< >>}
    PROVE  /\ <<Head(s)>> \in Name \ {<< >>} /\ Tail(s) \in Name
           /\ <<Head(s)>> \o Tail(s) = s
           /\ s = <<Head(s)>> => Tail(s) = << >>
<1> DEFINE h == <<Head(s)>>
<1>1. /\ Head(s) \in STRING /\ Tail(s) \in Seq(STRING) /\ Len(Tail(s)) = Len(s) - 1
      /\ \A i \in 1..Len(Tail(s)) : Tail(s)[i] = s[i + 1]
  BY HeadTailProperties DEF Name
<1>2. /\ h \in Seq(STRING) /\ h # << >> /\ Len(h) = 1 /\ h[1] = s[1]
  BY <1>1
<1>3. Len(s) \in Nat \ {0}
  BY EmptySeq DEF Name
<1>4. /\ h \o Tail(s) \in Seq(STRING) /\ Len(h \o Tail(s)) = Len(s)
      /\ \A i \in 1..Len(s) : (h \o Tail(s))[i] = IF i <= 1 THEN h[i] ELSE Tail(s)[i - 1]
  <2> HIDE DEF h
  <2>1. Len(h) + Len(Tail(s)) = Len(s)
    BY <1>1, <1>2, <1>3
  <2>2. /\ h \o Tail(s) \in Seq(STRING) /\ Len(h \o Tail(s)) = Len(h) + Len(Tail(s))
        /\ \A i \in 1..Len(h) + Len(Tail(s)) :
              (h \o Tail(s))[i] = IF i <= Len(h) THEN h[i] ELSE Tail(s)[i - Len(h)]
    BY <1>1, <1>2, ConcatProperties, Zenon
  <2> QED BY <1>2, <2>1, <2>2
<1>5. h \o Tail(s) = s
  <2> HIDE DEF h
  <2>1. \A i \in 1..Len(s) : (h \o Tail(s))[i] = s[i]
    <3> TAKE i \in 1..Len(s)
    <3>1. CASE i <= 1
      BY <3>1, <1>2, <1>3, <1>4
    <3>2. CASE ~(i <= 1)
      <4>1. i - 1 \in 1..Len(Tail(s)) /\ (i - 1) + 1 = i
        BY <3>2, <1>1, <1>3
      <4> QED BY <3>2, <4>1, <1>1, <1>4
    <3> QED BY <3>1, <3>2
  <2> QED BY <1>4, <2>1, SeqEqual DEF Name
<1>6. s = h => Tail(s) = << >>
  <2> HIDE DEF h
  <2> SUFFICES ASSUME s = h PROVE Tail(s) = << >>
    OBVIOUS
  <2>1. Len(Tail(s)) = 0
    BY <1>1, <1>2
  <2> QED BY <1>1, <2>1, EmptySeq
<1> QED BY <1>1, <1>2, <1>5, <1>6 DEF Name

LEMMA Concatenated ==
    ASSUME NEW s \in Name, NEW t \in Name
    PROVE  /\ s \o t \in Name
           /\ s \o t = << >> <=> s = << >> /\ t = << >>
           /\ s \o << >> = s /\ << >> \o s = s
BY ConcatProperties, ConcatEmptySeq, ConcatEqualIffEmpty DEF Name

LEMMA SplitSpells ==
    ASSUME NEW f \in Name \ {<< >>}
    PROVE  /\ SplitFullName(f) = [first |-> <<Head(f)>>, last |-> Tail(f)]
           /\ SplitFullName(f) \in Parts /\ SplitFullName(f).first # << >>
           /\ Spelled(SplitFullName(f)) = f
<1>1. SplitFullName(f) = [first |-> <<Head(f)>>, last |-> Tail(f)]
  BY NullIsNoName DEF SplitFullName
<1>2. <<Head(f)>> \in Name \ {<< >>} /\ Tail(f) \in Name /\ <<Head(f)>> \o Tail(f) = f
  BY FirstAndRest
<1>3. SplitFullName(f) \in Parts
  BY <1>1, <1>2 DEF Parts
<1>4. SplitFullName(f).first = <<Head(f)>> /\ SplitFullName(f).last = Tail(f)
  BY <1>1
<1>5. Spelled(SplitFullName(f)) = <<Head(f)>> \o Tail(f)
  BY <1>2, <1>4, NullIsNoName DEF Spelled, JoinNames, Words
<1> QED BY <1>1, <1>2, <1>3, <1>4, <1>5

\* A first name is the first word of a name with nothing after it only if it is all
\* of that name.
LEMMA NoRest ==
    ASSUME NEW f \in Name \ {<< >>}
    PROVE  IF f = SplitFullName(f).first THEN SplitFullName(f).last = << >> ELSE TRUE
<1>1. SplitFullName(f) = [first |-> <<Head(f)>>, last |-> Tail(f)]
  BY SplitSpells
<1> QED BY <1>1, FirstAndRest

\* A full name without parts gives both representations.
LEMMA DeriveWhole ==
    ASSUME NEW b \in Body, Clean(b.full) # Null, b.first = Null, b.last = Null
    PROVE  /\ b.full \in Name \ {<< >>}
           /\ Derive(b) = [full |-> b.full, first |-> SplitFullName(b.full).first,
                           last |-> SplitFullName(b.full).last]
<1>1. b.full \in Name \ {<< >>} /\ Clean(b.full) = b.full /\ Clean(Null) = Null
  BY NullIsNoName DEF Body, Part, Clean
<1>2. SplitFullName(b.full) \in Parts
  BY <1>1, SplitSpells
<1>3. SplitFullName(b.full).first # Null
  BY <1>2, NullIsNoName DEF Parts
<1> QED BY <1>1, <1>3 DEF Derive

\* So do a first name and perhaps a last one, without a full name or with the same.
LEMMA DeriveParts ==
    ASSUME NEW b \in Body, Clean(b.full) = Null \/ b.full = JoinNames(b.first, b.last),
           Clean(b.first) # Null
    PROVE  /\ b.first \in Name \ {<< >>} /\ Words(b.last) \in Name
           /\ JoinNames(b.first, b.last) \in Name \ {<< >>}
           /\ Derive(b) = [full |-> JoinNames(b.first, b.last), first |-> b.first, last |-> Words(b.last)]
<1>1. b.first \in Name \ {<< >>} /\ Clean(b.first) = b.first /\ Words(b.first) = b.first
  BY NullIsNoName DEF Body, Part, Clean, Words
<1>2. Words(b.last) \in Name
  BY NullIsNoName DEF Body, Part, Words
<1> DEFINE joined == JoinNames(b.first, b.last)
<1>3. joined \in Name \ {<< >>} /\ joined = b.first \o Words(b.last)
  BY <1>1, <1>2, Concatenated DEF JoinNames
<1> HIDE DEF joined
<1>4. Clean(joined) = joined /\ joined # Null /\ b.first # Null
  BY <1>1, <1>3, NullIsNoName DEF Clean
<1>5. Derive(b) = [full |-> joined, first |-> b.first,
                   last |-> IF Clean(b.last) # Null THEN Clean(b.last)
                            ELSE IF b.first = SplitFullName(joined).first
                                 THEN SplitFullName(joined).last ELSE << >>]
  <2>1. Clean(b.full) = Null \/ b.full = joined
    BY DEF joined
  <2>2. (IF Clean(b.full) # Null THEN b.full ELSE Clean(joined)) = joined
    BY <1>4, <2>1
  <2> QED BY <1>1, <1>4, <2>2 DEF Derive, joined
<1>6. CASE Clean(b.last) # Null
  <2>1. Clean(b.last) = b.last /\ Words(b.last) = b.last
    BY <1>6, NullIsNoName DEF Clean, Words
  <2> QED BY <1>1, <1>2, <1>3, <1>5, <1>6, <2>1 DEF joined
<1>7. CASE Clean(b.last) = Null
  <2>1. Words(b.last) = << >>
    BY <1>7, NullIsNoName DEF Clean, Words
  <2>2. joined = b.first
    BY <1>1, <1>3, <2>1, Concatenated
  <2>3. b.first = SplitFullName(joined).first => SplitFullName(joined).last = << >>
    BY <1>1, <2>2, NoRest
  <2> QED BY <1>1, <1>2, <1>3, <1>5, <1>7, <2>1, <2>3 DEF joined
<1> QED BY <1>6, <1>7

\* Whatever is sent, the columns get a full name and both parts.
LEMMA DeriveTyped ==
    ASSUME NEW b \in Body, CreateValid(b)
    PROVE  Derive(b) \in [full : Name \ {<< >>}, first : Name \ {<< >>}, last : Name]
<1>1. CASE Clean(b.full) # Null
  <2> DEFINE split == SplitFullName(b.full)
  <2>1. b.full \in Name \ {<< >>}
    BY <1>1, NullIsNoName DEF Body, Part, Clean
  <2>2. split \in Parts /\ split.first # << >>
    BY <2>1, SplitSpells
  <2> HIDE DEF split
  <2>3. split.first \in Name \ {<< >>} /\ split.last \in Name
    BY <2>2 DEF Parts
  <2>4. /\ b.first \in Part /\ b.last \in Part
        /\ Clean(b.first) # Null => Clean(b.first) \in Name \ {<< >>}
        /\ Clean(b.last) # Null => Clean(b.last) \in Name
    BY NullIsNoName DEF Body, Part, Clean
  <2> DEFINE first == IF Clean(b.first) # Null \/ b.full = Null THEN Clean(b.first) ELSE split.first
             last == IF Clean(b.last) # Null \/ first = Null THEN Clean(b.last)
                     ELSE IF first = split.first THEN split.last ELSE << >>
  <2>5. Derive(b) = [full |-> b.full, first |-> first, last |-> last]
    BY <1>1 DEF Derive, split
  <2>6. first \in Name \ {<< >>}
    BY <2>1, <2>3, <2>4, NullIsNoName
  <2> HIDE DEF first
  <2>7. last \in Name
    BY <2>3, <2>4, <2>6, NullIsNoName
  <2> QED BY <2>1, <2>5, <2>6, <2>7
<1>2. CASE Clean(b.full) = Null
  <2>1. Clean(b.first) # Null
    BY <1>2 DEF CreateValid
  <2> QED BY <1>2, <2>1, DeriveParts
<1> QED BY <1>1, <1>2

LEMMA AskedParts ==
    ASSUME NEW b \in Body, NEW s \in Parts
    PROVE  Asked(b, s) \in Parts
<1>1. b.full # Null => SplitFullName(b.full) \in Parts
  <2>1. CASE b.full = << >>
    BY <2>1, NullIsNoName DEF SplitFullName, Parts
  <2>2. CASE b.full \in Name \ {<< >>}
    BY <2>2, SplitSpells
  <2> QED BY <2>1, <2>2 DEF Body, Part
<1>2. /\ b.first # Null => b.first \in Name
      /\ b.last # Null => b.last \in Name
  BY DEF Body, Part
<1> QED BY <1>1, <1>2 DEF Asked, Parts

LEMMA NewUserParts == NewUser \in Parts
BY NullIsNoName DEF NewUser, Parts

\* The columns a write mode writes.
LEMMA Resolved ==
    ASSUME NEW b, NEW mode \in {"legacy", "dual", "new"},
           Derive(b) \in [full : Name \ {<< >>}, first : Name \ {<< >>}, last : Name]
    PROVE  ResolveNames(b, mode) =
               IF mode = "legacy" THEN [full |-> Derive(b).full, first |-> Null, last |-> Null]
               ELSE IF mode = "new" THEN [full |-> Null, first |-> Derive(b).first, last |-> Derive(b).last]
               ELSE Derive(b)
<1> DEFINE names == Derive(b)
<1>0. names \in [full : Name \ {<< >>}, first : Name \ {<< >>}, last : Name]
  OBVIOUS
<1>1. /\ mode = "legacy" => ResolveNames(b, mode) = [names EXCEPT !.first = Null, !.last = Null]
      /\ mode = "new" => ResolveNames(b, mode) = [names EXCEPT !.full = Null]
      /\ mode = "dual" => ResolveNames(b, mode) = names
  BY DEF ResolveNames
<1> HIDE DEF names
<1>2. PICK f, g, h : names = [full |-> f, first |-> g, last |-> h]
  BY <1>0
<1>3. [names EXCEPT !.first = Null, !.last = Null] = [full |-> names.full, first |-> Null, last |-> Null]
  <2>1. [names EXCEPT !.first = Null] = [full |-> names.full, first |-> Null, last |-> names.last]
    BY <1>2
  <2>2. [names EXCEPT !.first = Null, !.last = Null] = [[names EXCEPT !.first = Null] EXCEPT !.last = Null]
    BY <1>2
  <2>3. \A x, y : [[full |-> x, first |-> Null, last |-> y] EXCEPT !.last = Null]
                       = [full |-> x, first |-> Null, last |-> Null]
    OBVIOUS
  <2> QED BY <2>1, <2>2, <2>3, Zenon
<1>4. [names EXCEPT !.full = Null] = [full |-> Null, first |-> names.first, last |-> names.last]
  BY <1>2
<1> QED BY <1>1, <1>3, <1>4 DEF names

\* The row a POST leaves.
LEMMA CreatedNamed ==
    ASSUME NEW b \in Body, CreateValid(b), NEW mode \in {"legacy", "dual", "new"}
    PROVE  /\ Named(ResolveNames(b, mode))
           /\ mode # "legacy" => ResolveNames(b, mode).first # Null
           /\ mode = "new" => ResolveNames(b, mode).full = Null
<1> DEFINE names == Derive(b)
<1>1. names \in [full : Name \ {<< >>}, first : Name \ {<< >>}, last : Name]
  BY DeriveTyped
<1> HIDE DEF names
<1>2. ResolveNames(b, mode) = IF mode = "legacy" THEN [full |-> names.full, first |-> Null, last |-> Null]
                              ELSE IF mode = "new" THEN [full |-> Null, first |-> names.first, last |-> names.last]
                              ELSE names
  BY <1>1, Resolved DEF names
<1> QED BY <1>1, <1>2, NullIsNoName DEF Named, Row, Kept, Part

\* What a POST or a complete PUT asks for is what the columns are derived to be.
LEMMA DerivedTells ==
    ASSUME NEW b \in Body, CreateValid(b), OneShaped(b), NEW s \in Parts,
           b.last = Null => b.first = Null \/ s.last = << >>
    PROVE  /\ Asked(b, s) = [first |-> Derive(b).first, last |-> Derive(b).last]
           /\ Spelled(Derive(b)) = Derive(b).full
<1>1. CASE Clean(b.full) # Null /\ b.first = Null /\ b.last = Null
  <2>1. b.first = Null /\ b.last = Null /\ b.full # Null
    BY <1>1, NullIsNoName DEF Clean
  <2>2. /\ b.full \in Name \ {<< >>}
        /\ Derive(b) = [full |-> b.full, first |-> SplitFullName(b.full).first,
                        last |-> SplitFullName(b.full).last]
    BY <1>1, <2>1, DeriveWhole
  <2>3. /\ SplitFullName(b.full) = [first |-> <<Head(b.full)>>, last |-> Tail(b.full)]
        /\ Spelled(SplitFullName(b.full)) = b.full
    BY <2>2, SplitSpells
  <2>4. Asked(b, s) = SplitFullName(b.full)
    BY <2>1 DEF Asked
  <2>5. Spelled(Derive(b)) = Spelled(SplitFullName(b.full)) /\ Derive(b).full = b.full
    BY <2>2 DEF Spelled
  <2> QED BY <2>2, <2>3, <2>4, <2>5
<1>2. CASE ~ (Clean(b.full) # Null /\ b.first = Null /\ b.last = Null)
  <2>1. Clean(b.first) # Null /\ (Clean(b.full) = Null \/ b.full = JoinNames(b.first, b.last))
    BY <1>2 DEF CreateValid, OneShaped
  <2>2. /\ b.first \in Name \ {<< >>} /\ Words(b.last) \in Name
        /\ Derive(b) = [full |-> JoinNames(b.first, b.last), first |-> b.first, last |-> Words(b.last)]
    BY <2>1, DeriveParts
  <2>3. b.first # Null
    BY <2>2, NullIsNoName
  <2>4. Asked(b, s) = [first |-> b.first, last |-> IF b.last = Null THEN << >> ELSE b.last]
    BY <2>3 DEF Asked
  <2>5. Words(Words(b.last)) = Words(b.last)
    BY <2>2, NullIsNoName DEF Words
  <2>6. Words(b.last) = IF b.last = Null THEN << >> ELSE b.last
    BY DEF Words
  <2>7. Spelled(Derive(b)) = Words(b.first) \o Words(Words(b.last))
    BY <2>2 DEF Spelled, JoinNames
  <2>8. Derive(b).full = Words(b.first) \o Words(b.last)
    BY <2>2 DEF JoinNames
  <2>9. Asked(b, s) = [first |-> Derive(b).first, last |-> Derive(b).last]
    BY <2>2, <2>4, <2>6
  <2> QED BY <2>5, <2>7, <2>8, <2>9
<1> QED BY <1>1, <1>2

\* So the row of a POST says what the client was told, in the columns it writes.
LEMMA CreatedTells ==
    ASSUME NEW b \in Body, CreateValid(b), OneShaped(b), NEW mode \in {"legacy", "dual", "new"}
    PROVE  LET r == ResolveNames(b, mode)
               a == Asked(b, NewUser)
           IN  /\ mode # "new" => r.full = Spelled(a)
               /\ mode # "legacy" => Spelled(r) = Spelled(a) /\ Tells(r, a)
<1> DEFINE names == Derive(b)
           r == ResolveNames(b, mode)
           a == Asked(b, NewUser)
<1>1. names \in [full : Name \ {<< >>}, first : Name \ {<< >>}, last : Name]
  BY DeriveTyped
<1>2. a = [first |-> names.first, last |-> names.last] /\ Spelled(names) = names.full
  BY DerivedTells, NewUserParts DEF NewUser
<1> HIDE DEF names, a
<1>3. r = IF mode = "legacy" THEN [full |-> names.full, first |-> Null, last |-> Null]
          ELSE IF mode = "new" THEN [full |-> Null, first |-> names.first, last |-> names.last]
          ELSE names
  BY <1>1, Resolved DEF names
<1>4. Spelled(a) = Spelled(names)
  BY <1>2 DEF Spelled
<1>5. mode # "new" => r.full = Spelled(a)
  BY <1>2, <1>3, <1>4
<1>6. mode # "legacy" => r.first = names.first /\ r.last = names.last
  BY <1>3
<1>7. mode # "legacy" => Spelled(r) = Spelled(a) /\ Tells(r, a)
  BY <1>1, <1>2, <1>4, <1>6, NullIsNoName DEF Spelled, Tells
<1> QED BY <1>5, <1>7 DEF a

----------------------------------------------------------------------------
(* The row a PUT leaves.                                                   *)

EmailOnly(b) == b.full = Null /\ b.first = Null /\ b.last = Null

\* The parts the row has, or that its full name gives.
Stored(o) ==
    IF o.seen.first = Null /\ IncludeLegacy(o) /\ Clean(o.seen.full) # Null
    THEN SplitFullName(o.seen.full) ELSE o.seen

\* The body with the part it does not send.
Filled(o) ==
    LET split == o.body.first # Null \/ o.body.last # Null
    IN  [full |-> o.body.full,
         first |-> IF split /\ o.body.first = Null THEN Stored(o).first ELSE o.body.first,
         last |-> IF split /\ o.body.last = Null THEN Stored(o).last ELSE o.body.last]

\* A PUT on a row with a name; it leaves full_name alone only if the parts are there.
Put(o) ==
    /\ o.body \in Body /\ UpdateValid(o.body)
    /\ o.write \in {"legacy", "dual", "new"}
    /\ Named(o.seen)
    /\ o.write = "new" => o.seen.first # Null

LEMMA PatchIs ==
    ASSUME NEW o
    PROVE  Patch(o) = IF EmailOnly(o.body) THEN o.seen ELSE
               [full |-> IF o.write = "new" THEN o.seen.full ELSE ResolveNames(Filled(o), o.write).full,
                first |-> IF o.write = "legacy" THEN o.seen.first ELSE ResolveNames(Filled(o), o.write).first,
                last |-> IF o.write = "legacy" THEN o.seen.last ELSE ResolveNames(Filled(o), o.write).last]
BY DEF Patch, EmailOnly, Stored, Filled

LEMMA StoredParts ==
    ASSUME NEW o, Put(o)
    PROVE  /\ Stored(o).first \in Name \ {<< >>} /\ Stored(o).last \in Name
           /\ \A s : Tells(o.seen, s) => s.first = Stored(o).first /\ s.last = Stored(o).last
<1>1. CASE o.seen.first = Null
  <2>1. o.seen.full \in Name \ {<< >>} /\ Clean(o.seen.full) # Null /\ IncludeLegacy(o)
    BY <1>1, NullIsNoName DEF Put, Named, Row, Kept, Clean, IncludeLegacy
  <2>2. Stored(o) = SplitFullName(o.seen.full)
    BY <1>1, <2>1 DEF Stored
  <2> QED BY <1>1, <2>1, <2>2, SplitSpells DEF Tells, Parts
<1>2. CASE o.seen.first # Null
  <2>1. Stored(o) = o.seen
    BY <1>2 DEF Stored
  <2> QED BY <1>2, <2>1, NullIsNoName DEF Put, Named, Row, Kept, Part, Tells
<1> QED BY <1>1, <1>2

LEMMA FilledValid ==
    ASSUME NEW o, Put(o), ~EmailOnly(o.body)
    PROVE  Filled(o) \in Body /\ CreateValid(Filled(o))
<1>1. Stored(o).first \in Name \ {<< >>} /\ Stored(o).last \in Name
  BY StoredParts
<1>2. Filled(o) \in Body
  BY <1>1 DEF Put, Filled, Body, Part
<1>3. Clean(Filled(o).full) # Null \/ Clean(Filled(o).first) # Null
  BY <1>1, NullIsNoName DEF Put, Filled, EmailOnly, UpdateValid, Clean, Body, Part
<1> QED BY <1>2, <1>3 DEF CreateValid

LEMMA PatchedNamed ==
    ASSUME NEW o, Put(o)
    PROVE  /\ Named(Patch(o))
           /\ o.seen.first # Null => Patch(o).first # Null
           /\ o.write = "new" => Patch(o).full = o.seen.full
<1>1. CASE EmailOnly(o.body)
  BY <1>1, PatchIs DEF Put
<1>2. CASE ~EmailOnly(o.body)
  <2> DEFINE names == Derive(Filled(o))
             res == ResolveNames(Filled(o), o.write)
  <2>1. names \in [full : Name \ {<< >>}, first : Name \ {<< >>}, last : Name]
    BY <1>2, FilledValid, DeriveTyped
  <2>2. o.write \in {"legacy", "dual", "new"}
    BY DEF Put
  <2>3. res = IF o.write = "legacy" THEN [full |-> names.full, first |-> Null, last |-> Null]
              ELSE IF o.write = "new" THEN [full |-> Null, first |-> names.first, last |-> names.last]
              ELSE names
    BY <2>1, <2>2, Resolved
  <2> HIDE DEF names, res
  <2>4. /\ o.write # "new" => res.full = names.full
        /\ o.write # "legacy" => res.first = names.first /\ res.last = names.last
    BY <2>2, <2>3
  <2>5. Patch(o) = [full |-> IF o.write = "new" THEN o.seen.full ELSE names.full,
                    first |-> IF o.write = "legacy" THEN o.seen.first ELSE names.first,
                    last |-> IF o.write = "legacy" THEN o.seen.last ELSE names.last]
    BY <1>2, <2>4, PatchIs DEF res
  <2> QED BY <2>1, <2>2, <2>5, NullIsNoName DEF Put, Named, Row, Kept, Part
<1> QED BY <1>1, <1>2

\* The row says what the client is told, in the columns the write mode writes, if it
\* said so before; while only the old column was written, if the name comes whole.
LEMMA PatchedTells ==
    ASSUME NEW o, Put(o), OneShaped(o.body), NEW s \in Parts,
           Tells(o.seen, s) \/ Whole(o.body)
    PROVE  LET r == Patch(o)
               a == Asked(o.body, s)
           IN  /\ o.write # "new" /\ o.seen.full = Spelled(s) => r.full = Spelled(a)
               /\ o.write # "legacy" /\ Spelled(o.seen) = Spelled(s) => Spelled(r) = Spelled(a)
               /\ o.write # "legacy" /\ Tells(o.seen, s) => Tells(r, a)
<1> DEFINE r == Patch(o)
           a == Asked(o.body, s)
<1>1. CASE EmailOnly(o.body)
  <2>1. r = o.seen
    BY <1>1, PatchIs
  <2>2. a = s
    BY <1>1 DEF EmailOnly, Asked
  <2> QED BY <2>1, <2>2
<1>2. CASE ~EmailOnly(o.body)
  <2> DEFINE names == Derive(Filled(o))
             res == ResolveNames(Filled(o), o.write)
  <2>0. Filled(o) \in Body /\ CreateValid(Filled(o))
    BY <1>2, FilledValid
  <2>1. names \in [full : Name \ {<< >>}, first : Name \ {<< >>}, last : Name]
    BY <2>0, DeriveTyped
  <2>2. o.write \in {"legacy", "dual", "new"}
    BY DEF Put
  <2>3. res = IF o.write = "legacy" THEN [full |-> names.full, first |-> Null, last |-> Null]
              ELSE IF o.write = "new" THEN [full |-> Null, first |-> names.first, last |-> names.last]
              ELSE names
    BY <2>1, <2>2, Resolved
  <2>4. Stored(o).first \in Name \ {<< >>} /\ Stored(o).last \in Name
    BY StoredParts
  <2>5. OneShaped(Filled(o))
    <3>1. CASE Clean(o.body.full) = Null
      BY <3>1 DEF OneShaped, Filled
    <3>2. CASE o.body.first = Null /\ o.body.last = Null
      BY <3>2 DEF OneShaped, Filled
    <3>3. CASE /\ Clean(o.body.first) # Null /\ o.body.last # Null
               /\ o.body.full = JoinNames(o.body.first, o.body.last)
      <4>1. o.body.first # Null
        BY <3>3, NullIsNoName DEF Clean
      <4>2. /\ Filled(o).full = o.body.full /\ Filled(o).first = o.body.first
            /\ Filled(o).last = o.body.last
        BY <3>3, <4>1 DEF Filled
      <4> QED BY <3>3, <4>2 DEF OneShaped
    <3> QED BY <3>1, <3>2, <3>3 DEF OneShaped
  <2>6. Filled(o).last = Null => Filled(o).first = Null
    BY <2>4, NullIsNoName DEF Filled
  <2>7. Asked(Filled(o), s) = a
    <3>1. CASE o.body.first = Null /\ o.body.last = Null
      <4>1. Filled(o).first = Null /\ Filled(o).last = Null /\ Filled(o).full = o.body.full
        BY <3>1 DEF Filled
      <4> QED BY <3>1, <4>1 DEF Asked
    <3>2. CASE o.body.first # Null /\ o.body.last # Null
      <4>1. Filled(o).first = o.body.first /\ Filled(o).last = o.body.last
        BY <3>2 DEF Filled
      <4> QED BY <3>2, <4>1 DEF Asked
    <3>3. CASE ~(o.body.first = Null <=> o.body.last = Null)
      <4>1. s.first = Stored(o).first /\ s.last = Stored(o).last
        BY <3>3, StoredParts DEF Whole
      <4>2. /\ Filled(o).first = IF o.body.first = Null THEN s.first ELSE o.body.first
            /\ Filled(o).last = IF o.body.last = Null THEN s.last ELSE o.body.last
        BY <3>3, <4>1 DEF Filled
      <4>3. Filled(o).first # Null /\ Filled(o).last # Null
        BY <3>3, <4>2, NullIsNoName DEF Parts
      <4> QED BY <3>3, <4>2, <4>3 DEF Asked
    <3> QED BY <3>1, <3>2, <3>3
  <2>8. a = [first |-> names.first, last |-> names.last] /\ Spelled(names) = names.full
    BY <2>0, <2>5, <2>6, <2>7, DerivedTells
  <2> HIDE DEF names, res, a
  <2>9. /\ o.write # "new" => res.full = names.full
        /\ o.write # "legacy" => res.first = names.first /\ res.last = names.last
    BY <2>2, <2>3
  <2>10. r = [full |-> IF o.write = "new" THEN o.seen.full ELSE names.full,
              first |-> IF o.write = "legacy" THEN o.seen.first ELSE names.first,
              last |-> IF o.write = "legacy" THEN o.seen.last ELSE names.last]
    BY <1>2, <2>9, PatchIs DEF res
  <2>11. Spelled(a) = names.full
    BY <2>8 DEF Spelled
  <2>12. o.write # "new" => r.full = Spelled(a)
    BY <2>10, <2>11
  <2>13. o.write # "legacy" => r.first = names.first /\ r.last = names.last
    BY <2>10
  <2>14. o.write # "legacy" => Spelled(r) = Spelled(a) /\ Tells(r, a)
    BY <2>1, <2>8, <2>11, <2>13, NullIsNoName DEF Spelled, Tells
  <2> QED BY <2>12, <2>14 DEF a
<1> QED BY <1>1, <1>2

\* A row of the backfill: both parts are there, and those that were there have stayed.
LEMMA FilledRow ==
    ASSUME NEW r, Named(r)
    PROVE  LET n == Fill(r, NamesFor(r))
           IN  /\ Named(n) /\ n.full = r.full /\ n.first # Null
               /\ r.first # Null => n = r
               /\ \A s : Tells(r, s) => Tells(n, s)
<1> DEFINE n == Fill(r, NamesFor(r))
<1>1. r = [full |-> r.full, first |-> r.first, last |-> r.last]
  BY DEF Named, Row
<1>2. n = [full |-> r.full,
           first |-> IF r.first = Null THEN NamesFor(r).first ELSE r.first,
           last |-> IF r.last = Null THEN NamesFor(r).last ELSE r.last]
  <2> DEFINE names == NamesFor(r)
             first == IF r.first = Null THEN names.first ELSE r.first
             last == IF r.last = Null THEN names.last ELSE r.last
  <2> HIDE DEF names
  <2>1. PICK f, g, h : r = [full |-> f, first |-> g, last |-> h]
    BY <1>1
  <2>2. Fill(r, names) = [[r EXCEPT !.first = first] EXCEPT !.last = last]
    BY <2>1 DEF Fill
  <2>3. [r EXCEPT !.first = first] = [full |-> r.full, first |-> first, last |-> r.last]
    BY <2>1
  <2>4. \A x, y, z, v : [[full |-> x, first |-> y, last |-> v] EXCEPT !.last = z]
                          = [full |-> x, first |-> y, last |-> z]
    OBVIOUS
  <2> HIDE DEF first, last
  <2>5. Fill(r, names) = [full |-> r.full, first |-> first, last |-> last]
    BY <2>2, <2>3, <2>4, Zenon
  <2> QED BY <2>5 DEF first, last, names
<1> HIDE DEF n
<1>3. CASE r.first # Null
  <2>1. n = r
    BY <1>1, <1>2, <1>3 DEF Named
  <2> QED BY <1>3, <2>1 DEF n
<1>4. CASE r.first = Null
  <2> DEFINE split == SplitFullName(r.full)
  <2>1. r.full \in Name \ {<< >>} /\ r.last = Null
    BY <1>4, NullIsNoName DEF Named, Row, Kept
  <2>2. split \in Parts /\ split.first # << >> /\ split = [first |-> split.first, last |-> split.last]
    BY <2>1, SplitSpells
  <2> HIDE DEF split
  <2>3. NamesFor(r) = [first |-> split.first, last |-> split.last]
    BY <1>4, <2>1 DEF NamesFor, split
  <2>4. n = [full |-> r.full, first |-> split.first, last |-> split.last]
    BY <1>2, <1>4, <2>1, <2>3
  <2>5. split.first \in Name \ {<< >>} /\ split.last \in Name
    BY <2>2 DEF Parts
  <2>6. Named(n) /\ n.full = r.full /\ n.first # Null
    BY <2>1, <2>4, <2>5, NullIsNoName DEF Named, Row, Kept, Part
  <2>7. \A s : Tells(r, s) => Tells(n, s)
    BY <1>4, <2>2, <2>4, <2>5, NullIsNoName DEF Tells, split
  <2> QED BY <1>4, <2>6, <2>7 DEF n
<1> QED BY <1>3, <1>4

----------------------------------------------------------------------------
(* Types, and which requests and flags a step touches.                     *)

LEMMA PointFlags ==
    /\ Point \subseteq Flags
    /\ \A f \in Point : f = At(f.write, f.read)
    /\ Legacy # Dual /\ Legacy # ReadNew /\ Legacy # New /\ Dual # ReadNew /\ Dual # New /\ ReadNew # New
BY DEF Point, Flags, Legacy, Dual, ReadNew, New, At

LEMMA OpFields ==
    ASSUME Typed, NEW w \in Request, Active(w)
    PROVE  /\ op[w].user \in User /\ op[w].body \in course.bodies
           /\ op[w].seen \in Row \cup {NoRow}
           /\ op[w].write \in {"legacy", "dual", "new"} /\ op[w].read \in {"legacy", "new"}
           /\ op[w] = [user |-> op[w].user, body |-> op[w].body, seen |-> op[w].seen,
                       write |-> op[w].write, read |-> op[w].read]
           /\ op[w].body \in Body
BY NamesAssumption DEF Typed, Op

\* A request that ends is not active any more; the others are as they were.
LEMMA EndedRequest ==
    ASSUME Typed, NEW w \in Request, End(w)
    PROVE  /\ pc' \in [Request -> {"idle", "create", "update", "save", "answer"}]
           /\ op' = [v \in Request |-> op'[v]]
           /\ pc'[w] = "idle"
           /\ \A v \in Request \ {w} : pc'[v] = pc[v] /\ op'[v] = op[v]
BY DEF Typed, End

\* A request that goes on keeps all but the row it has seen.
LEMMA LockedRequest ==
    ASSUME Typed, NEW w \in Request, Active(w), NEW x, op' = [op EXCEPT ![w].seen = x]
    PROVE  /\ op' = [v \in Request |-> op'[v]]
           /\ op'[w] = [user |-> op[w].user, body |-> op[w].body, seen |-> x,
                        write |-> op[w].write, read |-> op[w].read]
           /\ \A v \in Request \ {w} : op'[v] = op[v]
<1>1. op[w] = [user |-> op[w].user, body |-> op[w].body, seen |-> op[w].seen,
               write |-> op[w].write, read |-> op[w].read]
  BY OpFields
<1>2. op = [v \in Request |-> op[v]]
  BY DEF Typed
<1>3. op'[w] = [op[w] EXCEPT !.seen = x]
  BY <1>2
<1> QED BY <1>1, <1>2, <1>3

\* A request that is active after the step was so before it, in the same mode.
SameRequests ==
    \A w \in Request : Active(w)' =>
        /\ Active(w)
        /\ op'[w].user = op[w].user /\ op'[w].body = op[w].body
        /\ op'[w].write = op[w].write /\ op'[w].read = op[w].read

\* Most steps move no flag and start no request.
Calm ==
    /\ UNCHANGED <<flags, cached, course>>
    /\ pc' \in [Request -> {"idle", "create", "update", "save", "answer"}]
    /\ op' = [v \in Request |-> op'[v]]
    /\ SameRequests
    /\ \A w \in Request : Active(w)' => op'[w] \in Op

LEMMA EndedIsCalm ==
    ASSUME Typed, NEW w \in Request, End(w), UNCHANGED <<flags, cached, course>>
    PROVE  Calm
<1>1. /\ pc' \in [Request -> {"idle", "create", "update", "save", "answer"}]
      /\ op' = [v \in Request |-> op'[v]]
      /\ pc'[w] = "idle"
      /\ \A v \in Request \ {w} : pc'[v] = pc[v] /\ op'[v] = op[v]
  BY EndedRequest
<1>2. \A v \in Request : pc'[v] # "idle" => v # w /\ pc[v] # "idle" /\ op'[v] = op[v]
  BY <1>1
<1>3. \A v \in Request : pc[v] # "idle" => op[v] \in Op
  BY DEF Typed, Active
<1> QED BY <1>1, <1>2, <1>3 DEF Calm, SameRequests, Active

LEMMA LockIsCalm ==
    ASSUME NamesInv, NEW w \in Request, Lock(w)
    PROVE  Calm
<1> USE DEF NamesInv, Control
<1>1. UNCHANGED <<flags, cached, course>>
  BY DEF Lock, operatorVars
<1>2. CASE MissesColumn(w)
  BY <1>1, <1>2, EndedIsCalm DEF Lock
<1>3. CASE ~MissesColumn(w)
  <2>1. /\ pc[w] = "update" /\ pc' = [pc EXCEPT ![w] = "save"]
        /\ op' = [op EXCEPT ![w].seen = row[op[w].user]]
    BY <1>3 DEF Lock
  <2>2. Active(w)
    BY <2>1 DEF Active
  <2>3. /\ op' = [v \in Request |-> op'[v]]
        /\ op'[w] = [user |-> op[w].user, body |-> op[w].body, seen |-> row[op[w].user],
                     write |-> op[w].write, read |-> op[w].read]
        /\ \A v \in Request \ {w} : op'[v] = op[v]
    BY <2>1, <2>2, LockedRequest
  <2>4. row[op[w].user] \in Row \cup {NoRow}
    BY <2>2, OpFields DEF Rows
  <2>5. op'[w] \in Op
    <3>1. /\ op[w].user \in User /\ op[w].body \in course.bodies
          /\ op[w].write \in {"legacy", "dual", "new"} /\ op[w].read \in {"legacy", "new"}
      BY <2>2, OpFields
    <3> QED BY <2>3, <2>4, <3>1 DEF Op
  <2>6. pc' \in [Request -> {"idle", "create", "update", "save", "answer"}]
    BY <2>1 DEF Typed
  <2>7. \A v \in Request \ {w} : pc'[v] = pc[v]
    BY <2>1 DEF Typed
  <2>8. SameRequests
    BY <2>2, <2>3, <2>7 DEF SameRequests, Active
  <2>9. \A v \in Request : Active(v)' => op'[v] \in Op
    BY <2>3, <2>5, <2>7 DEF Typed, Active
  <2> QED BY <1>1, <2>3, <2>6, <2>8, <2>9 DEF Calm
<1> QED BY <1>2, <1>3

LEMMA SaveIsCalm ==
    ASSUME Typed, NEW w \in Request, Save(w)
    PROVE  Calm
<1>1. UNCHANGED <<flags, cached, course, op>> /\ pc[w] = "save" /\ pc' = [pc EXCEPT ![w] = "answer"]
  BY DEF Save, operatorVars
<1>2. \A v \in Request : pc'[v] # "idle" => pc[v] # "idle"
  BY <1>1 DEF Typed
<1> QED BY <1>1, <1>2 DEF Calm, SameRequests, Active, Typed

LEMMA RestIsCalm ==
    ASSUME Typed, UNCHANGED <<flags, cached, requestVars, course>>
    PROVE  Calm
BY DEF Calm, SameRequests, Active, Typed, requestVars

\* Which steps are calm.
LEMMA CalmSteps ==
    ASSUME NamesInv,
           \/ \E w \in Request : RequestStep(w) \/ Aborts(w)
           \/ StartJob \/ JobStep \/ StopJob
           \/ Check \/ Drop \/ GivesUp \/ AddColumn \/ Refill
    PROVE  Calm
<1> USE DEF NamesInv, Control
<1>1. ASSUME NEW w \in Request, Create(w) \/ Answer(w) \/ Aborts(w)
      PROVE  Calm
  BY <1>1, EndedIsCalm DEF Create, Answer, Aborts, operatorVars
<1>2. CASE StartJob \/ JobStep \/ StopJob
  <2>1. RestOfJob
    BY <1>2 DEF StartJob, JobStep, SelectBatch, UpdateBatch, EndSweep, StopJob
  <2> QED BY <2>1, RestIsCalm DEF RestOfJob, operatorVars
<1>3. CASE Check \/ Drop \/ GivesUp \/ AddColumn \/ Refill
  <2>1. RestOfContract
    BY <1>3 DEF Check, Drop, GivesUp, AddColumn, Refill
  <2> QED BY <2>1, RestIsCalm DEF RestOfContract
<1> QED BY <1>1, <1>2, <1>3, LockIsCalm, SaveIsCalm DEF RequestStep

\* A request that begins has read the flags around one refresh.
Begun(w, kind, u, b, f) ==
    /\ IF kind = "create" THEN CreateValid(b) ELSE UpdateValid(b)
    /\ Exists(u) <=> kind = "update"
    /\ op'[w] = [user |-> u, body |-> b, seen |-> NoRow,
                 write |-> cached[Home[w]].write, read |-> f.read]
    /\ pc'[w] = kind /\ pc[w] = "idle"
    /\ pc' \in [Request -> {"idle", "create", "update", "save", "answer"}]
    /\ op' = [v \in Request |-> op'[v]]
    /\ \A v \in Request \ {w} : pc'[v] = pc[v] /\ op'[v] = op[v]
    /\ cached' \in [Replica -> Point]
    /\ \A p \in Replica : cached'[p] \in {cached[p], flags}
    /\ op'[w] \in Op
    /\ UNCHANGED <<flags, course>>

LEMMA BegunRequest ==
    ASSUME Typed, NEW w \in Request, Begin(w)
    PROVE  \E kind \in {"create", "update"}, u \in User, b \in course.bodies, f \in {cached[Home[w]], flags} :
              Begun(w, kind, u, b, f)
<1>1. PICK kind \in {"create", "update"}, u \in User, b \in course.bodies, f \in {cached[Home[w]], flags} :
          /\ IF kind = "create" THEN CreateValid(b) ELSE UpdateValid(b)
          /\ Exists(u) <=> kind = "update"
          /\ op' = [op EXCEPT ![w] = [user |-> u, body |-> b, seen |-> NoRow,
                                     write |-> cached[Home[w]].write, read |-> f.read]]
          /\ cached' = [cached EXCEPT ![Home[w]] = f]
          /\ pc' = [pc EXCEPT ![w] = kind]
  BY DEF Begin
<1>2. pc[w] = "idle" /\ UNCHANGED <<flags, course>>
  BY DEF Begin, operatorVars
<1>3. Home[w] \in Replica /\ cached[Home[w]] \in Point /\ flags \in Point /\ f \in Point
  BY NamesAssumption DEF Typed
<1>4. op = [v \in Request |-> op[v]]
  BY DEF Typed
<1>5. /\ op'[w] = [user |-> u, body |-> b, seen |-> NoRow,
                   write |-> cached[Home[w]].write, read |-> f.read]
      /\ op' = [v \in Request |-> op'[v]]
      /\ \A v \in Request \ {w} : op'[v] = op[v]
  BY <1>1, <1>4
<1>6. /\ pc' \in [Request -> {"idle", "create", "update", "save", "answer"}]
      /\ pc'[w] = kind /\ \A v \in Request \ {w} : pc'[v] = pc[v]
  BY <1>1 DEF Typed
<1>7. cached' \in [Replica -> Point] /\ \A p \in Replica : cached'[p] \in {cached[p], flags}
  BY <1>1, <1>3 DEF Typed
<1>8. /\ cached[Home[w]].write \in {"legacy", "dual", "new"}
      /\ f.read \in {"legacy", "new"}
  BY <1>3, PointFlags DEF Flags
<1>9. op'[w] \in Op
  BY <1>5, <1>8 DEF Op
<1> QED BY <1>1, <1>2, <1>5, <1>6, <1>7, <1>9 DEF Begun

----------------------------------------------------------------------------
(* What a step may do to a row and to what its client was told.            *)

Created(u, w) ==
    /\ pc[w] = "create" /\ op[w].user = u /\ ~Exists(u)
    /\ row'[u] = ResolveNames(op[w].body, op[w].write)
    /\ saved'[u] = Asked(op[w].body, NewUser)

Patched(u, w) ==
    /\ pc[w] = "save" /\ op[w].user = u /\ pc'[w] = "answer"
    /\ row'[u] = Patch(op[w])
    /\ saved'[u] = Asked(op[w].body, saved[u])

Backfilled(u) ==
    /\ u \in DOMAIN job.batch /\ job'.batch = << >>
    /\ row'[u] = Fill(row[u], NamesFor(row[u]))
    /\ saved'[u] = saved[u]

Contracts(u) ==
    /\ Exists(u) /\ locked[u] = Nobody /\ saved'[u] = saved[u]
    /\ \/ contract = "checked" /\ contract' = "done" /\ row'[u] = [row[u] EXCEPT !.full = Null]
       \/ /\ contract = "refill" /\ contract' \in {"refill", "no"}
          /\ row[u].full = Null /\ row'[u] = [row[u] EXCEPT !.full = Spelled(row[u])]

Stays(u) == row'[u] = row[u] /\ saved'[u] = saved[u]

Changes(u) ==
    \/ Stays(u)
    \/ \E w \in Request : Created(u, w) \/ Patched(u, w)
    \/ Backfilled(u)
    \/ Contracts(u)

LEMMA RowChanges ==
    ASSUME NamesInv, NamesNext
    PROVE  /\ row' = [u \in User |-> row'[u]] /\ saved' = [u \in User |-> saved'[u]]
           /\ \A u \in User : Changes(u)
           /\ contract' = "done" => contract = "done" \/ \A u \in User : Exists(u) => Contracts(u)
<1> USE DEF NamesInv, Control
<1>0. row = [u \in User |-> row[u]] /\ saved = [u \in User |-> saved[u]]
  BY DEF Rows
<1> DEFINE Claim ==
        /\ row' = [u \in User |-> row'[u]] /\ saved' = [u \in User |-> saved'[u]]
        /\ \A u \in User : Changes(u)
        /\ contract' = "done" => contract = "done" \/ \A u \in User : Exists(u) => Contracts(u)
<1>1. ASSUME UNCHANGED <<row, saved, contract>>
      PROVE  Claim
  BY <1>0, <1>1 DEF Changes, Stays
<1>2. ASSUME NEW p \in Replica, Refresh(p)
      PROVE  Claim
  BY <1>1, <1>2 DEF Refresh, tableVars, operatorVars
<1>3. ASSUME NEW w \in Request, Begin(w) \/ Lock(w) \/ Answer(w) \/ Aborts(w)
      PROVE  Claim
  BY <1>1, <1>3 DEF Begin, Lock, Answer, Aborts, tableVars, operatorVars
<1>4. ASSUME NEW w \in Request, Create(w)
      PROVE  Claim
  <2>1. pc[w] = "create" /\ Active(w) /\ op[w].user \in User /\ contract' = contract
    BY <1>4, OpFields DEF Create, Active, operatorVars
  <2>2. CASE UNCHANGED <<row, saved>>
    BY <1>1, <2>1, <2>2
  <2>3. CASE /\ ~Exists(op[w].user)
             /\ row' = [row EXCEPT ![op[w].user] = ResolveNames(op[w].body, op[w].write)]
             /\ saved' = [saved EXCEPT ![op[w].user] = Asked(op[w].body, NewUser)]
    <3>1. Created(op[w].user, w)
      BY <1>0, <2>1, <2>3 DEF Created, Typed
    <3>2. \A u \in User \ {op[w].user} : Stays(u)
      BY <1>0, <2>1, <2>3 DEF Stays
    <3>3. row' = [u \in User |-> row'[u]] /\ saved' = [u \in User |-> saved'[u]]
      BY <1>0, <2>1, <2>3
    <3> QED BY <2>1, <3>1, <3>2, <3>3 DEF Changes
  <2> QED BY <1>4, <2>2, <2>3 DEF Create
<1>5. ASSUME NEW w \in Request, Save(w)
      PROVE  Claim
  <2>1. /\ pc[w] = "save" /\ Active(w) /\ op[w].user \in User /\ contract' = contract
        /\ row' = [row EXCEPT ![op[w].user] = Patch(op[w])]
        /\ saved' = [saved EXCEPT ![op[w].user] = Asked(op[w].body, saved[op[w].user])]
        /\ pc' = [pc EXCEPT ![w] = "answer"]
    BY <1>5, OpFields DEF Save, Active, operatorVars
  <2>2. Patched(op[w].user, w)
    BY <1>0, <2>1 DEF Patched, Typed
  <2>3. \A u \in User \ {op[w].user} : Stays(u)
    BY <1>0, <2>1 DEF Stays
  <2>4. row' = [u \in User |-> row'[u]] /\ saved' = [u \in User |-> saved'[u]]
    BY <1>0, <2>1
  <2> QED BY <2>1, <2>2, <2>3, <2>4 DEF Changes
<1>6. CASE StartJob \/ SelectBatch \/ EndSweep \/ StopJob
  BY <1>1, <1>6 DEF StartJob, SelectBatch, EndSweep, StopJob, RestOfJob, operatorVars
<1>7. CASE UpdateBatch
  <2>1. /\ row' = [u \in User |-> IF u \in DOMAIN job.batch THEN Fill(row[u], NamesFor(job.batch[u])) ELSE row[u]]
        /\ job'.batch = << >> /\ saved' = saved /\ contract' = contract
    BY <1>7 DEF UpdateBatch, JobAt, RestOfJob, operatorVars
  <2>2. \A u \in DOMAIN job.batch : u \in User /\ job.batch[u] = row[u]
    BY DEF Batched
  <2>3. \A u \in DOMAIN job.batch : Backfilled(u)
    BY <2>1, <2>2 DEF Backfilled
  <2>4. \A u \in User \ DOMAIN job.batch : Stays(u)
    BY <2>1 DEF Stays
  <2> QED BY <1>0, <2>1, <2>3, <2>4 DEF Changes
<1>8. CASE SetFlags
  BY <1>1, <1>8 DEF SetFlags, tableVars, operatorVars
<1>9. CASE Check \/ GivesUp \/ AddColumn
  <2>1. row' = row /\ saved' = saved /\ contract' # "done"
    BY <1>9 DEF Check, GivesUp, AddColumn, RestOfContract, tableVars
  <2> QED BY <1>0, <2>1 DEF Changes, Stays
<1>10. CASE Drop
  <2>1. /\ contract = "checked" /\ contract' = "done" /\ saved' = saved /\ NoLocks
        /\ row' = [u \in User |-> IF Exists(u) THEN [row[u] EXCEPT !.full = Null] ELSE NoRow]
    BY <1>10 DEF Drop, RestOfContract
  <2>2. \A u \in User : Exists(u) => Contracts(u)
    BY <2>1 DEF Contracts, NoLocks
  <2>3. \A u \in User : ~Exists(u) => Stays(u)
    BY <2>1 DEF Stays, Exists
  <2> QED BY <1>0, <2>1, <2>2, <2>3 DEF Changes
<1>11. CASE Refill
  <2> DEFINE range == {u \in User : u > refilled /\ u <= refilled + RefillBatch}
  <2>1. /\ contract = "refill" /\ contract' \in {"refill", "no"} /\ saved' = saved
        /\ \A u \in range : locked[u] = Nobody
        /\ row' = [u \in User |-> IF u \in range /\ Exists(u) /\ row[u].full = Null
                                  THEN [row[u] EXCEPT !.full = JoinNames(row[u].first, row[u].last)]
                                  ELSE row[u]]
    BY <1>11 DEF Refill, RestOfContract
  <2> HIDE DEF range
  <2>2. \A u \in User : u \in range /\ Exists(u) /\ row[u].full = Null => Contracts(u)
    BY <2>1 DEF Contracts, Spelled
  <2>3. \A u \in User : ~(u \in range /\ Exists(u) /\ row[u].full = Null) => Stays(u)
    BY <2>1 DEF Stays
  <2>4. row' = [u \in User |-> row'[u]] /\ contract' # "done"
    BY <2>1
  <2> QED BY <1>0, <2>1, <2>2, <2>3, <2>4 DEF Changes
<1> QED
  BY <1>2, <1>3, <1>4, <1>5, <1>6, <1>7, <1>8, <1>9, <1>10, <1>11 DEF NamesNext, RequestStep, JobStep

LEMMA RowIsBody == Row \subseteq Body /\ NoRow \notin Row
BY NamesAssumption DEF Row, Kept, Body, Part

\* What an active request does, given what the others answer from.
LEMMA ModeOf ==
    ASSUME NamesInv, NEW w \in Request, Active(w)
    PROVE  /\ Sees(w) \in Point
           /\ op[w].write = "new" => NewInUse
           /\ NewInUse => op[w].write # "legacy"
           /\ contract = "done" => op[w].write = "new"
<1> USE DEF NamesInv, Control
<1>1. PICK prev \in Point :
          /\ prev = flags \/ <<prev, flags>> \in NextPoint \/ (course.back /\ <<flags, prev>> \in NextPoint)
          /\ \A p \in Replica : cached[p] \in {prev, flags}
          /\ \A v \in Request : Active(v) => Sees(v) \in {prev, flags}
  BY DEF Near
<1>2. flags \in Point /\ Sees(w) \in {prev, flags} /\ Sees(w) \in Point
  BY <1>1 DEF Typed
<1>3. Sees(w).write = op[w].write /\ Sees(w).read = op[w].read
  BY DEF Sees, At
<1>4. op[w].write = "new" => op[w].read = "new"
  BY <1>2, <1>3 DEF Point, Legacy, Dual, ReadNew, New, At
<1>5. \A f \in {prev, flags} : f.read = "new" => op[w].write # "legacy"
  BY <1>1, <1>2, <1>3 DEF NextPoint, Point, Legacy, Dual, ReadNew, New, At
<1>6. NewInUse => \E f \in {prev, flags} : f.read = "new"
  <2>1. ASSUME NEW v \in Request, Active(v), op[v].read = "new"
        PROVE  \E f \in {prev, flags} : f.read = "new"
    <3>1. Sees(v) \in {prev, flags} /\ Sees(v).read = "new"
      BY <1>1, <2>1 DEF Sees, At
    <3> QED BY <3>1
  <2> QED BY <1>1, <2>1 DEF NewInUse
<1>7. contract = "done" => op[w].write = "new"
  BY <1>3 DEF Contracted, New, At
<1> QED BY <1>2, <1>4, <1>5, <1>6, <1>7 DEF NewInUse

LEMMA PutOfSave ==
    ASSUME NamesInv, NEW w \in Request, pc[w] = "save"
    PROVE  Put(op[w]) /\ op[w].seen = row[op[w].user] /\ Exists(op[w].user) /\ op[w].user \in User
<1> USE DEF NamesInv, Control
<1>1. Active(w)
  BY DEF Active
<1>2. op[w].user \in User /\ op[w].body \in Body /\ op[w].write \in {"legacy", "dual", "new"}
  BY <1>1, OpFields
<1>3. op[w].seen = row[op[w].user] /\ Exists(op[w].user) /\ UpdateValid(op[w].body)
  BY DEF Held, Valid
<1>4. Named(op[w].seen) /\ (NewInUse => op[w].seen.first # Null)
  BY <1>2, <1>3 DEF Rows
<1> QED BY <1>1, <1>2, <1>3, <1>4, ModeOf DEF Put

LEMMA ChangedRow ==
    ASSUME NamesInv, NEW u \in User, Changes(u)
    PROVE  /\ row'[u] \in Row \cup {NoRow}
           /\ Exists(u) => row'[u] # NoRow
           /\ row'[u] # NoRow =>
                 /\ Named(row'[u])
                 /\ saved'[u] \in Parts
                 /\ contract = "done" => row'[u].full = Null
                 /\ NewInUse => row'[u].first # Null
<1> USE DEF NamesInv, Control
<1>1. CASE Stays(u)
  BY <1>1 DEF Stays, Rows, Exists
<1>2. ASSUME NEW w \in Request, Created(u, w)
      PROVE  /\ Named(row'[u]) /\ saved'[u] \in Parts
             /\ contract = "done" => row'[u].full = Null
             /\ NewInUse => row'[u].first # Null
  <2>1. Active(w) /\ CreateValid(op[w].body)
    BY <1>2 DEF Created, Active, Valid
  <2>2. op[w].body \in Body /\ op[w].write \in {"legacy", "dual", "new"}
    BY <2>1, OpFields
  <2>3. row'[u] = ResolveNames(op[w].body, op[w].write) /\ saved'[u] = Asked(op[w].body, NewUser)
    BY <1>2 DEF Created
  <2> QED BY <2>1, <2>2, <2>3, CreatedNamed, AskedParts, NewUserParts, ModeOf
<1>3. ASSUME NEW w \in Request, Patched(u, w)
      PROVE  /\ Named(row'[u]) /\ saved'[u] \in Parts
             /\ contract = "done" => row'[u].full = Null
             /\ NewInUse => row'[u].first # Null
  <2>1. pc[w] = "save" /\ op[w].user = u /\ row'[u] = Patch(op[w]) /\ saved'[u] = Asked(op[w].body, saved[u])
    BY <1>3 DEF Patched
  <2>2. Put(op[w]) /\ op[w].seen = row[u] /\ Exists(u)
    BY <2>1, PutOfSave
  <2>3. /\ Named(Patch(op[w]))
        /\ op[w].seen.first # Null => Patch(op[w]).first # Null
        /\ op[w].write = "new" => Patch(op[w]).full = op[w].seen.full
    BY <2>2, PatchedNamed
  <2>4. saved'[u] \in Parts
    BY <2>1, <2>2, AskedParts DEF Rows, Put
  <2>5. contract = "done" => op[w].write = "new"
    BY <2>1, ModeOf DEF Active
  <2> QED BY <2>1, <2>2, <2>3, <2>4, <2>5 DEF Rows
<1>4. CASE Backfilled(u)
  <2>1. Exists(u) /\ Named(row[u]) /\ row'[u] = Fill(row[u], NamesFor(row[u])) /\ saved'[u] = saved[u]
    BY <1>4 DEF Backfilled, Batched, Rows
  <2>2. Named(row'[u]) /\ row'[u].full = row[u].full /\ row'[u].first # Null
    BY <2>1, FilledRow
  <2> QED BY <2>1, <2>2, RowIsBody DEF Rows, Named
<1>5. CASE Contracts(u)
  <2>1. Exists(u) /\ Named(row[u]) /\ saved'[u] = saved[u]
    BY <1>5 DEF Contracts, Rows
  <2>2. contract # "no" /\ contract # "done"
    BY <1>5 DEF Contracts
  <2>3. NewInUse
    BY <2>2 DEF Contracted, NewInUse, New, At
  <2>4. row[u].first # Null /\ row[u].first \in Name \ {<< >>} /\ row[u].last \in Name
    BY <2>1, <2>3 DEF Rows, Named, Row, Kept, Part
  <2>5. Spelled(row[u]) \in Name \ {<< >>}
    BY <2>4, NullIsNoName, Concatenated DEF Spelled, JoinNames, Words
  <2>6. PICK x \in Kept : row'[u] = [row[u] EXCEPT !.full = x]
    BY <1>5, <2>5 DEF Contracts, Kept
  <2>7. row[u] = [full |-> row[u].full, first |-> row[u].first, last |-> row[u].last]
    BY <2>1 DEF Named, Row
  <2>8. row'[u] = [full |-> x, first |-> row[u].first, last |-> row[u].last]
    BY <2>6, <2>7
  <2>9. Named(row'[u]) /\ row'[u].first # Null
    BY <2>1, <2>4, <2>8 DEF Named, Row
  <2> QED BY <2>1, <2>2, <2>9, RowIsBody DEF Rows, Named
<1> QED BY <1>1, <1>2, <1>3, <1>4, <1>5, RowIsBody DEF Changes, Named

----------------------------------------------------------------------------
(* The invariant is kept.                                                  *)

LEMMA RowsStay ==
    ASSUME NamesInv, NamesNext
    PROVE  \A u \in User : Exists(u) => Exists(u)'
BY RowChanges, ChangedRow DEF Exists

\* What the actions do to the column and the contract.
LEMMA ContractSteps ==
    ASSUME NamesInv, NamesNext
    PROVE  \/ UNCHANGED <<column, contract>>
           \/ Check /\ contract' = "checked" /\ column' = column
           \/ Drop /\ contract' = "done" /\ column' = FALSE
           \/ GivesUp /\ contract' = "no" /\ column' = column
           \/ AddColumn /\ contract' = "refill" /\ column' = TRUE
           \/ Refill /\ contract' \in {"refill", "no"} /\ column' = column
<1>1. ASSUME NEW p \in Replica, Refresh(p)
      PROVE  UNCHANGED <<column, contract>>
  BY <1>1 DEF Refresh, tableVars, operatorVars
<1>2. ASSUME NEW w \in Request, Begin(w) \/ RequestStep(w) \/ Aborts(w)
      PROVE  UNCHANGED <<column, contract>>
  BY <1>2 DEF Begin, RequestStep, Create, Lock, Save, Answer, Aborts, tableVars, operatorVars
<1>3. ASSUME StartJob \/ JobStep \/ StopJob
      PROVE  UNCHANGED <<column, contract>>
  BY <1>3 DEF StartJob, JobStep, SelectBatch, UpdateBatch, EndSweep, StopJob, RestOfJob, operatorVars
<1>4. ASSUME SetFlags
      PROVE  UNCHANGED <<column, contract>>
  BY <1>4 DEF SetFlags, tableVars, operatorVars
<1>5. /\ Check => contract' = "checked" /\ column' = column
      /\ Drop => contract' = "done" /\ column' = FALSE
      /\ GivesUp => contract' = "no" /\ column' = column
      /\ AddColumn => contract' = "refill" /\ column' = TRUE
      /\ Refill => contract' \in {"refill", "no"} /\ column' = column
  BY DEF Check, Drop, GivesUp, AddColumn, Refill, tableVars
<1> QED BY <1>1, <1>2, <1>3, <1>4, <1>5 DEF NamesNext

LEMMA FlagSteps ==
    ASSUME NamesInv, SetFlags
    PROVE  /\ flags' \in Point
           /\ \/ <<flags, flags'>> \in NextPoint
              \/ course.back /\ <<flags', flags>> \in NextPoint
           /\ UNCHANGED <<cached, pc, op, course, contract, row, saved, column, failed, locked, job, checkpoint>>
<1>1. PICK f \in Flags : (Forward(f) \/ (course.back /\ Back(f))) /\ flags' = f
  BY DEF SetFlags
<1>2. Forward(f) => f \in Point /\ <<flags, f>> \in NextPoint
  BY DEF Forward, Point, NextPoint, Legacy, Dual, ReadNew, New
<1>3. Back(f) => f \in Point /\ <<f, flags>> \in NextPoint
  BY DEF Back, Point, NextPoint, Legacy, Dual, ReadNew, New
<1> QED BY <1>1, <1>2, <1>3 DEF SetFlags, tableVars, requestVars, operatorVars, jobVars

\* Every step but SetFlags is calm, a refresh or the begin of a request.
LEMMA StepKinds ==
    ASSUME NamesInv, NamesNext
    PROVE  \/ Calm
           \/ SetFlags
           \/ \E p \in Replica : Refresh(p)
           \/ \E w \in Request : Begin(w)
BY CalmSteps DEF NamesNext

LEMMA TypedStep ==
    ASSUME NamesInv, NamesNext
    PROVE  Typed'
<1> USE DEF NamesInv, Control
<1>1. column' \in BOOLEAN /\ contract' \in {"no", "checked", "done", "refill"}
  BY ContractSteps DEF Typed
<1>2. CASE Calm
  BY <1>1, <1>2 DEF Calm, Typed, Op
<1>3. CASE SetFlags
  BY <1>1, <1>3, FlagSteps DEF Typed, Op, Active
<1>4. ASSUME NEW p \in Replica, Refresh(p)
      PROVE  Typed'
  BY <1>1, <1>4 DEF Typed, Op, Refresh, requestVars, operatorVars, Active
<1>5. ASSUME NEW w \in Request, Begin(w)
      PROVE  Typed'
  <2>0. PICK kind \in {"create", "update"}, u \in User, b \in course.bodies, f \in {cached[Home[w]], flags} :
          Begun(w, kind, u, b, f)
    BY <1>5, BegunRequest
  <2>1. /\ pc' \in [Request -> {"idle", "create", "update", "save", "answer"}]
        /\ op' = [v \in Request |-> op'[v]]
        /\ \A v \in Request \ {w} : pc'[v] = pc[v] /\ op'[v] = op[v]
        /\ cached' \in [Replica -> Point]
        /\ op'[w] \in Op /\ UNCHANGED <<flags, course>>
    BY <2>0 DEF Begun
  <2>2. \A v \in Request : Active(v)' => op'[v] \in Op
    BY <2>1 DEF Typed, Active
  <2> QED BY <1>1, <2>1, <2>2 DEF Typed, Op
<1> QED BY <1>2, <1>3, <1>4, <1>5, StepKinds

\* The flags around one refresh are those of the table before or after it.
LEMMA Around ==
    ASSUME NEW f \in Point, NEW g \in Point, NEW a \in {f, g}, NEW b \in {f, g},
           f = g \/ <<f, g>> \in NextPoint \/ <<g, f>> \in NextPoint
    PROVE  At(a.write, b.read) \in {f, g}
BY DEF Point, NextPoint, Legacy, Dual, ReadNew, New, At

LEMMA NearStep ==
    ASSUME NamesInv, NamesNext
    PROVE  Near'
<1> USE DEF NamesInv, Control
<1>1. PICK prev \in Point :
          /\ prev = flags \/ <<prev, flags>> \in NextPoint \/ (course.back /\ <<flags, prev>> \in NextPoint)
          /\ ForwardFromDual => Legacy \notin {prev, flags}
          /\ \A p \in Replica : cached[p] \in {prev, flags}
          /\ \A v \in Request : Active(v) => Sees(v) \in {prev, flags}
  BY DEF Near
<1>2. ASSUME UNCHANGED <<flags, course>>,
             \A p \in Replica : cached'[p] \in {prev, flags},
             \A v \in Request : Active(v)' => Sees(v)' \in {prev, flags}
      PROVE  Near'
  BY <1>1, <1>2 DEF Near, ForwardFromDual
<1>3. CASE Calm
  <2>1. \A v \in Request : Active(v)' => Active(v) /\ Sees(v)' = Sees(v)
    BY <1>3 DEF Calm, SameRequests, Sees
  <2> QED BY <1>1, <1>2, <1>3, <2>1 DEF Calm
<1>4. ASSUME NEW p \in Replica, Refresh(p)
      PROVE  Near'
  <2>1. /\ cached' = [cached EXCEPT ![p] = flags]
        /\ UNCHANGED <<flags, course, pc, op>>
    BY <1>4 DEF Refresh, requestVars, operatorVars
  <2>2. \A q \in Replica : cached'[q] \in {prev, flags}
    BY <1>1, <2>1 DEF Typed
  <2>3. \A v \in Request : Active(v)' => Sees(v)' \in {prev, flags}
    BY <1>1, <2>1 DEF Active, Sees
  <2> QED BY <1>2, <2>1, <2>2, <2>3
<1>5. ASSUME NEW w \in Request, Begin(w)
      PROVE  Near'
  <2>0. PICK kind \in {"create", "update"}, u \in User, b \in course.bodies, f \in {cached[Home[w]], flags} :
          Begun(w, kind, u, b, f)
    BY <1>5, BegunRequest
  <2>1. /\ f \in {cached[Home[w]], flags}
        /\ op'[w] = [user |-> u, body |-> b, seen |-> NoRow,
                     write |-> cached[Home[w]].write, read |-> f.read]
        /\ \A v \in Request \ {w} : pc'[v] = pc[v] /\ op'[v] = op[v]
        /\ \A p \in Replica : cached'[p] \in {cached[p], flags}
        /\ UNCHANGED <<flags, course>>
    BY <2>0 DEF Begun
  <2>2. cached[Home[w]] \in {prev, flags} /\ f \in {prev, flags}
    BY <1>1, <2>1, NamesAssumption
  <2>3. Sees(w)' \in {prev, flags}
    <3>1. Sees(w)' = At(cached[Home[w]].write, f.read)
      BY <2>1 DEF Sees
    <3> QED BY <1>1, <2>2, <3>1, Around DEF Typed
  <2>4. \A v \in Request : Active(v)' => Sees(v)' \in {prev, flags}
    BY <1>1, <2>1, <2>3 DEF Active, Sees
  <2> QED BY <1>1, <1>2, <2>1, <2>4
<1>6. CASE SetFlags
  <2>1. Settled
    BY <1>6 DEF SetFlags
  <2>2. /\ flags' \in Point
        /\ <<flags, flags'>> \in NextPoint \/ (course.back /\ <<flags', flags>> \in NextPoint)
        /\ UNCHANGED <<cached, pc, op, course>>
    BY <1>6, FlagSteps
  <2>3. ForwardFromDual => Legacy \notin {flags, flags'}
    <3>1. <<flags, flags'>> \in NextPoint => flags' # Legacy
      BY DEF NextPoint, Legacy, Dual, ReadNew, New, At
    <3> QED BY <1>1, <2>2, <3>1 DEF ForwardFromDual
  <2>4. /\ \A p \in Replica : cached'[p] \in {flags, flags'}
        /\ \A v \in Request : Active(v)' => Sees(v)' \in {flags, flags'}
    BY <2>1, <2>2 DEF Settled, Active, Sees
  <2> QED BY <2>2, <2>3, <2>4 DEF Near, ForwardFromDual, Typed
<1> QED BY <1>3, <1>4, <1>5, <1>6, StepKinds

\* Reading the new columns starts with a change of the flags.
LEMMA NewStays ==
    ASSUME NamesInv, NamesNext, NewInUse'
    PROVE  NewInUse \/ SetFlags
<1> USE DEF NamesInv, Control
<1>1. CASE Calm
  BY <1>1 DEF Calm, SameRequests, NewInUse
<1>2. ASSUME NEW p \in Replica, Refresh(p)
      PROVE  NewInUse
  BY <1>2 DEF Refresh, requestVars, NewInUse, Active, Typed
<1>3. ASSUME NEW w \in Request, Begin(w)
      PROVE  NewInUse
  <2>0. PICK kind \in {"create", "update"}, u \in User, b \in course.bodies, f \in {cached[Home[w]], flags} :
          Begun(w, kind, u, b, f)
    BY <1>3, BegunRequest
  <2>1. /\ f \in {cached[Home[w]], flags}
        /\ op'[w] = [user |-> u, body |-> b, seen |-> NoRow,
                     write |-> cached[Home[w]].write, read |-> f.read]
        /\ \A v \in Request \ {w} : pc'[v] = pc[v] /\ op'[v] = op[v]
        /\ \A p \in Replica : cached'[p] \in {cached[p], flags}
        /\ flags' = flags
    BY <2>0 DEF Begun
  <2>2. Home[w] \in Replica
    BY NamesAssumption
  <2> QED BY <2>1, <2>2 DEF NewInUse, Active
<1> QED BY <1>1, <1>2, <1>3, StepKinds

LEMMA ContractedStep ==
    ASSUME NamesInv, NamesNext
    PROVE  Contracted'
<1> USE DEF NamesInv, Control
<1>1. column' <=> contract' # "done"
  <2>1. column <=> contract # "done"
    BY DEF Contracted
  <2>2. /\ Check => contract = "no"
        /\ GivesUp => contract = "checked"
        /\ Refill => contract = "refill"
    BY DEF Check, GivesUp, Refill
  <2> QED BY <2>1, <2>2, ContractSteps
<1>2. contract' = "refill" => course'.back
  <2>1. course' = course
    <3>1. Calm \/ SetFlags => course' = course
      BY FlagSteps DEF Calm
    <3>2. \A p \in Replica : Refresh(p) => course' = course
      BY DEF Refresh, operatorVars
    <3>3. \A w \in Request : Begin(w) => course' = course
      BY DEF Begin, operatorVars
    <3> QED BY <3>1, <3>2, <3>3, StepKinds
  <2> QED BY <2>1, ContractSteps DEF Contracted, Check, Drop, GivesUp, AddColumn, Refill
<1>3. \A w \in Request : Active(w) => ~MissesColumn(w) /\ (op[w].write # "new" => column)
  <2> SUFFICES ASSUME NEW w \in Request, Active(w), ~column
               PROVE  op[w].write = "new" /\ op[w].read = "new"
    BY DEF MissesColumn, IncludeLegacy
  <2> QED BY DEF Contracted, Sees, New, At
<1>4. ~failed'
  <2>1. ASSUME NEW p \in Replica, Refresh(p)
        PROVE  failed' = failed
    BY <2>1 DEF Refresh
  <2>2. ASSUME NEW w \in Request, Begin(w) \/ Save(w) \/ Aborts(w)
        PROVE  failed' = failed
    BY <2>2 DEF Begin, Save, Aborts
  <2>3. ASSUME NEW w \in Request, Create(w)
        PROVE  failed' = failed \/ ~failed'
    BY <1>3, <2>3 DEF Create, Active, Contracted
  <2>4. ASSUME NEW w \in Request, Lock(w) \/ Answer(w)
        PROVE  failed' = failed \/ ~failed'
    BY <1>3, <2>4 DEF Lock, Answer, Active, Contracted
  <2>5. CASE StartJob \/ JobStep \/ StopJob
    BY <2>5 DEF StartJob, JobStep, SelectBatch, UpdateBatch, EndSweep, StopJob, RestOfJob, Contracted
  <2>6. CASE SetFlags
    BY <2>6 DEF SetFlags, Contracted
  <2>7. CASE Check \/ Drop \/ GivesUp \/ AddColumn \/ Refill
    BY <2>7 DEF Check, Drop, GivesUp, AddColumn, Refill, RestOfContract, Contracted
  <2> QED BY <2>1, <2>2, <2>3, <2>4, <2>5, <2>6, <2>7 DEF NamesNext, RequestStep, Contracted
<1> DEFINE AllNew ==
        /\ flags = New
        /\ \A p \in Replica : cached[p] = New
        /\ \A w \in Request : Active(w) => Sees(w) = New
<1>5. ASSUME contract' # "no"
      PROVE  AllNew'
  <2>1. AllNew
    <3>1. CASE contract # "no"
      BY <3>1 DEF Contracted
    <3>2. CASE Check
      BY <3>2 DEF Check, Settled, New, Active, Sees
    <3> QED BY <1>5, <3>1, <3>2, ContractSteps DEF Drop, AddColumn, Refill
  <2>2. CASE Calm
    BY <2>1, <2>2 DEF Calm, SameRequests, Sees
  <2>3. ASSUME NEW p \in Replica, Refresh(p)
        PROVE  AllNew'
    <3>1. /\ cached' = [cached EXCEPT ![p] = flags]
          /\ UNCHANGED <<flags, pc, op>>
      BY <2>3 DEF Refresh, requestVars
    <3>2. \A q \in Replica : cached'[q] = New
      BY <2>1, <3>1 DEF Typed
    <3> QED BY <2>1, <3>1, <3>2 DEF Active, Sees
  <2>4. ASSUME NEW w \in Request, Begin(w)
        PROVE  AllNew'
    <3>0. PICK kind \in {"create", "update"}, u \in User, b \in course.bodies, f \in {cached[Home[w]], flags} :
            Begun(w, kind, u, b, f)
      BY <2>4, BegunRequest
    <3>1. /\ f = New /\ cached[Home[w]] = New
      BY <2>1, <3>0, NamesAssumption
    <3>2. Sees(w)' = New
      BY <3>0, <3>1 DEF Begun, Sees, New, At
    <3>3. /\ flags' = New
          /\ \A p \in Replica : cached'[p] = New
          /\ \A v \in Request \ {w} : pc'[v] = pc[v] /\ op'[v] = op[v]
      BY <2>1, <3>0 DEF Begun
    <3> QED BY <2>1, <3>2, <3>3 DEF Active, Sees
  <2>5. ~SetFlags
    <3> SUFFICES ASSUME SetFlags PROVE FALSE
      OBVIOUS
    <3>1. contract = "no" /\ contract' = contract
      BY DEF SetFlags, operatorVars
    <3> QED BY <1>5, <3>1
  <2> QED BY <2>2, <2>3, <2>4, <2>5, StepKinds
<1> QED BY <1>1, <1>2, <1>4, <1>5 DEF Contracted

\* Where a request can go in a step.
Goes(v) ==
    \/ pc'[v] = pc[v] /\ (Active(v) => op'[v].user = op[v].user /\ op'[v].body = op[v].body)
    \/ pc'[v] = "idle"
    \/ pc[v] = "update" /\ pc'[v] = "save" /\ op'[v].user = op[v].user /\ op'[v].body = op[v].body
    \/ pc[v] = "save" /\ pc'[v] = "answer" /\ op'[v] = op[v]

LEMMA RequestGoes ==
    ASSUME NamesInv, NamesNext, NEW v \in Request
    PROVE  Goes(v) \/ Begin(v)
<1> USE DEF NamesInv, Control
<1>1. ASSUME NEW w \in Request, End(w)
      PROVE  Goes(v)
  BY <1>1, EndedRequest DEF Goes
<1>2. ASSUME NEW w \in Request, Lock(w)
      PROVE  Goes(v)
  <2>1. CASE End(w)
    BY <1>1, <2>1
  <2>2. CASE ~MissesColumn(w)
    <3>1. /\ pc[w] = "update" /\ pc' = [pc EXCEPT ![w] = "save"]
          /\ op' = [op EXCEPT ![w].seen = row[op[w].user]]
      BY <1>2, <2>2 DEF Lock
    <3>2. /\ op'[w] = [user |-> op[w].user, body |-> op[w].body, seen |-> row[op[w].user],
                       write |-> op[w].write, read |-> op[w].read]
          /\ \A x \in Request \ {w} : op'[x] = op[x]
      BY <3>1, LockedRequest DEF Active
    <3> QED BY <3>1, <3>2 DEF Goes, Typed
  <2> QED BY <1>2, <2>1, <2>2 DEF Lock
<1>3. ASSUME NEW w \in Request, Save(w)
      PROVE  Goes(v)
  BY <1>3 DEF Save, Goes, Typed
<1>4. ASSUME NEW w \in Request, Begin(w)
      PROVE  Goes(v) \/ Begin(v)
  BY <1>4, BegunRequest DEF Begun, Goes
<1>5. ASSUME UNCHANGED <<pc, op>>
      PROVE  Goes(v)
  BY <1>5 DEF Goes
<1>6. CASE \E p \in Replica : Refresh(p)
  BY <1>5, <1>6 DEF Refresh, requestVars
<1>7. CASE StartJob \/ JobStep \/ StopJob
  BY <1>5, <1>7 DEF StartJob, JobStep, SelectBatch, UpdateBatch, EndSweep, StopJob, RestOfJob, requestVars
<1>8. CASE SetFlags \/ Check \/ Drop \/ GivesUp \/ AddColumn \/ Refill
  BY <1>5, <1>8 DEF SetFlags, Check, Drop, GivesUp, AddColumn, Refill, RestOfContract, requestVars
<1>9. ASSUME NEW w \in Request, Create(w) \/ Answer(w) \/ Aborts(w)
      PROVE  Goes(v)
  BY <1>1, <1>9 DEF Create, Answer, Aborts
<1> QED BY <1>2, <1>3, <1>4, <1>6, <1>7, <1>8, <1>9 DEF NamesNext, RequestStep

LEMMA ValidStep ==
    ASSUME NamesInv, NamesNext
    PROVE  Valid'
<1> USE DEF NamesInv, Control
<1> SUFFICES ASSUME NEW v \in Request
             PROVE  /\ pc'[v] = "create" => CreateValid(op'[v].body)
                    /\ pc'[v] \in {"update", "save"} => UpdateValid(op'[v].body) /\ Exists(op[v].user)'
  BY DEF Valid
<1>1. CASE Goes(v)
  <2>1. Active(v) => op[v].user \in User
    BY OpFields
  <2>2. \A u \in User : Exists(u) => row'[u] # NoRow
    BY RowsStay DEF Exists
  <2> QED BY <1>1, <2>1, <2>2 DEF Goes, Valid, Active, Exists
<1>2. CASE Begin(v)
  <2>1. PICK kind \in {"create", "update"}, u \in User, b \in course.bodies, f \in {cached[Home[v]], flags} :
          Begun(v, kind, u, b, f)
    BY <1>2, BegunRequest
  <2>2. op'[v].user = u /\ op'[v].body = b /\ pc'[v] = kind
    BY <2>1 DEF Begun
  <2>3. \A w \in User : Exists(w) => row'[w] # NoRow
    BY RowsStay DEF Exists
  <2> QED BY <2>1, <2>2, <2>3 DEF Begun, Exists
<1> QED BY <1>1, <1>2, RequestGoes

\* A row held over a step is not written in it.
LEMMA HeldRow ==
    ASSUME NamesInv, NamesNext, NEW w \in Request, pc[w] = "save", pc'[w] = "save"
    PROVE  row'[op[w].user] = row[op[w].user]
<1> USE DEF NamesInv, Control
<1> DEFINE u == op[w].user
<1>1. u \in User /\ Exists(u) /\ locked[u] = w
  BY PutOfSave DEF Held
<1>2. w # Job /\ w # Nobody
  BY NamesAssumption
<1>3. Changes(u)
  BY <1>1, RowChanges
<1>4. ~Backfilled(u) /\ ~Contracts(u)
  BY <1>1, <1>2 DEF Backfilled, Contracts, Batched
<1>5. ASSUME NEW v \in Request PROVE ~Created(u, v) /\ ~Patched(u, v)
  BY <1>1 DEF Created, Patched, Held
<1> QED BY <1>3, <1>4, <1>5 DEF Changes, Stays

LEMMA BatchedRow ==
    ASSUME NamesInv, NamesNext, NEW u \in DOMAIN job.batch, job'.batch # << >>
    PROVE  row'[u] = row[u]
<1> USE DEF NamesInv, Control
<1>1. u \in User /\ Exists(u) /\ locked[u] = Job
  BY DEF Batched
<1>2. Job \notin Request /\ Job # Nobody
  BY NamesAssumption
<1>3. Changes(u)
  BY <1>1, RowChanges
<1>4. ~Backfilled(u) /\ ~Contracts(u)
  BY <1>1, <1>2 DEF Backfilled, Contracts
<1>5. ASSUME NEW v \in Request PROVE ~Created(u, v) /\ ~Patched(u, v)
  BY <1>1, <1>2 DEF Created, Patched, Held
<1> QED BY <1>3, <1>4, <1>5 DEF Changes, Stays

\* The locks that requests take and give back.
LEMMA RequestLocks ==
    ASSUME NamesInv, NEW w \in Request, Create(w) \/ Lock(w) \/ Save(w) \/ Answer(w) \/ Aborts(w)
    PROVE  /\ locked' \in [User -> Request \cup {Job, Nobody}]
           /\ \A u \in User : locked'[u] \in {locked[u], w, Nobody}
           /\ \A u \in User : locked[u] = Job <=> locked'[u] = Job
           /\ \A u \in User : locked'[u] = w => pc'[w] = "save" /\ op'[w].user = u
           /\ \A u \in User, v \in Request \ {w} : locked'[u] = v <=> locked[u] = v
           /\ pc'[w] = "save" =>
                 locked'[op'[w].user] = w /\ op'[w].seen = row'[op'[w].user]
           /\ \A v \in Request \ {w} : pc'[v] = pc[v] /\ op'[v] = op[v]
           /\ UNCHANGED jobVars
<1> USE DEF NamesInv, Control
<1>0. w # Job /\ w # Nobody /\ Nobody \notin Request /\ Job # Nobody
  BY NamesAssumption
<1> DEFINE Locks ==
           /\ locked' \in [User -> Request \cup {Job, Nobody}]
           /\ \A u \in User : locked'[u] \in {locked[u], w, Nobody}
           /\ \A u \in User : locked[u] = Job <=> locked'[u] = Job
           /\ \A u \in User : locked'[u] = w => pc'[w] = "save" /\ op'[w].user = u
           /\ \A u \in User, v \in Request \ {w} : locked'[u] = v <=> locked[u] = v
           /\ pc'[w] = "save" =>
                 locked'[op'[w].user] = w /\ op'[w].seen = row'[op'[w].user]
           Others == \A v \in Request \ {w} : pc'[v] = pc[v] /\ op'[v] = op[v]
<1>1. ASSUME End(w), pc[w] # "save", UNCHANGED locked
      PROVE  Locks /\ Others
  <2>1. pc'[w] = "idle" /\ Others
    BY <1>1, EndedRequest
  <2> QED BY <1>1, <2>1 DEF Held
<1>2. CASE Create(w)
  BY <1>1, <1>2 DEF Create, jobVars
<1>3. CASE Answer(w)
  BY <1>1, <1>3 DEF Answer, jobVars
<1>4. CASE Lock(w) /\ ~MissesColumn(w)
  <2>1. /\ pc[w] = "update" /\ locked[op[w].user] = Nobody
        /\ locked' = [locked EXCEPT ![op[w].user] = w]
        /\ pc' = [pc EXCEPT ![w] = "save"]
        /\ op' = [op EXCEPT ![w].seen = row[op[w].user]]
        /\ UNCHANGED <<row, jobVars>>
    BY <1>4 DEF Lock, tableVars
  <2>2. /\ op'[w] = [user |-> op[w].user, body |-> op[w].body, seen |-> row[op[w].user],
                     write |-> op[w].write, read |-> op[w].read]
        /\ \A x \in Request \ {w} : op'[x] = op[x]
    BY <2>1, LockedRequest DEF Active
  <2>3. op[w].user \in User
    BY <2>1, OpFields DEF Active
  <2>4. Others /\ pc'[w] = "save"
    BY <2>1, <2>2 DEF Typed
  <2>5. \A u \in User : locked'[u] = IF u = op[w].user THEN w ELSE locked[u]
    BY <2>1 DEF Held
  <2>6. locked' \in [User -> Request \cup {Job, Nobody}]
    BY <2>1 DEF Held
  <2>7. \A u \in User : locked[u] # w
    BY <2>1 DEF Held
  <2> QED BY <1>0, <2>1, <2>2, <2>3, <2>4, <2>5, <2>6, <2>7
<1>5. CASE Lock(w) /\ MissesColumn(w)
  BY <1>1, <1>5 DEF Lock, jobVars
<1>6. CASE Save(w)
  <2>1. /\ pc[w] = "save" /\ op' = op
        /\ locked' = [locked EXCEPT ![op[w].user] = Nobody]
        /\ pc' = [pc EXCEPT ![w] = "answer"]
        /\ UNCHANGED jobVars
    BY <1>6 DEF Save
  <2>2. op[w].user \in User /\ locked[op[w].user] = w
    BY <2>1, PutOfSave DEF Held
  <2>3. \A u \in User : locked'[u] = IF u = op[w].user THEN Nobody ELSE locked[u]
    BY <2>1 DEF Held
  <2>4. locked' \in [User -> Request \cup {Job, Nobody}]
    BY <2>1 DEF Held
  <2>5. \A u \in User : locked[u] = w => u = op[w].user
    BY DEF Held
  <2>6. Others /\ pc'[w] = "answer"
    BY <2>1 DEF Typed
  <2> QED BY <1>0, <2>1, <2>2, <2>3, <2>4, <2>5, <2>6
<1>7. CASE Aborts(w)
  <2>1. /\ End(w) /\ UNCHANGED jobVars
        /\ locked' = [u \in User |-> IF locked[u] = w THEN Nobody ELSE locked[u]]
    BY <1>7 DEF Aborts
  <2>2. pc'[w] = "idle" /\ Others
    BY <2>1, EndedRequest
  <2>3. locked' \in [User -> Request \cup {Job, Nobody}]
    BY <2>1 DEF Held
  <2> QED BY <1>0, <2>1, <2>2, <2>3
<1> QED BY <1>2, <1>3, <1>4, <1>5, <1>6, <1>7

\* The locks that the job takes and gives back.
LEMMA JobLocks ==
    ASSUME NamesInv, StartJob \/ JobStep \/ StopJob
    PROVE  /\ locked' \in [User -> Request \cup {Job, Nobody}]
           /\ \A u \in User, v \in Request : locked'[u] = v <=> locked[u] = v
           /\ UNCHANGED <<pc, op>>
<1> USE DEF NamesInv, Control
<1>0. Job \notin Request /\ Nobody \notin Request /\ Job # Nobody
  BY NamesAssumption
<1>1. UNCHANGED <<pc, op>>
  BY DEF StartJob, JobStep, SelectBatch, UpdateBatch, EndSweep, StopJob, RestOfJob, requestVars
<1>2. CASE StartJob \/ EndSweep
  BY <1>1, <1>2 DEF StartJob, EndSweep, Held
<1>3. CASE SelectBatch
  <2>1. /\ locked' = [u \in User |-> IF u \in NextBatch THEN Job ELSE locked[u]]
        /\ \A u \in NextBatch : locked[u] = Nobody
    BY <1>3 DEF SelectBatch, NextBatch
  <2> QED BY <1>0, <1>1, <2>1 DEF Held
<1>4. CASE UpdateBatch \/ StopJob
  <2>1. locked' = [u \in User |-> IF locked[u] = Job THEN Nobody ELSE locked[u]]
    BY <1>4 DEF UpdateBatch, StopJob
  <2> QED BY <1>0, <1>1, <2>1 DEF Held
<1> QED BY <1>2, <1>3, <1>4 DEF JobStep

LEMMA OtherSteps ==
    ASSUME NamesInv, NamesNext
    PROVE  \/ \E w \in Request : Create(w) \/ Lock(w) \/ Save(w) \/ Answer(w) \/ Aborts(w)
           \/ StartJob \/ JobStep \/ StopJob
           \/ (\E w \in Request : Begin(w)) /\ UNCHANGED <<locked, jobVars>>
           \/ UNCHANGED <<locked, pc, op, jobVars>>
<1>1. \A w \in Request : Begin(w) => UNCHANGED <<locked, jobVars>>
  BY DEF Begin
<1>2. (\E p \in Replica : Refresh(p)) => UNCHANGED <<locked, pc, op, jobVars>>
  BY DEF Refresh, requestVars
<1>3. SetFlags \/ Check \/ Drop \/ GivesUp \/ AddColumn \/ Refill => UNCHANGED <<locked, pc, op, jobVars>>
  BY DEF SetFlags, Check, Drop, GivesUp, AddColumn, Refill, RestOfContract, requestVars
<1> QED BY <1>1, <1>2, <1>3 DEF NamesNext, RequestStep

LEMMA HeldStep ==
    ASSUME NamesInv, NamesNext
    PROVE  Held'
<1> USE DEF NamesInv, Control
<1>0. \A w \in Request : pc[w] = "save" => op[w].user \in User
  BY OpFields DEF Active
<1>1. ASSUME NEW w \in Request, Create(w) \/ Lock(w) \/ Save(w) \/ Answer(w) \/ Aborts(w)
      PROVE  Held'
  <2>1. /\ locked' \in [User -> Request \cup {Job, Nobody}]
        /\ \A u \in User : locked'[u] = w => pc'[w] = "save" /\ op'[w].user = u
        /\ \A u \in User, v \in Request \ {w} : locked'[u] = v <=> locked[u] = v
        /\ pc'[w] = "save" =>
              locked'[op'[w].user] = w /\ op'[w].seen = row'[op'[w].user]
        /\ \A v \in Request \ {w} : pc'[v] = pc[v] /\ op'[v] = op[v]
    BY <1>1, RequestLocks
  <2>2. \A u \in User, v \in Request : locked'[u] = v => pc'[v] = "save" /\ op'[v].user = u
    BY <2>1 DEF Held
  <2>3. ASSUME NEW v \in Request, pc'[v] = "save"
        PROVE  locked'[op'[v].user] = v /\ op'[v].seen = row'[op'[v].user]
    BY <1>0, <2>1, <2>3, HeldRow DEF Held
  <2> QED BY <2>1, <2>2, <2>3 DEF Held
<1>2. ASSUME UNCHANGED <<pc, op>>,
             locked' \in [User -> Request \cup {Job, Nobody}],
             \A u \in User, v \in Request : locked'[u] = v <=> locked[u] = v
      PROVE  Held'
  <2>1. \A v \in Request : pc[v] = "save" => row'[op[v].user] = row[op[v].user]
    BY <1>2, HeldRow
  <2> QED BY <1>0, <1>2, <2>1 DEF Held
<1>3. CASE StartJob \/ JobStep \/ StopJob
  BY <1>2, <1>3, JobLocks
<1>4. CASE UNCHANGED <<locked, pc, op>>
  BY <1>2, <1>4 DEF Held
<1>5. ASSUME NEW w \in Request, Begin(w), UNCHANGED locked
      PROVE  Held'
  <2>1. /\ pc[w] = "idle" /\ pc'[w] # "save"
        /\ \A v \in Request \ {w} : pc'[v] = pc[v] /\ op'[v] = op[v]
    BY <1>5, BegunRequest DEF Begun
  <2>2. \A u \in User : locked[u] # w
    BY <2>1 DEF Held
  <2>3. \A v \in Request : pc'[v] = "save" => v # w /\ pc[v] = "save" /\ row'[op[v].user] = row[op[v].user]
    BY <2>1, HeldRow
  <2> QED BY <1>0, <1>5, <2>1, <2>2, <2>3 DEF Held
<1> QED BY <1>1, <1>3, <1>4, <1>5, OtherSteps

LEMMA LargestUser ==
    ASSUME NEW S \in SUBSET User, S # {}
    PROVE  \E u \in S : \A v \in S : v <= u
<1> DEFINE above(u) == {v \in S : v > u}
           T == {Cardinality(above(u)) : u \in S}
<1>0. IsFiniteSet(S) /\ S \subseteq Nat
  BY NamesAssumption, FS_Subset
<1>1. \A u \in S : IsFiniteSet(above(u)) /\ Cardinality(above(u)) \in Nat
  BY <1>0, FS_Subset, FS_CardinalityType
<1>2. T \subseteq Nat /\ T # {}
  BY <1>1
<1>3. \E x \in T : \A y \in T : ~ (<<y, x>> \in OpToRel(<, Nat))
  BY <1>2, WFMin, NatLessThanWellFounded
<1>4. PICK x \in T : \A y \in T : ~ (y < x)
  BY <1>2, <1>3 DEF OpToRel
<1>5. PICK u \in S : x = Cardinality(above(u))
  BY <1>4
<1>6. ASSUME NEW v \in S, ~(v <= u) PROVE FALSE
  <2>1. v > u /\ v \in Nat /\ u \in Nat
    BY <1>0, <1>6
  <2>a. \A w \in S : w > v => w > u
    BY <1>0, <2>1
  <2>b. ~(v > v)
    BY <2>1
  <2>2. above(v) \subseteq above(u) /\ v \in above(u) /\ v \notin above(v)
    BY <2>1, <2>a, <2>b
  <2>3. Cardinality(above(v)) < Cardinality(above(u))
    <3> HIDE DEF above
    <3>1. /\ Cardinality(above(v)) <= Cardinality(above(u))
          /\ Cardinality(above(u)) = Cardinality(above(v)) => above(u) = above(v)
      BY <1>1, <2>2, FS_Subset
    <3> QED BY <1>1, <2>2, <3>1
  <2> QED BY <1>4, <1>5, <1>6, <2>3
<1> QED BY <1>6

LEMMA BatchedStep ==
    ASSUME NamesInv, NamesNext
    PROVE  Batched'
<1> USE DEF NamesInv, Control
<1>1. ASSUME UNCHANGED jobVars, \A u \in User : locked[u] = Job <=> locked'[u] = Job
      PROVE  Batched'
  <2>1. job' = job /\ checkpoint' = checkpoint
    BY <1>1 DEF jobVars
  <2>2. \A u \in DOMAIN job.batch : u \in User /\ row'[u] = row[u]
    BY <2>1, BatchedRow DEF Batched
  <2> QED BY <1>1, <2>1, <2>2 DEF Batched, Exists
<1>2. ASSUME NEW w \in Request, Create(w) \/ Lock(w) \/ Save(w) \/ Answer(w) \/ Aborts(w)
      PROVE  Batched'
  BY <1>1, <1>2, RequestLocks
<1>3. CASE UNCHANGED <<locked, jobVars>>
  BY <1>1, <1>3
<1>4. ASSUME job'.batch = << >>, job'.step # "update", checkpoint' \in User \cup {0},
             \A u \in User : locked'[u] # Job
      PROVE  Batched'
  <2>1. DOMAIN job'.batch = {}
    BY <1>4
  <2> QED BY <1>4, <2>1 DEF Batched
<1>5. Job # Nobody
  BY NamesAssumption
<1>6. CASE StartJob
  BY <1>4, <1>6 DEF StartJob, JobAt, Batched
<1>7. CASE EndSweep
  BY <1>4, <1>7 DEF EndSweep, JobAt, Batched
<1>8. CASE StopJob
  BY <1>4, <1>5, <1>8 DEF StopJob, JobAt, Batched, Held
<1>9. CASE UpdateBatch
  <2> DEFINE largest == CHOOSE u \in DOMAIN job.batch : \A v \in DOMAIN job.batch : v <= u
  <2>1. /\ job'.batch = << >> /\ job'.step = "select" /\ checkpoint' = largest
        /\ locked' = [u \in User |-> IF locked[u] = Job THEN Nobody ELSE locked[u]]
        /\ job.step = "update"
    BY <1>9 DEF UpdateBatch, JobAt
  <2>2. largest \in DOMAIN job.batch
    <3>1. \E u \in DOMAIN job.batch : \A v \in DOMAIN job.batch : v <= u
      BY <2>1, LargestUser DEF Batched
    <3> QED BY <3>1
  <2> QED BY <1>4, <1>5, <2>1, <2>2 DEF Batched
<1>10. CASE SelectBatch
  <2>1. /\ job'.batch = [u \in NextBatch |-> row[u]] /\ job'.step = "update"
        /\ NextBatch # {} /\ job.step = "select"
        /\ locked' = [u \in User |-> IF u \in NextBatch THEN Job ELSE locked[u]]
        /\ row' = row /\ checkpoint' = checkpoint
    BY <1>10 DEF SelectBatch, JobAt
  <2>2. NextBatch \subseteq User /\ \A u \in NextBatch : Exists(u)
    BY DEF NextBatch, Remaining
  <2>3. DOMAIN job'.batch = NextBatch /\ \A u \in NextBatch : job'.batch[u] = row[u]
    BY <2>1
  <2>4. \A u \in User : locked[u] # Job
    BY <2>1 DEF Batched
  <2> QED BY <2>1, <2>2, <2>3, <2>4 DEF Batched, Exists
<1> QED BY <1>2, <1>3, <1>6, <1>7, <1>8, <1>9, <1>10, OtherSteps DEF JobStep

LEMMA RowsStep ==
    ASSUME NamesInv, NamesNext
    PROVE  Rows'
<1> USE DEF NamesInv, Control
<1>1. /\ row' = [u \in User |-> row'[u]] /\ saved' = [u \in User |-> saved'[u]]
      /\ \A u \in User : Changes(u)
  BY RowChanges
<1>2. \A u \in User : row'[u] \in Row \cup {NoRow}
  BY <1>1, ChangedRow
<1>3. ASSUME NEW u \in User, row'[u] # NoRow
      PROVE  /\ Named(row'[u]) /\ saved'[u] \in Parts
             /\ contract' = "done" => row'[u].full = Null
             /\ NewInUse' => row'[u].first # Null
  <2>1. /\ Named(row'[u]) /\ saved'[u] \in Parts
        /\ contract = "done" => row'[u].full = Null
        /\ NewInUse => row'[u].first # Null
    BY <1>1, <1>3, ChangedRow
  <2>2. ASSUME contract' = "done", contract # "done"
        PROVE  row'[u].full = Null
    <3>1. row'[u] = IF Exists(u) THEN [row[u] EXCEPT !.full = Null] ELSE NoRow
      BY <2>2, ContractSteps DEF Drop
    <3>2. Exists(u)
      BY <1>3, <3>1
    <3>3. row[u] = [full |-> row[u].full, first |-> row[u].first, last |-> row[u].last]
      BY <3>2 DEF Rows, Named, Row
    <3> QED BY <3>1, <3>2, <3>3
  <2>3. ASSUME SetFlags, ~NewInUse, NewInUse'
        PROVE  row'[u].first # Null
    <3>1. PICK f \in Flags : (Forward(f) \/ (course.back /\ Back(f))) /\ flags' = f
      BY <2>3 DEF SetFlags
    <3>2. UNCHANGED <<row, cached, pc, op>>
      BY <2>3, FlagSteps
    <3>3. flags.read # "new"
      BY <2>3 DEF NewInUse
    <3>4. f.read = "new" => AfterBackfill
      BY <3>1, <3>3 DEF Forward, Back, At
    <3>5. NewInUse' => f.read = "new"
      BY <2>3, <3>1, <3>2 DEF NewInUse, Active
    <3> QED BY <1>3, <2>3, <3>2, <3>4, <3>5 DEF AfterBackfill, NeedsBackfill, Exists
  <2>4. NewInUse' => row'[u].first # Null
    BY <2>1, <2>3, NewStays
  <2>5. contract' = "done" => row'[u].full = Null
    BY <2>1, <2>2
  <2> QED BY <2>1, <2>4, <2>5
<1> QED BY <1>1, <1>2, <1>3 DEF Rows, Exists

LEMMA NamesStep == NamesInv /\ [NamesNext]_nameVars => NamesInv'
<1> SUFFICES ASSUME NamesInv, [NamesNext]_nameVars
             PROVE  NamesInv'
  OBVIOUS
<1>1. CASE NamesNext
  BY <1>1, TypedStep, ValidStep, HeldStep, BatchedStep, NearStep, ContractedStep, RowsStep DEF NamesInv, Control
<1>2. CASE UNCHANGED nameVars
  <2>1. UNCHANGED <<row, column, flags, cached, pc, op, locked, job, checkpoint, contract, course, saved, failed>>
    BY <1>2 DEF nameVars, tableVars, requestVars, jobVars, operatorVars
  <2>2. Typed' /\ Valid' /\ Held' /\ Batched'
    BY <2>1 DEF NamesInv, Control, Typed, Op, Valid, Held, Batched, Active, Exists
  <2>3. Near'
    BY <2>1 DEF NamesInv, Control, Near, ForwardFromDual, Active, Sees
  <2>4. Contracted'
    BY <2>1 DEF NamesInv, Control, Contracted, Active, Sees
  <2>5. Rows'
    BY <2>1 DEF NamesInv, Rows, NewInUse, Active, Exists
  <2> QED BY <2>2, <2>3, <2>4, <2>5 DEF NamesInv, Control
<1> QED BY <1>1, <1>2

LEMMA NamesStart == NamesInit => NamesInv
<1> SUFFICES ASSUME NamesInit PROVE NamesInv
  OBVIOUS
<1> USE NamesAssumption
<1>1. course \in Course /\ course.start \in {"legacy", "dual"}
  BY DEF NamesInit
<1>2. flags = At(course.start, "legacy") /\ flags \in {Legacy, Dual} /\ flags \in Point
  BY <1>1 DEF NamesInit, Legacy, Dual, Point
<1>3. \A w \in Request : ~Active(w) /\ pc[w] = "idle"
  BY DEF NamesInit, Active
<1>4. /\ cached = [p \in Replica |-> flags]
      /\ op = [w \in Request |-> op[w]]
      /\ column = TRUE /\ contract = "no" /\ failed = FALSE /\ checkpoint = 0
      /\ pc \in [Request -> {"idle", "create", "update", "save", "answer"}]
      /\ locked = [u \in User |-> Nobody]
      /\ job.batch = << >> /\ job.step = "off"
  BY DEF NamesInit
<1>5. Typed /\ Valid
  BY <1>1, <1>2, <1>3, <1>4 DEF Typed, Valid
<1>6. Held
  BY <1>3, <1>4 DEF Held
<1>7. Batched
  <2>1. DOMAIN job.batch = {}
    BY <1>4
  <2> QED BY <1>4, <2>1 DEF Batched
<1>8. Near
  <2>1. ForwardFromDual => Legacy \notin {flags, flags}
    BY <1>2, PointFlags DEF ForwardFromDual, Dual
  <2> QED BY <1>2, <1>3, <1>4, <2>1 DEF Near
<1>9. Contracted
  BY <1>4 DEF Contracted
<1>10. Rows
  <2>1. /\ row = [u \in User |-> IF u \in DOMAIN OldName
                                 THEN [full |-> OldName[u], first |-> Null, last |-> Null]
                                 ELSE NoRow]
        /\ saved = [u \in User |-> IF u \in DOMAIN OldName THEN SplitFullName(OldName[u]) ELSE NoRow]
    BY DEF NamesInit
  <2>2. \A u \in DOMAIN OldName : OldName[u] \in Name \ {<< >>}
    OBVIOUS
  <2>3. \A u \in DOMAIN OldName : Named([full |-> OldName[u], first |-> Null, last |-> Null])
    BY <2>2, NullIsNoName DEF Named, Row, Kept, Part
  <2>4. \A u \in DOMAIN OldName : SplitFullName(OldName[u]) \in Parts
    BY <2>2, SplitSpells
  <2>5. ~NewInUse
    BY <1>2, <1>3, <1>4 DEF NewInUse, Legacy, Dual, At
  <2>6. \A u \in User : Exists(u) => u \in DOMAIN OldName
    BY <2>1 DEF Exists
  <2>7. row \in [User -> Row \cup {NoRow}]
    BY <2>1, <2>3 DEF Named
  <2>8. saved = [u \in User |-> saved[u]]
    BY <2>1
  <2>9. \A u \in User : Exists(u) => Named(row[u]) /\ saved[u] \in Parts
    BY <2>1, <2>3, <2>4, <2>6
  <2> QED BY <1>4, <2>5, <2>7, <2>8, <2>9 DEF Rows
<1> QED BY <1>5, <1>6, <1>7, <1>8, <1>9, <1>10 DEF NamesInv, Control

LEMMA NamesInvariant == NamesSpec => []NamesInv
BY NamesStart, NamesStep, PTL DEF NamesSpec

----------------------------------------------------------------------------
(* What holds whatever names are sent, and whichever way the flags go.     *)

\* Only the job and requests about to save hold rows, 0005 has emptied the column it
\* drops, and the checkpoint is an id.
THEOREM NamesTyped == NamesSpec => []NamesTypeOK
<1>1. NamesInv => NamesTypeOK
  <2> SUFFICES ASSUME NamesInv PROVE NamesTypeOK
    OBVIOUS
  <2> USE DEF NamesInv, Control
  <2>1. flags \in Flags /\ cached \in [Replica -> Flags]
    BY PointFlags DEF Typed
  <2>2. \A u \in User : Exists(u) => column \/ row[u].full = Null
    BY DEF Rows, Contracted
  <2> QED BY <2>1, <2>2 DEF NamesTypeOK, Held, Batched, Typed
<1> QED BY <1>1, NamesInvariant, PTL

\* The HTTP 500 the docstring of 0005 warns of: no request and no read names a column
\* that the contract has dropped.
THEOREM ColumnIsThere == NamesSpec => []NoRequestFails
<1>1. NamesInv => NoRequestFails
  <2> SUFFICES ASSUME NamesInv PROVE NoRequestFails
    OBVIOUS
  <2>1. Contracted
    BY DEF NamesInv, Control
  <2>2. New.read = "new"
    BY DEF New, At
  <2> QED BY <2>1, <2>2 DEF Contracted, NoRequestFails
<1> QED BY <1>1, NamesInvariant, PTL

\* No phase and no way back loses a name: every row keeps one, and every replica
\* answers with one.
THEOREM NoNameIsLost == NamesSpec => []NobodyNameless
<1>1. NamesInv => NobodyNameless
  <2> SUFFICES ASSUME NamesInv, NEW u \in User, Exists(u)
               PROVE  /\ row[u].full # Null \/ row[u].first # Null
                      /\ \A p \in Replica : BuildUserResponse(row[u], cached[p].read).full # Null
    BY DEF NobodyNameless
  <2>1. Named(row[u]) /\ (NewInUse => row[u].first # Null)
    BY DEF NamesInv, Rows
  <2>2. row[u].first # Null => Clean(Spelled(row[u])) # Null
    <3> SUFFICES ASSUME row[u].first # Null PROVE Clean(Spelled(row[u])) # Null
      OBVIOUS
    <3>1. row[u].first \in Name \ {<< >>} /\ row[u].last \in Name
      BY <2>1 DEF Named, Row, Kept, Part
    <3> QED BY <3>1, NullIsNoName, Concatenated DEF Spelled, JoinNames, Words, Clean
  <2>3. ASSUME NEW p \in Replica
        PROVE  BuildUserResponse(row[u], cached[p].read).full # Null
    <3>1. BuildUserResponse(row[u], cached[p].read).full =
              IF cached[p].read = "new" \/ Clean(row[u].full) = Null THEN Clean(Spelled(row[u])) ELSE row[u].full
      BY DEF BuildUserResponse, Spelled
    <3>2. CASE cached[p].read = "new"
      BY <2>1, <2>2, <3>1, <3>2 DEF NewInUse
    <3>3. CASE row[u].full = Null
      BY <2>1, <2>2, <3>1, <3>3, NullIsNoName DEF Clean, Named
    <3>4. CASE row[u].full # Null /\ cached[p].read # "new"
      <4>1. row[u].full # << >>
        BY <2>1, NullIsNoName DEF Named, Row, Kept
      <4> QED BY <2>2, <3>1, <3>4, <4>1 DEF Clean
    <3> QED BY <3>2, <3>3, <3>4
  <2> QED BY <2>1, <2>3 DEF Named
<1> QED BY <1>1, NamesInvariant, PTL

----------------------------------------------------------------------------
(* What the clients were told, on the way forward.                         *)

LEMMA ForwardModes ==
    ASSUME NamesInv, Plain
    PROVE  /\ \A w \in Request : Active(w) =>
                 /\ flags.write # "new" => op[w].write # "new"
                 /\ ForwardFromDual => op[w].write # "legacy"
           /\ \A p \in Replica : cached[p].read # "new" => flags.write # "new"
<1> USE DEF NamesInv, Control
<1>1. PICK prev \in Point :
          /\ prev = flags \/ <<prev, flags>> \in NextPoint
          /\ ForwardFromDual => Legacy \notin {prev, flags}
          /\ \A p \in Replica : cached[p] \in {prev, flags}
          /\ \A v \in Request : Active(v) => Sees(v) \in {prev, flags}
  BY DEF Near, Plain
<1>2. \A w \in Request : Sees(w).write = op[w].write
  BY DEF Sees, At
<1>3. \A f \in {prev, flags} : flags.write # "new" => f.write # "new"
  BY <1>1 DEF NextPoint, Point, Legacy, Dual, ReadNew, New, At
<1>4. \A f \in {prev, flags} : f # Legacy => f.write # "legacy"
  BY <1>1 DEF Typed, Point, Legacy, Dual, ReadNew, New, At
<1>5. \A f \in {prev, flags} : f.read # "new" => flags.write # "new"
  BY <1>1 DEF NextPoint, Point, Legacy, Dual, ReadNew, New, At
<1> QED BY <1>1, <1>2, <1>3, <1>4, <1>5

LEMMA ToldRow ==
    ASSUME ToldInv, Plain, NEW u \in User, Changes(u), row'[u] # NoRow
    PROVE  /\ flags.write # "new" => row'[u].full = Spelled(saved'[u])
           /\ NewInUse => Spelled(row'[u]) = Spelled(saved'[u])
           /\ ForwardFromDual => Tells(row'[u], saved'[u])
<1> USE DEF ToldInv, NamesInv, Control
<1>0. Exists(u) =>
          /\ Named(row[u]) /\ saved[u] \in Parts
          /\ NewInUse => row[u].first # Null
          /\ flags.write # "new" => row[u].full = Spelled(saved[u])
          /\ NewInUse => Spelled(row[u]) = Spelled(saved[u])
          /\ ForwardFromDual => Tells(row[u], saved[u])
  BY DEF Rows, Told, FullTold, PartsTold, PartsAgree
<1>1. CASE Stays(u)
  BY <1>0, <1>1 DEF Stays, Exists
<1>2. ASSUME NEW w \in Request, Created(u, w)
      PROVE  /\ flags.write # "new" => row'[u].full = Spelled(saved'[u])
             /\ NewInUse => Spelled(row'[u]) = Spelled(saved'[u])
             /\ ForwardFromDual => Tells(row'[u], saved'[u])
  <2>1. /\ Active(w) /\ CreateValid(op[w].body)
        /\ row'[u] = ResolveNames(op[w].body, op[w].write)
        /\ saved'[u] = Asked(op[w].body, NewUser)
    BY <1>2 DEF Created, Active, Valid
  <2>2. op[w].body \in Body /\ op[w].write \in {"legacy", "dual", "new"} /\ OneShaped(op[w].body)
    BY <2>1, OpFields DEF Plain
  <2>3. /\ op[w].write # "new" => row'[u].full = Spelled(saved'[u])
        /\ op[w].write # "legacy" => Spelled(row'[u]) = Spelled(saved'[u]) /\ Tells(row'[u], saved'[u])
    BY <2>1, <2>2, CreatedTells
  <2> QED BY <2>1, <2>3, ForwardModes, ModeOf
<1>3. ASSUME NEW w \in Request, Patched(u, w)
      PROVE  /\ flags.write # "new" => row'[u].full = Spelled(saved'[u])
             /\ NewInUse => Spelled(row'[u]) = Spelled(saved'[u])
             /\ ForwardFromDual => Tells(row'[u], saved'[u])
  <2>1. pc[w] = "save" /\ op[w].user = u /\ row'[u] = Patch(op[w]) /\ saved'[u] = Asked(op[w].body, saved[u])
    BY <1>3 DEF Patched
  <2>2. Put(op[w]) /\ op[w].seen = row[u] /\ Exists(u) /\ Active(w)
    BY <2>1, PutOfSave DEF Active
  <2>3. OneShaped(op[w].body) /\ (ForwardFromDual \/ Whole(op[w].body))
    <3>1. op[w].body \in course.bodies
      BY <2>2, OpFields
    <3>2. course.start \in {"legacy", "dual"}
      BY NamesAssumption DEF Typed
    <3> QED BY <3>1, <3>2 DEF Plain, ForwardFromDual
  <2>4. /\ op[w].write # "new" /\ row[u].full = Spelled(saved[u]) => row'[u].full = Spelled(saved'[u])
        /\ op[w].write # "legacy" /\ Spelled(row[u]) = Spelled(saved[u]) => Spelled(row'[u]) = Spelled(saved'[u])
        /\ op[w].write # "legacy" /\ Tells(row[u], saved[u]) => Tells(row'[u], saved'[u])
    <3>1. Tells(op[w].seen, saved[u]) \/ Whole(op[w].body)
      BY <1>0, <2>2, <2>3
    <3>2. saved[u] \in Parts
      BY <1>0, <2>2
    <3> QED BY <2>1, <2>2, <2>3, <3>1, <3>2, PatchedTells
  <2> QED BY <1>0, <2>2, <2>4, ForwardModes, ModeOf
<1>4. CASE Backfilled(u)
  <2>1. Exists(u) /\ Named(row[u]) /\ row'[u] = Fill(row[u], NamesFor(row[u])) /\ saved'[u] = saved[u]
    BY <1>4 DEF Backfilled, Batched, Rows
  <2>2. /\ row'[u].full = row[u].full
        /\ row[u].first # Null => row'[u] = row[u]
        /\ \A s : Tells(row[u], s) => Tells(row'[u], s)
    BY <2>1, FilledRow
  <2> QED BY <1>0, <2>1, <2>2
<1>5. CASE Contracts(u)
  <2>1. contract = "checked" /\ row'[u] = [row[u] EXCEPT !.full = Null] /\ saved'[u] = saved[u] /\ Exists(u)
    BY <1>5 DEF Contracts, Contracted, Plain
  <2>2. flags = New /\ NewInUse
    BY <2>1 DEF Contracted, NewInUse, New, At
  <2>3. flags.write = "new"
    BY <2>2 DEF New, At
  <2>4. row[u] = [full |-> row[u].full, first |-> row[u].first, last |-> row[u].last]
    BY <1>0, <2>1 DEF Named, Row
  <2>5. row'[u].first = row[u].first /\ row'[u].last = row[u].last
    BY <2>1, <2>4
  <2>6. Spelled(row'[u]) = Spelled(row[u])
    BY <2>5 DEF Spelled
  <2>7. Tells(row[u], saved[u]) => Tells(row'[u], saved[u])
    BY <1>0, <2>1, <2>2, <2>5 DEF Tells
  <2> QED BY <1>0, <2>1, <2>2, <2>3, <2>6, <2>7
<1> QED BY <1>1, <1>2, <1>3, <1>4, <1>5 DEF Changes

LEMMA CourseStays ==
    ASSUME NamesInv, NamesNext
    PROVE  course' = course
<1>1. Calm \/ SetFlags => course' = course
  BY FlagSteps DEF Calm
<1>2. \A p \in Replica : Refresh(p) => course' = course
  BY DEF Refresh, operatorVars
<1>3. \A w \in Request : Begin(w) => course' = course
  BY DEF Begin, operatorVars
<1> QED BY <1>1, <1>2, <1>3, StepKinds

LEMMA ToldStep ==
    ASSUME ToldInv, NamesNext
    PROVE  Told'
<1> USE DEF ToldInv
<1> SUFFICES ASSUME Plain
             PROVE  FullTold' /\ PartsTold' /\ PartsAgree'
  BY CourseStays DEF Told, Plain
<1>1. \A u \in User : row'[u] # NoRow =>
           /\ flags.write # "new" => row'[u].full = Spelled(saved'[u])
           /\ NewInUse => Spelled(row'[u]) = Spelled(saved'[u])
           /\ ForwardFromDual => Tells(row'[u], saved'[u])
  BY RowChanges, ToldRow
<1>2. SetFlags => <<flags, flags'>> \in NextPoint
  BY FlagSteps DEF Plain
<1>3. flags'.write # "new" => flags.write # "new"
  <2>1. CASE SetFlags
    BY <1>2, <2>1 DEF NextPoint, Legacy, Dual, ReadNew, New, At
  <2>2. CASE Calm
    BY <2>2 DEF Calm
  <2>3. CASE (\E p \in Replica : Refresh(p)) \/ (\E w \in Request : Begin(w))
    BY <2>3 DEF Refresh, Begin
  <2> QED BY <2>1, <2>2, <2>3, StepKinds
<1>4. FullTold'
  BY <1>1, <1>3 DEF FullTold, Exists, Spelled
<1>5. PartsAgree'
  BY <1>1, CourseStays DEF PartsAgree, ForwardFromDual, Exists, Tells
<1>6. PartsTold'
  <2>1. CASE NewInUse
    BY <1>1, <2>1 DEF PartsTold, Exists, Spelled
  <2>2. ASSUME SetFlags, ~NewInUse, NewInUse', NEW u \in User, row'[u] # NoRow
        PROVE  Spelled(row'[u]) = Spelled(saved'[u])
    <3>1. PICK f \in Flags : (Forward(f) \/ (course.back /\ Back(f))) /\ flags' = f
      BY <2>2 DEF SetFlags
    <3>2. UNCHANGED <<row, saved, cached, pc, op>>
      BY <2>2, FlagSteps
    <3>3. f.read = "new"
      BY <2>2, <3>1, <3>2 DEF NewInUse, Active
    <3>4. flags = Dual /\ AfterBackfill
      BY <2>2, <3>1, <3>3 DEF Forward, NewInUse, Plain, Dual, At
    <3>5. flags.write # "new"
      BY <3>4 DEF Dual, At
    <3>6. row[u].full = Spelled(saved[u]) /\ saved[u] \in Parts /\ Named(row[u])
      BY <2>2, <3>2, <3>5 DEF NamesInv, Rows, Told, FullTold, Exists
    <3>7. row[u].first # Null /\ ~Disagree(row[u])
      BY <2>2, <3>2, <3>4, <3>5 DEF AfterBackfill, NeedsBackfill, Exists
    <3>8. row[u].full # Null
      <4>1. saved[u].first \in Name /\ saved[u].last \in Name
        BY <3>6 DEF Parts
      <4>2. Spelled(saved[u]) \in Name
        BY <4>1, NullIsNoName, Concatenated DEF Spelled, JoinNames, Words
      <4> QED BY <3>6, <4>2, NullIsNoName
    <3> QED BY <3>2, <3>6, <3>7, <3>8 DEF Disagree, Spelled
  <2>3. CASE ~NewInUse
    BY <2>2, <2>3, NewStays DEF PartsTold, Exists, Spelled
  <2> QED BY <2>1, <2>3
<1> QED BY <1>4, <1>5, <1>6

LEMMA ToldStart ==
    ASSUME NamesInit, NamesInv
    PROVE  Told
<1> USE NamesAssumption
<1>1. /\ row = [u \in User |-> IF u \in DOMAIN OldName
                               THEN [full |-> OldName[u], first |-> Null, last |-> Null]
                               ELSE NoRow]
      /\ saved = [u \in User |-> IF u \in DOMAIN OldName THEN SplitFullName(OldName[u]) ELSE NoRow]
  BY DEF NamesInit
<1>2. \A u \in User : Exists(u) => u \in DOMAIN OldName /\ OldName[u] \in Name \ {<< >>}
  BY <1>1 DEF Exists
<1>3. ASSUME NEW u \in User, Exists(u)
      PROVE  row[u].full = Spelled(saved[u]) /\ Tells(row[u], saved[u])
  <2>1. /\ row[u].full = OldName[u] /\ row[u].first = Null
        /\ saved[u] = SplitFullName(OldName[u])
    BY <1>1, <1>2, <1>3
  <2> QED BY <1>2, <1>3, <2>1, SplitSpells DEF Tells
<1>4. ~NewInUse
  <2>1. flags.read = "legacy" /\ cached = [p \in Replica |-> flags]
    BY DEF NamesInit, At
  <2>2. \A w \in Request : ~Active(w)
    BY DEF NamesInit, Active
  <2> QED BY <2>1, <2>2 DEF NewInUse
<1> QED BY <1>3, <1>4 DEF Told, FullTold, PartsTold, PartsAgree

LEMMA ToldInvariant == NamesSpec => []ToldInv
<1>1. NamesInit => ToldInv
  BY NamesStart, ToldStart DEF ToldInv
<1>2. ToldInv /\ [NamesNext]_nameVars => ToldInv'
  <2> SUFFICES ASSUME ToldInv, [NamesNext]_nameVars PROVE ToldInv'
    OBVIOUS
  <2>1. NamesInv'
    BY NamesStep DEF ToldInv
  <2>2. CASE NamesNext
    BY <2>1, <2>2, ToldStep DEF ToldInv
  <2>3. CASE UNCHANGED nameVars
    <3>1. UNCHANGED <<row, flags, cached, pc, op, course, saved>>
      BY <2>3 DEF nameVars, tableVars, requestVars, operatorVars
    <3>2. (NewInUse' <=> NewInUse) /\ (Plain' <=> Plain)
      BY <3>1 DEF NewInUse, Active, Plain
    <3>3. Told'
      BY <3>1, <3>2 DEF ToldInv, Told, FullTold, PartsTold, PartsAgree, ForwardFromDual, Exists, Spelled, Tells
    <3> QED BY <2>1, <3>3 DEF ToldInv
  <2> QED BY <2>2, <2>3
<1> QED BY <1>1, <1>2, PTL DEF NamesSpec

LEMMA PlainCourse ==
    ASSUME NamesInv, OneShape, ~course.back, WholeNames \/ course.start = "dual"
    PROVE  Plain
BY NamesAssumption DEF NamesInv, Control, Typed, Plain, OneShape, WholeNames

\* What a GET answers, by what the row holds.
LEMMA Shown ==
    ASSUME ToldInv, Plain, NEW u \in User, NEW p \in Replica, Exists(u)
    PROVE  /\ BuildUserResponse(row[u], cached[p].read).full = Spelled(saved[u])
           /\ BuildUserResponse(row[u], cached[p].read).full # Null
           /\ ForwardFromDual => Sound(BuildUserResponse(row[u], cached[p].read))
<1> USE DEF ToldInv, NamesInv, Control
<1> DEFINE r == row[u]
           source == cached[p].read
           response == BuildUserResponse(r, source)
<1>1. /\ Named(r) /\ saved[u] \in Parts
      /\ NewInUse => r.first # Null
      /\ flags.write # "new" => r.full = Spelled(saved[u])
      /\ NewInUse => Spelled(r) = Spelled(saved[u])
      /\ ForwardFromDual => Tells(r, saved[u])
  BY DEF Rows, Told, FullTold, PartsTold, PartsAgree
<1>2. Spelled(saved[u]) \in Name
  BY <1>1, NullIsNoName, Concatenated DEF Parts, Spelled, JoinNames, Words
<1>3. r.first # Null => /\ r.first \in Name \ {<< >>} /\ r.last \in Name
                        /\ Spelled(r) \in Name \ {<< >>}
  BY <1>1, NullIsNoName, Concatenated DEF Named, Row, Kept, Part, Spelled, JoinNames, Words
<1> HIDE DEF r, source
<1>4. CASE source = "new"
  <2>1. NewInUse
    BY <1>4 DEF NewInUse, source
  <2>2. Clean(Spelled(r)) = Spelled(r) /\ Spelled(r) # Null
    BY <1>1, <1>3, <2>1, NullIsNoName DEF Clean
  <2>3. response = [full |-> Spelled(r), first |-> r.first, last |-> r.last]
    BY <1>4, <2>2 DEF BuildUserResponse, Spelled
  <2>4. Sound(response)
    BY <1>1, <2>1, <2>2, <2>3 DEF Sound, Spelled
  <2> QED BY <1>1, <2>1, <2>2, <2>3, <2>4 DEF r, source
<1>5. CASE source # "new"
  <2>1. r.full = Spelled(saved[u]) /\ r.full \in Name /\ r.full # Null
    BY <1>1, <1>2, <1>5, ForwardModes, NullIsNoName DEF source
  <2>2. r.full \in Name \ {<< >>} /\ Clean(r.full) # Null
    BY <1>1, <2>1, NullIsNoName DEF Named, Row, Kept, Clean
  <2>3. response = IF r.first = Null
                   THEN [full |-> r.full, first |-> SplitFullName(r.full).first,
                         last |-> SplitFullName(r.full).last]
                   ELSE [full |-> r.full, first |-> r.first, last |-> r.last]
    BY <1>5, <2>1, <2>2 DEF BuildUserResponse
  <2>4. CASE r.first = Null
    <3>1. /\ SplitFullName(r.full) \in Parts
          /\ Spelled(SplitFullName(r.full)) = r.full
      BY <2>2, SplitSpells
    <3>2. Sound(response)
      BY <2>1, <2>3, <2>4, <3>1, NullIsNoName DEF Sound, Spelled, Parts
    <3> QED BY <2>1, <2>3, <2>4, <3>2 DEF r, source
  <2>5. CASE r.first # Null
    <3>1. ForwardFromDual => Spelled(saved[u]) = Spelled(r)
      BY <1>1, <2>5 DEF Tells, Spelled
    <3>2. ForwardFromDual => Sound(response)
      BY <2>1, <2>3, <2>5, <3>1 DEF Sound, Spelled
    <3> QED BY <2>1, <2>3, <2>5, <3>2 DEF r, source
  <2> QED BY <2>4, <2>5
<1> QED BY <1>4, <1>5

\* If no request sends two different names at once, and no part of one while replicas may write
\* the old column only, every replica answers with the name that was saved last.
THEOREM NamesAreShown == OneShape /\ WholeNames => (NamesSpec => []ShownIsSaved)
<1> SUFFICES ASSUME OneShape, WholeNames
             PROVE  NamesSpec => []ShownIsSaved
  OBVIOUS
<1>1. ToldInv => ShownIsSaved
  BY PlainCourse, Shown DEF ToldInv, ShownIsSaved, Spelled
<1> QED BY <1>1, ToldInvariant, PTL

\* From dual write on, every response has a full name and a first name that agree.
THEOREM ResponsesAreSound == OneShape => (NamesSpec => []BodiesSound)
<1> SUFFICES ASSUME OneShape
             PROVE  NamesSpec => []BodiesSound
  OBVIOUS
<1>1. ToldInv => BodiesSound
  BY PlainCourse, Shown DEF ToldInv, BodiesSound, ForwardFromDual
<1> QED BY <1>1, ToldInvariant, PTL

\* While both representations are written, they never spell different names.
THEOREM ColumnsAgree == OneShape => (NamesSpec => []NoneDisagree)
<1> SUFFICES ASSUME OneShape
             PROVE  NamesSpec => []NoneDisagree
  OBVIOUS
<1>1. ToldInv => NoneDisagree
  <2> SUFFICES ASSUME ToldInv, ForwardFromDual, flags.write = "dual", NEW u \in User, Exists(u),
                      row[u].first # Null
               PROVE  row[u].full = JoinNames(row[u].first, row[u].last)
    BY DEF NoneDisagree, Disagree
  <2>1. Plain
    BY PlainCourse DEF ToldInv, ForwardFromDual
  <2>2. row[u].full = Spelled(saved[u]) /\ Tells(row[u], saved[u])
    BY <2>1 DEF ToldInv, Told, FullTold, PartsAgree
  <2> QED BY <2>2 DEF Tells, Spelled
<1> QED BY <1>1, ToldInvariant, PTL
=============================================================================
