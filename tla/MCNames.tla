------------------------------ MODULE MCNames ------------------------------
(* Small instances of NameMigration for TLC.                               *)
EXTENDS NameMigration, TLC

CONSTANTS p1, p2, w1, w2

Homes == w1 :> p1 @@ w2 :> p2

\* User 1 is there before the migration.
OneOld == 1 :> <<"Ann", "Berg">>

\* Bodies as the API tests, the traffic generator and the demo page send them.
Names(full, first, last) == [full |-> full, first |-> first, last |-> last]
Full == Names(<<"Bo", "Dahl">>, Null, Null)
Both == Names(Null, <<"Eva">>, <<"Falk">>)
First == Names(Null, <<"Gus">>, Null)
Last == Names(Null, Null, <<"Holm">>)
Email == Names(Null, Null, Null)
BothAndFull == Names(<<"Ida", "Jung">>, <<"Ida">>, <<"Jung">>)

Way(start, back, bodies) == [start |-> start, back |-> back, bodies |-> bodies]

\* From the very first flag change; from dual write on; there and back.
Ways == {Way("legacy", FALSE, {Full, Both}),
         Way("dual", FALSE, {Full, BothAndFull, First, Last, Email}),
         Way("dual", TRUE, {Full, First})}
=============================================================================
