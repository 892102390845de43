---------------------------- MODULE MCObjectLock ----------------------------
(* ObjectLock for TLC: paths are sequences of names.                       *)
EXTENDS ObjectLock, Sequences, TLC

CONSTANTS e1, e2, e3

RootPath == <<"s">>
TwoPaths == {RootPath, <<"s", "a">>}

ParentPath == [p \in TwoPaths \ {RootPath} |-> SubSeq(p, 1, Len(p) - 1)]

Beneath(p, q) == Len(q) >= Len(p) /\ SubSeq(q, 1, Len(p)) = p

BelowPath == [p \in TwoPaths |-> {q \in TwoPaths : Beneath(p, q)}]

(* Two sessions of one user, which are alike, and one of another.          *)
TwoUsers == [e \in {e1, e2, e3} |-> IF e = e3 THEN "bob" ELSE "alice"]

Alike == Permutations({e1, e2})
=============================================================================
