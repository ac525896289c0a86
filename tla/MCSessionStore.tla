--------------------------- MODULE MCSessionStore ---------------------------
(* Instances of SessionStore for TLC. *)
EXTENDS SessionStore, TLC

CONSTANTS u1, u2, p1, p2, o1, o2, o3, o4, first, second, native

TwoUsers == {u1, u2}
OneProc == {p1}
TwoProcs == {p1, p2}
ThreeObjs == {o1, o2, o3}
FourObjs == {o1, o2, o3, o4}

\* The first user's numbered ids and an agent's native id.  The other user
\* asks for the native one as well, and for the first number of the first.
ThreeIds == {first, second, native}
ThreeRequests == {<<u1, native>>, <<u2, native>>, <<u2, first>>}
OneNative == {native}
Numbered == (u1 :> <<first, second>>) @@ (u2 :> <<>>)

\* Goroutines are interchangeable, and so are objects: NewObj and the objects
\* of a restart may be any free ones.
Symmetry == Permutations(TwoProcs) \cup Permutations(ThreeObjs)
=============================================================================
